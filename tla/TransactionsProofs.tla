-------------------------- MODULE TransactionsProofs --------------------------
(***************************************************************************)
(* Transactions on one worker, for any datasources, connections, writes    *)
(* and depth of blocks, on SQLite and on MySQL.  A transaction on a         *)
(* connection is always that of a frame on the stack that holds it; what    *)
(* it has to commit is what ran in that frame, unless frames share the      *)
(* connection.  So a frame commits all of its writes and no others, and a   *)
(* connection no frame holds is in autocommit.                              *)
(***************************************************************************)
EXTENDS Transactions, SequenceTheorems, TLAPS

\* A frame's id is that of its block, given once; a frame that was committed is gone.
NamedOnce ==
    /\ \A i, j \in DOMAIN stack : stack[i].id = stack[j].id => i = j
    /\ \A i \in DOMAIN stack : stack[i].id <= count.blocks /\ stack[i].id \notin committed
    /\ \A f \in committed : f <= count.blocks
    /\ \A w \in Writes : by[w] # None => by[w] <= count.blocks

\* The pool has each live connection once, and what is in no state to be used is empty.
Pooling ==
    /\ \A c \in Conns : conn[c].state \in {"open", "lost"} => c \in Pooled
    /\ \A d, e \in Dsns : pool[d] = pool[e] /\ pool[d] # None => d = e
    /\ \A c \in Conns : conn[c].state # "open" => ~conn[c].active
    /\ \A c \in Conns : ~conn[c].active => conn[c].work = <<>>
    /\ phase = "execute" => stmt \in Statement

\* A frame that holds c and shares with none has its transaction there, if c is open;
\* a transaction is always some frame's.
Holding ==
    /\ \A i \in DOMAIN stack : stack[i].conn # None => conn[stack[i].conn].state # "unused"
    /\ \A i, j \in DOMAIN stack :
          stack[i].conn = stack[j].conn /\ stack[i].conn # None /\ i # j => stack[i].id \in hist.mixed
    /\ \A c \in Conns : conn[c].active => Holders(c) # {}
    /\ phase # "idle" =>
          \A i \in DOMAIN stack :
             stack[i].conn # None /\ stack[i].id \notin hist.mixed
                /\ conn[stack[i].conn].state = "open" => conn[stack[i].conn].active

\* What a connection has to commit is its frame's, and all of it.
Accounted ==
    /\ \A c \in Conns, w \in Writes :
          w \in Written(c) /\ by[w] \notin hist.mixed =>
             \E i \in DOMAIN stack : stack[i].id = by[w] /\ stack[i].conn = c
    /\ \A w \in Writes, i \in DOMAIN stack :
          by[w] = stack[i].id =>
             /\ stack[i].conn # None
             /\ phase # "idle" /\ by[w] \notin hist.mixed /\ conn[stack[i].conn].state = "open"
                  => w \in Written(stack[i].conn) \cup hist.undone

DurableRan == \A w \in durable : by[w] # None

TransactionInv == TypeOK /\ NamedOnce /\ Pooling /\ Holding /\ Accounted
                  /\ FrameAtomic /\ OutsideIsDurable /\ DurableRan

-------------------------------------------------------------------------------
(* Sequences.                                                              *)

LEMMA PopFacts ==
    ASSUME NEW S, NEW seq \in Seq(S), seq # <<>>
    PROVE  /\ Len(seq) \in Nat \ {0} /\ DOMAIN seq = 1 .. Len(seq)
           /\ Len(seq) \in DOMAIN seq /\ seq[Len(seq)] \in S
           /\ Pop(seq) \in Seq(S) /\ DOMAIN Pop(seq) = 1 .. Len(seq) - 1
           /\ \A i \in DOMAIN Pop(seq) : i \in DOMAIN seq /\ Pop(seq)[i] = seq[i]
  BY DEF Pop

LEMMA AppendFacts ==
    ASSUME NEW S, NEW seq \in Seq(S), NEW e \in S
    PROVE  /\ Append(seq, e) \in Seq(S)
           /\ DOMAIN Append(seq, e) = DOMAIN seq \cup {Len(seq) + 1}
           /\ Len(seq) + 1 \notin DOMAIN seq
           /\ \A i \in DOMAIN seq : Append(seq, e)[i] = seq[i]
           /\ Append(seq, e)[Len(seq) + 1] = e
  OBVIOUS

\* What is left of a sequence after a mark is its beginning.
LEMMA MarkFacts ==
    ASSUME NEW S, NEW seq \in Seq(S), NEW p, NEW left \in ToFirst(seq, p) \cup ToLast(seq, p)
    PROVE  /\ left \in Seq(S) /\ seq # <<>>
           /\ \A i \in DOMAIN left : i \in DOMAIN seq /\ left[i] = seq[i]
<1>1. PICK n \in DOMAIN seq : left = SubSeq(seq, 1, n)
  BY DEF ToFirst, ToLast, MarksIn
<1>2. DOMAIN seq = 1 .. Len(seq) /\ Len(seq) \in Nat
  OBVIOUS
<1>3. left \in Seq(S) /\ seq # <<>>
  BY <1>1, <1>2
<1>4. DOMAIN left = 1 .. n
  BY <1>1, <1>2
<1>5. \A i \in 1 .. n : i \in DOMAIN seq /\ left[i] = seq[i]
  BY <1>1, <1>2
<1> QED BY <1>3, <1>4, <1>5

\* The frames on the stack have the ids and the connections they had.
SameHolders ==
    /\ stack' \in Seq(Frame) /\ DOMAIN stack' = DOMAIN stack
    /\ \A i \in DOMAIN stack : stack'[i].id = stack[i].id /\ stack'[i].conn = stack[i].conn

LEMMA TopFacts ==
    ASSUME TypeOK, stack # <<>>
    PROVE  /\ Top \in Frame /\ Len(stack) \in DOMAIN stack /\ Top = stack[Len(stack)]
           /\ \A i \in DOMAIN stack : stack[i] \in Frame
           /\ Top.id \in Ids /\ Top.saves \in Seq(Savepoints)
           /\ Top.dsn \in Names \cup {None} /\ Top.conn \in Conns \cup {None}
<1>1. stack \in Seq(Frame)
  BY DEF TypeOK
<1>2. Len(stack) \in DOMAIN stack /\ Top \in Frame
  BY <1>1, PopFacts DEF Top
<1>3. \A i \in DOMAIN stack : stack[i] \in Frame
  BY <1>1
<1> QED BY <1>2, <1>3 DEF Top, Frame

LEMMA SetTopFacts ==
    ASSUME TypeOK, stack # <<>>, NEW frame \in Frame
    PROVE  /\ SetTop(frame) \in Seq(Frame) /\ DOMAIN SetTop(frame) = DOMAIN stack
           /\ Len(stack) \in DOMAIN stack /\ SetTop(frame)[Len(stack)] = frame
           /\ \A i \in DOMAIN stack : i # Len(stack) => SetTop(frame)[i] = stack[i]
<1>1. stack \in Seq(Frame)
  BY DEF TypeOK
<1>2. Len(stack) \in DOMAIN stack
  BY <1>1, PopFacts
<1> QED BY <1>1, <1>2 DEF SetTop

\* A frame that keeps its id and its connection.
LEMMA TopRenamed ==
    ASSUME TypeOK, stack # <<>>, NEW frame \in Frame, frame.id = Top.id, frame.conn = Top.conn,
           stack' = SetTop(frame)
    PROVE  SameHolders
<1>1. \A i \in DOMAIN stack : i = Len(stack) => stack'[i] = frame
  BY SetTopFacts
<1> QED BY <1>1, SetTopFacts, TopFacts DEF SameHolders

LEMMA BoundFacts ==
    ASSUME TypeOK, NEW name \in Names, stack' = Bound(name)
    PROVE  SameHolders
<1>1. CASE stack # <<>> /\ Top.dsn = None
  <2>1. [Top EXCEPT !.dsn = name] \in Frame
    BY <1>1, TopFacts DEF Frame
  <2>2. stack' = SetTop([Top EXCEPT !.dsn = name])
    BY <1>1 DEF Bound
  <2> QED BY <1>1, <2>1, <2>2, TopFacts, TopRenamed DEF Frame
<1>2. CASE ~(stack # <<>> /\ Top.dsn = None)
  BY <1>2 DEF Bound, SameHolders, TypeOK
<1> QED BY <1>1, <1>2

-------------------------------------------------------------------------------
(* Connections.                                                            *)

LEMMA ConnFacts ==
    ASSUME TypeOK
    PROVE  \A c \in Conns : /\ conn[c] \in Connection
                            /\ conn[c].state \in {"unused", "open", "lost", "deleted"}
                            /\ conn[c].active \in BOOLEAN
                            /\ conn[c].work \in Seq(Writes \cup Savepoints)
  BY DEF TypeOK, Connection

LEMMA InFacts ==
    ASSUME NEW state \in {"unused", "open", "lost", "deleted"}
    PROVE  /\ In(state) \in Connection
           /\ In(state).state = state /\ In(state).active = FALSE /\ In(state).work = <<>>
<1>1. <<>> \in Seq(Writes \cup Savepoints)
  OBVIOUS
<1> QED BY <1>1 DEF In, Connection

LEMMA AutocommitFacts ==
    /\ Autocommit \in Connection /\ Autocommit.state = "open"
    /\ Autocommit.active = FALSE /\ Autocommit.work = <<>>
  BY InFacts DEF Autocommit

\* After a ROLLBACK or a COMMIT on cs, an open one is in autocommit.
LEMMA EndedFacts ==
    ASSUME TypeOK, NEW cs
    PROVE  /\ EndedIn(cs) \in [Conns -> Connection]
           /\ \A c \in Conns : /\ EndedIn(cs)[c].state = conn[c].state
                               /\ EndedIn(cs)[c] \in {conn[c], Autocommit}
                               /\ c \in cs /\ conn[c].state = "open" => EndedIn(cs)[c] = Autocommit
                               /\ c \notin cs \/ conn[c].state # "open" => EndedIn(cs)[c] = conn[c]
  BY ConnFacts, AutocommitFacts DEF EndedIn

LEMMA DeletedFacts ==
    ASSUME TypeOK, NEW cs
    PROVE  /\ DeletedIn(conn, cs) \in [Conns -> Connection]
           /\ \A c \in Conns : DeletedIn(conn, cs)[c] = IF c \in cs THEN In("deleted") ELSE conn[c]
  BY ConnFacts, InFacts DEF DeletedIn

LEMMA PooledFacts ==
    ASSUME TypeOK
    PROVE  /\ \A c \in Conns : c \in Pooled <=> \E d \in Dsns : pool[d] = c
           /\ \A d \in Dsns : pool[d] \in Pooled \cup {None}
           /\ Pooled \subseteq Conns /\ None \notin Conns
  BY NoneAssumption DEF TypeOK, Pooled

-------------------------------------------------------------------------------
(* What the actions do.                                                    *)

SameHist == hist' \in History /\ hist'.mixed = hist.mixed /\ hist'.undone = hist.undone

LEMMA BeginEffect ==
    ASSUME TypeOK, BeginRequest
    PROVE  /\ phase = "idle" /\ phase' \in {"page", "undefined"}
           /\ stack' = <<>> /\ queried' = {} /\ retried' = {}
           /\ count' \in [requests : 0 .. MaxRequests, blocks : 0 .. MaxBlocks]
           /\ count'.blocks = count.blocks
           /\ UNCHANGED <<stmt, blocks, durable, by, committed, hist>>
           /\ \/ /\ conn' = DeletedIn(conn, Pooled)
                 /\ pool' = [d \in Dsns |-> None]
              \/ /\ pool' = pool
                 /\ \E cs \in SUBSET Conns : conn' = EndedIn(cs)
<1>1. count' \in [requests : 0 .. MaxRequests, blocks : 0 .. MaxBlocks] /\ count'.blocks = count.blocks
  BY BoundAssumption DEF TypeOK, BeginRequest, Begin
<1> QED BY <1>1 DEF BeginRequest, Begin

LEMMA FinishEffect ==
    ASSUME TypeOK, FinishRequest
    PROVE  /\ phase # "idle" /\ phase' = "idle" /\ blocks' = <<>> /\ conn' = EndedIn(Pooled)
           /\ UNCHANGED <<stmt, stack, durable, committed, hist, pageVars>>
  BY DEF FinishRequest, Finish

LEMMA OpenEffect ==
    ASSUME TypeOK, OpenBlock
    PROVE  \E frame \in Frame :
              /\ frame.id = count.blocks + 1 /\ frame.conn = None
              /\ stack' = Append(stack, frame) /\ blocks' = Append(blocks, frame.id)
              /\ count' \in [requests : 0 .. MaxRequests, blocks : 0 .. MaxBlocks]
              /\ count'.blocks = frame.id
              /\ phase = "page"
              /\ UNCHANGED <<phase, stmt, pool, conn, durable, queried, retried, by, committed, hist>>
<1> DEFINE frame == [id |-> count.blocks + 1, dsn |-> None, conn |-> None, saves |-> <<>>]
<1>1. MaxBlocks \in Nat /\ MaxRequests \in Nat /\ count.blocks \in 0 .. MaxBlocks
      /\ count.requests \in 0 .. MaxRequests
  BY BoundAssumption DEF TypeOK
<1>2. frame.id \in Ids
  BY <1>1 DEF OpenBlock, Ids
<1>3. <<>> \in Seq(Savepoints)
  OBVIOUS
<1>4. frame \in Frame
  BY <1>2, <1>3 DEF Frame
<1>5. count' \in [requests : 0 .. MaxRequests, blocks : 0 .. MaxBlocks] /\ count'.blocks = frame.id
  BY <1>1 DEF TypeOK, OpenBlock
<1> QED BY <1>4, <1>5 DEF OpenBlock

\* The frame on top, and its transaction, have ended.
Ended(commits) ==
    /\ stack # <<>> /\ stack' = Pop(stack)
    /\ conn' = EndedIn({Top.conn})
    /\ Top.conn # None => conn[Top.conn].state = "open"
    /\ durable' = IF commits /\ Top.conn # None THEN durable \cup Written(Top.conn) ELSE durable
    /\ committed' = IF commits THEN committed \cup {Top.id} ELSE committed

LEMMA EndFrameEffect ==
    ASSUME TypeOK, NEW commits \in BOOLEAN, NEW after \in {"page", "raising"}, EndFrame(commits, after)
    PROVE  /\ phase' \in {"page", "raising", "undefined"}
           /\ UNCHANGED <<stack, conn, durable, committed>> \/ Ended(commits)
  BY DEF EndFrame, EndFails, Failed, Ended

\* A tag or a function that ends a frame, whatever becomes of the block.
EndsFrame ==
    /\ phase \in {"page", "raising"}
    /\ \E commits \in BOOLEAN, after \in {"page", "raising"} : EndFrame(commits, after)
    /\ blocks' \in Seq(Ids) /\ SameHist
    /\ UNCHANGED <<stmt, pageVars>>

LEMMA EndsFrameEffect ==
    ASSUME TypeOK, CloseBlock \/ UnwindBlock \/ CommitNow \/ RollbackNow
    PROVE  EndsFrame
<1>1. blocks \in Seq(Ids) /\ hist \in History
  BY DEF TypeOK
<1>2. CASE CloseBlock
  BY <1>1, <1>2, PopFacts DEF CloseBlock, CommitFrame, EndsFrame, SameHist
<1>3. CASE UnwindBlock
  <2>1. blocks' \in Seq(Ids) /\ blocks[Len(blocks)] \in Ids
    BY <1>1, <1>3, PopFacts DEF UnwindBlock
  <2>2. SameHist
    BY <1>1, <1>3, <2>1 DEF UnwindBlock, SameHist, History
  <2> QED BY <1>3, <2>1, <2>2 DEF UnwindBlock, RollbackFrame, EndsFrame
<1>4. CASE CommitNow \/ RollbackNow
  <2>1. SameHist
    <3>1. blocks # <<>> => blocks[Len(blocks)] \in Ids
      BY <1>1, PopFacts
    <3> QED BY <1>1, <1>4, <3>1 DEF CommitNow, RollbackNow, EndNow, SameHist, History
  <2> QED BY <1>1, <1>4, <2>1 DEF CommitNow, RollbackNow, EndNow, CommitFrame, RollbackFrame, EndsFrame
<1> QED BY <1>2, <1>3, <1>4

\* A savepoint goes on the frame; on an open connection it may open a transaction.
LEMMA SetSavepointEffect ==
    ASSUME TypeOK, SetSavepoint
    PROVE  /\ phase = "page" /\ phase' \in {"page", "raising", "undefined"}
           /\ SameHolders
           /\ UNCHANGED <<stmt, blocks, durable, committed, hist, pageVars>>
           /\ \/ conn' = conn
              \/ /\ Top.conn \in Conns /\ stack # <<>> /\ conn[Top.conn].state = "open"
                 /\ \E p \in Savepoints :
                       conn' = [conn EXCEPT ![Top.conn] =
                                  [state |-> "open", active |-> TRUE,
                                   work |-> Append(conn[Top.conn].work, p)]]
<1>1. PICK p \in Savepoints :
         LET c == Top.conn
             fails == c # None /\ conn[c].state \in {"lost", "deleted"}
             opens == c # None /\ conn[c].state = "open"
                      /\ (conn[c].active \/ Backend = "sqlite")
         IN /\ phase' = IF fails THEN Failed(c) ELSE "page"
            /\ stack' = IF fails THEN stack
                        ELSE SetTop([Top EXCEPT !.saves = Append(@, p)])
            /\ conn' = IF opens
                       THEN [conn EXCEPT ![c] = [state |-> "open", active |-> TRUE,
                                                 work |-> Append(conn[c].work, p)]]
                       ELSE conn
  BY DEF SetSavepoint
<1>2. stack # <<>>
  BY DEF SetSavepoint
<1>3. SameHolders
  <2>1. CASE stack' = stack
    BY <2>1 DEF SameHolders, TypeOK
  <2>2. CASE stack' = SetTop([Top EXCEPT !.saves = Append(@, p)])
    <3> DEFINE frame == [Top EXCEPT !.saves = Append(@, p)]
    <3>1. Append(Top.saves, p) \in Seq(Savepoints)
      BY <1>2, TopFacts
    <3>2. frame \in Frame /\ frame.id = Top.id /\ frame.conn = Top.conn
      BY <1>2, <3>1, TopFacts DEF Frame
    <3> QED BY <1>2, <2>2, <3>2, TopRenamed
  <2> QED BY <1>1, <2>1, <2>2
<1>4. CASE conn' # conn
  <2>1. Top.conn \in Conns /\ conn[Top.conn].state = "open"
    BY <1>1, <1>2, <1>4, TopFacts
  <2>2. conn' = [conn EXCEPT ![Top.conn] = [state |-> "open", active |-> TRUE,
                                            work |-> Append(conn[Top.conn].work, p)]]
    BY <1>1, <1>4
  <2> QED BY <1>1, <1>2, <1>3, <2>1, <2>2 DEF SetSavepoint, Failed
<1> QED BY <1>1, <1>2, <1>3, <1>4 DEF SetSavepoint, Failed

\* What is undone is not in the transaction any more, and what is left was in it.
LEMMA RollbackToEffect ==
    ASSUME TypeOK, RollbackTo
    PROVE  /\ phase = "page" /\ phase' \in {"page", "raising", "undefined"}
           /\ SameHolders
           /\ UNCHANGED <<stmt, blocks, durable, committed, pageVars>>
           /\ \/ UNCHANGED <<conn, hist>>
              \/ \E c \in Conns, left \in Seq(Writes \cup Savepoints) :
                    /\ conn[c].work # <<>>
                    /\ \A i \in DOMAIN left : \E j \in DOMAIN conn[c].work : left[i] = conn[c].work[j]
                    /\ conn' = [conn EXCEPT ![c].work = left]
                    /\ hist' = [hist EXCEPT !.undone =
                                  @ \cup (Written(c) \ {left[i] : i \in DOMAIN left})]
<1>1. PICK p \in Savepoints :
         LET c == Top.conn
             fails == \/ MarksIn(Top.saves, p) = {}
                      \/ c # None /\ (conn[c].state # "open" \/ MarksIn(conn[c].work, p) = {})
         IN \/ fails /\ phase' = Failed(c) /\ UNCHANGED <<stack, conn, hist>>
            \/ /\ ~fails /\ UNCHANGED phase
               /\ \E left \in ToFirst(Top.saves, p) :
                     stack' = SetTop([Top EXCEPT !.saves = left])
               /\ \/ c = None /\ UNCHANGED <<conn, hist>>
                  \/ c # None /\ \E left \in ToLast(conn[c].work, p) :
                        /\ conn' = [conn EXCEPT ![c].work = left]
                        /\ hist' = [hist EXCEPT !.undone =
                                      @ \cup (Written(c) \ {left[i] : i \in DOMAIN left})]
  BY DEF RollbackTo
<1>2. stack # <<>> /\ phase = "page" /\ UNCHANGED <<stmt, blocks, durable, committed, pageVars>>
  BY DEF RollbackTo
<1>3. CASE UNCHANGED <<stack, conn, hist>> /\ phase' = Failed(Top.conn)
  BY <1>2, <1>3 DEF SameHolders, TypeOK, Failed
<1>4. CASE /\ UNCHANGED phase
           /\ \E left \in ToFirst(Top.saves, p) : stack' = SetTop([Top EXCEPT !.saves = left])
  <2>1. PICK first \in ToFirst(Top.saves, p) : stack' = SetTop([Top EXCEPT !.saves = first])
    BY <1>4
  <2>2. first \in Seq(Savepoints)
    BY <1>2, TopFacts, MarkFacts
  <2> DEFINE frame == [Top EXCEPT !.saves = first]
  <2>3. frame \in Frame /\ frame.id = Top.id /\ frame.conn = Top.conn
    BY <1>2, <2>2, TopFacts DEF Frame
  <2>4. SameHolders
    BY <1>2, <2>1, <2>3, TopRenamed
  <2>5. CASE UNCHANGED <<conn, hist>>
    BY <1>2, <1>4, <2>4, <2>5
  <2>6. CASE ~UNCHANGED <<conn, hist>>
    <3> DEFINE c == Top.conn
    <3>1. c \in Conns
      BY <1>1, <1>2, <2>6, TopFacts
    <3>2. PICK left \in ToLast(conn[c].work, p) :
             /\ conn' = [conn EXCEPT ![c].work = left]
             /\ hist' = [hist EXCEPT !.undone =
                           @ \cup (Written(c) \ {left[i] : i \in DOMAIN left})]
      BY <1>1, <2>6
    <3>3. conn[c].work \in Seq(Writes \cup Savepoints)
      BY <3>1, ConnFacts
    <3>4. /\ left \in Seq(Writes \cup Savepoints) /\ conn[c].work # <<>>
          /\ \A i \in DOMAIN left : i \in DOMAIN conn[c].work /\ left[i] = conn[c].work[i]
      BY <3>3, MarkFacts
    <3> QED BY <1>2, <1>4, <2>4, <3>1, <3>2, <3>4
  <2> QED BY <2>5, <2>6
<1> QED BY <1>1, <1>3, <1>4

\* The frame on top, which had no connection, takes c and begins, or fails to.
Takes(c) ==
    /\ stack # <<>> /\ Top.conn = None
    /\ \E frame \in Frame : frame.id = Top.id /\ frame.conn = c /\ stack' = SetTop(frame)
    /\ hist' \in History /\ hist'.undone = hist.undone /\ hist.mixed \subseteq hist'.mixed
    /\ Holders(c) # {} =>
          Top.id \in hist'.mixed /\ \A i \in Holders(c) : stack[i].id \in hist'.mixed
    /\ \/ /\ conn[c].state # "unused" /\ BeginFails(c) /\ phase' = "raising"
          /\ UNCHANGED <<conn, durable>>
       \/ /\ conn[c].state \in {"unused", "open"} /\ phase' = "execute"
          /\ conn' = [conn EXCEPT ![c] = [Autocommit EXCEPT !.active = TRUE]]
          /\ durable' = durable \cup Written(c)

\* A statement runs on c in no frame, or in one that has c.
Uses(c) ==
    /\ SameHolders /\ phase' = "execute"
    /\ UNCHANGED <<durable, hist>>
    /\ conn' = IF conn[c].state = "unused" THEN [conn EXCEPT ![c] = Autocommit] ELSE conn

LEMMA RunEffect ==
    ASSUME TypeOK, NEW name \in Names, NEW query \in BOOLEAN, NEW c \in Conns, NEW joined \in BOOLEAN,
           joined => stack # <<>>, Run(name, query, c, joined)
    PROVE  /\ IF joined /\ Top.conn = None THEN Takes(c) ELSE Uses(c)
           /\ phase' = "execute" => stmt' \in Statement
           /\ stmt' \in Statement \cup {None}
<1>1. (phase' = "execute" => stmt' \in Statement) /\ stmt' \in Statement \cup {None}
  BY DEF Run, Statement
<1>2. CASE joined /\ Top.conn = None
  <2>1. stack # <<>>
    BY <1>2
  <2> DEFINE frame == [Top EXCEPT !.dsn = name, !.conn = c]
  <2>2. frame \in Frame /\ frame.id = Top.id /\ frame.conn = c
    BY <2>1, TopFacts DEF Frame
  <2>3. stack' = SetTop(frame)
    BY <1>2 DEF Run
  <2> DEFINE sharing == {stack[i].id : i \in Holders(c)}
  <2>4. sharing \subseteq Ids /\ Top.id \in Ids /\ hist \in History
    BY <2>1, TopFacts DEF Holders, Frame, TypeOK
  <2>5. hist' = IF sharing # {} THEN [hist EXCEPT !.mixed = @ \cup sharing \cup {Top.id}] ELSE hist
    BY <1>2 DEF Run
  <2>6. /\ hist' \in History /\ hist'.undone = hist.undone /\ hist.mixed \subseteq hist'.mixed
        /\ sharing # {} => hist'.mixed = hist.mixed \cup sharing \cup {Top.id}
    BY <2>4, <2>5 DEF History
  <2>7. Holders(c) # {} =>
           Top.id \in hist'.mixed /\ \A i \in Holders(c) : stack[i].id \in hist'.mixed
    BY <2>6
  <2>8. \/ /\ conn[c].state # "unused" /\ BeginFails(c) /\ phase' = "raising"
           /\ UNCHANGED <<conn, durable>>
        \/ /\ conn[c].state \in {"unused", "open"} /\ phase' = "execute"
           /\ conn' = [conn EXCEPT ![c] = [Autocommit EXCEPT !.active = TRUE]]
           /\ durable' = durable \cup Written(c)
    <3> DEFINE fails == conn[c].state # "unused" /\ BeginFails(c)
               opened == IF conn[c].state = "unused" THEN [conn EXCEPT ![c] = Autocommit] ELSE conn
    <3>1. /\ conn' = IF ~fails THEN [opened EXCEPT ![c] = [Autocommit EXCEPT !.active = TRUE]]
                     ELSE opened
          /\ durable' = IF ~fails THEN durable \cup Written(c) ELSE durable
          /\ phase' = IF fails THEN "raising" ELSE "execute"
      BY <1>2 DEF Run
    <3>2. CASE fails
      BY <3>1, <3>2
    <3>3. CASE ~fails
      <4>1. [opened EXCEPT ![c] = [Autocommit EXCEPT !.active = TRUE]]
              = [conn EXCEPT ![c] = [Autocommit EXCEPT !.active = TRUE]]
        BY DEF TypeOK
      <4>2. conn[c].state \in {"unused", "open"}
        BY <3>3 DEF BeginFails
      <4> QED BY <3>1, <3>3, <4>1, <4>2
    <3> QED BY <3>2, <3>3
  <2> QED BY <1>1, <1>2, <2>1, <2>2, <2>3, <2>6, <2>7, <2>8 DEF Takes
<1>3. CASE ~(joined /\ Top.conn = None)
  <2>1. stack' = Bound(name)
    BY <1>3 DEF Run
  <2>2. SameHolders
    BY <2>1, BoundFacts
  <2> QED BY <1>1, <1>3, <2>2 DEF Run, Uses
<1> QED BY <1>2, <1>3

LEMMA ConnectEffect ==
    ASSUME TypeOK, Pooling, Holding, NEW name \in Names, NEW query \in BOOLEAN, Connect(name, query)
    PROVE  /\ phase = "page"
           /\ UNCHANGED <<blocks, queried, retried, count, by, committed>>
           /\ stmt' \in Statement \cup {None} /\ (phase' = "execute" => stmt' \in Statement)
           /\ \E c \in Conns :
                 /\ Takes(c) \/ Uses(c)
                 /\ \/ pool' = pool /\ conn[c].state # "unused"
                    \/ \E d \in Dsns : /\ pool' = [pool EXCEPT ![d] = c]
                                       /\ pool[d] = c \/ (pool[d] = None /\ conn[c].state = "unused")
<1> DEFINE d == Upper[name]
<1>1. d \in Dsns
  BY DEF Dsns
<1>2. /\ phase = "page"
      /\ UNCHANGED <<blocks, queried, retried, count, by, committed>>
  BY DEF Connect
<1>3. CASE Joins(name) /\ Top.conn # None
  <2>1. stack # <<>> /\ Run(name, query, Top.conn, TRUE) /\ pool' = pool
    BY <1>3 DEF Connect, Joins
  <2>2. Top.conn \in Conns
    BY <1>3, <2>1, TopFacts
  <2>3. conn[Top.conn].state # "unused"
    BY <1>3, <2>1, TopFacts DEF Holding
  <2>4. /\ Uses(Top.conn)
        /\ stmt' \in Statement \cup {None} /\ (phase' = "execute" => stmt' \in Statement)
    BY <1>3, <2>1, <2>2, RunEffect
  <2> QED BY <1>2, <2>1, <2>2, <2>3, <2>4
<1>4. CASE ~(Joins(name) /\ Top.conn # None)
  <2>1. PICK c \in IF pool[d] # None THEN {pool[d]} ELSE {x \in Conns : conn[x].state = "unused"} :
           Run(name, query, c, Joins(name)) /\ pool' = [pool EXCEPT ![d] = c]
    BY <1>4 DEF Connect
  <2>2. c \in Conns /\ (pool[d] = c \/ (pool[d] = None /\ conn[c].state = "unused"))
    BY <1>1, <2>1 DEF TypeOK
  <2>3. Joins(name) \in BOOLEAN /\ (Joins(name) => stack # <<>>)
    BY DEF Joins
  <2>4. /\ Takes(c) \/ Uses(c)
        /\ stmt' \in Statement \cup {None} /\ (phase' = "execute" => stmt' \in Statement)
    BY <2>1, <2>2, <2>3, RunEffect
  <2> QED BY <1>1, <1>2, <2>1, <2>2, <2>4
<1> QED BY <1>3, <1>4

\* Write w runs on c.
Makes(c, w) ==
    /\ conn[c].state = "open"
    /\ by[w] = None /\ \E holder \in Holder(c) : by' = [by EXCEPT ![w] = holder]
    /\ \/ /\ conn[c].active /\ durable' = durable
          /\ conn' = [conn EXCEPT ![c].work = Append(conn[c].work, w)]
       \/ /\ ~conn[c].active /\ durable' = durable \cup {w} /\ conn' = conn

LEMMA ExecuteEffect ==
    ASSUME TypeOK, Pooling, Execute
    PROVE  /\ phase = "execute" /\ phase' = "page" /\ stmt' = None /\ queried' \subseteq Dsns
           /\ UNCHANGED <<stack, blocks, pool, retried, count, committed, hist>>
           /\ \/ UNCHANGED <<by, conn, durable>>
              \/ \E c \in Conns, w \in Writes : Makes(c, w)
<1>1. stmt \in Statement
  BY DEF Execute, Pooling
<1>2. stmt.conn \in Conns /\ Upper[stmt.name] \in Dsns
  BY <1>1 DEF Statement, Dsns
<1>3. queried' \subseteq Dsns
  BY <1>2 DEF Execute, Seen, TypeOK
<1>4. PICK w \in {x \in Writes : by[x] = None} \cup {None}, holder \in Holder(stmt.conn) :
         /\ by' = IF w = None THEN by ELSE [by EXCEPT ![w] = holder]
         /\ conn' = IF w # None /\ conn[stmt.conn].active
                    THEN [conn EXCEPT ![stmt.conn].work = Append(conn[stmt.conn].work, w)] ELSE conn
         /\ durable' = IF w # None /\ ~conn[stmt.conn].active THEN durable \cup {w} ELSE durable
  BY DEF Execute
<1>5. CASE w = None
  BY <1>3, <1>4, <1>5 DEF Execute
<1>6. CASE w # None
  <2>1. w \in Writes /\ by[w] = None
    BY <1>6
  <2>2. Makes(stmt.conn, w)
    BY <1>4, <1>6, <2>1 DEF Makes, Execute
  <2> QED BY <1>2, <1>3, <2>1, <2>2 DEF Execute
<1> QED BY <1>5, <1>6

LEMMA ReconnectEffect ==
    ASSUME TypeOK, Pooling, Reconnect
    PROVE  \E d \in Dsns, conns \in [Conns -> Connection] :
              /\ phase = "execute" /\ phase' \in {"execute", "raising"}
              /\ conns = DeletedIn(conn, {pool[d]})
              /\ retried' \subseteq Dsns
              /\ stmt' \in Statement \cup {None} /\ (phase' = "execute" => stmt' \in Statement)
              /\ \/ conn' = conns /\ pool' = [pool EXCEPT ![d] = None]
                 \/ \E c \in Conns : /\ conn[c].state = "unused"
                                     /\ conn' = [conns EXCEPT ![c] = Autocommit]
                                     /\ pool' = [pool EXCEPT ![d] = c]
              /\ UNCHANGED <<stack, blocks, durable, queried, count, by, committed, hist>>
<1>1. stmt \in Statement
  BY DEF Reconnect, Pooling
<1> DEFINE d == Upper[stmt.name]
<1>2. d \in Dsns
  BY <1>1 DEF Statement, Dsns
<1>3. DeletedIn(conn, {pool[d]}) \in [Conns -> Connection]
  BY DeletedFacts
<1>4. \A c \in Conns : [stmt EXCEPT !.conn = c] \in Statement
  BY <1>1 DEF Statement
<1>5. retried' \subseteq Dsns
  BY <1>2 DEF Reconnect, TypeOK
<1> QED BY <1>1, <1>2, <1>3, <1>4, <1>5 DEF Reconnect

\* A page goes on, or its statement fails, and nothing comes of it for the database.
LEMMA QuietEffect ==
    ASSUME TypeOK, Pooling,
           LeaveBlock \/ Catch \/ ExecuteFails \/ \E name \in Names : ConnectFails(name)
    PROVE  /\ phase # "idle" /\ phase' \in {"page", "raising", "undefined"}
           /\ SameHolders /\ blocks' \in Seq(Ids) /\ queried' \subseteq Dsns
           /\ stmt' \in Statement \cup {None}
           /\ UNCHANGED <<pool, conn, durable, retried, count, by, committed, hist>>
<1>0. /\ stack \in Seq(Frame) /\ blocks \in Seq(Ids) /\ queried \subseteq Dsns
      /\ stmt \in Statement \cup {None}
  BY DEF TypeOK
<1>1. CASE LeaveBlock
  <2>1. blocks' \in Seq(Ids)
    BY <1>0, <1>1, PopFacts DEF LeaveBlock
  <2> QED BY <1>0, <1>1, <2>1 DEF LeaveBlock, SameHolders, pageVars
<1>2. CASE Catch
  BY <1>0, <1>2 DEF Catch, SameHolders, pageVars
<1>3. CASE ExecuteFails
  <2>1. stmt \in Statement
    BY <1>3 DEF ExecuteFails, Pooling
  <2>2. queried' \subseteq Dsns
    BY <1>0, <1>3, <2>1 DEF ExecuteFails, Seen, Statement, Dsns
  <2> QED BY <1>0, <1>3, <2>2 DEF ExecuteFails, SameHolders, Failed
<1>4. ASSUME NEW name \in Names, ConnectFails(name)
      PROVE  /\ phase # "idle" /\ phase' = "raising" /\ SameHolders
             /\ UNCHANGED <<stmt, blocks, conn, durable, committed, hist, pageVars>>
  BY <1>4, BoundFacts DEF ConnectFails
<1> QED BY <1>0, <1>1, <1>2, <1>3, <1>4 DEF pageVars

-------------------------------------------------------------------------------
(* Types, ids and the pool.                                                *)

\* The pool and the connections in it ...
Pools ==
    /\ pool \in [Dsns -> Conns \cup {None}]
    /\ conn \in [Conns -> Connection]
    /\ \A d \in Dsns : pool[d] # None => conn[pool[d]].state \in {"open", "lost"}
    /\ \A c \in Conns : conn[c].state \in {"open", "lost"} => \E d \in Dsns : pool[d] = c
    /\ \A d, e \in Dsns : pool[d] = pool[e] /\ pool[d] # None => d = e
    /\ \A c \in Conns : conn[c].state # "open" => ~conn[c].active
    /\ \A c \in Conns : ~conn[c].active => conn[c].work = <<>>

\* ... and everything else.
Others ==
    /\ phase \in {"idle", "page", "execute", "raising", "undefined"}
    /\ stmt \in Statement \cup {None} /\ (phase = "execute" => stmt \in Statement)
    /\ stack \in Seq(Frame) /\ blocks \in Seq(Ids)
    /\ durable \subseteq Writes
    /\ queried \subseteq Dsns /\ retried \subseteq Dsns
    /\ count \in [requests : 0 .. MaxRequests, blocks : 0 .. MaxBlocks]
    /\ by \in [Writes -> (0 .. MaxBlocks) \cup {None}]
    /\ committed \subseteq Ids
    /\ hist \in History

LEMMA TypesSplit == TypeOK /\ Pooling <=> Pools /\ Others
<1>1. TypeOK /\ Pooling => Pools /\ Others
  BY DEF TypeOK, Pooling, Pools, Others, Pooled
<1>2. ASSUME Pools, Others PROVE TypeOK /\ Pooling
  <2>1. \A c \in Conns : c \in Pooled <=> \E d \in Dsns : pool[d] = c
    BY DEF Pooled
  <2>2. \A c \in Conns : c \in Pooled <=> conn[c].state \in {"open", "lost"}
    BY <1>2, <2>1, NoneAssumption DEF Pools
  <2>3. Pooled \subseteq Conns
    BY DEF Pooled
  <2> QED BY <1>2, <2>2, <2>3 DEF TypeOK, Pooling, Pools, Others
<1> QED BY <1>1, <1>2

LEMMA PoolsEnded ==
    ASSUME TypeOK, Pools, pool' = pool, NEW cs, conn' = EndedIn(cs)
    PROVE  Pools'
<1>1. conn' \in [Conns -> Connection]
  BY EndedFacts
<1>2. \A c \in Conns : conn'[c].state = conn[c].state /\ conn'[c] \in {conn[c], Autocommit}
  BY EndedFacts
<1> QED BY <1>1, <1>2, AutocommitFacts DEF Pools

LEMMA PoolsCleared ==
    ASSUME TypeOK, Pools, pool' = [d \in Dsns |-> None], conn' = DeletedIn(conn, Pooled)
    PROVE  Pools'
<1>1. conn' \in [Conns -> Connection]
  BY DeletedFacts
<1>2. \A c \in Conns : conn'[c] = In("deleted") \/ (conn'[c] = conn[c] /\ c \notin Pooled)
  BY DeletedFacts
<1>3. \A c \in Conns : c \notin Pooled => conn[c].state \notin {"open", "lost"}
  BY DEF Pools, Pooled
<1> QED BY <1>1, <1>2, <1>3, InFacts DEF Pools

\* A connection that was open is open or lost, or a new one is open and in the pool.
LEMMA PoolsOne ==
    ASSUME Pools, NEW c \in Conns, NEW r \in Connection, conn' = [conn EXCEPT ![c] = r],
           r.state \in {"open", "lost"}, r.state # "open" => ~r.active, ~r.active => r.work = <<>>,
           \/ pool' = pool /\ conn[c].state \in {"open", "lost"}
           \/ \E d \in Dsns : /\ pool' = [pool EXCEPT ![d] = c]
                              /\ pool[d] = c \/ (pool[d] = None /\ conn[c].state = "unused")
    PROVE  Pools'
<1>1. conn' \in [Conns -> Connection] /\ pool' \in [Dsns -> Conns \cup {None}]
  BY DEF Pools
<1>2. \A x \in Conns : conn'[x] = IF x = c THEN r ELSE conn[x]
  BY DEF Pools
<1>3. CASE pool' = pool /\ conn[c].state \in {"open", "lost"}
  BY <1>1, <1>2, <1>3, NoneAssumption DEF Pools
<1>4. ASSUME NEW d \in Dsns, pool' = [pool EXCEPT ![d] = c],
             pool[d] = c \/ (pool[d] = None /\ conn[c].state = "unused")
      PROVE  Pools'
  <2>1. \A e \in Dsns : pool'[e] = IF e = d THEN c ELSE pool[e]
    BY <1>4 DEF Pools
  <2>2. \A e \in Dsns : pool[e] = c => e = d
    BY <1>4, NoneAssumption DEF Pools
  <2>3. \A e \in Dsns : pool'[e] # None => conn'[pool'[e]].state \in {"open", "lost"}
    BY <1>2, <2>1, <2>2 DEF Pools
  <2>4. \A x \in Conns : conn'[x].state \in {"open", "lost"} => \E e \in Dsns : pool'[e] = x
    <3>1. pool[d] \in {c, None}
      BY <1>4
    <3> QED BY <1>2, <2>1, <3>1, NoneAssumption DEF Pools
  <2>5. \A e, f \in Dsns : pool'[e] = pool'[f] /\ pool'[e] # None => e = f
    BY <2>1, <2>2 DEF Pools
  <2>6. \A x \in Conns : /\ conn'[x].state # "open" => ~conn'[x].active
                         /\ ~conn'[x].active => conn'[x].work = <<>>
    BY <1>2 DEF Pools
  <2> QED BY <1>1, <2>3, <2>4, <2>5, <2>6 DEF Pools
<1> QED BY <1>3, <1>4

LEMMA PoolsWithout ==
    ASSUME TypeOK, Pools, NEW d \in Dsns, pool' = [pool EXCEPT ![d] = None],
           conn' = DeletedIn(conn, {pool[d]})
    PROVE  Pools'
<1>1. conn' \in [Conns -> Connection] /\ pool' \in [Dsns -> Conns \cup {None}]
  BY DeletedFacts DEF Pools
<1>2. \A x \in Conns : conn'[x] = IF x = pool[d] THEN In("deleted") ELSE conn[x]
  BY DeletedFacts
<1>3. \A e \in Dsns : pool'[e] = IF e = d THEN None ELSE pool[e]
  BY DEF Pools
<1>4. In("deleted").state = "deleted" /\ ~In("deleted").active /\ In("deleted").work = <<>>
  BY InFacts
<1>5. \A e \in Dsns : pool'[e] # None => pool[e] # pool[d] /\ pool[e] \in Conns
  BY <1>3 DEF Pools
<1>6. \A e \in Dsns : pool'[e] # None => conn'[pool'[e]].state \in {"open", "lost"}
  BY <1>2, <1>3, <1>5 DEF Pools
<1>7. \A x \in Conns : conn'[x].state \in {"open", "lost"} => \E e \in Dsns : pool'[e] = x
  <2> SUFFICES ASSUME NEW x \in Conns, conn'[x].state \in {"open", "lost"}
               PROVE  \E e \in Dsns : pool'[e] = x
    OBVIOUS
  <2>1. x # pool[d] /\ conn'[x] = conn[x]
    BY <1>2, <1>4
  <2>2. PICK e \in Dsns : pool[e] = x
    BY <2>1 DEF Pools
  <2> QED BY <1>3, <2>1, <2>2
<1>8. \A e, f \in Dsns : pool'[e] = pool'[f] /\ pool'[e] # None => e = f
  BY <1>3 DEF Pools
<1>9. \A x \in Conns : /\ conn'[x].state # "open" => ~conn'[x].active
                       /\ ~conn'[x].active => conn'[x].work = <<>>
  BY <1>2, <1>4 DEF Pools
<1> QED BY <1>1, <1>6, <1>7, <1>8, <1>9 DEF Pools

\* A page opens a block, or a request begins or ends.
LEMMA BoundaryTyped ==
    ASSUME TypeOK, Pools, Others, BeginRequest \/ FinishRequest \/ InvalidateCaches \/ OpenBlock
    PROVE  Pools' /\ Others'
<1>1. CASE BeginRequest
  <2>1. Pools'
    BY <1>1, BeginEffect, PoolsEnded, PoolsCleared
  <2>2. <<>> \in Seq(Frame)
    OBVIOUS
  <2>3. Others'
    BY <1>1, <2>2, BeginEffect DEF Others
  <2> QED BY <2>1, <2>3
<1>2. CASE FinishRequest
  <2>1. Pools'
    BY <1>2, FinishEffect, PoolsEnded DEF pageVars
  <2>2. <<>> \in Seq(Ids)
    OBVIOUS
  <2>3. Others'
    BY <1>2, <2>2, FinishEffect DEF Others, pageVars
  <2> QED BY <2>1, <2>3
<1>3. CASE InvalidateCaches
  <2>1. Pools'
    BY <1>3, PoolsCleared DEF InvalidateCaches
  <2>2. Others'
    BY <1>3 DEF InvalidateCaches, Others
  <2> QED BY <2>1, <2>2
<1>4. CASE OpenBlock
  <2>1. PICK frame \in Frame :
           /\ frame.id = count.blocks + 1 /\ frame.conn = None
           /\ stack' = Append(stack, frame) /\ blocks' = Append(blocks, frame.id)
           /\ count' \in [requests : 0 .. MaxRequests, blocks : 0 .. MaxBlocks]
           /\ count'.blocks = frame.id
           /\ phase = "page"
           /\ UNCHANGED <<phase, stmt, pool, conn, durable, queried, retried, by, committed, hist>>
    BY <1>4, OpenEffect
  <2>2. stack' \in Seq(Frame) /\ blocks' \in Seq(Ids)
    <3>1. frame.id \in Ids
      BY DEF Frame
    <3> QED BY <2>1, <3>1, AppendFacts DEF Others
  <2>3. Others'
    BY <2>1, <2>2 DEF Others
  <2>4. Pools'
    BY <2>1 DEF Pools
  <2> QED BY <2>3, <2>4
<1> QED BY <1>1, <1>2, <1>3, <1>4

LEMMA FrameTyped ==
    ASSUME TypeOK, Pools, Others, EndsFrame \/ SetSavepoint \/ RollbackTo
    PROVE  Pools' /\ Others'
<1>1. CASE EndsFrame
  <2>1. PICK commits \in BOOLEAN, after \in {"page", "raising"} : EndFrame(commits, after)
    BY <1>1 DEF EndsFrame
  <2>2. /\ phase' \in {"page", "raising", "undefined"}
        /\ blocks' \in Seq(Ids) /\ hist' \in History /\ UNCHANGED <<stmt, pool, queried, retried, count, by>>
    BY <1>1, <2>1, EndFrameEffect DEF EndsFrame, SameHist, pageVars
  <2>3. CASE UNCHANGED <<stack, conn, durable, committed>>
    BY <2>2, <2>3 DEF Others, Pools
  <2>4. CASE Ended(commits)
    <3>1. durable' \subseteq Writes /\ committed' \subseteq Ids
      BY <2>4, TopFacts DEF Written, Others, Ended
    <3>2. stack' \in Seq(Frame)
      BY <2>4, PopFacts DEF Others, Ended
    <3>3. Pools'
      BY <2>2, <2>4, PoolsEnded DEF Ended
    <3> QED BY <2>2, <3>1, <3>2, <3>3 DEF Others
  <2> QED BY <2>1, <2>3, <2>4, EndFrameEffect
<1>2. CASE SetSavepoint
  <2>1. Others'
    BY <1>2, SetSavepointEffect DEF Others, SameHolders, pageVars
  <2>2. CASE conn' = conn
    BY <1>2, <2>1, <2>2, SetSavepointEffect DEF Pools, pageVars
  <2>3. CASE conn' # conn
    <3>1. PICK p \in Savepoints :
             conn' = [conn EXCEPT ![Top.conn] = [state |-> "open", active |-> TRUE,
                                                 work |-> Append(conn[Top.conn].work, p)]]
      BY <1>2, <2>3, SetSavepointEffect
    <3>2. Top.conn \in Conns /\ conn[Top.conn].state = "open" /\ pool' = pool
      BY <1>2, <2>3, SetSavepointEffect DEF pageVars
    <3>3. Append(conn[Top.conn].work, p) \in Seq(Writes \cup Savepoints)
      BY <3>2, ConnFacts
    <3> DEFINE r == [state |-> "open", active |-> TRUE, work |-> Append(conn[Top.conn].work, p)]
    <3>4. r \in Connection /\ r.state = "open" /\ r.active
      BY <3>3 DEF Connection
    <3> HIDE DEF r
    <3>5. conn' = [conn EXCEPT ![Top.conn] = r]
      BY <3>1 DEF r
    <3> QED BY <2>1, <3>2, <3>4, <3>5, PoolsOne
  <2> QED BY <2>1, <2>2, <2>3
<1>3. CASE RollbackTo
  <2>1. CASE UNCHANGED <<conn, hist>>
    BY <1>3, <2>1, RollbackToEffect DEF Others, SameHolders, Pools, pageVars
  <2>2. CASE ~UNCHANGED <<conn, hist>>
    <3>1. PICK c \in Conns, left \in Seq(Writes \cup Savepoints) :
             /\ conn[c].work # <<>>
             /\ conn' = [conn EXCEPT ![c].work = left]
             /\ hist' = [hist EXCEPT !.undone =
                           @ \cup (Written(c) \ {left[i] : i \in DOMAIN left})]
      BY <1>3, <2>2, RollbackToEffect
    <3>2. hist' \in History
      BY <3>1 DEF Others, History, Written
    <3>3. Others'
      BY <1>3, <3>2, RollbackToEffect DEF Others, SameHolders, pageVars
    <3> DEFINE r == [conn[c] EXCEPT !.work = left]
    <3>4. /\ r \in Connection /\ r.state = conn[c].state /\ r.active = conn[c].active
          /\ conn[c].active /\ conn[c].state = "open"
      <4>1. conn[c].active /\ conn[c].state = "open"
        BY <3>1 DEF Pools
      <4> QED BY <4>1, ConnFacts DEF Connection
    <3>5. conn' = [conn EXCEPT ![c] = r]
      BY <3>1
    <3>6. pool' = pool
      BY <1>3, RollbackToEffect DEF pageVars
    <3> HIDE DEF r
    <3>7. Pools'
      BY <3>4, <3>5, <3>6, PoolsOne
    <3> QED BY <3>3, <3>7
  <2> QED BY <2>1, <2>2
<1> QED BY <1>1, <1>2, <1>3

LEMMA HolderFacts ==
    ASSUME TypeOK, NEW c \in Conns, NEW holder \in Holder(c)
    PROVE  \/ holder = 0 /\ Holders(c) = {}
           \/ \E i \in DOMAIN stack : stack[i].conn = c /\ holder = stack[i].id /\ holder \in Ids
<1>1. CASE Holders(c) = {}
  BY <1>1 DEF Holder
<1>2. CASE Holders(c) # {}
  <2>1. PICK i \in Holders(c) : holder = stack[i].id
    BY <1>2 DEF Holder
  <2>2. i \in DOMAIN stack /\ stack[i].conn = c
    BY DEF Holders
  <2>3. stack[i] \in Frame
    BY <2>2 DEF TypeOK
  <2> QED BY <2>1, <2>2, <2>3 DEF Frame
<1> QED BY <1>1, <1>2

LEMMA TakesTyped ==
    ASSUME TypeOK, NEW c \in Conns, Takes(c)
    PROVE  stack' \in Seq(Frame) /\ hist' \in History /\ durable' \subseteq Writes
<1>1. stack' \in Seq(Frame)
  BY SetTopFacts DEF Takes
<1>2. durable' \subseteq Writes
  BY DEF Takes, TypeOK, Written
<1> QED BY <1>1, <1>2 DEF Takes

LEMMA StatementTyped ==
    ASSUME TypeOK, Pooling, Holding, Pools, Others,
           \/ \E name \in Names, query \in BOOLEAN : Connect(name, query)
           \/ Execute \/ Reconnect \/ LoseConnection
    PROVE  Pools' /\ Others'
<1>1. ASSUME NEW name \in Names, NEW query \in BOOLEAN, Connect(name, query)
      PROVE  Pools' /\ Others'
  <2>1. /\ UNCHANGED <<blocks, queried, retried, count, by, committed>>
        /\ stmt' \in Statement \cup {None} /\ (phase' = "execute" => stmt' \in Statement)
    BY <1>1, ConnectEffect
  <2>2. PICK c \in Conns :
           /\ Takes(c) \/ Uses(c)
           /\ \/ pool' = pool /\ conn[c].state # "unused"
              \/ \E d \in Dsns : /\ pool' = [pool EXCEPT ![d] = c]
                                 /\ pool[d] = c \/ (pool[d] = None /\ conn[c].state = "unused")
    BY <1>1, ConnectEffect
  <2>3. Others'
    <3>1. stack' \in Seq(Frame) /\ hist' \in History /\ durable' \subseteq Writes
      BY <2>2, TakesTyped DEF Uses, SameHolders, Others
    <3>2. phase' \in {"execute", "raising"}
      BY <2>2 DEF Takes, Uses
    <3> QED BY <2>1, <3>1, <3>2 DEF Others
  <2> DEFINE busy == [Autocommit EXCEPT !.active = TRUE]
  <2>4. busy \in Connection /\ busy.state = "open" /\ busy.active
    BY AutocommitFacts DEF Connection
  <2>5. CASE conn' = conn /\ conn[c].state # "unused"
    <3>1. pool' = pool
      BY <2>2, <2>5, NoneAssumption DEF Pools
    <3> QED BY <2>3, <2>5, <3>1 DEF Pools
  <2> HIDE DEF busy
  <2>6. CASE conn' = [conn EXCEPT ![c] = busy] /\ conn[c].state \in {"unused", "open"}
    <3>1. \/ pool' = pool /\ conn[c].state \in {"open", "lost"}
          \/ \E d \in Dsns : /\ pool' = [pool EXCEPT ![d] = c]
                             /\ pool[d] = c \/ (pool[d] = None /\ conn[c].state = "unused")
      BY <2>2, <2>6
    <3> QED BY <2>3, <2>4, <2>6, <3>1, PoolsOne
  <2>7. CASE conn' = [conn EXCEPT ![c] = Autocommit] /\ conn[c].state = "unused"
    <3>1. \E d \in Dsns : /\ pool' = [pool EXCEPT ![d] = c]
                          /\ pool[d] = c \/ (pool[d] = None /\ conn[c].state = "unused")
      BY <2>2, <2>7
    <3> QED BY <2>3, <2>7, <3>1, PoolsOne, AutocommitFacts
  <2> QED BY <2>2, <2>5, <2>6, <2>7 DEF Takes, Uses, busy
<1>2. CASE Execute
  <2>1. /\ phase' = "page" /\ stmt' = None /\ queried' \subseteq Dsns
        /\ UNCHANGED <<stack, blocks, pool, retried, count, committed, hist>>
    BY <1>2, ExecuteEffect
  <2>2. CASE UNCHANGED <<by, conn, durable>>
    BY <2>1, <2>2 DEF Others, Pools
  <2>3. ASSUME NEW c \in Conns, NEW w \in Writes, Makes(c, w)
        PROVE  Pools' /\ Others'
    <3>1. by' \in [Writes -> (0 .. MaxBlocks) \cup {None}]
      <4>1. PICK holder \in Holder(c) : by' = [by EXCEPT ![w] = holder]
        BY <2>3 DEF Makes
      <4>2. holder \in 0 .. MaxBlocks
        BY HolderFacts, BoundAssumption DEF Ids
      <4> QED BY <4>1, <4>2 DEF Others
    <3>2. Others'
      BY <2>1, <2>3, <3>1 DEF Others, Makes
    <3>3. CASE conn' = conn
      BY <2>1, <3>2, <3>3 DEF Pools
    <3>4. CASE conn[c].active /\ conn' = [conn EXCEPT ![c].work = Append(conn[c].work, w)]
      <4> DEFINE r == [conn[c] EXCEPT !.work = Append(conn[c].work, w)]
      <4>1. Append(conn[c].work, w) \in Seq(Writes \cup Savepoints)
        BY ConnFacts
      <4>2. conn[c].state = "open"
        BY <3>4 DEF Pools
      <4>3. r \in Connection /\ r.state = "open" /\ r.active
        BY <3>4, <4>1, <4>2, ConnFacts DEF Connection
      <4>4. conn' = [conn EXCEPT ![c] = r]
        BY <3>4
      <4> HIDE DEF r
      <4> QED BY <2>1, <3>2, <4>2, <4>3, <4>4, PoolsOne
    <3> QED BY <2>3, <3>3, <3>4 DEF Makes
  <2> QED BY <1>2, <2>2, <2>3, ExecuteEffect
<1>3. CASE Reconnect
  <2>1. PICK d \in Dsns, conns \in [Conns -> Connection] :
              /\ phase' \in {"execute", "raising"}
              /\ conns = DeletedIn(conn, {pool[d]})
              /\ retried' \subseteq Dsns
              /\ stmt' \in Statement \cup {None} /\ (phase' = "execute" => stmt' \in Statement)
              /\ \/ conn' = conns /\ pool' = [pool EXCEPT ![d] = None]
                 \/ \E c \in Conns : /\ conn[c].state = "unused"
                                     /\ conn' = [conns EXCEPT ![c] = Autocommit]
                                     /\ pool' = [pool EXCEPT ![d] = c]
              /\ UNCHANGED <<stack, blocks, durable, queried, count, by, committed, hist>>
    BY <1>3, ReconnectEffect
  <2>2. Others'
    BY <2>1 DEF Others
  <2>3. CASE conn' = conns /\ pool' = [pool EXCEPT ![d] = None]
    BY <2>1, <2>2, <2>3, PoolsWithout
  <2>4. ASSUME NEW c \in Conns, conn[c].state = "unused", conn' = [conns EXCEPT ![c] = Autocommit],
               pool' = [pool EXCEPT ![d] = c]
        PROVE  Pools'
    <3>1. \A x \in Conns : conn'[x] = IF x = c THEN Autocommit
                                     ELSE IF x = pool[d] THEN In("deleted") ELSE conn[x]
      BY <2>1, <2>4, DeletedFacts
    <3>2. \A e \in Dsns : pool'[e] = IF e = d THEN c ELSE pool[e]
      BY <2>4 DEF Pools
    <3>3. \A e \in Dsns : pool[e] # c /\ (pool[e] = pool[d] /\ pool[e] # None => e = d)
      BY <2>4, NoneAssumption DEF Pools
    <3>4. conn' \in [Conns -> Connection] /\ pool' \in [Dsns -> Conns \cup {None}]
      BY <2>1, <2>4, AutocommitFacts DEF Pools
    <3>5. \A e \in Dsns : pool'[e] # None => conn'[pool'[e]].state \in {"open", "lost"}
      BY <3>1, <3>2, <3>3, AutocommitFacts DEF Pools
    <3>6. \A x \in Conns : conn'[x].state \in {"open", "lost"} => \E e \in Dsns : pool'[e] = x
      <4> SUFFICES ASSUME NEW x \in Conns, conn'[x].state \in {"open", "lost"}, x # c
                   PROVE  \E e \in Dsns : pool'[e] = x
        BY <3>2
      <4>1. x # pool[d] /\ conn'[x] = conn[x]
        BY <3>1, InFacts
      <4>2. PICK e \in Dsns : pool[e] = x
        BY <4>1 DEF Pools
      <4> QED BY <3>2, <4>1, <4>2
    <3>7. \A e, f \in Dsns : pool'[e] = pool'[f] /\ pool'[e] # None => e = f
      BY <3>2, <3>3 DEF Pools
    <3>8. \A x \in Conns : /\ conn'[x].state # "open" => ~conn'[x].active
                           /\ ~conn'[x].active => conn'[x].work = <<>>
      BY <3>1, AutocommitFacts, InFacts DEF Pools
    <3> QED BY <3>4, <3>5, <3>6, <3>7, <3>8 DEF Pools
  <2> QED BY <2>1, <2>2, <2>3, <2>4
<1>4. CASE LoseConnection
  <2>1. PICK c \in Pooled : conn[c].state = "open" /\ conn' = [conn EXCEPT ![c] = In("lost")]
    BY <1>4 DEF LoseConnection
  <2>2. c \in Conns /\ pool' = pool
    BY <1>4 DEF Pooled, LoseConnection, pageVars
  <2>3. Pools'
    BY <2>1, <2>2, PoolsOne, InFacts
  <2> QED BY <1>4, <2>3 DEF LoseConnection, Others, pageVars
<1> QED BY <1>1, <1>2, <1>3, <1>4

-------------------------------------------------------------------------------
(* Frames, their connections and their writes.                             *)

Linked == NamedOnce /\ Holding /\ Accounted /\ FrameAtomic /\ OutsideIsDurable /\ DurableRan

LEMMA FrameFacts ==
    ASSUME TypeOK
    PROVE  /\ \A i \in DOMAIN stack : /\ stack[i] \in Frame /\ stack[i].id \in Ids
                                      /\ stack[i].conn \in Conns \cup {None}
           /\ Ids \subseteq Nat \ {0} /\ count.blocks \in Nat
           /\ \A w \in Writes : by[w] \in Nat \cup {None}
           /\ None \notin Nat /\ None \notin Conns
<1>1. Ids \subseteq Nat \ {0} /\ count.blocks \in Nat /\ \A w \in Writes : by[w] \in Nat \cup {None}
  BY BoundAssumption DEF Ids, TypeOK
<1>2. \A i \in DOMAIN stack : stack[i] \in Frame
  BY DEF TypeOK
<1> QED BY <1>1, <1>2, NoneAssumption DEF Frame

\* A step that gives no frame a connection and ends none: connections may close and
\* savepoints undo what is written on them.
Steady ==
    /\ SameHolders /\ count'.blocks = count.blocks /\ UNCHANGED <<by, durable, committed>>
    /\ hist'.mixed = hist.mixed /\ hist.undone \subseteq hist'.undone
    /\ phase' # "idle" => phase # "idle"
    /\ \A c \in Conns :
          /\ conn'[c].state = "unused" => conn[c].state = "unused"
          /\ conn'[c].active => conn[c].active \/ Holders(c) # {}
          /\ Written(c)' \subseteq Written(c)
          /\ phase' # "idle" /\ conn'[c].state = "open" /\ conn[c].state # "unused" =>
                /\ conn[c].state = "open" /\ (conn[c].active => conn'[c].active)
                /\ Written(c) \subseteq Written(c)' \cup hist'.undone

LEMMA SteadyLinked ==
    ASSUME TypeOK, Linked, Steady
    PROVE  Linked'
<1>1. /\ DOMAIN stack' = DOMAIN stack
      /\ \A i \in DOMAIN stack : stack'[i].id = stack[i].id /\ stack'[i].conn = stack[i].conn
  BY DEF Steady, SameHolders
<1>2. NamedOnce'
  BY <1>1 DEF Linked, NamedOnce, Steady
<1>3. \A c \in Conns : Holders(c)' = Holders(c)
  BY <1>1 DEF Holders
<1>4. Holding'
  <2>1. \A i \in DOMAIN stack' : stack'[i].conn # None => conn'[stack'[i].conn].state # "unused"
    BY <1>1, FrameFacts DEF Linked, Holding, Steady
  <2>2. \A i, j \in DOMAIN stack' :
          stack'[i].conn = stack'[j].conn /\ stack'[i].conn # None /\ i # j => stack'[i].id \in hist'.mixed
    BY <1>1 DEF Linked, Holding, Steady
  <2>3. \A c \in Conns : conn'[c].active => Holders(c)' # {}
    BY <1>3 DEF Linked, Holding, Steady
  <2>4. ASSUME phase' # "idle", NEW i \in DOMAIN stack', stack'[i].conn # None,
               stack'[i].id \notin hist'.mixed, conn'[stack'[i].conn].state = "open"
        PROVE  conn'[stack'[i].conn].active
    <3>1. i \in DOMAIN stack /\ stack[i].conn \in Conns /\ stack[i].conn = stack'[i].conn
      BY <1>1, <2>4, FrameFacts
    <3>2. conn[stack[i].conn].state # "unused" /\ phase # "idle" /\ stack[i].id \notin hist.mixed
      BY <1>1, <2>4, <3>1 DEF Linked, Holding, Steady
    <3>3. conn[stack[i].conn].state = "open"
      BY <2>4, <3>1, <3>2 DEF Steady
    <3>4. conn[stack[i].conn].active
      BY <2>4, <3>1, <3>2, <3>3 DEF Linked, Holding
    <3> QED BY <2>4, <3>1, <3>2, <3>4 DEF Steady
  <2> QED BY <2>1, <2>2, <2>3, <2>4 DEF Holding
<1>5. Accounted'
  <2>1. ASSUME NEW c \in Conns, NEW w \in Writes, w \in Written(c)', by'[w] \notin hist'.mixed
        PROVE  \E i \in DOMAIN stack' : stack'[i].id = by'[w] /\ stack'[i].conn = c
    <3>1. w \in Written(c) /\ by[w] \notin hist.mixed /\ by'[w] = by[w]
      BY <2>1 DEF Steady
    <3> QED BY <1>1, <3>1 DEF Linked, Accounted
  <2>2. ASSUME NEW w \in Writes, NEW i \in DOMAIN stack', by'[w] = stack'[i].id
        PROVE  /\ stack'[i].conn # None
               /\ phase' # "idle" /\ by'[w] \notin hist'.mixed /\ conn'[stack'[i].conn].state = "open"
                    => w \in Written(stack[i].conn)' \cup hist'.undone
    <3>1. i \in DOMAIN stack /\ by[w] = stack[i].id /\ stack'[i].conn = stack[i].conn
      BY <1>1, <2>2 DEF Steady
    <3>2. stack[i].conn \in Conns /\ conn[stack[i].conn].state # "unused"
      BY <3>1, FrameFacts DEF Linked, Accounted, Holding
    <3>3. ASSUME phase' # "idle", by'[w] \notin hist'.mixed, conn'[stack'[i].conn].state = "open"
          PROVE  w \in Written(stack[i].conn)' \cup hist'.undone
      <4>0. PICK c \in Conns : c = stack[i].conn
        BY <3>2
      <4>1. phase # "idle" /\ by[w] \notin hist.mixed
        BY <3>3 DEF Steady
      <4>2. conn[c].state = "open" /\ Written(c) \subseteq Written(c)' \cup hist'.undone
        BY <3>1, <3>2, <3>3, <4>0 DEF Steady
      <4>3. w \in Written(c) \cup hist.undone
        BY <3>1, <4>0, <4>1, <4>2 DEF Linked, Accounted
      <4>4. Written(stack[i].conn)' = Written(c)'
        BY <3>1, <4>0 DEF Written
      <4> QED BY <4>2, <4>3, <4>4 DEF Steady
    <3> QED BY <3>1, <3>2, <3>3, FrameFacts
  <2>3. \A w \in Writes, i \in DOMAIN stack' :
          by'[w] = stack'[i].id =>
             /\ stack'[i].conn # None
             /\ phase' # "idle" /\ by'[w] \notin hist'.mixed /\ conn'[stack'[i].conn].state = "open"
                  => w \in Written(stack[i].conn)' \cup hist'.undone
    BY <2>2
  <2> QED BY <2>1, <2>3 DEF Accounted
<1>6. FrameAtomic' /\ OutsideIsDurable' /\ DurableRan'
  BY DEF Linked, FrameAtomic, OutsideIsDurable, DurableRan, Steady
<1> QED BY <1>2, <1>4, <1>5, <1>6 DEF Linked

LEMMA WrittenFacts ==
    ASSUME TypeOK, Pools
    PROVE  /\ \A c \in Conns : ~conn[c].active => Written(c) = {}
           /\ \A c \in Conns : Written(c) \subseteq Writes
  BY DEF Written, Pools

\* Where all that becomes of a connection is that it is emptied, ended or deleted.
LEMMA ClosingIsSteady ==
    ASSUME TypeOK, Pools, SameHolders, count'.blocks = count.blocks,
           UNCHANGED <<by, durable, committed, hist>>, phase' # "idle" => phase # "idle",
           \A c \in Conns :
              \/ conn'[c] = conn[c]
              \/ conn'[c].state \in {"lost", "deleted"} /\ ~conn'[c].active /\ conn'[c].work = <<>>
              \/ conn[c].state = "unused" /\ conn'[c] = Autocommit
              \/ phase' = "idle" /\ conn'[c] = Autocommit
    PROVE  Steady
<1>1. \A c \in Conns : conn'[c] = conn[c] => Written(c)' = Written(c)
  BY DEF Written
<1>2. \A c \in Conns : conn'[c].work = <<>> => Written(c)' = {}
  BY DEF Written
<1> QED BY <1>1, <1>2, AutocommitFacts DEF Steady

LEMMA QuietSteady ==
    ASSUME TypeOK, Pooling, Pools,
           \/ LeaveBlock \/ Catch \/ ExecuteFails \/ \E name \in Names : ConnectFails(name)
           \/ FinishRequest \/ InvalidateCaches \/ LoseConnection \/ Reconnect
    PROVE  Steady
<1>0. (stack' = stack => SameHolders)
  BY DEF TypeOK, SameHolders
<1>1. CASE LeaveBlock \/ Catch \/ ExecuteFails \/ \E name \in Names : ConnectFails(name)
  BY <1>1, QuietEffect, ClosingIsSteady
<1>2. CASE FinishRequest
  <2>1. \A c \in Conns : conn'[c] \in {conn[c], Autocommit}
    BY <1>2, FinishEffect, EndedFacts
  <2> QED BY <1>0, <1>2, <2>1, FinishEffect, ClosingIsSteady DEF pageVars
<1>3. CASE InvalidateCaches
  <2>1. \A c \in Conns : conn'[c] = conn[c] \/ conn'[c] = In("deleted")
    BY <1>3, DeletedFacts DEF InvalidateCaches
  <2>2. phase' # "idle" /\ phase # "idle" /\ SameHolders /\ UNCHANGED <<count, by, durable, committed, hist>>
    BY <1>0, <1>3 DEF InvalidateCaches
  <2> QED BY <2>1, <2>2, InFacts, ClosingIsSteady
<1>4. CASE LoseConnection
  <2>1. \A c \in Conns : conn'[c] = conn[c] \/ conn'[c] = In("lost")
    BY <1>4 DEF LoseConnection, TypeOK
  <2>2. phase # "idle" /\ SameHolders /\ UNCHANGED <<count, by, durable, committed, hist>>
    BY <1>0, <1>4 DEF LoseConnection, pageVars
  <2> QED BY <2>1, <2>2, InFacts, ClosingIsSteady
<1>5. CASE Reconnect
  <2>1. PICK d \in Dsns, conns \in [Conns -> Connection] :
              /\ phase = "execute"
              /\ conns = DeletedIn(conn, {pool[d]})
              /\ \/ conn' = conns
                 \/ \E c \in Conns : conn[c].state = "unused" /\ conn' = [conns EXCEPT ![c] = Autocommit]
              /\ UNCHANGED <<stack, durable, count, by, committed, hist>>
    BY <1>5, ReconnectEffect
  <2>2. \A c \in Conns : conns[c] = conn[c] \/ conns[c] = In("deleted")
    BY <2>1, DeletedFacts
  <2>3. \A c \in Conns : \/ conn'[c] = conn[c] \/ conn'[c] = In("deleted")
                         \/ conn[c].state = "unused" /\ conn'[c] = Autocommit
    BY <2>1, <2>2
  <2> QED BY <1>0, <2>1, <2>3, InFacts, ClosingIsSteady
<1> QED BY <1>1, <1>2, <1>3, <1>4, <1>5

LEMMA SavepointSteady ==
    ASSUME TypeOK, Pools, SetSavepoint \/ RollbackTo
    PROVE  Steady
<1>1. CASE UNCHANGED <<conn, hist>>
  <2>1. /\ SameHolders /\ phase # "idle"
        /\ UNCHANGED <<durable, committed, pageVars>>
    BY SetSavepointEffect, RollbackToEffect
  <2> QED BY <1>1, <2>1, ClosingIsSteady DEF pageVars
<1>2. CASE SetSavepoint /\ conn' # conn
  <2>1. PICK p \in Savepoints :
           conn' = [conn EXCEPT ![Top.conn] = [state |-> "open", active |-> TRUE,
                                               work |-> Append(conn[Top.conn].work, p)]]
    BY <1>2, SetSavepointEffect
  <2>2. /\ Top.conn \in Conns /\ stack # <<>> /\ conn[Top.conn].state = "open"
        /\ SameHolders /\ phase = "page" /\ UNCHANGED <<durable, committed, hist, pageVars>>
    BY <1>2, SetSavepointEffect
  <2>3. Holders(Top.conn) # {}
    BY <2>2, TopFacts DEF Holders
  <2>4. PICK c \in Conns : c = Top.conn
    BY <2>2
  <2>5. \A x \in Conns : conn'[x] = IF x = c THEN [state |-> "open", active |-> TRUE,
                                                   work |-> Append(conn[c].work, p)]
                                    ELSE conn[x]
    BY <2>1, <2>4 DEF Pools
  <2>6. \A x \in Conns : Written(x)' = Written(x)
    <3>1. \A x \in Conns : x # c => Written(x)' = Written(x)
      BY <2>5 DEF Written
    <3>2. Written(c)' = Written(c)
      <4> DEFINE work == conn[c].work
      <4>1. work \in Seq(Writes \cup Savepoints) /\ conn'[c].work = Append(work, p)
        BY <2>5, ConnFacts
      <4>2. p \notin Writes
        BY EntryAssumption
      <4> HIDE DEF work
      <4>3. {Append(work, p)[i] : i \in DOMAIN Append(work, p)} = {work[i] : i \in DOMAIN work} \cup {p}
        BY <4>1, AppendFacts
      <4> QED BY <4>1, <4>2, <4>3 DEF Written, work
    <3> QED BY <3>1, <3>2
  <2> QED BY <2>2, <2>3, <2>4, <2>5, <2>6 DEF Steady, pageVars
<1>3. CASE RollbackTo /\ ~UNCHANGED <<conn, hist>>
  <2>1. PICK c \in Conns, left \in Seq(Writes \cup Savepoints) :
           /\ \A i \in DOMAIN left : \E j \in DOMAIN conn[c].work : left[i] = conn[c].work[j]
           /\ conn' = [conn EXCEPT ![c].work = left]
           /\ hist' = [hist EXCEPT !.undone =
                         @ \cup (Written(c) \ {left[i] : i \in DOMAIN left})]
    BY <1>3, RollbackToEffect
  <2>2. SameHolders /\ phase = "page" /\ UNCHANGED <<durable, committed, pageVars>>
    BY <1>3, RollbackToEffect
  <2>3. \A x \in Conns : /\ conn'[x].state = conn[x].state /\ conn'[x].active = conn[x].active
                         /\ conn'[x].work = IF x = c THEN left ELSE conn[x].work
    BY <2>1, ConnFacts DEF Pools, Connection
  <2>4. /\ hist'.mixed = hist.mixed
        /\ hist'.undone = hist.undone \cup (Written(c) \ {left[i] : i \in DOMAIN left})
    BY <2>1 DEF TypeOK, History
  <2>5. \A x \in Conns : x # c => Written(x)' = Written(x)
    BY <2>3 DEF Written
  <2>6. Written(c)' = {left[i] : i \in DOMAIN left} \cap Writes
    BY <2>3 DEF Written
  <2>7. Written(c)' \subseteq Written(c)
    BY <2>1, <2>6 DEF Written
  <2>8. Written(c) \subseteq Written(c)' \cup hist'.undone
    BY <2>4, <2>6, WrittenFacts
  <2> QED BY <2>2, <2>3, <2>4, <2>5, <2>7, <2>8 DEF Steady, pageVars
<1> QED BY <1>1, <1>2, <1>3, SetSavepointEffect

LEMMA BeginLinked ==
    ASSUME TypeOK, Pools, Linked, NothingPending, BeginRequest
    PROVE  Linked'
<1>0. /\ stack' = <<>> /\ DOMAIN stack' = {} /\ count'.blocks = count.blocks
      /\ UNCHANGED <<durable, by, committed, hist>>
  BY BeginEffect
<1>1. \A c \in Conns : ~conn[c].active
  <2>1. phase = "idle"
    BY BeginEffect
  <2>2. \A c \in Conns : conn[c].state = "open" => c \in Pooled
    BY DEF Pools, Pooled
  <2> QED BY <2>1, <2>2 DEF NothingPending, Pools
<1>2. \A c \in Conns : ~conn'[c].active /\ conn'[c].work = <<>>
  <2>1. \A c \in Conns : conn'[c] \in {conn[c], Autocommit, In("deleted")}
    BY BeginEffect, EndedFacts, DeletedFacts
  <2> QED BY <1>1, <2>1, AutocommitFacts, InFacts DEF Pools
<1>3. NamedOnce' /\ FrameAtomic' /\ OutsideIsDurable' /\ DurableRan'
  BY <1>0 DEF Linked, NamedOnce, FrameAtomic, OutsideIsDurable, DurableRan
<1>4. Holding'
  BY <1>0, <1>2 DEF Holding
<1>5. Accounted'
  <2>1. \A c \in Conns : Written(c)' = {}
    BY <1>2 DEF Written
  <2> QED BY <1>0, <2>1 DEF Accounted
<1> QED BY <1>3, <1>4, <1>5 DEF Linked

LEMMA OpenLinked ==
    ASSUME TypeOK, Linked, OpenBlock
    PROVE  Linked'
<1>1. PICK frame \in Frame :
         /\ frame.id = count.blocks + 1 /\ frame.conn = None
         /\ stack' = Append(stack, frame)
         /\ count'.blocks = frame.id
         /\ phase = "page"
         /\ UNCHANGED <<phase, pool, conn, durable, by, committed, hist>>
  BY OpenEffect
<1> DEFINE top == Len(stack) + 1
<1>2. /\ DOMAIN stack' = DOMAIN stack \cup {top} /\ top \notin DOMAIN stack
      /\ stack'[top] = frame
      /\ \A i \in DOMAIN stack : stack'[i] = stack[i]
  BY <1>1, AppendFacts DEF TypeOK
<1>3. /\ count.blocks \in Nat
      /\ \A i \in DOMAIN stack : stack[i].id \in Nat /\ stack[i].id <= count.blocks
      /\ \A w \in Writes : by[w] = None \/ (by[w] \in Nat /\ by[w] <= count.blocks)
      /\ \A f \in committed : f \in Nat /\ f <= count.blocks
      /\ None \notin Nat
  BY FrameFacts DEF Linked, NamedOnce, TypeOK
<1> HIDE DEF top
<1>4. NamedOnce'
  <2>1. \A i, j \in DOMAIN stack' : stack'[i].id = stack'[j].id => i = j
    BY <1>1, <1>2, <1>3 DEF Linked, NamedOnce
  <2>2. \A i \in DOMAIN stack' : stack'[i].id <= count'.blocks /\ stack'[i].id \notin committed'
    BY <1>1, <1>2, <1>3 DEF Linked, NamedOnce
  <2>3. \A f \in committed' : f <= count'.blocks
    BY <1>1, <1>3
  <2>4. \A w \in Writes : by'[w] # None => by'[w] <= count'.blocks
    BY <1>1, <1>3
  <2> QED BY <2>1, <2>2, <2>3, <2>4 DEF NamedOnce
<1>5. Holding'
  <2>1. \A c \in Conns : Holders(c) \subseteq Holders(c)'
    BY <1>2 DEF Holders
  <2> QED BY <1>1, <1>2, <2>1 DEF Linked, Holding
<1>6. Accounted'
  <2>1. \A c \in Conns : Written(c)' = Written(c)
    BY <1>1 DEF Written
  <2>2. \A w \in Writes : by'[w] # frame.id
    BY <1>1, <1>3
  <2>3. ASSUME NEW c \in Conns, NEW w \in Writes, w \in Written(c)', by'[w] \notin hist'.mixed
        PROVE  \E i \in DOMAIN stack' : stack'[i].id = by'[w] /\ stack'[i].conn = c
    <3>1. PICK i \in DOMAIN stack : stack[i].id = by[w] /\ stack[i].conn = c
      BY <1>1, <2>1, <2>3 DEF Linked, Accounted
    <3> QED BY <1>1, <1>2, <3>1
  <2>4. ASSUME NEW w \in Writes, NEW i \in DOMAIN stack', by'[w] = stack'[i].id
        PROVE  /\ stack'[i].conn # None
               /\ phase' # "idle" /\ by'[w] \notin hist'.mixed /\ conn'[stack'[i].conn].state = "open"
                    => w \in Written(stack[i].conn)' \cup hist'.undone
    <3>1. i \in DOMAIN stack /\ stack'[i] = stack[i] /\ by[w] = stack[i].id
      BY <1>1, <1>2, <2>2, <2>4
    <3>2. Written(stack[i].conn)' = Written(stack[i].conn)
      BY <1>1, <3>1 DEF Written
    <3> QED BY <1>1, <3>1, <3>2 DEF Linked, Accounted
  <2> QED BY <2>3, <2>4 DEF Accounted
<1>7. FrameAtomic' /\ OutsideIsDurable' /\ DurableRan'
  BY <1>1 DEF Linked, FrameAtomic, OutsideIsDurable, DurableRan
<1> QED BY <1>4, <1>5, <1>6, <1>7 DEF Linked

LEMMA WrittenRan ==
    ASSUME TypeOK, Linked
    PROVE  \A c \in Conns : \A w \in Written(c) : by[w] # None
<1> SUFFICES ASSUME NEW c \in Conns, NEW w \in Written(c), by[w] = None PROVE FALSE
  OBVIOUS
<1>1. w \in Writes /\ by[w] \notin hist.mixed
  BY FrameFacts DEF Written, TypeOK, History
<1>2. \E i \in DOMAIN stack : stack[i].id = by[w]
  BY <1>1 DEF Linked, Accounted
<1> QED BY <1>2, FrameFacts

\* A commit makes durable what the frame has written and nothing else.
LEMMA EndedLinked ==
    ASSUME TypeOK, Pools, Linked, phase # "idle", NEW commits \in BOOLEAN, Ended(commits), SameHist,
           UNCHANGED <<by, count>>
    PROVE  Linked'
<1> DEFINE n == Len(stack)
<1>1. /\ n \in DOMAIN stack /\ Top = stack[n] /\ DOMAIN stack' = DOMAIN stack \ {n}
      /\ \A i \in DOMAIN stack' : i \in DOMAIN stack /\ stack'[i] = stack[i]
  <2>1. stack \in Seq(Frame) /\ stack # <<>> /\ stack' = Pop(stack)
    BY DEF TypeOK, Ended
  <2>2. 1 .. n - 1 = (1 .. n) \ {n}
    BY <2>1, PopFacts
  <2> QED BY <2>1, <2>2, PopFacts DEF Top
<1> HIDE DEF n
<1>2. PICK t : t = Top /\ t.id \in Ids /\ t.conn \in Conns \cup {None} /\ t.id = stack[n].id
                       /\ t.conn = stack[n].conn
  BY <1>1, TopFacts DEF Ended
<1>3. \A i \in DOMAIN stack : stack[i].id = t.id => i = n
  BY <1>1, <1>2 DEF Linked, NamedOnce
<1>4. \A c \in Conns : /\ conn'[c].state = conn[c].state
                       /\ c = t.conn => ~conn'[c].active /\ Written(c)' = {}
                       /\ c # t.conn => conn'[c] = conn[c] /\ Written(c)' = Written(c)
  <2>1. \A c \in Conns : /\ c = t.conn => conn'[c] = Autocommit
                         /\ c # t.conn => conn'[c] = conn[c]
    <3>1. conn' = EndedIn({t.conn}) /\ (t.conn \in Conns => conn[t.conn].state = "open")
      BY <1>2, NoneAssumption DEF Ended
    <3> QED BY <3>1 DEF EndedIn
  <2>2. \A c \in Conns : conn'[c].state = conn[c].state
    BY EndedFacts DEF Ended
  <2> QED BY <2>1, <2>2, AutocommitFacts DEF Written
<1>5. \A i \in DOMAIN stack' : stack'[i].conn = t.conn /\ t.conn # None => stack'[i].id \in hist.mixed
  BY <1>1, <1>2 DEF Linked, Holding
<1>6. NamedOnce'
  <2>1. \A f \in committed' : f <= count'.blocks
    BY <1>1, <1>2 DEF Ended, Linked, NamedOnce
  <2> QED BY <1>1, <1>2, <1>3, <2>1 DEF Ended, Linked, NamedOnce
<1>7. Holding'
  <2>1. \A i \in DOMAIN stack' : stack'[i].conn # None => conn'[stack'[i].conn].state # "unused"
    BY <1>1, <1>4, FrameFacts DEF Linked, Holding
  <2>2. \A i, j \in DOMAIN stack' :
          stack'[i].conn = stack'[j].conn /\ stack'[i].conn # None /\ i # j => stack'[i].id \in hist'.mixed
    BY <1>1 DEF Linked, Holding, SameHist
  <2>3. ASSUME NEW c \in Conns, conn'[c].active PROVE Holders(c)' # {}
    <3>1. c # t.conn /\ conn[c].active
      BY <1>4, <2>3
    <3>2. PICK i \in DOMAIN stack : stack[i].conn = c
      BY <3>1 DEF Linked, Holding, Holders
    <3>3. i # n
      BY <1>2, <3>1, <3>2
    <3> QED BY <1>1, <3>2, <3>3 DEF Holders
  <2>4. ASSUME NEW i \in DOMAIN stack', stack'[i].conn # None,
               stack'[i].id \notin hist'.mixed, conn'[stack'[i].conn].state = "open"
        PROVE  conn'[stack'[i].conn].active
    <3>1. stack'[i].conn # t.conn /\ stack'[i] = stack[i] /\ i \in DOMAIN stack /\ stack[i].conn \in Conns
      BY <1>1, <1>5, <2>4, FrameFacts DEF SameHist
    <3>2. conn'[stack[i].conn] = conn[stack[i].conn]
      BY <1>4, <3>1
    <3> QED BY <2>4, <3>1, <3>2 DEF Linked, Holding, SameHist
  <2> QED BY <2>1, <2>2, <2>3, <2>4 DEF Holding
<1>8. Accounted'
  <2>1. ASSUME NEW c \in Conns, NEW w \in Writes, w \in Written(c)', by'[w] \notin hist'.mixed
        PROVE  \E i \in DOMAIN stack' : stack'[i].id = by'[w] /\ stack'[i].conn = c
    <3>1. c # t.conn /\ w \in Written(c)
      BY <1>4, <2>1
    <3>2. PICK i \in DOMAIN stack : stack[i].id = by[w] /\ stack[i].conn = c
      BY <2>1, <3>1 DEF Linked, Accounted, SameHist
    <3>3. i # n
      BY <1>2, <3>1, <3>2
    <3> QED BY <1>1, <3>2, <3>3
  <2>2. ASSUME NEW w \in Writes, NEW i \in DOMAIN stack', by'[w] = stack'[i].id
        PROVE  /\ stack'[i].conn # None
               /\ phase' # "idle" /\ by'[w] \notin hist'.mixed /\ conn'[stack'[i].conn].state = "open"
                    => w \in Written(stack[i].conn)' \cup hist'.undone
    <3>1. stack'[i] = stack[i] /\ i \in DOMAIN stack /\ stack[i].conn \in Conns
      BY <1>1, <2>2, FrameFacts DEF Linked, Accounted
    <3>2. by'[w] \notin hist'.mixed => stack[i].conn # t.conn
      BY <1>5, <2>2, <3>1, FrameFacts DEF SameHist
    <3>3. PICK c \in Conns : c = stack[i].conn
      BY <3>1
    <3>4. Written(stack[i].conn)' = Written(c)'
      BY <3>1, <3>3 DEF Written
    <3>5. by'[w] \notin hist'.mixed => conn'[c] = conn[c] /\ Written(c)' = Written(c)
      BY <1>4, <3>2, <3>3
    <3> QED BY <2>2, <3>1, <3>3, <3>4, <3>5, FrameFacts DEF Linked, Accounted, SameHist
  <2> QED BY <2>1, <2>2 DEF Accounted
<1>9. FrameAtomic'
  <2> SUFFICES ASSUME NEW w \in Writes, by[w] \in Ids \ hist.mixed
               PROVE  /\ w \in durable' => by[w] \in committed'
                      /\ by[w] \in committed' => w \in durable' \cup hist.undone
    BY DEF FrameAtomic, SameHist
  <2>1. ASSUME w \in durable' \ durable PROVE by[w] \in committed'
    <3>1. commits /\ t.conn # None /\ w \in Written(t.conn)
      BY <1>2, <2>1 DEF Ended
    <3>2. PICK i \in DOMAIN stack : stack[i].id = by[w] /\ stack[i].conn = t.conn
      BY <1>2, <3>1 DEF Linked, Accounted
    <3>3. i = n
      BY <1>1, <1>2, <3>1, <3>2 DEF Linked, Holding
    <3> QED BY <1>2, <3>1, <3>2, <3>3 DEF Ended
  <2>2. ASSUME by[w] \in committed' \ committed PROVE w \in durable' \cup hist.undone
    <3>1. commits /\ by[w] = t.id
      BY <1>2, <2>2 DEF Ended
    <3>2. t.conn # None /\ conn[t.conn].state = "open"
      BY <1>1, <1>2, <3>1 DEF Linked, Accounted, Ended
    <3>3. w \in Written(t.conn) \cup hist.undone
      BY <1>1, <1>2, <3>1, <3>2 DEF Linked, Accounted
    <3> QED BY <1>2, <3>1, <3>2, <3>3 DEF Ended
  <2>3. durable \subseteq durable' /\ committed \subseteq committed'
    BY DEF Ended
  <2> QED BY <2>1, <2>2, <2>3 DEF Linked, FrameAtomic
<1>10. OutsideIsDurable' /\ DurableRan'
  <2>1. durable \subseteq durable' /\ \A w \in durable' \ durable :
                                       t.conn \in Conns /\ w \in Written(t.conn)
    BY <1>2 DEF Ended
  <2> QED BY <2>1, WrittenRan DEF Linked, OutsideIsDurable, DurableRan
<1> QED BY <1>6, <1>7, <1>8, <1>9, <1>10 DEF Linked

LEMMA TakesLinked ==
    ASSUME TypeOK, Pools, Linked, NEW c \in Conns, Takes(c), phase = "page",
           UNCHANGED <<by, count, committed>>
    PROVE  Linked'
<1> DEFINE n == Len(stack)
<1>1. /\ n \in DOMAIN stack /\ stack[n].conn = None
      /\ DOMAIN stack' = DOMAIN stack
      /\ stack'[n].id = stack[n].id /\ stack'[n].conn = c
      /\ \A i \in DOMAIN stack : i # n => stack'[i] = stack[i]
  BY SetTopFacts, TopFacts DEF Takes
<1>2. \A i \in DOMAIN stack : stack[i].conn = c => stack[i].id \in hist'.mixed /\ stack[n].id \in hist'.mixed
  BY TopFacts DEF Takes, Holders
<1> HIDE DEF n
<1>3. \A i \in DOMAIN stack : stack'[i].id = stack[i].id
  BY <1>1
<1>4. hist.mixed \subseteq hist'.mixed /\ hist'.undone = hist.undone /\ c # None
  BY NoneAssumption DEF Takes
<1>5. \A x \in Conns : x # c => conn'[x] = conn[x] /\ Written(x)' = Written(x)
  <2>1. \A x \in Conns : x # c => conn'[x] = conn[x]
    BY DEF Takes, Pools
  <2> QED BY <2>1 DEF Written
<1>6. /\ conn'[c].state # "unused"
      /\ conn'[c].state = "open" => conn'[c].active
      /\ Written(c)' \subseteq Written(c)
      /\ durable' = durable \/ durable' = durable \cup Written(c)
  <2>1. CASE conn' = conn /\ durable' = durable /\ conn[c].state # "unused" /\ BeginFails(c)
    <3>1. Backend = "sqlite" \/ conn[c].state # "open"
      BY <2>1 DEF BeginFails
    <3>2. Written(c)' = Written(c)
      BY <2>1 DEF Written
    <3> QED BY <2>1, <3>2 DEF BeginFails
  <2>2. CASE /\ conn' = [conn EXCEPT ![c] = [Autocommit EXCEPT !.active = TRUE]]
             /\ durable' = durable \cup Written(c)
    <3>1. conn'[c] = [Autocommit EXCEPT !.active = TRUE]
      BY <2>2 DEF Pools
    <3>2. conn'[c].state = "open" /\ conn'[c].active /\ conn'[c].work = <<>>
      BY <3>1, AutocommitFacts DEF Connection
    <3>3. Written(c)' = {}
      BY <3>2 DEF Written
    <3> QED BY <2>2, <3>2, <3>3
  <2> QED BY <2>1, <2>2 DEF Takes
<1>7. NamedOnce'
  BY <1>1, <1>3 DEF Linked, NamedOnce
<1>8. Holding'
  <2>1. \A i \in DOMAIN stack' : stack'[i].conn # None => conn'[stack'[i].conn].state # "unused"
    BY <1>1, <1>5, <1>6, FrameFacts DEF Linked, Holding
  <2>2. \A i, j \in DOMAIN stack' :
          stack'[i].conn = stack'[j].conn /\ stack'[i].conn # None /\ i # j => stack'[i].id \in hist'.mixed
    <3> SUFFICES ASSUME NEW i \in DOMAIN stack', NEW j \in DOMAIN stack',
                        stack'[i].conn = stack'[j].conn, stack'[i].conn # None, i # j
                 PROVE  stack'[i].id \in hist'.mixed
      OBVIOUS
    <3>1. CASE i = n
      BY <1>1, <1>2, <3>1
    <3>2. CASE j = n
      BY <1>1, <1>2, <3>2
    <3>3. CASE i # n /\ j # n
      BY <1>1, <1>4, <3>3 DEF Linked, Holding
    <3> QED BY <3>1, <3>2, <3>3
  <2>3. ASSUME NEW x \in Conns, conn'[x].active PROVE Holders(x)' # {}
    <3>1. CASE x = c
      BY <1>1, <3>1 DEF Holders
    <3>2. CASE x # c
      <4>1. PICK i \in DOMAIN stack : stack[i].conn = x
        BY <1>5, <2>3, <3>2 DEF Linked, Holding, Holders
      <4>2. i # n
        BY <1>1, <4>1, NoneAssumption
      <4> QED BY <1>1, <4>1, <4>2 DEF Holders
    <3> QED BY <3>1, <3>2
  <2>4. ASSUME NEW i \in DOMAIN stack', stack'[i].conn # None,
               stack'[i].id \notin hist'.mixed, conn'[stack'[i].conn].state = "open"
        PROVE  conn'[stack'[i].conn].active
    <3>1. CASE stack'[i].conn = c
      BY <1>6, <2>4, <3>1
    <3>2. CASE stack'[i].conn # c
      <4>1. stack'[i] = stack[i] /\ stack[i].conn \in Conns /\ i \in DOMAIN stack
        BY <1>1, <2>4, <3>2, FrameFacts
      <4>2. conn'[stack[i].conn] = conn[stack[i].conn] /\ stack[i].id \notin hist.mixed
        BY <1>4, <1>5, <2>4, <3>2, <4>1
      <4> QED BY <2>4, <4>1, <4>2 DEF Linked, Holding
    <3> QED BY <3>1, <3>2
  <2> QED BY <2>1, <2>2, <2>3, <2>4 DEF Holding
<1>9. Accounted'
  <2>1. ASSUME NEW x \in Conns, NEW w \in Writes, w \in Written(x)', by'[w] \notin hist'.mixed
        PROVE  \E i \in DOMAIN stack' : stack'[i].id = by'[w] /\ stack'[i].conn = x
    <3>1. w \in Written(x) /\ by[w] \notin hist.mixed
      BY <1>4, <1>5, <1>6, <2>1
    <3>2. PICK i \in DOMAIN stack : stack[i].id = by[w] /\ stack[i].conn = x
      BY <3>1 DEF Linked, Accounted
    <3>3. i # n
      BY <1>1, <3>2, NoneAssumption
    <3> QED BY <1>1, <3>2, <3>3
  <2>2. ASSUME NEW w \in Writes, NEW i \in DOMAIN stack', by'[w] = stack'[i].id
        PROVE  /\ stack'[i].conn # None
               /\ phase' # "idle" /\ by'[w] \notin hist'.mixed /\ conn'[stack'[i].conn].state = "open"
                    => w \in Written(stack[i].conn)' \cup hist'.undone
    <3>1. by[w] = stack[i].id /\ i \in DOMAIN stack
      BY <1>1, <1>3, <2>2
    <3>2. stack[i].conn # None
      BY <3>1 DEF Linked, Accounted
    <3>3. i # n /\ stack'[i] = stack[i] /\ stack[i].conn \in Conns
      BY <1>1, <3>1, <3>2, FrameFacts
    <3>4. by'[w] \notin hist'.mixed => stack[i].conn # c
      BY <1>2, <2>2, <3>1, <3>3
    <3>5. PICK x \in Conns : x = stack[i].conn
      BY <3>3
    <3>6. Written(stack[i].conn)' = Written(x)'
      BY <3>3, <3>5 DEF Written
    <3>7. by'[w] \notin hist'.mixed => conn'[x] = conn[x] /\ Written(x)' = Written(x)
      BY <1>5, <3>4, <3>5
    <3> QED BY <1>4, <2>2, <3>1, <3>2, <3>3, <3>5, <3>6, <3>7 DEF Linked, Accounted
  <2> QED BY <2>1, <2>2 DEF Accounted
<1>10. FrameAtomic'
  <2>1. ASSUME NEW w \in Written(c), by[w] \in Ids \ hist'.mixed PROVE FALSE
    <3>1. w \in Writes /\ by[w] \notin hist.mixed
      BY <1>4, <2>1 DEF Written
    <3>2. \E i \in DOMAIN stack : stack[i].id = by[w] /\ stack[i].conn = c
      BY <3>1 DEF Linked, Accounted
    <3> QED BY <1>2, <2>1, <3>2
  <2> QED BY <1>4, <1>6, <2>1 DEF Linked, FrameAtomic
<1>11. OutsideIsDurable' /\ DurableRan'
  BY <1>6, WrittenRan DEF Linked, OutsideIsDurable, DurableRan
<1> QED BY <1>7, <1>8, <1>9, <1>10, <1>11 DEF Linked

LEMMA MakesLinked ==
    ASSUME TypeOK, Pools, Linked, NEW c \in Conns, NEW w \in Writes, Makes(c, w),
           phase = "execute", UNCHANGED <<stack, count, committed, hist>>
    PROVE  Linked'
<1>1. PICK holder \in Holder(c) : by' = [by EXCEPT ![w] = holder]
  BY DEF Makes
<1>2. \A v \in Writes : by'[v] = IF v = w THEN holder ELSE by[v]
  BY <1>1 DEF TypeOK
<1>3. \/ holder = 0 /\ Holders(c) = {}
      \/ \E i \in DOMAIN stack : stack[i].conn = c /\ holder = stack[i].id /\ holder \in Ids
  BY HolderFacts
<1>4. \A x \in Conns : conn'[x].state = conn[x].state /\ conn'[x].active = conn[x].active
  <2>1. CASE ~conn[c].active
    BY <2>1 DEF Makes
  <2>2. CASE conn[c].active
    <3>1. conn' = [conn EXCEPT ![c].work = Append(conn[c].work, w)]
      BY <2>2 DEF Makes
    <3>2. ASSUME NEW x \in Conns
          PROVE  conn'[x].state = conn[x].state /\ conn'[x].active = conn[x].active
      <4>1. CASE x # c
        BY <3>1, <4>1 DEF Pools
      <4>2. CASE x = c
        <5>1. conn[c] \in Connection
          BY ConnFacts
        <5>2. conn'[c] = [conn[c] EXCEPT !.work = Append(conn[c].work, w)]
          BY <3>1 DEF Pools
        <5> QED BY <4>2, <5>1, <5>2 DEF Connection
      <4> QED BY <4>1, <4>2
    <3> QED BY <3>2
  <2> QED BY <2>1, <2>2
<1>5. \A x \in Conns : Written(x)' = IF x = c /\ conn[c].active THEN Written(x) \cup {w} ELSE Written(x)
  <2>1. CASE ~conn[c].active
    BY <2>1 DEF Makes, Written
  <2>2. CASE conn[c].active
    <3>1. conn' = [conn EXCEPT ![c].work = Append(conn[c].work, w)]
      BY <2>2 DEF Makes
    <3>2. \A x \in Conns : x # c => conn'[x] = conn[x]
      BY <3>1 DEF Pools
    <3>3. PICK work \in Seq(Writes \cup Savepoints) : work = conn[c].work
      BY ConnFacts DEF Connection
    <3>4. {Append(work, w)[i] : i \in DOMAIN Append(work, w)} = {work[i] : i \in DOMAIN work} \cup {w}
      BY <3>3, AppendFacts
    <3>5. Written(c)' = Written(c) \cup {w}
      <4>1. conn'[c].work = Append(work, w)
        BY <3>1, <3>3, ConnFacts DEF Pools, Connection
      <4>2. Written(c)' = {Append(work, w)[i] : i \in DOMAIN Append(work, w)} \cap Writes
        BY <4>1 DEF Written
      <4>3. Written(c) = {work[i] : i \in DOMAIN work} \cap Writes
        BY <3>3 DEF Written
      <4> QED BY <3>4, <4>2, <4>3
    <3>6. \A x \in Conns : x # c => Written(x)' = Written(x)
      BY <3>2 DEF Written
    <3> QED BY <2>2, <3>5, <3>6
  <2> QED BY <2>1, <2>2
<1>6. w \notin durable /\ \A x \in Conns : w \notin Written(x)
  BY WrittenRan DEF Makes, Linked, DurableRan
<1>7. NamedOnce'
  <2>1. holder <= count.blocks
    BY <1>3, FrameFacts DEF Linked, NamedOnce
  <2> QED BY <1>2, <2>1 DEF Linked, NamedOnce
<1>8. Holding'
  <2>1. \A x \in Conns : Holders(x)' = Holders(x)
    BY DEF Holders
  <2>2. \A i \in DOMAIN stack : stack[i].conn # None => stack[i].conn \in Conns
    BY FrameFacts
  <2> QED BY <1>4, <2>1, <2>2 DEF Linked, Holding
<1>9. conn[c].active => holder # 0
  BY <1>3, FrameFacts DEF Linked, Holding
<1>10. Accounted'
  <2>1. ASSUME NEW x \in Conns, NEW v \in Writes, v \in Written(x)', by'[v] \notin hist'.mixed
        PROVE  \E i \in DOMAIN stack' : stack'[i].id = by'[v] /\ stack'[i].conn = x
    <3>1. CASE v = w
      <4>1. x = c /\ conn[c].active
        BY <1>5, <1>6, <2>1, <3>1
      <4> QED BY <1>2, <1>3, <1>9, <3>1, <4>1
    <3>2. CASE v # w
      BY <1>2, <1>5, <2>1, <3>2 DEF Linked, Accounted
    <3> QED BY <3>1, <3>2
  <2>2. ASSUME NEW v \in Writes, NEW i \in DOMAIN stack', by'[v] = stack'[i].id
        PROVE  /\ stack'[i].conn # None
               /\ phase' # "idle" /\ by'[v] \notin hist'.mixed /\ conn'[stack'[i].conn].state = "open"
                    => v \in Written(stack[i].conn)' \cup hist'.undone
    <3>1. CASE v = w
      <4>1. holder = stack[i].id /\ holder # 0
        BY <1>2, <2>2, <3>1, FrameFacts
      <4>2. stack[i].conn = c
        BY <1>3, <2>2, <4>1 DEF Linked, NamedOnce
      <4>3. stack[i].id \notin hist.mixed => conn[c].active
        BY <2>2, <4>2, NoneAssumption DEF Makes, Linked, Holding
      <4>4. Written(stack[i].conn)' = Written(c)'
        BY <4>2 DEF Written
      <4> QED BY <1>2, <1>5, <3>1, <4>1, <4>2, <4>3, <4>4, NoneAssumption
    <3>2. CASE v # w
      <4>1. by[v] = stack[i].id /\ stack[i].conn \in Conns
        BY <1>2, <2>2, <3>2, FrameFacts DEF Linked, Accounted
      <4>2. PICK x \in Conns : x = stack[i].conn
        BY <4>1
      <4>3. Written(stack[i].conn)' = Written(x)' /\ Written(x) \subseteq Written(x)'
        BY <1>5, <4>2 DEF Written
      <4> QED BY <1>2, <1>4, <2>2, <3>2, <4>1, <4>2, <4>3 DEF Linked, Accounted
    <3> QED BY <3>1, <3>2
  <2> QED BY <2>1, <2>2 DEF Accounted
<1>11. FrameAtomic'
  <2>1. \A v \in Writes : v # w => (v \in durable' <=> v \in durable) /\ by'[v] = by[v]
    BY <1>2 DEF Makes
  <2>2. holder \in Ids \ hist.mixed => w \notin durable' /\ holder \notin committed
    <3> SUFFICES ASSUME holder \in Ids \ hist.mixed
                 PROVE  w \notin durable' /\ holder \notin committed
      OBVIOUS
    <3>1. PICK i \in DOMAIN stack : stack[i].conn = c /\ holder = stack[i].id
      BY <1>3, FrameFacts
    <3>2. conn[c].active
      BY <3>1, NoneAssumption DEF Makes, Linked, Holding
    <3> QED BY <1>6, <3>1, <3>2 DEF Makes, Linked, NamedOnce
  <2> QED BY <1>2, <2>1, <2>2 DEF Linked, FrameAtomic
<1>12. OutsideIsDurable'
  <2>1. holder = 0 => w \in durable'
    BY <1>9 DEF Makes
  <2> QED BY <1>2, <2>1 DEF Makes, Linked, OutsideIsDurable
<1>13. DurableRan'
  <2>1. holder # None
    BY <1>3, FrameFacts
  <2> QED BY <1>2, <2>1 DEF Makes, Linked, DurableRan, TypeOK
<1> QED BY <1>7, <1>8, <1>10, <1>11, <1>12, <1>13 DEF Linked

-------------------------------------------------------------------------------
(* The theorems.                                                           *)

LEMMA InvInit == Init => TransactionInv /\ NothingPending
<1> SUFFICES ASSUME Init PROVE TransactionInv /\ NothingPending
  OBVIOUS
<1>1. stack = <<>> /\ DOMAIN stack = {} /\ stack \in Seq(Frame) /\ blocks \in Seq(Ids)
  BY DEF Init
<1>2. \A c \in Conns : /\ conn[c] \in Connection /\ conn[c].state = "unused"
                       /\ ~conn[c].active /\ conn[c].work = <<>>
  BY InFacts DEF Init
<1>3. Pooled = {}
  BY NoneAssumption DEF Init, Pooled
<1>4. MaxBlocks \in Nat /\ MaxRequests \in Nat
  BY BoundAssumption
<1>5. count \in [requests : 0 .. MaxRequests, blocks : 0 .. MaxBlocks]
  BY <1>4 DEF Init
<1>6. TypeOK
  BY <1>1, <1>2, <1>3, <1>5 DEF Init, TypeOK, History
<1>7. Pooling
  BY <1>2 DEF Init, Pooling
<1>8. NamedOnce /\ Holding
  BY <1>1, <1>2 DEF Init, NamedOnce, Holding
<1>9. Accounted
  <2>1. \A c \in Conns : Written(c) = {}
    BY <1>2 DEF Written
  <2> QED BY <1>1, <2>1 DEF Accounted
<1>10. FrameAtomic /\ OutsideIsDurable /\ DurableRan /\ NothingPending
  BY <1>3, NoneAssumption DEF Init, FrameAtomic, OutsideIsDurable, DurableRan, NothingPending, Ids
<1> QED BY <1>6, <1>7, <1>8, <1>9, <1>10 DEF TransactionInv

\* A request never leaves a connection in a transaction: requestCleanupConnections rolls
\* every pooled one back, and none is open that is not in the pool.
LEMMA NothingPendingStep ==
    ASSUME TypeOK, Pools, NothingPending, [Next]_vars
    PROVE  NothingPending'
<1>1. CASE FinishRequest
  <2>1. \A c \in Conns : c \in Pooled => ~conn'[c].active
    BY <1>1, FinishEffect, EndedFacts, AutocommitFacts DEF Pools
  <2>2. Pooled' = Pooled
    BY <1>1, FinishEffect DEF pageVars, Pooled
  <2> QED BY <2>1, <2>2, PooledFacts DEF NothingPending
<1>2. CASE UNCHANGED vars
  BY <1>2 DEF vars, NothingPending, Pooled
<1>3. CASE Next /\ ~FinishRequest
  <2>1. phase' # "idle"
    BY <1>3 DEF Next, BeginRequest, Begin, InvalidateCaches, OpenBlock, CloseBlock, UnwindBlock,
                LeaveBlock, Catch, CommitNow, RollbackNow, EndNow, CommitFrame, RollbackFrame,
                EndFrame, Failed, SetSavepoint, RollbackTo, Connect, Run, ConnectFails, Execute,
                ExecuteFails, Reconnect, LoseConnection
  <2> QED BY <2>1 DEF NothingPending
<1> QED BY <1>1, <1>2, <1>3

LEMMA InvStep ==
    ASSUME TransactionInv, NothingPending, [Next]_vars
    PROVE  TransactionInv'
<1>0. TypeOK /\ Pooling /\ Pools /\ Others /\ Linked /\ Holding
  BY TypesSplit DEF TransactionInv, Linked
<1> SUFFICES Pools' /\ Others' /\ Linked'
  <2>1. Pools' /\ Others' => TypeOK' /\ Pooling'
    BY TypesSplit, PTL
  <2> QED BY <2>1 DEF TransactionInv, Linked
<1>1. CASE BeginRequest
  BY <1>0, <1>1, BoundaryTyped, BeginLinked
<1>2. CASE OpenBlock
  BY <1>0, <1>2, BoundaryTyped, OpenLinked
<1>3. CASE FinishRequest \/ InvalidateCaches
  BY <1>0, <1>3, BoundaryTyped, QuietSteady, SteadyLinked
<1>4. CASE CloseBlock \/ UnwindBlock \/ CommitNow \/ RollbackNow
  <2>1. EndsFrame
    BY <1>0, <1>4, EndsFrameEffect
  <2>2. Pools' /\ Others'
    BY <1>0, <2>1, FrameTyped
  <2>3. PICK commits \in BOOLEAN, after \in {"page", "raising"} : EndFrame(commits, after)
    BY <2>1 DEF EndsFrame
  <2>4. phase # "idle" /\ SameHist /\ UNCHANGED <<by, count>>
    BY <2>1 DEF EndsFrame, pageVars
  <2>5. CASE Ended(commits)
    BY <1>0, <2>2, <2>4, <2>5, EndedLinked
  <2>6. CASE UNCHANGED <<stack, conn, durable, committed>>
    <3>1. SameHolders
      BY <1>0, <2>6 DEF TypeOK, SameHolders
    <3>2. \A c \in Conns : Written(c)' = Written(c)
      BY <2>6 DEF Written
    <3>3. Steady
      BY <2>4, <2>6, <3>1, <3>2 DEF Steady, SameHist
    <3> QED BY <1>0, <2>2, <3>3, SteadyLinked
  <2> QED BY <1>0, <2>3, <2>5, <2>6, EndFrameEffect
<1>5. CASE SetSavepoint \/ RollbackTo
  BY <1>0, <1>5, FrameTyped, SavepointSteady, SteadyLinked
<1>6. CASE LeaveBlock \/ Catch \/ ExecuteFails \/ \E name \in Names : ConnectFails(name)
  <2>1. Linked'
    BY <1>0, <1>6, QuietSteady, SteadyLinked
  <2>2. Pools' /\ Others'
    BY <1>0, <1>6, QuietEffect DEF Pools, Others, SameHolders
  <2> QED BY <2>1, <2>2
<1>7. CASE LoseConnection \/ Reconnect
  BY <1>0, <1>7, StatementTyped, QuietSteady, SteadyLinked
<1>8. ASSUME NEW name \in Names, NEW query \in BOOLEAN, Connect(name, query)
      PROVE  Pools' /\ Others' /\ Linked'
  <2>1. Pools' /\ Others'
    BY <1>0, <1>8, StatementTyped
  <2>2. phase = "page" /\ UNCHANGED <<count, by, committed>>
    BY <1>0, <1>8, ConnectEffect
  <2>3. PICK c \in Conns : Takes(c) \/ Uses(c)
    BY <1>0, <1>8, ConnectEffect
  <2>4. CASE Takes(c)
    BY <1>0, <2>1, <2>2, <2>4, TakesLinked
  <2>5. CASE Uses(c)
    <3>1. \A x \in Conns : \/ conn'[x] = conn[x]
                           \/ conn[x].state = "unused" /\ conn'[x] = Autocommit
      BY <1>0, <2>5 DEF Uses, Pools
    <3>2. SameHolders /\ phase' # "idle" /\ UNCHANGED <<durable, hist>>
      BY <2>5 DEF Uses
    <3>3. Steady
      BY <1>0, <2>2, <3>1, <3>2, ClosingIsSteady
    <3> QED BY <1>0, <2>1, <3>3, SteadyLinked
  <2> QED BY <2>3, <2>4, <2>5
<1>9. CASE Execute
  <2>1. Pools' /\ Others'
    BY <1>0, <1>9, StatementTyped
  <2>2. phase = "execute" /\ UNCHANGED <<stack, count, committed, hist>>
    BY <1>0, <1>9, ExecuteEffect
  <2>3. CASE UNCHANGED <<by, conn, durable>>
    <3>1. SameHolders
      BY <1>0, <2>2 DEF TypeOK, SameHolders
    <3>2. Steady
      BY <1>0, <2>2, <2>3, <3>1, ClosingIsSteady
    <3> QED BY <1>0, <2>1, <3>2, SteadyLinked
  <2>4. ASSUME NEW c \in Conns, NEW w \in Writes, Makes(c, w) PROVE Linked'
    BY <1>0, <2>2, <2>4, MakesLinked
  <2> QED BY <1>0, <1>9, <2>1, <2>3, <2>4, ExecuteEffect
<1>10. CASE UNCHANGED vars
  <2>1. Pools' /\ Others'
    BY <1>0, <1>10 DEF vars, Pools, Others
  <2>2. SameHolders
    BY <1>0, <1>10 DEF vars, TypeOK, SameHolders
  <2>3. Steady
    BY <1>0, <1>10, <2>2, ClosingIsSteady DEF vars
  <2> QED BY <1>0, <2>1, <2>3, SteadyLinked
<1> QED BY <1>1, <1>2, <1>3, <1>4, <1>5, <1>6, <1>7, <1>8, <1>9, <1>10 DEF Next

LEMMA Invariant == Spec => [](TransactionInv /\ NothingPending)
<1>1. TransactionInv => TypeOK /\ Pools
  BY TypesSplit DEF TransactionInv
<1>2. TransactionInv /\ NothingPending /\ [Next]_vars => TransactionInv' /\ NothingPending'
  BY <1>1, InvStep, NothingPendingStep
<1> QED BY <1>2, InvInit, PTL DEF Spec

\* The stack, the pool and the connections keep their types, and the pool never names a
\* connection that has been closed (requestGetConnection, requestCloseConnections).
THEOREM TransactionsTypeCorrect == Spec => []TypeOK
<1>1. TransactionInv => TypeOK
  BY DEF TransactionInv
<1> QED BY <1>1, Invariant, PTL

\* A frame that shares its connection with no other commits what ran in it, but for what a
\* savepoint has undone, and nothing of it is durable otherwise: whatever blocks were left
\* without their end, whatever failed, and however often connections were lost.
THEOREM FramesAreAtomic == Spec => []FrameAtomic
<1>1. TransactionInv => FrameAtomic
  BY DEF TransactionInv
<1> QED BY <1>1, Invariant, PTL

\* A statement outside of all frames runs in autocommit: no frame of this or an earlier
\* request has left its transaction on the connection.
THEOREM OutsideSurvives == Spec => []OutsideIsDurable
<1>1. TransactionInv => OutsideIsDurable
  BY DEF TransactionInv
<1> QED BY <1>1, Invariant, PTL

\* No request begins with the work of an earlier one pending on a pooled connection.
THEOREM NothingLeftPending == Spec => []NothingPending
  BY Invariant, PTL
===============================================================================

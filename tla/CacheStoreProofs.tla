--------------------------- MODULE CacheStoreProofs ---------------------------
(***************************************************************************)
(* The cache, for any number of workers, entries and limits.  No statement *)
(* of a lookup, a put, a flush or a removal is in one transaction with the *)
(* next, so the proofs rest on what still holds between two of them: the   *)
(* time a worker has noted is past, the capture on top of g_fragCaptures   *)
(* is that of the body on top of the page, and the region a put has        *)
(* created is there unless somebody is removing it.                        *)
(***************************************************************************)
EXTENDS CacheStore, SequenceTheorems, TLAPS

RowsOK ==
    /\ rows \in [Ids -> Row \cup {None}]
    /\ \A id \in Ids : rows[id] # None => rows[id].created <= now /\ rows[id].access <= now

\* The time noted for a lookup or a put is past.
OpOK ==
    /\ pc \in [Workers -> {"page", "touch", "purge", "insert", "upsert", "dropRegion", "dropRows",
                           "flush"}]
    /\ op \in [Workers -> Operation \cup {None}]
    /\ \A w \in Workers : op[w] = None <=> pc[w] \in {"page", "dropRegion", "dropRows"}
    /\ \A w \in Workers : op[w] # None => op[w].at <= now

PageOK ==
    /\ blocks \in [Workers -> Seq(Block)] /\ captures \in [Workers -> Seq(Capture)]
    /\ \A w \in Workers : Len(blocks[w]) <= MaxDepth
    /\ length \in [Workers -> 0 .. MaxLength]

\* There is room for the body a lookup is about to open.
RoomOK == \A w \in Workers : op[w] # None /\ op[w].opens => Len(blocks[w]) < MaxDepth

Typed ==
    /\ now \in 0 .. MaxTime /\ region \in BOOLEAN /\ raced \in BOOLEAN
    /\ RowsOK /\ OpOK /\ PageOK /\ RoomOK

LEMMA TypedIsTypeOK == Typed => TypeOK
  BY DEF Typed, RowsOK, OpOK, PageOK, TypeOK

LEMMA TypedInit == Init => Typed
<1> SUFFICES ASSUME Init PROVE Typed
  OBVIOUS
<1>1. MaxTime \in Nat /\ MaxDepth \in Nat /\ MaxLength \in Nat
  BY BoundAssumption
<1>2. RowsOK /\ OpOK /\ RoomOK
  BY DEF Init, RowsOK, OpOK, RoomOK
<1>3. PageOK
  BY <1>1 DEF Init, PageOK
<1>4. now \in 0 .. MaxTime
  BY <1>1 DEF Init
<1>5. region \in BOOLEAN /\ raced \in BOOLEAN
  BY DEF Init
<1> QED BY <1>2, <1>3, <1>4, <1>5 DEF Typed

-------------------------------------------------------------------------------
(* What the parts of an action keep.                                       *)

\* A worker turns to another statement.
LEMMA DoingKeeps ==
    ASSUME OpOK, NEW w \in Workers, NEW next, NEW operation, Doing(w, next, operation),
           next \in {"page", "touch", "purge", "insert", "upsert", "dropRegion", "dropRows", "flush"},
           operation \in Operation \cup {None},
           operation = None <=> next \in {"page", "dropRegion", "dropRows"},
           operation # None => operation.at <= now,
           now' = now
    PROVE  OpOK'
  BY DEF OpOK, Doing, To

LEMMA DoneKeeps ==
    ASSUME OpOK, RoomOK, NEW w \in Workers, Done(w), now' = now,
           \A v \in Workers \ {w} : blocks'[v] = blocks[v]
    PROVE  OpOK' /\ RoomOK'
<1>1. OpOK'
  BY DoingKeeps DEF Done
<1>2. RoomOK'
  BY DEF OpOK, RoomOK, Done, Doing
<1> QED BY <1>1, <1>2

\* It begins one.
LEMMA AboutTyped ==
    ASSUME Typed, NEW id \in Ids, NEW opens \in BOOLEAN, NEW mixed \in BOOLEAN,
           NEW list \in SUBSET Ids
    PROVE  /\ About(id, opens, mixed, list) \in Operation
           /\ About(id, opens, mixed, list) # None
           /\ About(id, opens, mixed, list).at <= now
           /\ About(id, opens, mixed, list).mixed = mixed
           /\ About(id, opens, mixed, list).opens = opens
  BY NoneAssumption, BoundAssumption DEF About, Operation, Typed

LEMMA BeginKeeps ==
    ASSUME Typed, NEW w \in Workers, NEW next \in {"touch", "purge", "insert", "flush"},
           NEW id \in Ids, NEW opens \in BOOLEAN, NEW mixed \in BOOLEAN, NEW list \in SUBSET Ids,
           Doing(w, next, About(id, opens, mixed, list)), now' = now, blocks' = blocks,
           opens => Len(blocks[w]) < MaxDepth
    PROVE  OpOK' /\ RoomOK'
<1>1. OpOK'
  BY AboutTyped, DoingKeeps DEF Typed
<1>2. RoomOK'
  BY AboutTyped DEF Typed, OpOK, RoomOK, Doing
<1> QED BY <1>1, <1>2

\* The operation of a worker that is between two statements.
LEMMA Underway ==
    ASSUME Typed, NEW w \in Workers, pc[w] \in {"touch", "purge", "insert", "upsert", "flush"}
    PROVE  /\ op[w] \in Operation /\ op[w] # None
           /\ op[w].id \in Ids /\ op[w].at \in 0 .. MaxTime /\ op[w].at <= now
           /\ op[w].mixed \in BOOLEAN /\ op[w].list \in SUBSET Ids
<1>1. op[w] \in Operation /\ op[w] # None /\ op[w].at <= now
  BY DEF Typed, OpOK
<1> QED BY <1>1 DEF Operation

\* It goes on to the next statement of the same operation.
LEMMA ToKeeps ==
    ASSUME OpOK, NEW w \in Workers, NEW next, To(w, next), op' = op, now' = now,
           \/ pc[w] \in {"touch", "purge", "insert", "upsert", "flush"}
              /\ next \in {"touch", "purge", "insert", "upsert", "flush"}
           \/ pc[w] \in {"page", "dropRegion", "dropRows"}
              /\ next \in {"page", "dropRegion", "dropRows"}
    PROVE  OpOK'
  BY DEF OpOK, To

LEMMA WithoutKeeps ==
    ASSUME RowsOK, NEW ids, rows' = Without(ids), now' = now
    PROVE  RowsOK'
  BY DEF RowsOK, Without

LEMMA PopTyped ==
    ASSUME NEW S, NEW seq \in Seq(S), seq # <<>>
    PROVE  /\ Pop(seq) \in Seq(S) /\ Len(Pop(seq)) = Len(seq) - 1 /\ Len(seq) > 0
           /\ \A i \in 1 .. Len(seq) - 1 : Pop(seq)[i] = seq[i]
           /\ Last(seq) \in S
<1>1. Len(seq) \in Nat /\ Len(seq) > 0
  OBVIOUS
<1>2. Last(seq) \in S
  BY <1>1 DEF Last
<1>3. /\ Pop(seq) \in Seq(S) /\ Len(Pop(seq)) = Len(seq) - 1
      /\ \A i \in 1 .. Len(seq) - 1 : Pop(seq)[i] = seq[i]
  <2> DEFINE n == Len(seq) - 1
  <2>1. n \in Nat /\ (\A i \in 1 .. n : seq[i] \in S) /\ Pop(seq) = SubSeq(seq, 1, n)
    BY <1>1 DEF Pop
  <2> HIDE DEF n
  <2>2. /\ SubSeq(seq, 1, n) \in Seq(S)
        /\ Len(SubSeq(seq, 1, n)) = IF 1 <= n THEN n - 1 + 1 ELSE 0
        /\ \A i \in 1 .. n - 1 + 1 : SubSeq(seq, 1, n)[i] = seq[1 + i - 1]
    BY <2>1, SubSeqProperties
  <2>3. Len(Pop(seq)) = n /\ \A i \in 1 .. n : Pop(seq)[i] = seq[i]
    BY <2>1, <2>2
  <2> QED BY <2>1, <2>2, <2>3 DEF n
<1> QED BY <1>1, <1>2, <1>3

\* The bodies that are open when one of them has been left, or is not captured.
Bare(n) == [i \in 1 .. n |-> Uncaptured]

LEMMA BareTyped ==
    ASSUME NEW n \in Nat
    PROVE  /\ Bare(n) \in Seq(Block) /\ Len(Bare(n)) = n
           /\ \A i \in 1 .. n : Bare(n)[i].id = None
<1>1. Uncaptured \in Block
  BY BoundAssumption DEF Uncaptured, Block
<1>2. Bare(n) \in Seq(Block) /\ Len(Bare(n)) = n
  BY <1>1 DEF Bare
<1>3. \A i \in 1 .. n : Bare(n)[i].id = None
  BY DEF Bare, Uncaptured
<1> QED BY <1>2, <1>3

\* The bodies that are open when the output is cleared.
Cleared(seq) == [i \in DOMAIN seq |-> IF seq[i].id = None THEN Uncaptured
                                      ELSE [id |-> seq[i].id, from |-> 0, cleared |-> TRUE]]

LEMMA ClearedTyped ==
    ASSUME NEW seq \in Seq(Block)
    PROVE  /\ Cleared(seq) \in Seq(Block) /\ Len(Cleared(seq)) = Len(seq)
           /\ \A i \in 1 .. Len(seq) :
                 Cleared(seq)[i].id # None =>
                     /\ seq[i].id = Cleared(seq)[i].id /\ seq[i].id # None
                     /\ Cleared(seq)[i].from = 0 /\ Cleared(seq)[i].cleared
<1>1. \A i \in 1 .. Len(seq) : seq[i] \in Block
  OBVIOUS
<1>2. DOMAIN seq = 1 .. Len(seq) /\ Len(seq) \in Nat
  OBVIOUS
<1>3. \A i \in 1 .. Len(seq) : Cleared(seq)[i] \in Block
  BY <1>1, <1>2, BoundAssumption DEF Cleared, Uncaptured, Block
<1>4. Cleared(seq) \in Seq(Block) /\ Len(Cleared(seq)) = Len(seq)
  <2>1. DOMAIN Cleared(seq) = 1 .. Len(seq)
    BY <1>2 DEF Cleared
  <2>2. Cleared(seq) \in [1 .. Len(seq) -> Block]
    BY <1>2, <1>3, <2>1 DEF Cleared
  <2> QED BY <1>2, <2>2
<1>5. ASSUME NEW i \in 1 .. Len(seq), Cleared(seq)[i].id # None
      PROVE  /\ seq[i].id = Cleared(seq)[i].id /\ seq[i].id # None
             /\ Cleared(seq)[i].from = 0 /\ Cleared(seq)[i].cleared
  BY <1>2, <1>5 DEF Cleared, Uncaptured
<1> QED BY <1>4, <1>5

-------------------------------------------------------------------------------
(* Types.                                                                  *)

LEMMA OpensTyped ==
    ASSUME Typed, NEW w \in Workers, NEW id \in Ids, Opens(w, id), Len(blocks[w]) < MaxDepth
    PROVE  PageOK'
<1> USE DEF Typed, PageOK
<1> DEFINE body == [id |-> id, from |-> length[w], cleared |-> FALSE]
           capture == [id |-> id, start |-> length[w]]
<1>1. body \in Block /\ capture \in Capture
  BY DEF Block, Capture
<1>2. /\ blocks' = [blocks EXCEPT ![w] = Append(@, body)]
      /\ captures' = [captures EXCEPT ![w] = Append(@, capture)] /\ length' = length
  BY DEF Opens
<1> HIDE DEF body, capture
<1>3. /\ Append(blocks[w], body) \in Seq(Block)
      /\ Len(Append(blocks[w], body)) = Len(blocks[w]) + 1
  BY <1>1
<1>4. Append(captures[w], capture) \in Seq(Capture)
  BY <1>1
<1>5. MaxDepth \in Nat /\ Len(blocks[w]) + 1 <= MaxDepth
  BY BoundAssumption
<1> QED BY <1>2, <1>3, <1>4, <1>5

LEMMA TypedStep ==
    ASSUME Typed, [Next]_vars
    PROVE  Typed'
<1>0. MaxTime \in Nat /\ MaxDepth \in Nat /\ MaxLength \in Nat
  BY BoundAssumption
<1>1. CASE Tick
  <2>1. /\ now' \in 0 .. MaxTime /\ now <= now'
        /\ UNCHANGED <<region, rows, pc, op, blocks, captures, length, raced>>
    BY <1>0, <1>1 DEF Tick, Typed
  <2>2. RowsOK'
    BY <1>0, <2>1 DEF Typed, RowsOK, Row
  <2>3. OpOK'
    BY <1>0, <2>1 DEF Typed, OpOK, Operation
  <2> QED BY <2>1, <2>2, <2>3 DEF Typed, PageOK, RoomOK
<1>2. CASE UNCHANGED vars
  BY <1>2 DEF vars, Typed, RowsOK, OpOK, PageOK, RoomOK
<1>3. ASSUME NEW w \in Workers, NEW id \in Ids, NEW opens \in BOOLEAN, Get(w, id, opens)
      PROVE  Typed'
  <2>1. /\ \E next \in {"touch", "purge"} : Doing(w, next, About(id, opens, FALSE, {}))
        /\ opens => Len(blocks[w]) < MaxDepth
        /\ UNCHANGED <<now, region, rows, blocks, captures, length, raced>>
    BY <1>3 DEF Get, page, MayOpen, HasRoom
  <2>2. PICK next \in {"touch", "purge"} : Doing(w, next, About(id, opens, FALSE, {}))
    BY <2>1
  <2>3. next \in {"touch", "purge", "insert", "flush"} /\ now' = now /\ blocks' = blocks
        /\ FALSE \in BOOLEAN /\ {} \in SUBSET Ids
    BY <2>1
  <2>4. OpOK' /\ RoomOK'
    BY <2>1, <2>2, <2>3, BeginKeeps
  <2> QED BY <2>1, <2>4 DEF Typed, RowsOK, PageOK
<1>4. ASSUME NEW w \in Workers, Touch(w)
      PROVE  Typed'
  <2>1. UNCHANGED <<now, region, blocks, captures, length, raced>> /\ Done(w)
    BY <1>4 DEF Touch, page
  <2>2. OpOK' /\ RoomOK'
    BY <2>1, DoneKeeps DEF Typed
  <2>3. op[w].id \in Ids /\ op[w].at \in 0 .. MaxTime /\ op[w].at <= now
    BY <1>4, Underway DEF Touch
  <2>4. RowsOK'
    BY <1>4, <2>3 DEF Touch, Typed, RowsOK, Row
  <2> QED BY <2>1, <2>2, <2>4 DEF Typed, PageOK
<1>5. ASSUME NEW w \in Workers, Purge(w)
      PROVE  Typed'
  <2>1. /\ UNCHANGED <<now, region, raced>> /\ Done(w)
        /\ rows' = rows \/ rows' = Without({op[w].id})
        /\ \/ op[w].opens /\ Opens(w, op[w].id)
           \/ UNCHANGED <<blocks, captures, length>>
    BY <1>5 DEF Purge, PurgeIf, page
  <2>2. op[w].id \in Ids /\ op[w] # None
    BY <1>5, Underway DEF Purge, PurgeIf
  <2>3. \A v \in Workers \ {w} : blocks'[v] = blocks[v]
    BY <2>1 DEF Opens, Typed, PageOK
  <2>4. OpOK' /\ RoomOK'
    BY <2>1, <2>3, DoneKeeps DEF Typed
  <2>5. RowsOK'
    BY <2>1, WithoutKeeps DEF Typed, RowsOK
  <2>6. PageOK'
    BY <2>1, <2>2, OpensTyped DEF Typed, PageOK, RoomOK
  <2> QED BY <2>1, <2>4, <2>5, <2>6 DEF Typed
<1>6. ASSUME NEW w \in Workers,
             \/ \E id \in Ids : OpenUncached(w, id)
             \/ Write(w) \/ Clear(w)
             \/ OpenUncaptured(w) \/ LeaveBlock(w) \/ EndRequest(w)
      PROVE  Typed'
  <2>1. pc[w] = "page" /\ UNCHANGED <<now, region, rows, pc, op, raced>>
    BY <1>6 DEF OpenUncached, Write, Clear, OpenUncaptured, LeaveBlock, EndRequest
  <2>2. PageOK'
    <3> USE DEF Typed, PageOK
    <3>1. CASE \E id \in Ids : OpenUncached(w, id)
      BY <3>1, OpensTyped DEF OpenUncached, MayOpen, HasRoom
    <3>2. Len(blocks[w]) \in Nat /\ length[w] \in 0 .. MaxLength
      OBVIOUS
    <3>3. CASE Write(w)
      BY <1>0, <3>2, <3>3 DEF Write
    <3>4. CASE Clear(w)
      <4>1. /\ blocks' = [blocks EXCEPT ![w] = Cleared(blocks[w])]
            /\ captures' = captures /\ length' = [length EXCEPT ![w] = 0]
        BY <3>4 DEF Clear, Cleared
      <4>2. Cleared(blocks[w]) \in Seq(Block) /\ Len(Cleared(blocks[w])) = Len(blocks[w])
        BY ClearedTyped
      <4> QED BY <1>0, <4>1, <4>2
    <3>5. ASSUME NEW n \in Nat, n <= MaxDepth, blocks' = [blocks EXCEPT ![w] = Bare(n)],
                 captures' = captures, length' = length
          PROVE  PageOK'
      <4>1. Bare(n) \in Seq(Block) /\ Len(Bare(n)) = n
        BY BareTyped
      <4> QED BY <3>5, <4>1
    <3>6. CASE OpenUncaptured(w)
      <4>1. /\ blocks' = [blocks EXCEPT ![w] = Bare(Len(blocks[w]) + 1)]
            /\ captures' = captures /\ length' = length /\ Len(blocks[w]) < MaxDepth
        BY <3>6 DEF OpenUncaptured, HasRoom, Bare
      <4>2. Len(blocks[w]) + 1 \in Nat /\ Len(blocks[w]) + 1 <= MaxDepth
        BY <1>0, <3>2, <4>1
      <4> QED BY <3>5, <4>1, <4>2
    <3>7. CASE LeaveBlock(w)
      <4>1. /\ blocks' = [blocks EXCEPT ![w] = Bare(Len(blocks[w]) - 1)]
            /\ captures' = captures /\ length' = length /\ blocks[w] # <<>>
        BY <3>7 DEF LeaveBlock, Bare
      <4>2. Len(blocks[w]) - 1 \in Nat /\ Len(blocks[w]) <= MaxDepth
        BY <3>2, <4>1, PopTyped
      <4>3. Len(blocks[w]) - 1 <= MaxDepth
        BY <1>0, <3>2, <4>2
      <4> QED BY <3>5, <4>1, <4>2, <4>3
    <3>8. CASE EndRequest(w)
      BY <1>0, <3>8 DEF EndRequest
    <3> QED BY <1>6, <3>1, <3>3, <3>4, <3>6, <3>7, <3>8
  <2>3. op[w] = None /\ \A v \in Workers \ {w} : blocks'[v] = blocks[v]
    BY <1>6, <2>1 DEF OpenUncached, Write, Clear, OpenUncaptured, LeaveBlock, EndRequest, Opens,
                      Typed, OpOK, PageOK
  <2> QED BY <2>1, <2>2, <2>3 DEF Typed, RowsOK, OpOK, RoomOK
<1>7. ASSUME NEW w \in Workers, EndFragment(w)
      PROVE  Typed'
  <2>1. /\ pc[w] = "page" /\ blocks[w] # <<>>
        /\ blocks' = [blocks EXCEPT ![w] = Pop(@)]
        /\ UNCHANGED <<now, region, rows, raced>>
    BY <1>7 DEF EndFragment, CloseBlock
  <2>2. \/ UNCHANGED <<pc, op, captures, length>>
        \/ /\ captures[w] # <<>> /\ captures' = [captures EXCEPT ![w] = Pop(@)]
           /\ \/ StoreFrom(w, Last(captures[w]), Last(blocks[w]))
              \/ UNCHANGED <<pc, op, length>>
    BY <1>7, Zenon DEF EndFragment, CloseBlock, Last
  <2> DEFINE c == Last(captures[w])
  <2>8. captures[w] # <<>> => c \in Capture /\ c.id \in Ids /\ c.start \in Nat
    <3>1. captures[w] # <<>> => c \in Capture
      BY PopTyped DEF Typed, PageOK
    <3> QED BY <1>0, <3>1 DEF Capture
  <2>9. ASSUME captures[w] # <<>>, StoreFrom(w, c, Last(blocks[w]))
        PROVE  /\ \E mixed \in BOOLEAN : Doing(w, "insert", About(c.id, FALSE, mixed, {}))
               /\ \E n \in c.start .. length[w] : length' = [length EXCEPT ![w] = n]
    BY <2>9 DEF StoreFrom
  <2> HIDE DEF c
  <2>3. PageOK'
    <3> USE DEF Typed, PageOK
    <3>1. Pop(blocks[w]) \in Seq(Block) /\ Len(Pop(blocks[w])) = Len(blocks[w]) - 1
      BY <2>1, PopTyped
    <3>2. captures' \in [Workers -> Seq(Capture)]
      <4>1. CASE captures' = captures
        BY <4>1
      <4>2. CASE captures[w] # <<>> /\ captures' = [captures EXCEPT ![w] = Pop(@)]
        <5>1. Pop(captures[w]) \in Seq(Capture)
          BY <4>2, PopTyped
        <5> QED BY <4>2, <5>1
      <4> QED BY <2>2, <4>1, <4>2
    <3>3. \A v \in Workers : blocks'[v] = IF v = w THEN Pop(blocks[w]) ELSE blocks[v]
      BY <2>1
    <3>4. blocks' \in [Workers -> Seq(Block)]
      BY <2>1, <3>1
    <3>5. \A v \in Workers : Len(blocks[v]) \in Nat /\ Len(blocks[v]) <= MaxDepth
      OBVIOUS
    <3>6. ASSUME NEW v \in Workers
          PROVE  Len(blocks'[v]) <= MaxDepth
      <4>1. CASE v = w
        <5>1. Len(blocks'[v]) = Len(blocks[v]) - 1
          BY <3>1, <3>3, <4>1
        <5> QED BY <1>0, <3>5, <5>1
      <4>2. CASE v # w
        <5>1. Len(blocks'[v]) = Len(blocks[v])
          BY <3>3, <4>2
        <5> QED BY <3>5, <5>1
      <4> QED BY <4>1, <4>2
    <3>7. length' \in [Workers -> 0 .. MaxLength]
      <4>1. ASSUME captures[w] # <<>>, NEW n \in c.start .. length[w],
                   length' = [length EXCEPT ![w] = n]
            PROVE  length' \in [Workers -> 0 .. MaxLength]
        <5>1. n \in 0 .. MaxLength
          BY <1>0, <2>8, <4>1
        <5> QED BY <4>1, <5>1
      <4> QED BY <2>2, <2>9, <4>1 DEF c
    <3> QED BY <3>2, <3>4, <3>6, <3>7
  <2>4. \A v \in Workers : Len(blocks'[v]) <= Len(blocks[v])
    <3>1. Len(Pop(blocks[w])) = Len(blocks[w]) - 1
      BY <2>1, PopTyped DEF Typed, PageOK
    <3>2. \A v \in Workers : Len(blocks[v]) \in Nat
      BY DEF Typed, PageOK
    <3>3. \A v \in Workers : blocks'[v] = IF v = w THEN Pop(blocks[w]) ELSE blocks[v]
      BY <2>1 DEF Typed, PageOK
    <3> QED BY <3>1, <3>2, <3>3
  <2>5. OpOK' /\ RoomOK'
    <3>1. CASE UNCHANGED <<pc, op>>
      BY <1>0, <2>1, <2>3, <2>4, <3>1 DEF Typed, OpOK, RoomOK, PageOK
    <3>2. ASSUME captures[w] # <<>>, NEW mixed \in BOOLEAN,
                 Doing(w, "insert", About(c.id, FALSE, mixed, {}))
          PROVE  OpOK' /\ RoomOK'
      <4>2. About(c.id, FALSE, mixed, {}) \in Operation
            /\ About(c.id, FALSE, mixed, {}) # None
            /\ About(c.id, FALSE, mixed, {}).at <= now
            /\ ~About(c.id, FALSE, mixed, {}).opens
        BY <2>8, <3>2, AboutTyped
      <4>3. OpOK'
        BY <2>1, <3>2, <4>2, DoingKeeps DEF Typed
      <4>4. \A v \in Workers : op'[v] # None /\ op'[v].opens => v # w /\ op'[v] = op[v]
        BY <3>2, <4>2 DEF Doing, Typed, OpOK
      <4>5. \A v \in Workers : Len(blocks[v]) \in Nat /\ Len(blocks'[v]) \in Nat
        BY <2>3 DEF Typed, PageOK
      <4>6. RoomOK'
        BY <1>0, <2>4, <4>4, <4>5 DEF Typed, RoomOK
      <4> QED BY <4>3, <4>6
    <3> QED BY <2>2, <2>9, <3>1, <3>2 DEF c
  <2> QED BY <2>1, <2>3, <2>5 DEF Typed, RowsOK
<1>8. ASSUME NEW w \in Workers, NEW id \in Ids, Put(w, id)
      PROVE  Typed'
  <2>1. /\ Doing(w, "insert", About(id, FALSE, FALSE, {}))
        /\ UNCHANGED <<now, region, rows, blocks, captures, length, raced>>
    BY <1>8 DEF Put, page
  <2>2. FALSE \in BOOLEAN /\ {} \in SUBSET Ids /\ now' = now /\ blocks' = blocks
    BY <2>1
  <2>3. OpOK' /\ RoomOK'
    BY <2>1, <2>2, BeginKeeps
  <2> QED BY <2>1, <2>3 DEF Typed, RowsOK, PageOK
<1>9. ASSUME NEW w \in Workers,
             InsertRegion(w) \/ RemoveRegion(w) \/ DropRegion(w) \/ DropRows(w)
      PROVE  Typed'
  <2>1. /\ op' = op /\ UNCHANGED <<now, blocks, captures, length>>
        /\ rows' = rows \/ rows' = Without(Ids)
        /\ region' \in {TRUE, FALSE, region}
        /\ raced' \in BOOLEAN
        /\ \E next \in {"upsert", "dropRegion", "dropRows", "page"} :
              /\ To(w, next)
              /\ next = "upsert" <=> pc[w] = "insert"
        /\ pc[w] \in {"insert", "page", "dropRegion", "dropRows"}
    BY <1>9 DEF InsertRegion, RemoveRegion, DropRegion, DropRows, DropRowsOf, page, Typed
  <2>2. OpOK'
    BY <2>1, ToKeeps DEF Typed
  <2>3. RowsOK'
    BY <2>1, WithoutKeeps DEF Typed, RowsOK
  <2> QED BY <2>1, <2>2, <2>3 DEF Typed, PageOK, RoomOK
<1>10. ASSUME NEW w \in Workers, Upsert(w)
       PROVE  Typed'
  <2>1. /\ Done(w) /\ UNCHANGED <<now, region, blocks, captures, length, raced>>
        /\ \E limit \in Limits :
              rows' = [rows EXCEPT ![op[w].id] =
                         [limit |-> limit, created |-> op[w].at, access |-> op[w].at,
                          mixed |-> op[w].mixed]]
    BY <1>10 DEF Upsert, UpsertAt, page
  <2>2. /\ op[w].id \in Ids /\ op[w].at \in 0 .. MaxTime /\ op[w].at <= now
        /\ op[w].mixed \in BOOLEAN
    BY <1>10, Underway DEF Upsert, UpsertAt
  <2>3. OpOK' /\ RoomOK'
    BY <2>1, DoneKeeps DEF Typed
  <2>4. RowsOK'
    BY <2>1, <2>2 DEF Typed, RowsOK, Row
  <2> QED BY <2>1, <2>3, <2>4 DEF Typed, PageOK
<1>11. ASSUME NEW w \in Workers,
              (\E ids \in SUBSET Ids \ {{}} : Remove(w, ids)) \/ CreateRegion(w)
       PROVE  Typed'
  <2>1. /\ UNCHANGED <<now, pc, op, blocks, captures, length, raced>>
        /\ region' \in {TRUE, region}
        /\ rows' = rows \/ \E ids : rows' = Without(ids)
    BY <1>11 DEF Remove, CreateRegion, page
  <2>2. RowsOK'
    BY <2>1, WithoutKeeps DEF Typed, RowsOK
  <2> QED BY <2>1, <2>2 DEF Typed, PageOK, OpOK, RoomOK
<1>12. ASSUME NEW w \in Workers, Flush(w)
       PROVE  Typed'
  <2>1. /\ UNCHANGED <<now, region, rows, blocks, captures, length, raced>>
        /\ \E ids \in SUBSET Ids :
              ids # {} /\ Doing(w, "flush", About(CHOOSE id \in ids : TRUE, FALSE, FALSE, ids))
    BY <1>12 DEF Flush, page
  <2>2. PICK ids \in SUBSET Ids :
           ids # {} /\ Doing(w, "flush", About(CHOOSE id \in ids : TRUE, FALSE, FALSE, ids))
    BY <2>1
  <2>3. (CHOOSE id \in ids : TRUE) \in Ids
    BY <2>2
  <2>4. OpOK' /\ RoomOK'
    BY <2>1, <2>2, <2>3, BeginKeeps
  <2> QED BY <2>1, <2>4 DEF Typed, RowsOK, PageOK
<1>13. ASSUME NEW w \in Workers, FlushOne(w)
       PROVE  Typed'
  <2>1. PICK id \in op[w].list :
           /\ rows' = Without({id})
           /\ IF op[w].list = {id} THEN Done(w)
              ELSE op' = [op EXCEPT ![w].list = @ \ {id}] /\ UNCHANGED pc
    BY <1>13 DEF FlushOne
  <2>2. pc[w] = "flush" /\ UNCHANGED <<now, region, blocks, captures, length, raced>>
    BY <1>13 DEF FlushOne, page
  <2>3. op[w] \in Operation /\ op[w] # None /\ op[w].at <= now
    BY <2>2, Underway
  <2>4. OpOK' /\ RoomOK'
    <3>1. CASE Done(w)
      BY <2>2, <3>1, DoneKeeps DEF Typed
    <3>2. CASE op' = [op EXCEPT ![w].list = @ \ {id}] /\ pc' = pc
      <4> DEFINE rest == [op[w] EXCEPT !.list = @ \ {id}]
      <4>1. /\ rest \in Operation /\ rest.at = op[w].at /\ rest.opens = op[w].opens
        BY <2>3 DEF Operation
      <4>2. rest # None
        BY <4>1, NoneAssumption
      <4>3. op' = [op EXCEPT ![w] = rest]
        BY <3>2
      <4> HIDE DEF rest
      <4> QED BY <2>2, <2>3, <3>2, <4>1, <4>2, <4>3 DEF Typed, OpOK, RoomOK
    <3> QED BY <2>1, <3>1, <3>2
  <2>5. RowsOK'
    BY <2>1, <2>2, WithoutKeeps DEF Typed
  <2> QED BY <2>2, <2>4, <2>5 DEF Typed, PageOK
<1> QED BY <1>1, <1>2, <1>3, <1>4, <1>5, <1>6, <1>7, <1>8, <1>9, <1>10, <1>11, <1>12, <1>13
      DEF Next

\* What a lookup or a put keeps between two statements is of the cache: rows and workers
\* name its entries, times are past, and bodies nest no deeper than the page opens them.
THEOREM CacheTypeCorrect == Spec => []TypeOK
  BY TypedInit, TypedStep, TypedIsTypeOK, PTL DEF Spec

-------------------------------------------------------------------------------
(* An entry that was put after a lookup.                                   *)

\* cf_cache_get's DELETE asks again whether the row has expired, by the time of the SELECT.
\* That time is past: what is expired by then is expired now, and what is put between the
\* two statements and is fresh stays.
THEOREM FreshIsSpared == Spec => PurgeSparesFresh
<1>1. ASSUME Typed, [Next]_vars
      PROVE  [\A w \in Workers : pc[w] = "purge" /\ pc'[w] # "purge" =>
                \A id \in Ids : rows[id] # None /\ ~Expired(rows[id], now)
                    => rows'[id] = rows[id]]_vars
  <2> SUFFICES ASSUME NEW w \in Workers, pc[w] = "purge", pc'[w] # "purge",
                      NEW id \in Ids, rows[id] # None, ~Expired(rows[id], now)
               PROVE  rows'[id] = rows[id]
    OBVIOUS
  <2>1. Purge(w)
    <3>1. pc \in [Workers -> {"page", "touch", "purge", "insert", "upsert", "dropRegion", "dropRows",
                              "flush"}]
      BY <1>1 DEF Typed, OpOK
    <3>2. ~UNCHANGED pc
      OBVIOUS
    <3>3. ASSUME NEW v \in Workers,
                 \/ \E id_1 \in Ids, opens \in BOOLEAN : Get(v, id_1, opens)
                 \/ EndFragment(v) \/ Flush(v) \/ RemoveRegion(v) \/ \E id_1 \in Ids : Put(v, id_1)
          PROVE  FALSE
      <4>1. pc[v] = "page" /\ (pc' = pc \/ \E next : pc' = [pc EXCEPT ![v] = next])
        BY <3>3 DEF Get, EndFragment, CloseBlock, StoreFrom, Flush, RemoveRegion, Put, Doing, To
      <4> QED BY <3>1, <3>2, <4>1
    <3>4. ASSUME NEW v \in Workers, \/ Touch(v) \/ InsertRegion(v) \/ Upsert(v) \/ FlushOne(v)
                                    \/ DropRegion(v) \/ DropRows(v)
          PROVE  FALSE
      <4>1. pc[v] # "purge" /\ (pc' = pc \/ \E next : pc' = [pc EXCEPT ![v] = next])
        BY <3>4 DEF Touch, InsertRegion, Upsert, UpsertAt, FlushOne, DropRegion, DropRows,
                    DropRowsOf, Done, Doing, To
      <4> QED BY <3>1, <3>2, <4>1
    <3>5. ASSUME NEW v \in Workers, Purge(v)
          PROVE  v = w
      <4>1. pc' = [pc EXCEPT ![v] = "page"]
        BY <3>5 DEF Purge, PurgeIf, Done, Doing, To
      <4> QED BY <3>1, <4>1
    <3>6. ASSUME NEW v \in Workers,
                 \/ (\E id_1 \in Ids : OpenUncached(v, id_1)) \/ Write(v) \/ Clear(v)
                 \/ OpenUncaptured(v) \/ LeaveBlock(v) \/ EndRequest(v) \/ CreateRegion(v)
                 \/ \E ids \in SUBSET Ids \ {{}} : Remove(v, ids)
          PROVE  FALSE
      BY <3>2, <3>6 DEF OpenUncached, Write, Clear, OpenUncaptured, LeaveBlock, EndRequest,
                        CreateRegion, Remove
    <3>7. ~Tick /\ ~UNCHANGED vars
      BY <3>2 DEF Tick, vars
    <3> QED BY <1>1, <3>3, <3>4, <3>5, <3>6, <3>7 DEF Next
  <2>2. op[w].id \in Ids /\ op[w].at \in Nat /\ op[w].at <= now /\ now \in Nat
    BY <1>1, Underway, BoundAssumption DEF Typed
  <2>3. rows[id] \in Row
    BY <1>1 DEF Typed, RowsOK
  <2>4. ~Expired(rows[id], op[w].at)
    BY <2>2, <2>3, LimitAssumption, BoundAssumption DEF Expired, Row
  <2>5. \/ rows' = rows
        \/ Expired(rows[op[w].id], op[w].at) /\ rows' = Without({op[w].id})
    BY <2>1 DEF Purge, PurgeIf
  <2> QED BY <1>1, <2>2, <2>4, <2>5 DEF Without, Typed, RowsOK
<1> QED BY <1>1, TypedInit, TypedStep, PTL DEF Spec, PurgeSparesFresh

-------------------------------------------------------------------------------
(* The region of an entry.                                                 *)

\* There are entries, or is a put past its first statement, only where there is a region,
\* or somebody is removing it, or has removed it too early.
RegionLags ==
    \/ region \/ raced \/ \E v \in Workers : pc[v] = "dropRows"
    \/ /\ \A id \in Ids : rows[id] = None
       /\ \A w \in Workers : pc[w] # "upsert"

LEMMA RegionStep ==
    ASSUME Typed, Typed', RegionLags, [Next]_vars
    PROVE  RegionLags'
<1> USE DEF RegionLags
<1>1. ASSUME NEW w \in Workers, InsertRegion(w) \/ CreateRegion(w)
      PROVE  RegionLags'
  BY <1>1 DEF InsertRegion, CreateRegion
<1>2. ASSUME NEW w \in Workers, DropRegion(w)
      PROVE  RegionLags'
  BY <1>2 DEF DropRegion, To, Typed, OpOK
<1>3. ASSUME NEW w \in Workers, DropRows(w)
      PROVE  RegionLags'
  <2>1. /\ rows' = Without(Ids) /\ pc' = [pc EXCEPT ![w] = "page"]
        /\ raced' = (raced \/ \E v \in Workers : pc[v] = "upsert")
    BY <1>3 DEF DropRows, DropRowsOf, To
  <2>2. \A id \in Ids : rows'[id] = None
    BY <2>1 DEF Without
  <2>3. \A v \in Workers : pc'[v] = "upsert" => pc[v] = "upsert"
    BY <2>1 DEF Typed, OpOK
  <2> QED BY <2>1, <2>2, <2>3
<1>4. ASSUME NEW w \in Workers, Upsert(w)
      PROVE  RegionLags'
  <2>1. UNCHANGED <<region, raced>> /\ pc[w] = "upsert" /\ pc' = [pc EXCEPT ![w] = "page"]
    BY <1>4 DEF Upsert, UpsertAt, Done, Doing, To
  <2> QED BY <2>1 DEF Typed, OpOK
<1>5. ASSUME UNCHANGED <<region, raced>>,
             \A v \in Workers : pc'[v] = "dropRows" <=> pc[v] = "dropRows",
             \A v \in Workers : pc'[v] = "upsert" => pc[v] = "upsert",
             \A id \in Ids : rows[id] = None => rows'[id] = None
      PROVE  RegionLags'
  BY <1>5
<1>6. ASSUME NEW w \in Workers, Touch(w) \/ Purge(w) \/ FlushOne(w)
      PROVE  RegionLags'
  <2>1. UNCHANGED <<region, raced>> /\ pc[w] \in {"touch", "purge", "flush"}
    BY <1>6 DEF Touch, Purge, PurgeIf, FlushOne
  <2>2. pc' = pc \/ pc' = [pc EXCEPT ![w] = "page"]
    BY <1>6 DEF Touch, Purge, PurgeIf, FlushOne, Done, Doing, To
  <2>3. \A id \in Ids : rows[id] = None => rows'[id] = None
    BY <1>6 DEF Touch, Purge, PurgeIf, FlushOne, Without, Typed, RowsOK
  <2> QED BY <1>5, <2>1, <2>2, <2>3 DEF Typed, OpOK
<1>7. ASSUME NEW w \in Workers,
             \/ \E id \in Ids, opens \in BOOLEAN : Get(w, id, opens)
             \/ \E id \in Ids : Put(w, id)
             \/ EndFragment(w) \/ Flush(w) \/ RemoveRegion(w)
      PROVE  RegionLags'
  <2>1. UNCHANGED <<region, raced, rows>> /\ pc[w] = "page"
    BY <1>7 DEF Get, Put, EndFragment, CloseBlock, Flush, RemoveRegion
  <2>2. \/ pc' = pc
        \/ \E next \in {"touch", "purge", "insert", "flush", "dropRegion"} :
              pc' = [pc EXCEPT ![w] = next]
    BY <1>7 DEF Get, Put, EndFragment, CloseBlock, StoreFrom, Flush, RemoveRegion, Doing, To
  <2> QED BY <1>5, <2>1, <2>2 DEF Typed, OpOK
<1>8. ASSUME NEW w \in Workers,
             \/ \E id \in Ids : OpenUncached(w, id)
             \/ Write(w) \/ Clear(w) \/ OpenUncaptured(w) \/ LeaveBlock(w) \/ EndRequest(w)
             \/ \E ids \in SUBSET Ids \ {{}} : Remove(w, ids)
      PROVE  RegionLags'
  <2>1. UNCHANGED <<region, raced, pc>>
    BY <1>8 DEF OpenUncached, Write, Clear, OpenUncaptured, LeaveBlock, EndRequest, Remove
  <2>2. \A id \in Ids : rows[id] = None => rows'[id] = None
    BY <1>8 DEF OpenUncached, Write, Clear, OpenUncaptured, LeaveBlock, EndRequest, Remove, Without
  <2> QED BY <1>5, <2>1, <2>2
<1>9. CASE Tick \/ UNCHANGED vars
  BY <1>5, <1>9 DEF Tick, vars
<1> QED BY <1>1, <1>2, <1>3, <1>4, <1>6, <1>7, <1>8, <1>9 DEF Next

\* The two INSERTs of a put, and the two DELETEs of cacheRegionRemove, leave no entry
\* without its region, however the workers' statements fall between each other, unless the
\* entries are deleted between the two of a put.
THEOREM EntriesHaveRegion == Spec => []RegionOfEntry
<1>1. Init => RegionLags
  BY DEF Init, RegionLags
<1>2. RegionLags => RegionOfEntry
  BY DEF RegionLags, RegionOfEntry
<1> QED BY <1>1, <1>2, RegionStep, TypedInit, TypedStep, PTL DEF Spec

-------------------------------------------------------------------------------
(* The bodies of fragments.                                                *)

\* "stack" is the captures of a worker: that of a body that has its own is as far below the top
\* as the body is, whatever lies below them.
AlignedIn(bodies, stack) ==
    \A i \in 1 .. Len(bodies) : bodies[i].id # None =>
        LET inside == Len(bodies) - i
        IN inside < Len(stack) /\ Delimits(stack[Len(stack) - inside], bodies[i])

Aligned == \A w \in Workers : AlignedIn(blocks[w], captures[w])
NoneMixed == \A w \in Workers : op[w] # None => ~op[w].mixed

LEMMA OpenedIsAligned ==
    ASSUME NEW bodies \in Seq(Block), NEW stack \in Seq(Capture), NEW id \in Ids,
           NEW at \in 0 .. MaxLength, AlignedIn(bodies, stack)
    PROVE  AlignedIn(Append(bodies, [id |-> id, from |-> at, cleared |-> FALSE]),
                     Append(stack, [id |-> id, start |-> at]))
<1> DEFINE body == [id |-> id, from |-> at, cleared |-> FALSE]
           capture == [id |-> id, start |-> at]
           all == Append(bodies, body)
           onTop == Append(stack, capture)
<1>0. Delimits(capture, body)
  BY BoundAssumption DEF Delimits
<1> HIDE DEF body, capture
<1>1. /\ Len(all) = Len(bodies) + 1 /\ all[Len(bodies) + 1] = body
      /\ \A i \in 1 .. Len(bodies) : all[i] = bodies[i]
  OBVIOUS
<1>2. /\ Len(onTop) = Len(stack) + 1 /\ onTop[Len(stack) + 1] = capture
      /\ \A i \in 1 .. Len(stack) : onTop[i] = stack[i]
  OBVIOUS
<1>3. Len(bodies) \in Nat /\ Len(stack) \in Nat
  OBVIOUS
<1> HIDE DEF all, onTop
<1>4. ASSUME NEW i \in 1 .. Len(all), all[i].id # None
      PROVE  /\ Len(all) - i < Len(onTop)
             /\ Delimits(onTop[Len(onTop) - (Len(all) - i)], all[i])
  <2>1. CASE i = Len(bodies) + 1
    <3>1. Len(all) - i = 0 /\ Len(onTop) - (Len(all) - i) = Len(stack) + 1 /\ 0 < Len(onTop)
      BY <1>1, <1>2, <1>3, <2>1
    <3> QED BY <1>0, <1>1, <1>2, <2>1, <3>1
  <2>2. CASE i # Len(bodies) + 1
    <3>1. i \in 1 .. Len(bodies) /\ all[i] = bodies[i]
      BY <1>1, <1>3, <2>2
    <3>2. /\ Len(bodies) - i < Len(stack)
          /\ Delimits(stack[Len(stack) - (Len(bodies) - i)], all[i])
      BY <1>4, <3>1 DEF AlignedIn
    <3>3. /\ Len(all) - i = Len(bodies) - i + 1
          /\ Len(onTop) - (Len(all) - i) = Len(stack) - (Len(bodies) - i)
      BY <1>1, <1>2, <1>3, <3>1
    <3>4. Len(stack) - (Len(bodies) - i) \in 1 .. Len(stack)
      BY <1>3, <3>1, <3>2
    <3>5. onTop[Len(stack) - (Len(bodies) - i)] = stack[Len(stack) - (Len(bodies) - i)]
      BY <1>2, <3>4
    <3>6. Len(all) - i < Len(onTop)
      BY <1>2, <1>3, <3>1, <3>2, <3>3
    <3> QED BY <3>2, <3>3, <3>5, <3>6
  <2> QED BY <2>1, <2>2
<1>5. AlignedIn(all, onTop)
  BY <1>4 DEF AlignedIn
<1> QED BY <1>5 DEF all, onTop, body, capture

LEMMA ClosedIsAligned ==
    ASSUME NEW bodies \in Seq(Block), NEW stack \in Seq(Capture), bodies # <<>>,
           AlignedIn(bodies, stack)
    PROVE  /\ stack # <<>> => /\ AlignedIn(Pop(bodies), Pop(stack))
                              /\ Last(bodies).id # None => Delimits(Last(stack), Last(bodies))
           /\ stack = <<>> => AlignedIn(Pop(bodies), stack)
<1>1. /\ Len(bodies) \in Nat /\ Len(stack) \in Nat /\ Len(bodies) > 0
      /\ Len(Pop(bodies)) = Len(bodies) - 1
      /\ \A i \in 1 .. Len(bodies) - 1 : Pop(bodies)[i] = bodies[i]
  BY PopTyped
<1>2. ASSUME stack # <<>>
      PROVE  AlignedIn(Pop(bodies), Pop(stack))
  <2>1. /\ Len(Pop(stack)) = Len(stack) - 1 /\ Len(stack) > 0
        /\ \A i \in 1 .. Len(stack) - 1 : Pop(stack)[i] = stack[i]
    BY <1>2, PopTyped
  <2> SUFFICES ASSUME NEW i \in 1 .. Len(Pop(bodies)), Pop(bodies)[i].id # None
               PROVE  /\ Len(Pop(bodies)) - i < Len(Pop(stack))
                      /\ Delimits(Pop(stack)[Len(Pop(stack)) - (Len(Pop(bodies)) - i)],
                                  Pop(bodies)[i])
    BY DEF AlignedIn
  <2>2. i \in 1 .. Len(bodies) /\ i <= Len(bodies) - 1 /\ Pop(bodies)[i] = bodies[i]
    BY <1>1
  <2>3. /\ Len(bodies) - i < Len(stack)
        /\ Delimits(stack[Len(stack) - (Len(bodies) - i)], bodies[i])
    BY <2>2 DEF AlignedIn
  <2> DEFINE j == Len(stack) - (Len(bodies) - i)
  <2>4. j \in 1 .. Len(stack) - 1 /\ Len(Pop(stack)) - (Len(Pop(bodies)) - i) = j
    BY <1>1, <2>1, <2>2, <2>3
  <2>5. Len(Pop(bodies)) - i < Len(Pop(stack))
    BY <1>1, <2>1, <2>2, <2>3
  <2>6. Delimits(stack[j], Pop(bodies)[i])
    BY <2>2, <2>3
  <2> HIDE DEF j
  <2> QED BY <2>1, <2>4, <2>5, <2>6
<1>3. ASSUME stack # <<>>, Last(bodies).id # None
      PROVE  Delimits(Last(stack), Last(bodies))
  <2>1. Len(bodies) \in 1 .. Len(bodies) /\ Len(stack) - (Len(bodies) - Len(bodies)) = Len(stack)
    BY <1>1
  <2> QED BY <1>3, <2>1 DEF AlignedIn, Last
<1>4. ASSUME stack = <<>>
      PROVE  AlignedIn(Pop(bodies), stack)
  BY <1>1, <1>4 DEF AlignedIn
<1> QED BY <1>2, <1>3, <1>4

\* Bodies that have no captures of their own are aligned with anything.
LEMMA BareIsAligned ==
    ASSUME NEW n \in Nat, NEW stack
    PROVE  AlignedIn(Bare(n), stack)
  BY BareTyped DEF AlignedIn

\* Clearing the output leaves every capture where it is.
LEMMA ClearedIsAligned ==
    ASSUME NEW bodies \in Seq(Block), NEW stack \in Seq(Capture), AlignedIn(bodies, stack)
    PROVE  AlignedIn(Cleared(bodies), stack)
<1> DEFINE all == Cleared(bodies)
<1>1. /\ Len(all) = Len(bodies) /\ Len(bodies) \in Nat /\ Len(stack) \in Nat
      /\ \A i \in 1 .. Len(bodies) : all[i].id # None =>
            /\ bodies[i].id = all[i].id /\ bodies[i].id # None
            /\ all[i].from = 0 /\ all[i].cleared
  BY ClearedTyped
<1> HIDE DEF all
<1>2. ASSUME NEW i \in 1 .. Len(all), all[i].id # None
      PROVE  /\ Len(all) - i < Len(stack)
             /\ Delimits(stack[Len(stack) - (Len(all) - i)], all[i])
  <2> DEFINE j == Len(stack) - (Len(bodies) - i)
  <2>1. /\ i \in 1 .. Len(bodies) /\ bodies[i].id = all[i].id /\ bodies[i].id # None
        /\ all[i].from = 0 /\ all[i].cleared
    BY <1>1, <1>2
  <2>2. Len(bodies) - i < Len(stack) /\ Delimits(stack[j], bodies[i])
    BY <2>1 DEF AlignedIn
  <2>3. j \in 1 .. Len(stack)
    BY <1>1, <2>1, <2>2
  <2>4. stack[j] \in Capture
    BY <2>3
  <2>5. stack[j].start >= 0
    BY <2>4, BoundAssumption DEF Capture
  <2>6. Delimits(stack[j], all[i])
    BY <2>1, <2>2, <2>5 DEF Delimits
  <2> QED BY <1>1, <2>2, <2>6
<1>3. AlignedIn(all, stack)
  BY <1>2 DEF AlignedIn
<1> QED BY <1>3 DEF all

LEMMA OpensAligned ==
    ASSUME Typed, Aligned, NEW w \in Workers, NEW id \in Ids, Opens(w, id)
    PROVE  Aligned'
<1>1. AlignedIn(blocks'[w], captures'[w])
  <2>1. /\ blocks[w] \in Seq(Block) /\ captures[w] \in Seq(Capture)
        /\ length[w] \in 0 .. MaxLength /\ AlignedIn(blocks[w], captures[w])
    BY DEF Aligned, Typed, PageOK
  <2>2. /\ blocks'[w] = Append(blocks[w], [id |-> id, from |-> length[w], cleared |-> FALSE])
        /\ captures'[w] = Append(captures[w], [id |-> id, start |-> length[w]])
    BY DEF Opens, Typed, PageOK
  <2> QED BY <2>1, <2>2, OpenedIsAligned
<1>2. \A v \in Workers \ {w} : blocks'[v] = blocks[v] /\ captures'[v] = captures[v]
  BY DEF Opens, Typed, PageOK
<1> QED BY <1>1, <1>2 DEF Aligned

LEMMA AlignedStep ==
    ASSUME Typed, Aligned, [Next]_vars
    PROVE  Aligned'
<1>1. ASSUME UNCHANGED <<blocks, captures>>
      PROVE  Aligned'
  BY <1>1 DEF Aligned
<1>2. ASSUME NEW w \in Workers, Purge(w)
      PROVE  Aligned'
  <2>1. op[w].id \in Ids
    BY <1>2, Underway DEF Purge, PurgeIf
  <2>2. Opens(w, op[w].id) \/ UNCHANGED <<blocks, captures>>
    BY <1>2 DEF Purge, PurgeIf, page
  <2> QED BY <1>1, <2>1, <2>2, OpensAligned
<1>3. ASSUME NEW w \in Workers, NEW id \in Ids, OpenUncached(w, id)
      PROVE  Aligned'
  BY <1>3, OpensAligned DEF OpenUncached
<1>4. ASSUME NEW w \in Workers, captures' = captures, NEW bodies,
             AlignedIn(bodies, captures[w]), blocks' = [blocks EXCEPT ![w] = bodies]
      PROVE  Aligned'
  BY <1>4 DEF Aligned, Typed, PageOK
<1>5. ASSUME NEW w \in Workers, OpenUncaptured(w) \/ LeaveBlock(w)
      PROVE  Aligned'
  <2>1. PICK n \in {Len(blocks[w]) + 1, Len(blocks[w]) - 1} :
           /\ blocks' = [blocks EXCEPT ![w] = Bare(n)] /\ captures' = captures
           /\ n # Len(blocks[w]) + 1 => blocks[w] # <<>>
    BY <1>5 DEF OpenUncaptured, LeaveBlock, Bare
  <2>2. blocks[w] \in Seq(Block)
    BY DEF Typed, PageOK
  <2>3. n \in Nat
    BY <2>1, <2>2, PopTyped
  <2> QED BY <1>4, <2>1, <2>3, BareIsAligned
<1>6. ASSUME NEW w \in Workers, Clear(w)
      PROVE  Aligned'
  <2>1. blocks' = [blocks EXCEPT ![w] = Cleared(blocks[w])] /\ captures' = captures
    BY <1>6 DEF Clear, Cleared
  <2>2. blocks[w] \in Seq(Block) /\ captures[w] \in Seq(Capture) /\ AlignedIn(blocks[w], captures[w])
    BY DEF Typed, PageOK, Aligned
  <2> QED BY <1>4, <2>1, <2>2, ClearedIsAligned
<1>7. ASSUME NEW w \in Workers, EndRequest(w)
      PROVE  Aligned'
  <2>1. captures' = captures /\ blocks' = [blocks EXCEPT ![w] = <<>>]
    BY <1>7 DEF EndRequest
  <2>2. AlignedIn(<<>>, captures[w])
    BY DEF AlignedIn
  <2> QED BY <1>4, <2>1, <2>2
<1>8. ASSUME NEW w \in Workers, EndFragment(w)
      PROVE  Aligned'
  <2>1. /\ blocks[w] # <<>> /\ blocks' = [blocks EXCEPT ![w] = Pop(@)]
        /\ \/ captures[w] = <<>> /\ captures' = captures
           \/ captures[w] # <<>> /\ captures' = [captures EXCEPT ![w] = Pop(@)]
    BY <1>8 DEF EndFragment, CloseBlock
  <2>2. blocks[w] \in Seq(Block) /\ captures[w] \in Seq(Capture) /\ AlignedIn(blocks[w], captures[w])
    BY DEF Typed, PageOK, Aligned
  <2>3. CASE captures[w] = <<>>
    BY <1>4, <2>1, <2>2, <2>3, ClosedIsAligned
  <2>4. CASE captures[w] # <<>>
    <3>1. AlignedIn(Pop(blocks[w]), Pop(captures[w]))
      BY <2>1, <2>2, <2>4, ClosedIsAligned
    <3> QED BY <2>1, <2>4, <3>1 DEF Aligned, Typed, PageOK
  <2> QED BY <2>3, <2>4
<1>9. CASE Tick \/ UNCHANGED vars
  BY <1>1, <1>9 DEF Tick, vars
<1>10. ASSUME NEW w \in Workers,
              \/ \E id \in Ids, opens \in BOOLEAN : Get(w, id, opens)
              \/ Touch(w) \/ Write(w) \/ (\E id \in Ids : Put(w, id)) \/ InsertRegion(w) \/ Upsert(w)
              \/ (\E ids \in SUBSET Ids \ {{}} : Remove(w, ids))
              \/ Flush(w) \/ FlushOne(w)
              \/ CreateRegion(w) \/ RemoveRegion(w) \/ DropRegion(w) \/ DropRows(w)
       PROVE  Aligned'
  BY <1>1, <1>10 DEF Get, Touch, Write, Put, InsertRegion, Upsert, UpsertAt, Remove, Flush, FlushOne,
                     CreateRegion, RemoveRegion, DropRegion, DropRows, DropRowsOf, page
<1> QED BY <1>2, <1>3, <1>5, <1>6, <1>7, <1>8, <1>9, <1>10 DEF Next

\* A worker takes up nothing mixed.
LEMMA NoneMixedStep ==
    ASSUME Typed, Aligned, NoneMixed, [Next]_vars
    PROVE  NoneMixed'
<1>1. ASSUME NEW w \in Workers, NEW next, NEW operation, Doing(w, next, operation),
             operation # None => ~operation.mixed
      PROVE  NoneMixed'
  BY <1>1 DEF Doing, NoneMixed, Typed, OpOK
<1>2. ASSUME op' = op
      PROVE  NoneMixed'
  BY <1>2 DEF NoneMixed
<1>3. \A id, opens, list : ~About(id, opens, FALSE, list).mixed
  BY DEF About
<1>4. ASSUME NEW w \in Workers, EndFragment(w)
      PROVE  NoneMixed'
  <2> DEFINE b == Last(blocks[w])
             c == Last(captures[w])
             lost == b.id # None /\ ~Delimits(c, b)
  <2>1. /\ blocks[w] # <<>>
        /\ \/ op' = op
           \/ /\ captures[w] # <<>>
              /\ Doing(w, "insert", About(c.id, FALSE, lost, {}))
    BY <1>4, Zenon DEF EndFragment, CloseBlock, StoreFrom, Last
  <2>2. captures[w] # <<>> => ~lost
    BY <2>1, ClosedIsAligned DEF Typed, PageOK, Aligned
  <2>3. About(c.id, FALSE, lost, {}).mixed = lost
    BY DEF About
  <2> HIDE DEF b, c, lost
  <2> QED BY <1>1, <1>2, <2>1, <2>2, <2>3
<1>5. ASSUME NEW w \in Workers, NEW id \in Ids, NEW opens \in BOOLEAN, Get(w, id, opens)
      PROVE  NoneMixed'
  <2>1. PICK next : Doing(w, next, About(id, opens, FALSE, {}))
    BY <1>5 DEF Get
  <2> QED BY <1>1, <1>3, <2>1
<1>6. ASSUME NEW w \in Workers, NEW id \in Ids, Put(w, id)
      PROVE  NoneMixed'
  BY <1>1, <1>3, <1>6 DEF Put
<1>7. ASSUME NEW w \in Workers, Flush(w)
      PROVE  NoneMixed'
  BY <1>1, <1>3, <1>7 DEF Flush
<1>8. ASSUME NEW w \in Workers, Done(w)
      PROVE  NoneMixed'
  BY <1>1, <1>8 DEF Done
<1>9. ASSUME NEW w \in Workers, FlushOne(w)
      PROVE  NoneMixed'
  <2>1. pc[w] = "flush" /\ (Done(w) \/ \E id : op' = [op EXCEPT ![w].list = @ \ {id}])
    BY <1>9 DEF FlushOne
  <2>2. op[w] \in Operation /\ op[w] # None
    BY <2>1, Underway
  <2>3. CASE \E id : op' = [op EXCEPT ![w].list = @ \ {id}]
    BY <2>2, <2>3 DEF NoneMixed, Operation, Typed, OpOK
  <2> QED BY <1>8, <2>1, <2>3
<1>10. CASE Tick \/ UNCHANGED vars
  BY <1>2, <1>10 DEF Tick, vars
<1>11. ASSUME NEW w \in Workers, Touch(w) \/ Purge(w) \/ Upsert(w)
       PROVE  NoneMixed'
  BY <1>8, <1>11 DEF Touch, Purge, PurgeIf, Upsert, UpsertAt
<1>12. ASSUME NEW w \in Workers,
              \/ (\E id \in Ids : OpenUncached(w, id)) \/ OpenUncaptured(w) \/ LeaveBlock(w)
              \/ Write(w) \/ Clear(w) \/ EndRequest(w) \/ InsertRegion(w) \/ (\E ids \in SUBSET Ids \ {{}} : Remove(w, ids))
              \/ CreateRegion(w) \/ RemoveRegion(w) \/ DropRegion(w) \/ DropRows(w)
       PROVE  NoneMixed'
  BY <1>2, <1>12 DEF OpenUncached, OpenUncaptured, LeaveBlock, Write, Clear, EndRequest,
                     InsertRegion, Remove, CreateRegion, RemoveRegion, DropRegion, DropRows, DropRowsOf
<1> QED BY <1>4, <1>5, <1>6, <1>7, <1>9, <1>10, <1>11, <1>12 DEF Next

\* Nor is anything mixed stored.
LEMMA OwnFragmentStep ==
    ASSUME Typed, NoneMixed, OwnFragment, [Next]_vars
    PROVE  OwnFragment'
<1>1. ASSUME rows' = rows
      PROVE  OwnFragment'
  BY <1>1 DEF OwnFragment
<1>2. ASSUME NEW ids, rows' = Without(ids)
      PROVE  OwnFragment'
  BY <1>2 DEF OwnFragment, Without
<1>3. ASSUME NEW w \in Workers, Touch(w)
      PROVE  OwnFragment'
  <2>1. op[w].id \in Ids
    BY <1>3, Underway DEF Touch
  <2>2. rows' = rows \/ (rows[op[w].id] # None /\ rows' = [rows EXCEPT ![op[w].id].access = op[w].at])
    BY <1>3 DEF Touch
  <2> QED BY <1>1, <2>1, <2>2 DEF OwnFragment, Typed, RowsOK, Row
<1>4. ASSUME NEW w \in Workers, Upsert(w)
      PROVE  OwnFragment'
  <2>1. op[w].id \in Ids /\ op[w] # None
    BY <1>4, Underway DEF Upsert, UpsertAt
  <2>2. PICK limit \in Limits :
           rows' = [rows EXCEPT ![op[w].id] = [limit |-> limit, created |-> op[w].at,
                                               access |-> op[w].at, mixed |-> op[w].mixed]]
    BY <1>4 DEF Upsert, UpsertAt
  <2> QED BY <2>1, <2>2 DEF OwnFragment, NoneMixed, Typed, RowsOK
<1>5. ASSUME NEW w \in Workers,
             Purge(w) \/ FlushOne(w) \/ DropRows(w) \/ \E ids \in SUBSET Ids \ {{}} : Remove(w, ids)
      PROVE  OwnFragment'
  BY <1>1, <1>2, <1>5 DEF Purge, PurgeIf, FlushOne, DropRows, DropRowsOf, Remove
<1>6. CASE Tick \/ UNCHANGED vars
  BY <1>1, <1>6 DEF Tick, vars
<1>7. ASSUME NEW w \in Workers,
             \/ \E id \in Ids, opens \in BOOLEAN : Get(w, id, opens)
             \/ (\E id \in Ids : OpenUncached(w, id)) \/ Write(w) \/ Clear(w)
             \/ OpenUncaptured(w) \/ EndFragment(w)
             \/ LeaveBlock(w) \/ EndRequest(w) \/ (\E id \in Ids : Put(w, id)) \/ InsertRegion(w)
             \/ Flush(w) \/ CreateRegion(w) \/ RemoveRegion(w) \/ DropRegion(w)
      PROVE  OwnFragment'
  BY <1>1, <1>7 DEF Get, OpenUncached, Write, Clear, OpenUncaptured, EndFragment, CloseBlock, LeaveBlock,
                    EndRequest, Put, InsertRegion, Flush, CreateRegion, RemoveRegion, DropRegion
<1> QED BY <1>3, <1>4, <1>5, <1>6, <1>7 DEF Next

\* However deep the bodies of <cfcache> are nested, and whatever captures earlier pages have
\* left in g_fragCaptures, cf_cache_tag_end stores under the key of a body only what that body
\* has written, as long as every body inside it was captured and ended: all of it, or, if
\* <cfflush> or <cfcontent> cleared the output inside it, an end of what it wrote since.
THEOREM FragmentsAreOwn == Spec => []OwnFragment
<1>1. Init => Aligned /\ NoneMixed /\ OwnFragment
  BY DEF Init, Aligned, AlignedIn, NoneMixed, OwnFragment
<1> QED BY <1>1, AlignedStep, NoneMixedStep, OwnFragmentStep, TypedInit, TypedStep, PTL DEF Spec
===============================================================================

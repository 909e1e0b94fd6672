------------------------------- MODULE CacheStore -------------------------------
(***************************************************************************)
(* One region of the cache (cf_cache and cf_cache_region), the statements    *)
(* the workers run on it, and the fragments <cfcache> captures.  The workers *)
(* are processes and no two of these statements are in one transaction: a    *)
(* lookup is a SELECT and then an UPDATE or a DELETE, an entry is put with   *)
(* two INSERTs, a flush is a SELECT and a DELETE for every entry.            *)
(*                                                                         *)
(* The end of a fragment stores what there is of the page's output from the  *)
(* place on top of g_fragCaptures, under the key that is there.  A body that *)
(* is left, by an exception or a jump, leaves its capture there, even for    *)
(* the next request; and a body that clears the output, by <cfflush> or      *)
(* <cfcontent>, leaves the place as it was.                                  *)
(***************************************************************************)
EXTENDS Naturals, Sequences

CONSTANTS Workers,
          Renderers,     \* the workers that serve pages with fragments
          Ids,           \* keys of entries; a fragment is known by its key
          None,
          Limits,        \* what a put may say: how long to live and to idle, 0 for ever
          MaxTime,       \* bound on the clock
          MaxDepth,      \* bound on the bodies open in a page
          MaxLength,     \* bound on the length of a page's output
          MaxCaptures    \* bound on the captures of a worker

ASSUME LimitAssumption == Limits \subseteq [ttl : Nat, idle : Nat]
ASSUME RenderersAssumption == Renderers \subseteq Workers
ASSUME BoundAssumption == {MaxTime, MaxDepth, MaxLength, MaxCaptures} \subseteq Nat

VARIABLES now,       \* the clock, in seconds
          region,    \* is the region in cf_cache_region
          rows,      \* its rows of cf_cache
          pc,        \* the statement a worker is about to run
          op,        \* what it is about
          blocks,    \* the bodies of <cfcache> open in a page, innermost last
          captures,  \* g_fragCaptures
          length,    \* how much there is in "out"
          raced      \* has the region been removed while an entry was put

vars == <<now, region, rows, pc, op, blocks, captures, length, raced>>

\* "mixed": it is not what the body of the fragment has written, though that was not Uncaptured.
Row == [limit : Limits, created : 0 .. MaxTime, access : 0 .. MaxTime, mixed : BOOLEAN]
Operation == [id : Ids, at : 0 .. MaxTime, opens : BOOLEAN, mixed : BOOLEAN, list : SUBSET Ids]
Capture == [id : Ids, start : 0 .. MaxLength]

\* "from" is where in "out" what the body has written begins, "cleared" whether "out" has been
\* cleared inside it.  A body that is not captured, or inside which one has been left or was not
\* captured, has no capture of its own to find, and is Uncaptured.
Block == [id : Ids \cup {None}, from : 0 .. MaxLength, cleared : BOOLEAN]
Uncaptured == [id |-> None, from |-> 0, cleared |-> FALSE]

ASSUME NoneAssumption == None \notin Ids \cup Row \cup Operation

TypeOK ==
    /\ now \in 0 .. MaxTime
    /\ region \in BOOLEAN
    /\ rows \in [Ids -> Row \cup {None}]
    /\ \A id \in Ids : rows[id] # None => rows[id].created <= now /\ rows[id].access <= now
    /\ pc \in [Workers -> {"page", "touch", "purge", "insert", "upsert", "dropRegion", "dropRows", "flush"}]
    /\ op \in [Workers -> Operation \cup {None}]
    /\ \A w \in Workers : op[w] = None <=> pc[w] \in {"page", "dropRegion", "dropRows"}
    /\ blocks \in [Workers -> Seq(Block)] /\ captures \in [Workers -> Seq(Capture)]
    /\ \A w \in Workers : Len(blocks[w]) <= MaxDepth
    /\ length \in [Workers -> 0 .. MaxLength]
    /\ raced \in BOOLEAN

Init ==
    /\ now = 0
    /\ region \in BOOLEAN
    /\ rows = [id \in Ids |-> None]
    /\ pc = [w \in Workers |-> "page"]
    /\ op = [w \in Workers |-> None]
    /\ blocks = [w \in Workers |-> <<>>]
    /\ captures = [w \in Workers |-> <<>>]
    /\ length = [w \in Workers |-> 0]
    /\ raced = FALSE

Tick == now < MaxTime /\ now' = now + 1 /\ UNCHANGED <<region, rows, pc, op, blocks, captures, length, raced>>

Pop(seq) == SubSeq(seq, 1, Len(seq) - 1)
Last(seq) == seq[Len(seq)]

Expired(row, t) ==
    \/ row.limit.ttl > 0 /\ row.created + row.limit.ttl <= t
    \/ row.limit.idle > 0 /\ row.access + row.limit.idle <= t

Without(ids) == [id \in Ids |-> IF id \in ids THEN None ELSE rows[id]]

About(id, opens, mixed, list) ==
    [id |-> id, at |-> now, opens |-> opens, mixed |-> mixed, list |-> list]

To(w, next) == pc' = [pc EXCEPT ![w] = next]
Doing(w, next, operation) == To(w, next) /\ op' = [op EXCEPT ![w] = operation]
Done(w) == Doing(w, "page", None)

page == <<blocks, captures, length>>

-------------------------------------------------------------------------------
(* A lookup, of a value or of the fragment a <cfcache> body is.            *)

Opens(w, id) ==
    /\ blocks' = [blocks EXCEPT ![w] = Append(@, [id |-> id, from |-> length[w], cleared |-> FALSE])]
    /\ captures' = [captures EXCEPT ![w] = Append(@, [id |-> id, start |-> length[w]])]
    /\ UNCHANGED length

HasRoom(w) == w \in Renderers /\ Len(blocks[w]) < MaxDepth /\ length[w] < MaxLength
MayOpen(w) == HasRoom(w) /\ Len(captures[w]) < MaxCaptures

Get(w, id, opens) ==
    /\ pc[w] = "page"
    /\ opens => MayOpen(w)
    /\ LET hit == rows[id] # None /\ ~Expired(rows[id], now)
       IN Doing(w, IF hit THEN "touch" ELSE "purge", About(id, opens, FALSE, {}))
    /\ UNCHANGED <<now, region, rows, page, raced>>

\* The row may by now be another one, or gone.
Touch(w) ==
    /\ pc[w] = "touch"
    /\ LET id == op[w].id
       IN rows' = IF rows[id] = None THEN rows ELSE [rows EXCEPT ![id].access = op[w].at]
    /\ Done(w)
    /\ UNCHANGED <<now, region, page, raced>>

PurgeIf(w, expired) ==
    /\ pc[w] = "purge"
    /\ rows' = IF expired THEN Without({op[w].id}) ELSE rows
    /\ IF op[w].opens THEN Opens(w, op[w].id) ELSE UNCHANGED page
    /\ Done(w)
    /\ UNCHANGED <<now, region, raced>>

\* The mutated form: the row that was read to be expired is deleted by its key.
PurgeByKey(w) == PurgeIf(w, TRUE)

Purge(w) == PurgeIf(w, rows[op[w].id] # None /\ Expired(rows[op[w].id], op[w].at))

-------------------------------------------------------------------------------
(* Bodies of <cfcache>.                                                    *)

\* The page, or a fragment from the cache.
Write(w) ==
    /\ pc[w] = "page" /\ w \in Renderers /\ length[w] < MaxLength
    /\ length' = [length EXCEPT ![w] = @ + 1]
    /\ UNCHANGED <<now, region, rows, pc, op, blocks, captures, raced>>

\* <cfflush>, <cfcontent>, a page from the cache or an error page: all that the bodies write
\* from now on is at the beginning, and the captures are not told.
Clear(w) ==
    /\ pc[w] = "page" /\ length[w] > 0
    /\ length' = [length EXCEPT ![w] = 0]
    /\ blocks' = [blocks EXCEPT ![w] = [i \in DOMAIN @ |->
                                           IF @[i].id = None THEN Uncaptured
                                           ELSE [id |-> @[i].id, from |-> 0, cleared |-> TRUE]]]
    /\ UNCHANGED <<now, region, rows, pc, op, captures, raced>>

\* usecache="false", or clientcache: captured, and not looked up.
OpenUncached(w, id) ==
    /\ pc[w] = "page" /\ MayOpen(w)
    /\ Opens(w, id)
    /\ UNCHANGED <<now, region, rows, pc, op, raced>>

\* action="flush" usecache="false": the body is rendered, and nothing captured for it.
OpenUncaptured(w) ==
    /\ pc[w] = "page" /\ HasRoom(w)
    /\ blocks' = [blocks EXCEPT ![w] = [i \in 1 .. Len(@) + 1 |-> Uncaptured]]
    /\ UNCHANGED <<now, region, rows, pc, op, captures, length, raced>>

\* What a capture delimits is all that the body has written, or, if "out" has been cleared,
\* the end of what it has written since.
Delimits(c, b) ==
    c.id = b.id /\ c.start >= b.from /\ (~b.cleared => c.start = b.from)

\* What there is after "c" is stored, if there is anything and the cache can be opened;
\* stripped of white space it can replace what is in the page.
StoreFrom(w, c, b) ==
    /\ length[w] > c.start
    /\ Doing(w, "insert", About(c.id, FALSE, b.id # None /\ ~Delimits(c, b), {}))
    /\ \E n \in c.start .. length[w] : length' = [length EXCEPT ![w] = n]

\* The body ends.
CloseBlock(w, first, rest) ==
    /\ pc[w] = "page" /\ blocks[w] # <<>>
    /\ blocks' = [blocks EXCEPT ![w] = Pop(@)]
    /\ IF captures[w] = <<>>
       THEN UNCHANGED <<pc, op, captures, length>>
       ELSE /\ captures' = [captures EXCEPT ![w] = rest]
            /\ \/ StoreFrom(w, captures[w][first], Last(blocks[w]))
               \/ UNCHANGED <<pc, op, length>>
    /\ UNCHANGED <<now, region, rows, raced>>

\* The mutated form: the captures are a queue.
EndFragmentFirst(w) == CloseBlock(w, 1, Tail(captures[w]))

EndFragment(w) == CloseBlock(w, Len(captures[w]), Pop(captures[w]))

\* An exception, or a jump, leaves the body; the page may go on in the body around it.
LeaveBlock(w) ==
    /\ pc[w] = "page" /\ blocks[w] # <<>>
    /\ blocks' = [blocks EXCEPT ![w] = [i \in 1 .. Len(@) - 1 |-> Uncaptured]]
    /\ UNCHANGED <<now, region, rows, pc, op, captures, length, raced>>

\* Nothing calls cf_cache_reset: the captures stay.
EndRequest(w) ==
    /\ pc[w] = "page"
    /\ blocks' = [blocks EXCEPT ![w] = <<>>]
    /\ length' = [length EXCEPT ![w] = 0]
    /\ UNCHANGED <<now, region, rows, pc, op, captures, raced>>

-------------------------------------------------------------------------------
(* Entries and the region.                                                 *)

\* cachePut, action="put", and the result of a cached query.
Put(w, id) ==
    /\ pc[w] = "page"
    /\ Doing(w, "insert", About(id, FALSE, FALSE, {}))
    /\ UNCHANGED <<now, region, rows, page, raced>>

InsertRegion(w) ==
    /\ pc[w] = "insert"
    /\ region' = TRUE
    /\ To(w, "upsert")
    /\ UNCHANGED <<now, rows, op, page, raced>>

\* created[limit] is the time of creation stored with that limit.
UpsertAt(w, created) ==
    /\ pc[w] = "upsert"
    /\ \E limit \in Limits :
          rows' = [rows EXCEPT ![op[w].id] =
                     [limit |-> limit, created |-> created[limit], access |-> op[w].at,
                      mixed |-> op[w].mixed]]
    /\ Done(w)
    /\ UNCHANGED <<now, region, page, raced>>

\* The mutated form: the deadline is stored for the time of creation.
UpsertDeadline(w) == UpsertAt(w, [limit \in Limits |-> op[w].at + limit.ttl])

Upsert(w) == UpsertAt(w, [limit \in Limits |-> op[w].at])

\* cacheRemove, __cacheEvict, and __cacheClear and cacheRemoveAll: one DELETE.
Remove(w, ids) ==
    /\ pc[w] = "page"
    /\ rows' = Without(ids)
    /\ UNCHANGED <<now, region, pc, op, page, raced>>

\* <cfcache action="flush">, and cacheRemove with a wildcard: the keys are listed first.
Flush(w) ==
    /\ pc[w] = "page"
    /\ \E ids \in SUBSET {id \in Ids : rows[id] # None} :
          ids # {} /\ Doing(w, "flush", About(CHOOSE id \in ids : TRUE, FALSE, FALSE, ids))
    /\ UNCHANGED <<now, region, rows, page, raced>>

FlushOne(w) ==
    /\ pc[w] = "flush"
    /\ \E id \in op[w].list :
          /\ rows' = Without({id})
          /\ IF op[w].list = {id} THEN Done(w)
             ELSE op' = [op EXCEPT ![w].list = @ \ {id}] /\ UNCHANGED pc
    /\ UNCHANGED <<now, region, page, raced>>

\* The function looks whether there is one, and throws if so; a second INSERT fails.
CreateRegion(w) ==
    /\ pc[w] = "page" /\ ~region
    /\ region' = TRUE
    /\ UNCHANGED <<now, rows, pc, op, page, raced>>

RemoveRegion(w) ==
    /\ pc[w] = "page" /\ region
    /\ To(w, "dropRegion")
    /\ UNCHANGED <<now, region, rows, op, page, raced>>

DropRegion(w) ==
    /\ pc[w] = "dropRegion"
    /\ region' = FALSE
    /\ To(w, "dropRows")
    /\ UNCHANGED <<now, rows, op, page, raced>>

DropRowsOf(w, ids) ==
    /\ pc[w] = "dropRows"
    /\ rows' = Without(ids)
    /\ raced' = (raced \/ \E v \in Workers : pc[v] = "upsert")
    /\ To(w, "page")
    /\ UNCHANGED <<now, region, op, page>>

\* The mutated form: the entries are left.
DropRegionOnly(w) == DropRowsOf(w, {})

DropRows(w) == DropRowsOf(w, Ids)

Next ==
    \/ Tick
    \/ \E w \in Workers :
          \/ \E id \in Ids, opens \in BOOLEAN : Get(w, id, opens)
          \/ Touch(w) \/ Purge(w)
          \/ \E id \in Ids : OpenUncached(w, id)
          \/ Write(w) \/ Clear(w) \/ OpenUncaptured(w) \/ EndFragment(w) \/ LeaveBlock(w) \/ EndRequest(w)
          \/ \E id \in Ids : Put(w, id)
          \/ InsertRegion(w) \/ Upsert(w)
          \/ \E ids \in SUBSET Ids \ {{}} : Remove(w, ids)
          \/ Flush(w) \/ FlushOne(w)
          \/ CreateRegion(w) \/ RemoveRegion(w) \/ DropRegion(w) \/ DropRows(w)

Spec == Init /\ [][Next]_vars

-------------------------------------------------------------------------------
(* Properties.                                                             *)

\* A lookup that found an entry expired never deletes what was put in its place since.
PurgeSparesFresh ==
    [][\A w \in Workers : pc[w] = "purge" /\ pc'[w] # "purge" =>
          \A id \in Ids : rows[id] # None /\ ~Expired(rows[id], now) => rows'[id] = rows[id]]_vars

\* What is stored under the key of a fragment was written by the body of that fragment, unless
\* a body inside it was left, or was not captured.  It is all that the body wrote, unless the
\* output was cleared inside it; then it may be any end of what was written since.
OwnFragment == \A id \in Ids : rows[id] # None => ~rows[id].mixed

\* An entry is never in a region that does not exist, unless the region was removed
\* between the two statements of a put.
RegionOfEntry ==
    ~raced /\ (\A w \in Workers : pc[w] # "dropRows") =>
        \A id \in Ids : rows[id] # None => region
===============================================================================

---------------------------- MODULE ScopeLifecycle ----------------------------
(***************************************************************************)
(* The life of an application and its sessions across the prefork workers  *)
(* and the reaper process.  Every worker serves one request at a time:     *)
(* cf_application_enable touches or loads the scopes one SQLite statement  *)
(* at a time, the Application.cfc callbacks and the page run, the response *)
(* is sent, and only then scope_end stores the two scopes, each in its own *)
(* statement.  Meanwhile the other workers, the clock and the reaper move. *)
(*                                                                         *)
(* The Application.cfc is one with session management on, whose            *)
(* onApplicationStart sets application variables.                          *)
(***************************************************************************)
EXTENDS ScopeStore

CONSTANTS Workers,
          NoSid,             \* no CFID/CFTOKEN cookies; no session
          AppTimeout,        \* milliseconds, 0 for never
          SessionTimeout,    \* milliseconds, 0 for never
          StartOutcomes,     \* what onApplicationStart may do: "ok", "false", "throws"
          MaxRequestTime,    \* seconds a request may take
          MaxTime            \* bound on the clock

ASSUME NoSidAssumption == NoSid \notin Keys
ASSUME TimeoutAssumption == AppTimeout \in Nat /\ SessionTimeout \in Nat
ASSUME OutcomeAssumption == StartOutcomes \subseteq {"ok", "false", "throws"}
ASSUME BoundAssumption == MaxRequestTime \in Nat /\ MaxTime \in Nat

VARIABLES rows,      \* the cf_scope table
          now,       \* the clock, in seconds
          minted,    \* session ids given out by nextCfid and makeCfToken
          sent,      \* those a client holds the cookies of
          pc,        \* where the request of each worker is
          ctx,       \* its ScopeContext
          cached,    \* m_application: has the worker's copy been initialised
          started,   \* m_appCfcStarted
          reaper,    \* is the reaper process running
          batch,     \* the records it claimed and has not called back yet
          hist       \* what has happened to the sessions

vars == <<rows, now, minted, sent, pc, ctx, cached, started, reaper, batch, hist>>
workerVars == <<minted, sent, pc, ctx, cached, started>>
reaperVars == <<reaper, batch>>

\* begin and t are clock readings: when the request began, and the "now" the code
\* passes to the statement at hand, or, if it is yet to be read, when the statement
\* before it ran; on a page t is as good as begin.  sid is the cookie's session until one
\* is adopted, and keeps the last one when sessionId is cleared.
Context == [sid : Sids \cup {NoSid}, begin : Nat, t : Nat,
            newApp : BOOLEAN, newSess : BOOLEAN, appOn : BOOLEAN, sessOn : BOOLEAN]

EmptyContext == [sid |-> NoSid, begin |-> 0, t |-> 0, newApp |-> FALSE,
                 newSess |-> FALSE, appOn |-> FALSE, sessOn |-> FALSE]

Steps == {"idle", "touchApp", "loadApp", "touchLoaded", "touchSession", "loadSession",
          "start", "page", "invalidate", "rotate", "saveApp", "saveSession", "dead"}

Claimed == [key : Keys, cfc : BOOLEAN]

History == [stored  : SUBSET Sids,   \* a row was written for the session
            begun   : SUBSET Sids,   \* onSessionStart ran
            ended   : SUBSET Sids,   \* onSessionEnd ran
            reaped  : SUBSET Sids,   \* the reaper claimed its row
            removed : SUBSET Sids,   \* SessionInvalidate, SessionRotate, ApplicationStop
            skipped : SUBSET Sids,   \* claimed without a cfc_path: no callback
            lost    : SUBSET Sids]   \* claimed by a reaper that died

TypeOK ==
    /\ rows \in Table
    /\ now \in Nat
    /\ minted \subseteq Sids /\ sent \subseteq minted
    /\ pc \in [Workers -> Steps]
    /\ ctx \in [Workers -> Context]
    /\ cached \in [Workers -> BOOLEAN] /\ started \in [Workers -> BOOLEAN]
    /\ reaper \in {"up", "down"}
    /\ batch \subseteq Claimed
    /\ hist \in History

Init ==
    /\ rows = [k \in Keys |-> Absent]
    /\ now = 1
    /\ minted = {} /\ sent = {}
    /\ pc = [w \in Workers |-> "idle"]
    /\ ctx = [w \in Workers |-> EmptyContext]
    /\ cached = [w \in Workers |-> FALSE]
    /\ started = [w \in Workers |-> FALSE]
    /\ reaper = "up"
    /\ batch = {}
    /\ hist = [stored |-> {}, begun |-> {}, ended |-> {}, reaped |-> {},
               removed |-> {}, skipped |-> {}, lost |-> {}]

Busy(w) == pc[w] \notin {"idle", "dead"}

Goto(w, step) == pc' = [pc EXCEPT ![w] = step]

\* What the clock can have said when the code read it, at some time since the statement
\* before: the statement the reading is for may run later, when it gets the database.
Readings(w) == ctx[w].t .. now

ReadsFrom(w) == ctx' = [ctx EXCEPT ![w].t = now]

Holds(s, set) == hist' = [hist EXCEPT ![set] = @ \cup {s}]

-------------------------------------------------------------------------------
(* A request: scope_begin and cf_application_enable.                       *)

BeginRequest(w) ==
    /\ pc[w] = "idle"
    /\ \E cookie \in sent \cup {NoSid} :
          ctx' = [ctx EXCEPT ![w] = [EmptyContext EXCEPT !.sid = cookie, !.begin = now,
                                                         !.t = now]]
    /\ Goto(w, IF cached[w] THEN "touchApp" ELSE "loadApp")
    /\ UNCHANGED <<rows, now, minted, sent, cached, started, reaperVars, hist>>

TouchApplication(w) ==
    /\ pc[w] = "touchApp"
    /\ LET t == ctx[w].t IN
       /\ rows' = Touch(rows, App, ExpiresAt(t, AppTimeout), t)
       /\ cached' = [cached EXCEPT ![w] = Live(rows[App], t)]
       /\ IF Live(rows[App], t)
          THEN Goto(w, "touchSession") /\ ReadsFrom(w)
          ELSE Goto(w, "loadApp") /\ UNCHANGED ctx
    /\ UNCHANGED <<now, minted, sent, started, reaperVars, hist>>

LoadApplication(w) ==
    /\ pc[w] = "loadApp"
    /\ IF Live(rows[App], ctx[w].t)
       THEN /\ cached' = [cached EXCEPT ![w] = rows[App].data]
            /\ Goto(w, "touchLoaded")
            /\ UNCHANGED <<rows, ctx>>
       ELSE /\ rows' = PurgeDue(rows, App, ctx[w].t)
            /\ ctx' = [ctx EXCEPT ![w] = [@ EXCEPT !.newApp = TRUE, !.t = now]]
            /\ Goto(w, "touchSession")
            /\ UNCHANGED cached
    /\ UNCHANGED <<now, minted, sent, started, reaperVars, hist>>

TouchLoadedApplication(w) ==
    /\ pc[w] = "touchLoaded"
    /\ rows' = Touch(rows, App, ExpiresAt(ctx[w].t, AppTimeout), ctx[w].t)
    /\ Goto(w, "touchSession") /\ ReadsFrom(w)
    /\ UNCHANGED <<now, minted, sent, cached, started, reaperVars, hist>>

\* nextCfid and makeCfToken: an id from "ids", and the ids given out since.
Mint(w, ids, givenOut) ==
    /\ \E s \in ids :
          /\ minted' = givenOut \cup {s}
          /\ ctx' = [ctx EXCEPT ![w] = [@ EXCEPT !.sid = s, !.t = ctx[w].begin, !.newSess = TRUE,
                                                 !.appOn = TRUE, !.sessOn = TRUE]]
    /\ Goto(w, "start")

\* The mutated form: the sequence forgets what it gave out before.
MintForgetful(w) == Mint(w, Sids, {})

MintSession(w) == Mint(w, Sids \ minted, minted)

\* The cookie's session, if the store has it at the reading t; touched if "extends".
Adopt(w, t, found, extends) ==
    /\ pc[w] = "touchSession"
    /\ LET s == ctx[w].sid IN
       IF s # NoSid /\ found
       THEN /\ rows' = IF extends THEN Touch(rows, s, ExpiresAt(t, SessionTimeout), t)
                                  ELSE rows
            /\ ctx' = [ctx EXCEPT ![w].t = t]
            /\ Goto(w, "loadSession")
            /\ UNCHANGED minted
       ELSE MintSession(w) /\ UNCHANGED rows
    /\ UNCHANGED <<now, sent, cached, started, reaperVars, hist>>

\* The mutated forms: load without having touched; test without extending.
LoadUntouched(w) == \E t \in Readings(w) : Adopt(w, t, rows[ctx[w].sid] # Absent, FALSE)
TestSession(w) == \E t \in Readings(w) : Adopt(w, t, Live(rows[ctx[w].sid], t), FALSE)

TouchSession(w) == \E t \in Readings(w) : Adopt(w, t, Live(rows[ctx[w].sid], t), TRUE)

LoadSession(w) ==
    /\ pc[w] = "loadSession"
    /\ LET s == ctx[w].sid IN
       IF Live(rows[s], ctx[w].t)
       THEN /\ ctx' = [ctx EXCEPT ![w] = [@ EXCEPT !.t = ctx[w].begin,
                                                   !.appOn = TRUE, !.sessOn = TRUE]]
            /\ Goto(w, "start")
            /\ UNCHANGED <<rows, minted>>
       ELSE MintSession(w) /\ rows' = PurgeDue(rows, s, ctx[w].t)
    /\ UNCHANGED <<now, sent, cached, started, reaperVars, hist>>

-------------------------------------------------------------------------------
(* The callbacks of run_application_cfc and what the page can do.          *)

\* onApplicationStart if "due", then onSessionStart if "new", unless the former
\* stopped the request.  An onApplicationStart that throws has set nothing yet.
Callbacks(w, due, new) ==
    /\ pc[w] = "start"
    /\ \E outcome \in StartOutcomes :
          LET stopped == due /\ outcome # "ok"
          IN /\ started' = [started EXCEPT ![w] = TRUE]
             /\ cached' = [cached EXCEPT ![w] = @ \/ (due /\ outcome # "throws")]
             /\ Goto(w, IF stopped THEN "saveApp" ELSE "page")
             /\ IF new /\ ~stopped THEN Holds(ctx[w].sid, "begun") ELSE UNCHANGED hist
             /\ sent' = IF ctx[w].newSess /\ stopped THEN sent \cup {ctx[w].sid} ELSE sent
             /\ IF stopped THEN ReadsFrom(w) ELSE UNCHANGED ctx
    /\ UNCHANGED <<rows, now, minted, reaperVars>>

\* The mutated forms: a re-created application is not started again; sessions begin
\* with their application only.
CallbacksOncePerWorker(w) == Callbacks(w, ~started[w], ctx[w].newSess)
CallbacksTogether(w) == LET due == ~started[w] \/ ctx[w].newApp
                        IN Callbacks(w, due, due /\ ctx[w].newSess)

StartCallbacks(w) == Callbacks(w, ~started[w] \/ ctx[w].newApp, ctx[w].newSess)

\* SessionInvalidate runs onSessionEnd first, even when called again ...
InvalidateCallback(w) ==
    /\ pc[w] = "page"
    /\ Holds(ctx[w].sid, "ended")
    /\ Goto(w, "invalidate")
    /\ UNCHANGED <<rows, now, minted, sent, ctx, cached, started, reaperVars>>

\* ... and deletes the row after it.
InvalidateRemove(w) ==
    /\ pc[w] = "invalidate"
    /\ IF ctx[w].sessOn
       THEN /\ rows' = Delete(rows, {ctx[w].sid})
            /\ Holds(ctx[w].sid, "removed")
       ELSE UNCHANGED <<rows, hist>>
    /\ ctx' = [ctx EXCEPT ![w].sessOn = FALSE]
    /\ Goto(w, "page")
    /\ UNCHANGED <<now, minted, sent, cached, started, reaperVars>>

RotateRemove(w) ==
    /\ pc[w] = "page"
    /\ ctx[w].sessOn
    /\ Sids \ minted # {}
    /\ rows' = Delete(rows, {ctx[w].sid})
    /\ Holds(ctx[w].sid, "removed")
    /\ Goto(w, "rotate") /\ ReadsFrom(w)
    /\ UNCHANGED <<now, minted, sent, cached, started, reaperVars>>

\* nextCfid touches no scope row, so minting and storing are one step; the row
\* has no cfc_path until scope_end writes it.
RotateStore(w) ==
    /\ pc[w] = "rotate"
    /\ \E s \in Sids \ minted, t \in Readings(w) :
          /\ minted' = minted \cup {s}
          /\ rows' = Store(rows, s, ExpiresAt(t, SessionTimeout), TRUE, FALSE)
          /\ ctx' = [ctx EXCEPT ![w] = [@ EXCEPT !.sid = s, !.newSess = TRUE]]
          /\ hist' = [hist EXCEPT !.stored = @ \cup {s},
                                  !.begun = IF ctx[w].sid \in @ THEN @ \cup {s} ELSE @]
    /\ Goto(w, "page")
    /\ UNCHANGED <<now, sent, cached, started, reaperVars>>

ApplicationStop(w) ==
    /\ pc[w] = "page"
    /\ IF ctx[w].appOn
       THEN /\ rows' = Delete(rows, Keys)
            /\ hist' = [hist EXCEPT !.removed = @ \cup {s \in Sids : rows[s] # Absent}]
       ELSE UNCHANGED <<rows, hist>>
    /\ ctx' = [ctx EXCEPT ![w] = [@ EXCEPT !.appOn = FALSE, !.sessOn = FALSE]]
    /\ UNCHANGED <<now, minted, sent, pc, cached, started, reaperVars>>

-------------------------------------------------------------------------------
(* The end of a request: the response first, then scope_end.               *)

FinishResponse(w) ==
    /\ pc[w] = "page"
    /\ sent' = IF ctx[w].newSess THEN sent \cup {ctx[w].sid} ELSE sent
    /\ Goto(w, "saveApp") /\ ReadsFrom(w)
    /\ UNCHANGED <<rows, now, minted, cached, started, reaperVars, hist>>

SaveApplication(w) ==
    /\ pc[w] = "saveApp"
    /\ \E t \in Readings(w) :
          /\ rows' = IF ctx[w].appOn
                     THEN Store(rows, App, ExpiresAt(t, AppTimeout), cached[w], TRUE)
                     ELSE rows
          /\ ctx' = [ctx EXCEPT ![w].t = t]
    /\ Goto(w, "saveSession")
    /\ UNCHANGED <<now, minted, sent, cached, started, reaperVars, hist>>

SaveSession(w) ==
    /\ pc[w] = "saveSession"
    /\ LET c == ctx[w] IN
       IF c.sessOn
       THEN /\ rows' = Store(rows, c.sid, ExpiresAt(c.t, SessionTimeout), TRUE, TRUE)
            /\ Holds(c.sid, "stored")
       ELSE UNCHANGED <<rows, hist>>
    /\ ctx' = [ctx EXCEPT ![w] = EmptyContext]
    /\ Goto(w, "idle")
    /\ UNCHANGED <<now, minted, sent, cached, started, reaperVars>>

\* A worker that dies (SIGSEGV, SIGUSR1) runs no scope_end and is not replaced.
WorkerCrash(w) ==
    /\ pc[w] # "dead"
    /\ Goto(w, "dead")
    /\ ctx' = [ctx EXCEPT ![w] = EmptyContext]
    /\ cached' = [cached EXCEPT ![w] = FALSE]
    /\ started' = [started EXCEPT ![w] = FALSE]
    /\ UNCHANGED <<rows, now, minted, sent, reaperVars, hist>>

WorkerStep(w) ==
    \/ BeginRequest(w)
    \/ TouchApplication(w) \/ LoadApplication(w) \/ TouchLoadedApplication(w)
    \/ TouchSession(w) \/ LoadSession(w)
    \/ StartCallbacks(w)
    \/ InvalidateCallback(w) \/ InvalidateRemove(w)
    \/ RotateRemove(w) \/ RotateStore(w)
    \/ ApplicationStop(w)
    \/ FinishResponse(w) \/ SaveApplication(w) \/ SaveSession(w)
    \/ WorkerCrash(w)

-------------------------------------------------------------------------------
(* The reaper: reap_expired_scopes.  When it wakes is module Reaper's      *)
(* subject; here it may claim at any time a row is due.                    *)

Claims(kept) ==
    /\ reaper = "up" /\ batch = {}
    /\ LET due == DueKeys(rows, now) IN
       /\ due # {}
       /\ batch' = {[key |-> k, cfc |-> rows[k].cfc] : k \in due}
       /\ rows' = Delete(rows, due \ kept)
       /\ hist' = [hist EXCEPT !.reaped = @ \cup (due \ {App})]
    /\ UNCHANGED <<now, workerVars, reaper>>

\* The mutated form: the DELETE leaves the sessions.
ClaimsRepeatedly == Claims(Sids)

ClaimExpired == Claims({})

\* Sessions first; a record without a cfc_path is passed over.
EndSession(r) ==
    /\ r \in batch
    /\ r.key # App
    /\ Holds(r.key, IF r.cfc THEN "ended" ELSE "skipped")
    /\ batch' = batch \ {r}
    /\ UNCHANGED <<rows, now, workerVars, reaper>>

EndApplication(r) ==
    /\ batch = {r}
    /\ r.key = App
    /\ batch' = {}
    /\ UNCHANGED <<rows, now, workerVars, reaper, hist>>

\* A callback can take the process down; the supervisor forks another.  One that dies with
\* nothing claimed loses nothing: it claims later, as it may anyway.
ReaperCrash ==
    /\ reaper = "up" /\ batch # {}
    /\ reaper' = "down"
    /\ batch' = {}
    /\ hist' = [hist EXCEPT !.lost = @ \cup ({r.key : r \in batch} \ {App})]
    /\ UNCHANGED <<rows, now, workerVars>>

ReaperRestart ==
    /\ reaper = "down"
    /\ reaper' = "up"
    /\ UNCHANGED <<rows, now, workerVars, batch, hist>>

ReaperStep ==
    \/ ClaimExpired
    \/ \E r \in batch : EndSession(r) \/ EndApplication(r)
    \/ ReaperCrash \/ ReaperRestart

Tick ==
    /\ now < MaxTime
    /\ \A w \in Workers : Busy(w) => now < ctx[w].begin + MaxRequestTime
    /\ now' = now + 1
    /\ UNCHANGED <<rows, workerVars, reaperVars, hist>>

Next == (\E w \in Workers : WorkerStep(w)) \/ ReaperStep \/ Tick

Spec == Init /\ [][Next]_vars

-------------------------------------------------------------------------------
(* Properties.                                                             *)

Using(w, s) == ctx[w].sessOn /\ ctx[w].sid = s

\* Every session that was ever written to the store is still there, is in the
\* batch the reaper is calling back, has had its onSessionEnd, or went for a
\* reason that calls none: the lazy purge of loadSession never takes it.
SessionsAccountedFor ==
    \A s \in hist.stored :
        \/ rows[s] # Absent
        \/ \E r \in batch : r.key = s
        \/ s \in hist.ended \cup hist.removed \cup hist.skipped \cup hist.lost

\* Once the reaper has claimed a session, no request works in it and no scope_end
\* writes its row again.
ReapedStaysGone ==
    \A s \in hist.reaped : rows[s] = Absent /\ \A w \in Workers : ~Using(w, s)

\* A page never runs over an application scope that onApplicationStart has not
\* initialised, whatever expiry, stop or other worker's claim came in between.
PageHasApplication == \A w \in Workers : pc[w] = "page" => cached[w]

\* Once a session has expired for as long as a request may take, it can only be
\* deleted.  Until then the touch of a request may still extend it, since it goes by a
\* reading of the clock from before the expiry.
LongExpiredIsNeverExtended ==
    [][\A s \in Sids : /\ Due(rows[s], now)
                       /\ rows[s].exp + MaxRequestTime <= now
                       => rows'[s] \in {rows[s], Absent}]_vars

\* onSessionStart ran for every session that is in the store, or for the one it was
\* rotated from, as long as onApplicationStart does not stop the request.
StoredWasBegun == \A s \in Sids : rows[s] # Absent => s \in hist.begun

\* What has become of a session, as far as the store, the reaper's batch and the history
\* of the reaper tell.  A row that goes otherwise leaves the session "missing".
FateOf(s) ==
    IF \E r \in batch : r.key = s THEN "claimed"
    ELSE IF rows[s] # Absent THEN "open"
    ELSE IF s \in hist.reaped
         THEN IF s \in hist.lost THEN "lost" ELSE IF s \in hist.skipped THEN "skipped"
              ELSE "ended"
    ELSE IF s \in hist.removed THEN "removed"
    ELSE IF s \in hist.stored THEN "missing" ELSE "new"

fateBar == [s \in Sids |-> FateOf(s)]

Fate == INSTANCE SessionFate WITH fate <- fateBar

\* The workers, the reaper and the clock together keep the promise of SessionFate: every
\* session the reaper claims was open, is called back at most once, and stays over.
KeepsSessionFate == Fate!Spec
===============================================================================

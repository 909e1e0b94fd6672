----------------------------- MODULE ScopeSharing -----------------------------
(***************************************************************************)
(* Where the contents of the APPLICATION and SESSION scopes live.  The     *)
(* cf_scope table has one copy of each; besides, every worker keeps one    *)
(* application scope from request to request (m_application, whatever       *)
(* application it was filled for) and a live copy of every session it has  *)
(* saved (g_liveSessions).  A request prefers these copies to the store's. *)
(*                                                                         *)
(* The contents of a scope are the updates made in it: each is made once,  *)
(* by a request, in its application and in its session.  Clock and expiry  *)
(* are abstracted to rows that may go at any time; the statements that     *)
(* only extend a row's life change nothing here.                           *)
(***************************************************************************)
EXTENDS Naturals

CONSTANTS Workers, Apps, Clients, Sids, Updates,
          None      \* no cookie; an update not made yet

Scopes == SUBSET Updates
Absent == {None}    \* no row, no live copy
Optional == Scopes \cup {Absent}
Origins == [app : Apps, client : Clients, sid : Sids]

ASSUME Inhabited == Apps # {} /\ Clients # {}   \* an idle worker's request has some
ASSUME NoneAssumption == None \notin Updates \cup Sids /\ None \notin Origins

VARIABLES appRow,    \* the APPLICATION rows
          sessRow,   \* the SESSION rows, by application and session id
          mem,       \* m_application of each worker; {} is the empty scope
          slot,      \* m_session of each worker
          live,      \* g_liveSessions of each worker
          cookie,    \* the CFID/CFTOKEN of each client
          minted,    \* the session ids given out
          pc, req,   \* the request of each worker
          origin,    \* who made each update
          stored,    \* the updates whose request stored them and ended
          expired    \* the updates whose application or session row went since

vars == <<appRow, sessRow, mem, slot, live, cookie, minted, pc, req, origin, stored, expired>>
histVars == <<origin, stored, expired>>

\* "known" are the updates stored before the request began; "persist" says whether
\* scope_end will write the session.
Request == [app : Apps, client : Clients, sid : Sids \cup {None},
            appOn : BOOLEAN, persist : BOOLEAN, known : Scopes]

Steps == {"idle", "touchApp", "loadApp", "touchSession", "loadSession", "page",
          "saveApp", "saveSession"}

TypeOK ==
    /\ appRow \in [Apps -> Optional]
    /\ sessRow \in [Apps \X Sids -> Optional]
    /\ mem \in [Workers -> Scopes] /\ slot \in [Workers -> Scopes]
    /\ live \in [Workers -> [Apps \X Sids -> Optional]]
    /\ cookie \in [Clients -> Sids \cup {None}]
    /\ minted \subseteq Sids
    /\ pc \in [Workers -> Steps]
    /\ req \in [Workers -> Request]
    /\ origin \in [Updates -> Origins \cup {None}]
    /\ stored \subseteq Updates /\ expired \subseteq Updates

Init ==
    /\ appRow = [a \in Apps |-> Absent]
    /\ sessRow = [k \in Apps \X Sids |-> Absent]
    /\ mem = [w \in Workers |-> {}] /\ slot = [w \in Workers |-> {}]
    /\ live = [w \in Workers |-> [k \in Apps \X Sids |-> Absent]]
    /\ cookie = [c \in Clients |-> None]
    /\ minted = {}
    /\ pc = [w \in Workers |-> "idle"]
    /\ req \in [Workers -> [app : {CHOOSE a \in Apps : TRUE},
                            client : {CHOOSE c \in Clients : TRUE},
                            sid : {None}, appOn : {FALSE}, persist : {FALSE}, known : {{}}]]
    /\ origin = [u \in Updates |-> None]
    /\ stored = {} /\ expired = {}

Goto(w, step) == pc' = [pc EXCEPT ![w] = step]
Key(w) == <<req[w].app, req[w].sid>>

-------------------------------------------------------------------------------
(* cf_application_enable.                                                  *)

\* A client may have several requests under way.
BeginRequest(w) ==
    /\ pc[w] = "idle"
    /\ \E a \in Apps, c \in Clients :
          req' = [req EXCEPT ![w] = [app |-> a, client |-> c, sid |-> cookie[c],
                                     appOn |-> TRUE, persist |-> FALSE, known |-> stored]]
    /\ Goto(w, IF mem[w] # {} THEN "touchApp" ELSE "loadApp")
    /\ UNCHANGED <<appRow, sessRow, mem, slot, live, cookie, minted, histVars>>

\* The scope the worker has is kept when the application has a live row.
TouchApplication(w) ==
    /\ pc[w] = "touchApp"
    /\ IF appRow[req[w].app] # Absent
       THEN Goto(w, "touchSession") /\ UNCHANGED mem
       ELSE Goto(w, "loadApp") /\ mem' = [mem EXCEPT ![w] = {}]
    /\ UNCHANGED <<appRow, sessRow, slot, live, cookie, minted, req, histVars>>

LoadApplication(w) ==
    /\ pc[w] = "loadApp"
    /\ LET row == appRow[req[w].app]
       IN mem' = IF row # Absent THEN [mem EXCEPT ![w] = row] ELSE mem
    /\ Goto(w, "touchSession")
    /\ UNCHANGED <<appRow, sessRow, slot, live, cookie, minted, req, histVars>>

\* The session slot is emptied, the live copy of a session that is gone erased, and
\* a session id minted.
Mint(w, kept) ==
    /\ \E s \in Sids \ minted :
          /\ minted' = minted \cup {s}
          /\ req' = [req EXCEPT ![w].sid = s, ![w].persist = TRUE]
          /\ cookie' = [cookie EXCEPT ![req[w].client] = s]
    /\ live' = [live EXCEPT ![w] = [k \in Apps \X Sids |-> IF k = Key(w) THEN Absent ELSE @[k]]]
    /\ slot' = [slot EXCEPT ![w] = kept]
    /\ Goto(w, "page")

\* The mutated form: the slot still has what the request before it left there.
MintDirty(w) == Mint(w, slot[w])

MintSession(w) == Mint(w, {})

TouchSession(w) ==
    /\ pc[w] = "touchSession"
    /\ IF req[w].sid # None /\ sessRow[Key(w)] # Absent
       THEN Goto(w, "loadSession") /\ UNCHANGED <<slot, live, cookie, minted, req>>
       ELSE MintSession(w)
    /\ UNCHANGED <<appRow, sessRow, mem, histVars>>

\* The live copy of the worker, if it has one, else the row.
LoadSession(w) ==
    /\ pc[w] = "loadSession"
    /\ IF sessRow[Key(w)] # Absent
       THEN /\ slot' = [slot EXCEPT ![w] = IF live[w][Key(w)] # Absent THEN live[w][Key(w)]
                                           ELSE sessRow[Key(w)]]
            /\ req' = [req EXCEPT ![w].persist = TRUE]
            /\ Goto(w, "page")
            /\ UNCHANGED <<live, cookie, minted>>
       ELSE MintSession(w)
    /\ UNCHANGED <<appRow, sessRow, mem, histVars>>

-------------------------------------------------------------------------------
(* The page.                                                               *)

Update(w) ==
    /\ pc[w] = "page"
    /\ req[w].appOn /\ req[w].persist
    /\ \E u \in {u \in Updates : origin[u] = None} :
          /\ origin' = [origin EXCEPT ![u] = [app |-> req[w].app, client |-> req[w].client,
                                              sid |-> req[w].sid]]
          /\ mem' = [mem EXCEPT ![w] = @ \cup {u}]
          /\ slot' = [slot EXCEPT ![w] = @ \cup {u}]
    /\ UNCHANGED <<appRow, sessRow, live, cookie, minted, pc, req, stored, expired>>

\* The updates gone with the rows in "apps" and the sessions in "keys".
Forget(apps, keys) ==
    expired' = expired \cup {u \in Updates : /\ origin[u] # None
                                             /\ \/ origin[u].app \in apps
                                                \/ <<origin[u].app, origin[u].sid>> \in keys}

SessionInvalidate(w) ==
    /\ pc[w] = "page"
    /\ req[w].persist
    /\ sessRow' = [sessRow EXCEPT ![Key(w)] = Absent]
    /\ slot' = [slot EXCEPT ![w] = {}]
    /\ req' = [req EXCEPT ![w].persist = FALSE]
    /\ Forget({}, {Key(w)})
    /\ UNCHANGED <<appRow, mem, live, cookie, minted, pc, origin, stored>>

\* Removing the old row and storing the new one, in one step here: module
\* ScopeLifecycle has them apart.
SessionRotate(w) ==
    /\ pc[w] = "page"
    /\ req[w].persist
    /\ \E s \in Sids \ minted :
          /\ minted' = minted \cup {s}
          /\ sessRow' = [sessRow EXCEPT ![Key(w)] = Absent, ![<<req[w].app, s>>] = slot[w]]
          /\ req' = [req EXCEPT ![w].sid = s]
          /\ cookie' = [cookie EXCEPT ![req[w].client] = s]
    /\ Forget({}, {Key(w)})
    /\ UNCHANGED <<appRow, mem, slot, live, pc, origin, stored>>

ApplicationStop(w) ==
    /\ pc[w] = "page"
    /\ req[w].appOn
    /\ LET a == req[w].app
       IN /\ appRow' = [appRow EXCEPT ![a] = Absent]
          /\ sessRow' = [k \in Apps \X Sids |-> IF k[1] = a THEN Absent ELSE sessRow[k]]
          /\ Forget({a}, {})
    /\ req' = [req EXCEPT ![w].appOn = FALSE, ![w].persist = FALSE]
    /\ UNCHANGED <<mem, slot, live, cookie, minted, pc, origin, stored>>

EndPage(w) ==
    /\ pc[w] = "page"
    /\ Goto(w, "saveApp")
    /\ UNCHANGED <<appRow, sessRow, mem, slot, live, cookie, minted, req, histVars>>

-------------------------------------------------------------------------------
(* scope_end.                                                              *)

\* The mutated form: the row is written when the application is new only, as the
\* appDirty of the context, which nothing reads, would have it.
SaveWhenNew(w) ==
    /\ pc[w] = "saveApp"
    /\ appRow' = IF req[w].appOn /\ appRow[req[w].app] = Absent
                 THEN [appRow EXCEPT ![req[w].app] = mem[w]] ELSE appRow
    /\ Goto(w, "saveSession")
    /\ UNCHANGED <<sessRow, mem, slot, live, cookie, minted, req, histVars>>

SaveApplication(w) ==
    /\ pc[w] = "saveApp"
    /\ appRow' = IF req[w].appOn THEN [appRow EXCEPT ![req[w].app] = mem[w]] ELSE appRow
    /\ Goto(w, "saveSession")
    /\ UNCHANGED <<sessRow, mem, slot, live, cookie, minted, req, histVars>>

EndRequest(w) ==
    /\ stored' = stored \cup {u \in slot[w] \cap mem[w] :
                                 req[w].persist /\ origin[u].app = req[w].app}
    /\ Goto(w, "idle")
    /\ UNCHANGED <<appRow, mem, slot, cookie, minted, req, origin, expired>>

\* The mutated form: a live copy that is there already is kept.
SaveKeepingLive(w) ==
    /\ pc[w] = "saveSession"
    /\ IF req[w].persist
       THEN /\ sessRow' = [sessRow EXCEPT ![Key(w)] = slot[w]]
            /\ live' = [live EXCEPT ![w][Key(w)] = IF @ = Absent THEN slot[w] ELSE @]
       ELSE UNCHANGED <<sessRow, live>>
    /\ EndRequest(w)

SaveSession(w) ==
    /\ pc[w] = "saveSession"
    /\ IF req[w].persist
       THEN /\ sessRow' = [sessRow EXCEPT ![Key(w)] = slot[w]]
            /\ live' = [live EXCEPT ![w][Key(w)] = slot[w]]
       ELSE UNCHANGED <<sessRow, live>>
    /\ EndRequest(w)

-------------------------------------------------------------------------------
(* The reaper, and a restart of the server.                                *)

ExpireApplication(a) ==
    /\ appRow[a] # Absent
    /\ appRow' = [appRow EXCEPT ![a] = Absent]
    /\ Forget({a}, {})
    /\ UNCHANGED <<sessRow, mem, slot, live, cookie, minted, pc, req, origin, stored>>

ExpireSession(k) ==
    /\ sessRow[k] # Absent
    /\ sessRow' = [sessRow EXCEPT ![k] = Absent]
    /\ Forget({}, {k})
    /\ UNCHANGED <<appRow, mem, slot, live, cookie, minted, pc, req, origin, stored>>

\* The server stops, anywhere, and starts again: the store and the cookies are what
\* it finds.
Restart ==
    /\ mem' = [w \in Workers |-> {}] /\ slot' = [w \in Workers |-> {}]
    /\ live' = [w \in Workers |-> [k \in Apps \X Sids |-> Absent]]
    /\ pc' = [w \in Workers |-> "idle"]
    /\ UNCHANGED <<appRow, sessRow, cookie, minted, req, histVars>>

WorkerStep(w) ==
    \/ BeginRequest(w) \/ TouchApplication(w) \/ LoadApplication(w)
    \/ TouchSession(w) \/ LoadSession(w)
    \/ Update(w) \/ SessionInvalidate(w) \/ SessionRotate(w) \/ ApplicationStop(w)
    \/ EndPage(w) \/ SaveApplication(w) \/ SaveSession(w)

Next ==
    \/ \E w \in Workers : WorkerStep(w)
    \/ \E a \in Apps : ExpireApplication(a)
    \/ \E k \in Apps \X Sids : ExpireSession(k)
    \/ Restart

Spec == Init /\ [][Next]_vars

-------------------------------------------------------------------------------
(* Properties.                                                             *)

By(c) == {u \in Updates : origin[u] # None /\ origin[u].client = c}
In(a) == {u \in Updates : origin[u] # None /\ origin[u].app = a}

\* The updates the request of w must see: stored before it began, and no row that
\* held them has gone since.
Settled(w) == {u \in req[w].known \ expired : origin[u].app = req[w].app}

\* A client never works on what another client has put into its own session.
SessionIsolated ==
    \A w \in Workers : pc[w] = "page" => slot[w] \subseteq By(req[w].client)

\* No other worker has served a request yet: what it keeps is what it was born with.
Alone(w) == \A v \in Workers \ {w} : ~req[v].appOn /\ req[v].sid = None

\* Until a second worker serves one, a request sees what the requests that ended before
\* it left in the application, across expiry, ApplicationStop and restarts.
ApplicationShared ==
    \A w \in Workers :
        pc[w] = "page" /\ req[w].appOn /\ Alone(w) => Settled(w) \subseteq mem[w]

\* And in its session, across SessionInvalidate and SessionRotate too.
SessionShared ==
    \A w \in Workers :
        pc[w] = "page" /\ req[w].persist /\ Alone(w) =>
            \A u \in Settled(w) : origin[u].sid = req[w].sid => u \in slot[w]

\* An application scope has only what was put into that application.
ApplicationIsolated == \A a \in Apps : appRow[a] # Absent => appRow[a] \subseteq In(a)
===============================================================================

-------------------------- MODULE ScopeSharingProofs --------------------------
(***************************************************************************)
(* No client works on another client's session, whatever the workers, the  *)
(* applications, the expiries and the restarts.  The slot of a worker is   *)
(* filled from the row or the live copy of the session id its client sent; *)
(* a session id is given to one client, and had no row and no live copy    *)
(* before.                                                                 *)
(*                                                                         *)
(* And nothing that was stored is missed, on a server whose other workers  *)
(* have served nothing: what has not expired is in the row, in the live    *)
(* copy and in the slot of the session it was stored in, and in the        *)
(* application's row and m_application, if there is one application.       *)
(***************************************************************************)
EXTENDS ScopeSharing, TLAPS

Keys == Apps \X Sids

\* Client c has been given session id s: it has the cookie, or a request under way.
Holds(c, s) ==
    \/ cookie[c] = s
    \/ \E w \in Workers : pc[w] # "idle" /\ req[w].client = c /\ req[w].sid = s

Own(content, c) == content = Absent \/ content \subseteq By(c)

HeldByOne ==
    \A c, d \in Clients, s \in Sids : Holds(c, s) /\ Holds(d, s) => c = d
HeldIsMinted == \A c \in Clients, s \in Sids : Holds(c, s) => s \in minted
FreshIsAbsent ==
    \A k \in Keys : k[2] \notin minted =>
        sessRow[k] = Absent /\ \A w \in Workers : live[w][k] = Absent
HeldIsOwn ==
    \A c \in Clients, k \in Keys : Holds(c, k[2]) =>
        Own(sessRow[k], c) /\ \A w \in Workers : Own(live[w][k], c)
SlotIsOwn ==
    \A w \in Workers : pc[w] \in {"page", "saveApp", "saveSession"} =>
        slot[w] \subseteq By(req[w].client)
PersistedHasId ==
    \A w \in Workers : pc[w] # "idle" /\ (req[w].persist \/ pc[w] = "loadSession")
        => req[w].sid # None

IsolationInv ==
    TypeOK /\ HeldByOne /\ HeldIsMinted /\ FreshIsAbsent /\ HeldIsOwn /\ SlotIsOwn
    /\ PersistedHasId

LEMMA IsolationInit == Init => IsolationInv
<1> SUFFICES ASSUME Init PROVE IsolationInv OBVIOUS
<1>1. TypeOK
  <2>1. (CHOOSE a \in Apps : TRUE) \in Apps /\ (CHOOSE c \in Clients : TRUE) \in Clients
    BY Inhabited
  <2>2. req \in [Workers -> Request]
    BY <2>1 DEF Init, Request, Scopes
  <2> QED BY <2>2 DEF Init, TypeOK, Steps, Optional, Scopes
<1>2. \A c \in Clients, s \in Sids : ~Holds(c, s)
  BY NoneAssumption DEF Init, Holds
<1> QED BY <1>1, <1>2
      DEF IsolationInv, HeldByOne, HeldIsMinted, FreshIsAbsent, HeldIsOwn, SlotIsOwn,
          PersistedHasId, Keys, Init

\* Every step, as far as sessions go: client "owner" may be given a fresh session
\* id, and what is stored, if anything, is its own and stored under an id no other
\* client has.
LEMMA StepKeepsIsolation ==
    ASSUME IsolationInv, TypeOK', SlotIsOwn', PersistedHasId', NEW owner \in Clients,
           minted \subseteq minted',
           \A c \in Clients : By(c) \subseteq By(c)',
           \A c \in Clients, s \in Sids : Holds(c, s)' =>
               Holds(c, s) \/ (c = owner /\ s \in minted' \ minted),
           \A k \in Keys : \/ sessRow'[k] \in {sessRow[k], Absent}
                           \/ /\ k[2] \in minted' /\ sessRow'[k] \subseteq By(owner)'
                              /\ \A c \in Clients : Holds(c, k[2])' => c = owner,
           \A w \in Workers, k \in Keys :
                           \/ live'[w][k] \in {live[w][k], Absent}
                           \/ /\ k[2] \in minted' /\ live'[w][k] \subseteq By(owner)'
                              /\ \A c \in Clients : Holds(c, k[2])' => c = owner
    PROVE  IsolationInv'
<1> USE DEF IsolationInv
<1>1. HeldByOne' /\ HeldIsMinted'
  BY DEF HeldByOne, HeldIsMinted
<1>2. FreshIsAbsent'
  BY DEF FreshIsAbsent
<1>3. ASSUME NEW c \in Clients, NEW k \in Keys, Holds(c, k[2])'
      PROVE  Own(sessRow[k], c)' /\ \A w \in Workers : Own(live[w][k], c)'
  <2>1. k[2] \in Sids
    BY DEF Keys
  <2>2. By(c) \subseteq By(c)'
    OBVIOUS
  <2>3. Own(sessRow[k], c) /\ \A w \in Workers : Own(live[w][k], c)
    BY <1>3, <2>1 DEF HeldIsOwn, FreshIsAbsent, Own
  <2>4. Own(sessRow[k], c)'
    BY <1>3, <2>2, <2>3 DEF Own, Absent
  <2>5. ASSUME NEW w \in Workers PROVE Own(live[w][k], c)'
    BY <1>3, <2>2, <2>3 DEF Own, Absent
  <2> QED BY <2>4, <2>5
<1>4. HeldIsOwn'
  BY <1>3 DEF HeldIsOwn
<1> QED BY <1>1, <1>2, <1>4

\* A session id nobody has, given to the client of w and to its request, takes the
\* place of the ids both had.
LEMMA FreshIdHeld ==
    ASSUME TypeOK, TypeOK', NEW w \in Workers, NEW s \in Sids \ minted,
           pc[w] # "idle", \A v \in Workers : pc'[v] # "idle" => pc[v] # "idle",
           minted' = minted \cup {s},
           cookie' = [cookie EXCEPT ![req[w].client] = s],
           \A v \in Workers : req'[v].client = req[v].client,
           req'[w].sid = s, \A v \in Workers \ {w} : req'[v].sid = req[v].sid
    PROVE  /\ req[w].client \in Clients
           /\ \A c \in Clients, t \in Sids : Holds(c, t)' =>
                  Holds(c, t) \/ (c = req[w].client /\ t \in minted' \ minted)
<1>1. req[w].client \in Clients
  BY DEF TypeOK, Request
<1>2. ASSUME NEW c \in Clients, NEW t \in Sids, Holds(c, t)'
      PROVE  Holds(c, t) \/ (c = req[w].client /\ t \in minted' \ minted)
  BY <1>2 DEF Holds, TypeOK
<1> QED BY <1>1, <1>2

LEMMA MintIsolated ==
    ASSUME IsolationInv, NEW w \in Workers, pc[w] \in {"touchSession", "loadSession"},
           MintSession(w), UNCHANGED <<appRow, sessRow, mem, histVars>>
    PROVE  IsolationInv'
<1> USE DEF IsolationInv
<1>1. PICK s \in Sids \ minted :
          /\ minted' = minted \cup {s}
          /\ req' = [req EXCEPT ![w].sid = s, ![w].persist = TRUE]
          /\ cookie' = [cookie EXCEPT ![req[w].client] = s]
  BY DEF MintSession, Mint
<1>2. /\ live' = [live EXCEPT ![w] = [k \in Apps \X Sids |-> IF k = Key(w) THEN Absent ELSE @[k]]]
      /\ slot' = [slot EXCEPT ![w] = {}]
      /\ pc' = [pc EXCEPT ![w] = "page"]
  BY DEF MintSession, Mint, Goto
<1>3. TypeOK'
  <2>1. live' \in [Workers -> [Apps \X Sids -> Optional]]
    BY <1>2 DEF TypeOK, Optional
  <2>2. req' \in [Workers -> Request] /\ cookie' \in [Clients -> Sids \cup {None}]
    BY <1>1 DEF TypeOK, Request
  <2>3. slot' \in [Workers -> Scopes] /\ pc' \in [Workers -> Steps] /\ minted' \subseteq Sids
    BY <1>1, <1>2 DEF TypeOK, Steps, Scopes
  <2> QED BY <2>1, <2>2, <2>3 DEF TypeOK, histVars
<1>4. \A c \in Clients : By(c)' = By(c)
  BY DEF By, histVars
<1>5. /\ \A v \in Workers : req'[v].client = req[v].client
      /\ req'[w].sid = s /\ \A v \in Workers \ {w} : req'[v].sid = req[v].sid
  BY <1>1 DEF TypeOK, Request
<1>6. \A v \in Workers : pc'[v] # "idle" => pc[v] # "idle"
  BY <1>2 DEF TypeOK
<1>7. /\ req[w].client \in Clients
      /\ \A c \in Clients, t \in Sids : Holds(c, t)' =>
             Holds(c, t) \/ (c = req[w].client /\ t \in minted' \ minted)
  BY <1>1, <1>3, <1>5, <1>6, FreshIdHeld
<1>8. SlotIsOwn'
  BY <1>2, <1>4, <1>5 DEF SlotIsOwn, TypeOK, Request
<1>9. PersistedHasId'
  BY <1>1, <1>2, NoneAssumption DEF PersistedHasId, TypeOK, Request
<1>10. \A v \in Workers, k \in Keys : live'[v][k] \in {live[v][k], Absent}
  BY <1>2 DEF TypeOK, Keys
<1>11. \A k \in Keys : sessRow'[k] = sessRow[k]
  OBVIOUS
<1> QED BY <1>1, <1>3, <1>4, <1>7, <1>8, <1>9, <1>10, <1>11, StepKeepsIsolation

\* A step that gives no session id and stores nothing: rows and live copies stay or go.
LEMMA QuietStepIsolated ==
    ASSUME IsolationInv, TypeOK', SlotIsOwn', PersistedHasId', UNCHANGED <<minted, origin>>,
           \A c \in Clients, s \in Sids : Holds(c, s)' => Holds(c, s),
           \A k \in Keys : sessRow'[k] \in {sessRow[k], Absent},
           \A w \in Workers, k \in Keys : live'[w][k] \in {live[w][k], Absent}
    PROVE  IsolationInv'
<1>1. PICK owner \in Clients : TRUE
  BY Inhabited
<1>2. \A c \in Clients : By(c)' = By(c)
  BY DEF By
<1> QED BY <1>1, <1>2, StepKeepsIsolation

\* The steps of a request that change neither ids nor contents of sessions.
LEMMA PassingStepIsolated ==
    ASSUME IsolationInv, NEW w \in Workers, TypeOK',
           pc[w] # "idle", pc' = [pc EXCEPT ![w] = pc'[w]],
           pc'[w] # "loadSession",
           pc'[w] \in {"page", "saveApp", "saveSession"} =>
               pc[w] \in {"page", "saveApp", "saveSession"},
           UNCHANGED <<sessRow, slot, live, cookie, minted, req, origin>>
    PROVE  IsolationInv'
<1> USE DEF IsolationInv
<1>1. \A v \in Workers : /\ pc'[v] # "idle" => pc[v] # "idle"
                         /\ pc'[v] = "loadSession" => pc[v] = "loadSession"
  BY DEF TypeOK
<1>2. SlotIsOwn'
  BY DEF SlotIsOwn, By, TypeOK
<1>3. PersistedHasId'
  BY <1>1 DEF PersistedHasId
<1>4. \A c \in Clients, s \in Sids : Holds(c, s)' => Holds(c, s)
  BY <1>1 DEF Holds
<1> QED BY <1>2, <1>3, <1>4, QuietStepIsolated DEF Keys

LEMMA RequestIsolated ==
    ASSUME IsolationInv, NEW w \in Workers,
           \/ BeginRequest(w) \/ TouchApplication(w) \/ LoadApplication(w)
           \/ TouchSession(w) \/ LoadSession(w)
    PROVE  IsolationInv'
<1> USE DEF IsolationInv
<1>1. CASE BeginRequest(w)
  <2>1. PICK a \in Apps, c \in Clients :
            req' = [req EXCEPT ![w] = [app |-> a, client |-> c, sid |-> cookie[c],
                                       appOn |-> TRUE, persist |-> FALSE, known |-> stored]]
    BY <1>1 DEF BeginRequest
  <2>2. PICK step \in {"touchApp", "loadApp"} : pc' = [pc EXCEPT ![w] = step]
    BY <1>1 DEF BeginRequest, Goto
  <2>3. UNCHANGED <<appRow, sessRow, mem, slot, live, cookie, minted, histVars>>
    BY <1>1 DEF BeginRequest
  <2>4. TypeOK'
    <3>1. req' \in [Workers -> Request]
      BY <2>1 DEF TypeOK, Request, Scopes
    <3> QED BY <3>1, <2>2, <2>3 DEF TypeOK, histVars, Steps
  <2>5. SlotIsOwn' /\ PersistedHasId'
    BY <2>1, <2>2, <2>3 DEF SlotIsOwn, PersistedHasId, By, histVars, TypeOK, Request
  <2>6. \A d \in Clients, s \in Sids : Holds(d, s)' => Holds(d, s)
    BY <2>1, <2>2, <2>3 DEF Holds, TypeOK, Request
  <2> QED BY <2>3, <2>4, <2>5, <2>6, QuietStepIsolated DEF histVars
<1>2. CASE TouchApplication(w) \/ LoadApplication(w)
  <2>1. PICK step \in {"loadApp", "touchSession"} : pc' = [pc EXCEPT ![w] = step]
    BY <1>2 DEF TouchApplication, LoadApplication, Goto
  <2>2. /\ mem' \in [Workers -> Scopes] /\ pc[w] # "idle"
        /\ UNCHANGED <<appRow, sessRow, slot, live, cookie, minted, req, histVars>>
    <3>1. req[w].app \in Apps
      BY DEF TypeOK, Request
    <3> QED BY <1>2, <3>1 DEF TouchApplication, LoadApplication, TypeOK, Optional, Scopes
  <2>3. TypeOK'
    BY <2>1, <2>2 DEF TypeOK, Steps, histVars
  <2> QED BY <2>1, <2>2, <2>3, PassingStepIsolated DEF histVars, TypeOK
<1>3. CASE TouchSession(w) \/ LoadSession(w)
  <2>1. CASE MintSession(w)
    BY <1>3, <2>1, MintIsolated DEF TouchSession, LoadSession
  <2>2. CASE TouchSession(w) /\ ~MintSession(w)
    <3>1. /\ req[w].sid # None /\ pc' = [pc EXCEPT ![w] = "loadSession"] /\ pc[w] # "idle"
          /\ UNCHANGED <<appRow, sessRow, mem, slot, live, cookie, minted, req, histVars>>
      BY <2>2 DEF TouchSession, Goto
    <3>2. TypeOK'
      BY <3>1 DEF TypeOK, Steps, histVars
    <3>3. SlotIsOwn' /\ PersistedHasId'
      BY <3>1 DEF SlotIsOwn, PersistedHasId, By, histVars, TypeOK
    <3>4. \A c \in Clients, s \in Sids : Holds(c, s)' => Holds(c, s)
      BY <3>1 DEF Holds, TypeOK
    <3> QED BY <3>1, <3>2, <3>3, <3>4, QuietStepIsolated DEF histVars, Keys
  <2>3. CASE LoadSession(w) /\ ~MintSession(w)
    <3>1. /\ pc[w] = "loadSession" /\ sessRow[Key(w)] # Absent
          /\ pc' = [pc EXCEPT ![w] = "page"] /\ req' = [req EXCEPT ![w].persist = TRUE]
          /\ UNCHANGED <<appRow, sessRow, mem, live, cookie, minted, histVars>>
      BY <2>3 DEF LoadSession, Goto
    <3>2. PICK content : /\ content \in {live[w][Key(w)], sessRow[Key(w)]}
                         /\ content # Absent /\ slot' = [slot EXCEPT ![w] = content]
      BY <2>3 DEF LoadSession
    <3>3. Key(w) \in Keys /\ Key(w)[2] = req[w].sid /\ req[w].client \in Clients
      BY <3>1, NoneAssumption DEF PersistedHasId, Key, Keys, TypeOK, Request
    <3>4. Holds(req[w].client, Key(w)[2])
      BY <3>1, <3>3 DEF Holds
    <3>5. content \subseteq By(req[w].client)
      BY <3>2, <3>3, <3>4 DEF HeldIsOwn, Own
    <3>6. content \in Scopes
      BY <3>2, <3>3 DEF TypeOK, Optional, Keys
    <3>7. TypeOK'
      <4>1. req' \in [Workers -> Request] /\ slot' \in [Workers -> Scopes]
        BY <3>1, <3>2, <3>6 DEF TypeOK, Request
      <4> QED BY <3>1, <4>1 DEF TypeOK, Steps, histVars
    <3>8. \A v \in Workers : req'[v].client = req[v].client /\ req'[v].sid = req[v].sid
      BY <3>1 DEF TypeOK, Request
    <3>9. SlotIsOwn'
      BY <3>1, <3>2, <3>5, <3>8 DEF SlotIsOwn, By, histVars, TypeOK
    <3>10. PersistedHasId'
      BY <3>1, <3>8 DEF PersistedHasId, TypeOK, Request
    <3>11. \A c \in Clients, s \in Sids : Holds(c, s)' => Holds(c, s)
      BY <3>1, <3>8 DEF Holds, TypeOK
    <3> QED BY <3>1, <3>7, <3>9, <3>10, <3>11, QuietStepIsolated DEF histVars, Keys
  <2> QED BY <1>3, <2>1, <2>2, <2>3
<1> QED BY <1>1, <1>2, <1>3

LEMMA PageIsolated ==
    ASSUME IsolationInv, NEW w \in Workers,
           \/ Update(w) \/ SessionInvalidate(w) \/ SessionRotate(w) \/ ApplicationStop(w)
    PROVE  IsolationInv'
<1> USE DEF IsolationInv
<1>1. /\ pc[w] = "page" /\ UNCHANGED <<pc, live, stored>>
      /\ req[w] \in Request /\ req[w].client \in Clients /\ req[w].app \in Apps
  BY DEF Update, SessionInvalidate, SessionRotate, ApplicationStop, TypeOK, Request
<1> PICK owner \in Clients : owner = req[w].client
  BY <1>1
<1>2. expired' \subseteq Updates
  BY DEF Update, SessionInvalidate, SessionRotate, ApplicationStop, Forget, TypeOK
<1>3. CASE Update(w)
  <2>1. PICK u \in Updates :
            /\ origin[u] = None
            /\ origin' = [origin EXCEPT ![u] = [app |-> req[w].app, client |-> req[w].client,
                                                sid |-> req[w].sid]]
            /\ mem' = [mem EXCEPT ![w] = @ \cup {u}]
            /\ slot' = [slot EXCEPT ![w] = @ \cup {u}]
    BY <1>3 DEF Update
  <2>2. UNCHANGED <<appRow, sessRow, live, cookie, minted, pc, req, stored, expired>>
    BY <1>3 DEF Update
  <2>3. req[w].sid \in Sids
    BY <1>1, <1>3 DEF Update, PersistedHasId, Request
  <2>4. TypeOK'
    <3>1. origin' \in [Updates -> Origins \cup {None}]
      BY <1>1, <2>1, <2>3 DEF TypeOK, Origins
    <3> QED BY <2>1, <2>2, <3>1 DEF TypeOK, Scopes
  <2>5. /\ \A c \in Clients : By(c) \subseteq By(c)'
        /\ u \in By(owner)'
    <3>1. origin'[u] # None /\ origin'[u].client = owner
      BY <1>1, <2>1, <2>3, NoneAssumption DEF Origins, TypeOK
    <3>2. \A v \in Updates : origin[v] # None => origin'[v] = origin[v]
      BY <2>1 DEF TypeOK
    <3> QED BY <3>1, <3>2 DEF By
  <2>6. SlotIsOwn'
    <3>1. ASSUME NEW v \in Workers, pc'[v] \in {"page", "saveApp", "saveSession"}
          PROVE  slot'[v] \subseteq By(req[v].client)'
      <4>1. PICK c \in Clients : c = req[v].client
        BY DEF TypeOK, Request
      <4>2. slot[v] \subseteq By(c)
        BY <2>2, <3>1, <4>1 DEF SlotIsOwn
      <4>3. slot'[v] \subseteq By(c)'
        BY <2>1, <2>5, <4>1, <4>2 DEF TypeOK
      <4> QED BY <2>2, <4>1, <4>3 DEF By
    <3> QED BY <3>1, <2>2 DEF SlotIsOwn, By
  <2>7. PersistedHasId'
    BY <2>2 DEF PersistedHasId
  <2>8. \A c \in Clients, s \in Sids : Holds(c, s)' => Holds(c, s)
    BY <2>2 DEF Holds
  <2> QED BY <1>1, <2>2, <2>4, <2>5, <2>6, <2>7, <2>8, StepKeepsIsolation
<1>4. CASE SessionInvalidate(w) \/ ApplicationStop(w)
  <2>1. /\ UNCHANGED <<cookie, minted, origin>>
        /\ appRow' \in [Apps -> Optional]
        /\ mem' = mem
    BY <1>4 DEF SessionInvalidate, ApplicationStop, TypeOK, Optional
  <2>2. /\ sessRow' \in [Keys -> Optional]
        /\ \A k \in Keys : sessRow'[k] \in {sessRow[k], Absent}
    BY <1>4 DEF SessionInvalidate, ApplicationStop, TypeOK, Optional, Keys
  <2>3. slot' = [slot EXCEPT ![w] = slot'[w]] /\ slot'[w] \in {slot[w], {}}
    BY <1>4 DEF SessionInvalidate, ApplicationStop, TypeOK
  <2>4. PICK on \in BOOLEAN :
            req' = [req EXCEPT ![w] = [@ EXCEPT !.appOn = on, !.persist = FALSE]]
    <3>1. req[w].appOn \in BOOLEAN /\ [req[w] EXCEPT !.appOn = req[w].appOn] = req[w]
      BY <1>1 DEF Request
    <3>2. CASE SessionInvalidate(w)
      <4>1. req' = [req EXCEPT ![w] = [@ EXCEPT !.appOn = req[w].appOn, !.persist = FALSE]]
        BY <3>1, <3>2 DEF SessionInvalidate
      <4> QED BY <3>1, <4>1
    <3>3. CASE ApplicationStop(w)
      BY <3>3 DEF ApplicationStop
    <3> QED BY <1>4, <3>2, <3>3
  <2>5. TypeOK'
    <3>1. req' \in [Workers -> Request]
      BY <1>1, <2>4 DEF TypeOK, Request
    <3>2. slot' \in [Workers -> Scopes]
      BY <2>3 DEF TypeOK, Scopes
    <3> QED BY <1>1, <1>2, <2>1, <2>2, <3>1, <3>2 DEF TypeOK, Keys
  <2>6. \A v \in Workers : /\ req'[v].client = req[v].client /\ req'[v].sid = req[v].sid
                           /\ req'[v].persist => req[v].persist
    BY <1>1, <2>4 DEF TypeOK, Request
  <2>7. SlotIsOwn'
    BY <1>1, <2>1, <2>3, <2>6 DEF SlotIsOwn, By, TypeOK
  <2>8. PersistedHasId'
    BY <1>1, <2>6 DEF PersistedHasId
  <2>9. \A c \in Clients, s \in Sids : Holds(c, s)' => Holds(c, s)
    BY <1>1, <2>1, <2>6 DEF Holds
  <2> QED BY <1>1, <2>1, <2>2, <2>5, <2>7, <2>8, <2>9, QuietStepIsolated
<1>5. CASE SessionRotate(w)
  <2>1. PICK s \in Sids \ minted :
          /\ minted' = minted \cup {s}
          /\ sessRow' = [sessRow EXCEPT ![Key(w)] = Absent, ![<<req[w].app, s>>] = slot[w]]
          /\ req' = [req EXCEPT ![w].sid = s]
          /\ cookie' = [cookie EXCEPT ![req[w].client] = s]
    BY <1>5 DEF SessionRotate
  <2>2. UNCHANGED <<appRow, mem, slot, live, pc, origin, stored>>
    BY <1>5 DEF SessionRotate
  <2>3. slot[w] \in Scopes /\ slot[w] \subseteq By(owner)
    BY <1>1 DEF TypeOK, SlotIsOwn
  <2>4. TypeOK'
    <3>1. req' \in [Workers -> Request] /\ cookie' \in [Clients -> Sids \cup {None}]
      BY <1>1, <2>1 DEF TypeOK, Request
    <3>2. sessRow' \in [Keys -> Optional] /\ minted' \subseteq Sids
      BY <1>1, <2>1, <2>3 DEF TypeOK, Optional, Keys
    <3> QED BY <1>2, <2>2, <3>1, <3>2 DEF TypeOK, Keys
  <2>5. \A c \in Clients : By(c)' = By(c)
    BY <2>2 DEF By
  <2>6. /\ \A v \in Workers : req'[v].client = req[v].client
        /\ req'[w].sid = s /\ \A v \in Workers \ {w} : req'[v].sid = req[v].sid
    BY <2>1 DEF TypeOK, Request
  <2>7. \A c \in Clients, t \in Sids : Holds(c, t)' =>
            Holds(c, t) \/ (c = owner /\ t \in minted' \ minted)
    BY <1>1, <2>1, <2>2, <2>4, <2>6, FreshIdHeld
  <2>8. \A k \in Keys : \/ sessRow'[k] \in {sessRow[k], Absent}
                        \/ /\ k[2] \in minted' /\ sessRow'[k] \subseteq By(owner)'
                           /\ \A c \in Clients : Holds(c, k[2])' => c = owner
    <3>1. ASSUME NEW k \in Keys, k = <<req[w].app, s>>
          PROVE  /\ k[2] \in minted' /\ sessRow'[k] \subseteq By(owner)'
                 /\ \A c \in Clients : Holds(c, k[2])' => c = owner
      BY <1>1, <2>1, <2>3, <2>5, <2>7, <3>1 DEF TypeOK, Keys, HeldIsMinted
    <3>2. ASSUME NEW k \in Keys, k # <<req[w].app, s>>
          PROVE  sessRow'[k] \in {sessRow[k], Absent}
      BY <2>1, <3>2 DEF TypeOK, Keys
    <3> QED BY <3>1, <3>2
  <2>9. SlotIsOwn'
    BY <2>2, <2>5, <2>6 DEF SlotIsOwn, TypeOK, Request
  <2>10. PersistedHasId'
    <3>1. s # None
      BY NoneAssumption
    <3>2. \A v \in Workers \ {w} : req'[v].persist = req[v].persist
      BY <2>1 DEF TypeOK, Request
    <3> QED BY <1>1, <2>1, <2>2, <2>6, <3>1, <3>2 DEF PersistedHasId
  <2> QED BY <1>1, <2>1, <2>2, <2>4, <2>5, <2>7, <2>8, <2>9, <2>10, StepKeepsIsolation
<1> QED BY <1>3, <1>4, <1>5

LEMMA EndIsolated ==
    ASSUME IsolationInv, NEW w \in Workers,
           EndPage(w) \/ SaveApplication(w) \/ SaveSession(w)
    PROVE  IsolationInv'
<1> USE DEF IsolationInv
<1>1. req[w] \in Request /\ req[w].client \in Clients /\ req[w].app \in Apps
  BY DEF TypeOK, Request
<1> PICK owner \in Clients : owner = req[w].client
  BY <1>1
<1>2. CASE EndPage(w) \/ SaveApplication(w)
  <2>1. PICK step \in {"saveApp", "saveSession"} : pc' = [pc EXCEPT ![w] = step]
    BY <1>2 DEF EndPage, SaveApplication, Goto
  <2>2. /\ appRow' \in [Apps -> Optional] /\ pc[w] \in {"page", "saveApp"}
        /\ UNCHANGED <<sessRow, mem, slot, live, cookie, minted, req, histVars>>
    BY <1>1, <1>2 DEF EndPage, SaveApplication, TypeOK, Optional
  <2>3. TypeOK'
    BY <2>1, <2>2 DEF TypeOK, Steps, histVars
  <2> QED BY <2>1, <2>2, <2>3, PassingStepIsolated DEF histVars, TypeOK
<1>3. CASE SaveSession(w)
  <2>1. /\ pc[w] = "saveSession" /\ pc' = [pc EXCEPT ![w] = "idle"]
        /\ UNCHANGED <<appRow, mem, slot, cookie, minted, req, origin, expired>>
        /\ stored' \subseteq Updates
    BY <1>3 DEF SaveSession, EndRequest, Goto, TypeOK, Scopes
  <2>2. \A c \in Clients : By(c)' = By(c)
    BY <2>1 DEF By
  <2>3. \A v \in Workers : pc'[v] # "idle" => pc[v] # "idle" /\ pc'[v] = pc[v]
    BY <2>1 DEF TypeOK
  <2>4. \A c \in Clients, s \in Sids : Holds(c, s)' => Holds(c, s)
    BY <2>1, <2>3 DEF Holds
  <2>5. SlotIsOwn' /\ PersistedHasId'
    <3>1. SlotIsOwn'
      BY <2>1, <2>2, <2>3 DEF SlotIsOwn, TypeOK, Request
    <3>2. PersistedHasId'
      BY <2>1, <2>3 DEF PersistedHasId
    <3> QED BY <3>1, <3>2
  <2>6. CASE ~req[w].persist
    <3>1. UNCHANGED <<sessRow, live>>
      BY <1>3, <2>6 DEF SaveSession
    <3>2. TypeOK'
      BY <2>1, <3>1 DEF TypeOK, Steps
    <3> QED BY <2>1, <2>4, <2>5, <3>1, <3>2, QuietStepIsolated
  <2>7. CASE req[w].persist
    <3>1. /\ sessRow' = [sessRow EXCEPT ![Key(w)] = slot[w]]
          /\ live' = [live EXCEPT ![w][Key(w)] = slot[w]]
      BY <1>3, <2>7 DEF SaveSession
    <3>2. PICK key \in Keys : key = Key(w) /\ key[2] = req[w].sid /\ key[2] \in Sids
      <4>1. req[w].sid \in Sids
        BY <1>1, <2>1, <2>7 DEF PersistedHasId, Request
      <4>2. <<req[w].app, req[w].sid>> \in Keys
        BY <1>1, <4>1 DEF Keys
      <4>3. <<req[w].app, req[w].sid>>[2] = req[w].sid
        OBVIOUS
      <4> QED BY <4>1, <4>2, <4>3 DEF Key
    <3>3. slot[w] \in Scopes /\ slot[w] \subseteq By(owner)
      BY <2>1 DEF TypeOK, SlotIsOwn
    <3>4. Holds(owner, key[2])
      BY <2>1, <3>2 DEF Holds
    <3>5. /\ key[2] \in minted'
          /\ \A c \in Clients : Holds(c, key[2])' => c = owner
      BY <2>1, <2>4, <3>2, <3>4 DEF HeldByOne, HeldIsMinted
    <3>6. TypeOK'
      <4>1. sessRow' \in [Keys -> Optional] /\ live' \in [Workers -> [Keys -> Optional]]
        BY <3>1, <3>2, <3>3 DEF TypeOK, Optional, Keys
      <4> QED BY <2>1, <4>1 DEF TypeOK, Steps, Keys
    <3>7. \A k \in Keys : \/ sessRow'[k] = sessRow[k]
                          \/ k = key /\ sessRow'[k] = slot[w]
      BY <3>1, <3>2 DEF TypeOK, Keys
    <3>8. \A v \in Workers, k \in Keys : \/ live'[v][k] = live[v][k]
                                         \/ k = key /\ live'[v][k] = slot[w]
      BY <3>1, <3>2 DEF TypeOK, Keys
    <3>9. slot[w] \subseteq By(owner)'
      BY <2>2, <3>3
    <3> QED BY <2>1, <2>2, <2>4, <2>5, <3>5, <3>6, <3>7, <3>8, <3>9, StepKeepsIsolation
  <2> QED BY <2>6, <2>7
<1> QED BY <1>2, <1>3

LEMMA OthersIsolated ==
    ASSUME IsolationInv,
           \/ \E a \in Apps : ExpireApplication(a)
           \/ \E k \in Apps \X Sids : ExpireSession(k)
           \/ Restart \/ UNCHANGED vars
    PROVE  IsolationInv'
<1> USE DEF IsolationInv
<1>1. CASE Restart
  <2>1. TypeOK'
    BY <1>1 DEF Restart, TypeOK, Scopes, Optional, Steps, histVars
  <2>2. \A w \in Workers : pc'[w] = "idle"
    BY <1>1 DEF Restart
  <2>3. SlotIsOwn' /\ PersistedHasId'
    BY <2>2 DEF SlotIsOwn, PersistedHasId
  <2>4. \A c \in Clients, s \in Sids : Holds(c, s)' => Holds(c, s)
    BY <1>1, <2>2 DEF Holds, Restart
  <2>5. \A w \in Workers, k \in Keys : live'[w][k] = Absent
    BY <1>1 DEF Restart, Keys
  <2>6. UNCHANGED <<minted, origin, sessRow>>
    BY <1>1 DEF Restart, histVars
  <2> QED BY <2>1, <2>3, <2>4, <2>5, <2>6, QuietStepIsolated
<1>2. CASE (\E a \in Apps : ExpireApplication(a)) \/ (\E k \in Apps \X Sids : ExpireSession(k))
           \/ UNCHANGED vars
  <2>1. UNCHANGED <<mem, slot, live, cookie, minted, pc, req, origin, stored>>
    BY <1>2 DEF ExpireApplication, ExpireSession, vars
  <2>2. TypeOK'
    BY <1>2, <2>1 DEF ExpireApplication, ExpireSession, Forget, vars, TypeOK, Optional
  <2>3. \A k \in Keys : sessRow'[k] \in {sessRow[k], Absent}
    BY <1>2 DEF ExpireApplication, ExpireSession, vars, TypeOK, Keys
  <2>4. SlotIsOwn' /\ PersistedHasId'
    BY <2>1 DEF SlotIsOwn, PersistedHasId, By
  <2>5. \A c \in Clients, s \in Sids : Holds(c, s)' => Holds(c, s)
    BY <2>1 DEF Holds
  <2> QED BY <2>1, <2>2, <2>3, <2>4, <2>5, QuietStepIsolated
<1> QED BY <1>1, <1>2

\* A client never works on what another client has put into its own session: the
\* session slot is emptied or filled by cf_application_enable before the page runs,
\* and a session id (nextCfid with makeCfToken) is given out once.
THEOREM ClientsIsolated == Spec => []SessionIsolated
<1>1. IsolationInv /\ [Next]_vars => IsolationInv'
  BY RequestIsolated, PageIsolated, EndIsolated, OthersIsolated DEF Next, WorkerStep
<1>2. IsolationInv => SessionIsolated
  BY DEF IsolationInv, SlotIsOwn, SessionIsolated
<1> QED BY <1>1, <1>2, IsolationInit, PTL DEF Spec

-------------------------------------------------------------------------------
(* What a request finds: the history of its scopes.                        *)

Saving(w) == pc[w] \in {"page", "saveApp", "saveSession"}
OriginKey(u) == <<origin[u].app, origin[u].sid>>
Made(u) == origin[u] # None

\* The updates that requests stored, and whose rows have not gone since.
Kept == stored \ expired

NeverServed(w) == ~req[w].appOn /\ req[w].sid = None

\* The requests: a page has a session id; a scope is switched on before it is saved.
RequestsOK ==
    \A w \in Workers :
        /\ NeverServed(w) => pc[w] = "idle"
        /\ Saving(w) => req[w].sid # None
        /\ pc[w] # "idle" /\ ~Saving(w) => req[w].appOn
        /\ req[w].persist => req[w].appOn
        /\ req[w].known \subseteq stored

OriginsOK ==
    /\ \A u \in stored : Made(u)
    /\ \A u \in Updates : Made(u) => origin[u].sid \in minted

\* What has come into a session by another key is expired: SessionRotate took it along.
OwnKey(content, k) ==
    content # Absent => \A u \in content : u \in expired \/ (Made(u) /\ OriginKey(u) = k)
KeysOwn ==
    /\ \A k \in Keys : OwnKey(sessRow[k], k)
    /\ \A w \in Workers, k \in Keys : OwnKey(live[w][k], k)
    /\ \A w \in Workers : Saving(w) => OwnKey(slot[w], Key(w))

HistoryInv == IsolationInv /\ RequestsOK /\ OriginsOK /\ KeysOwn

\* A step leaves the request and the memory of the other workers alone.
OthersAlone(w) ==
    \A v \in Workers \ {w} : /\ pc'[v] = pc[v] /\ req'[v] = req[v] /\ mem'[v] = mem[v]
                             /\ slot'[v] = slot[v] /\ live'[v] = live[v]

\* What a step does to the request of w and to the history.
LEMMA BeginEffect ==
    ASSUME TypeOK, NEW w \in Workers, BeginRequest(w)
    PROVE  /\ OthersAlone(w) /\ UNCHANGED <<appRow, sessRow, mem, slot, live, minted, histVars>>
           /\ pc[w] = "idle" /\ pc'[w] = IF mem[w] # {} THEN "touchApp" ELSE "loadApp"
           /\ req'[w].appOn = TRUE /\ req'[w].persist = FALSE /\ req'[w].known = stored
<1>1. PICK a \in Apps, c \in Clients :
          req' = [req EXCEPT ![w] = [app |-> a, client |-> c, sid |-> cookie[c],
                                     appOn |-> TRUE, persist |-> FALSE, known |-> stored]]
  BY DEF BeginRequest
<1> QED BY <1>1 DEF BeginRequest, Goto, OthersAlone, TypeOK

LEMMA ApplicationEffect ==
    ASSUME TypeOK, NEW w \in Workers, TouchApplication(w) \/ LoadApplication(w)
    PROVE  /\ OthersAlone(w)
           /\ UNCHANGED <<appRow, sessRow, slot, live, minted, req, histVars>>
           /\ pc[w] \in {"touchApp", "loadApp"} /\ pc'[w] \in {"loadApp", "touchSession"}
  BY DEF TouchApplication, LoadApplication, Goto, OthersAlone, TypeOK

LEMMA MintEffect ==
    ASSUME TypeOK, NEW w \in Workers, pc[w] \in {"touchSession", "loadSession"},
           MintSession(w), UNCHANGED <<appRow, sessRow, mem, histVars>>
    PROVE  /\ OthersAlone(w) /\ pc'[w] = "page" /\ slot'[w] = {}
           /\ req'[w].sid \in Sids \ minted /\ minted' = minted \cup {req'[w].sid}
           /\ req'[w].persist = TRUE /\ req'[w].app = req[w].app
           /\ req'[w].appOn = req[w].appOn /\ req'[w].known = req[w].known
           /\ \A k \in Keys : live'[w][k] \in {live[w][k], Absent}
<1>1. PICK s \in Sids \ minted :
          /\ minted' = minted \cup {s}
          /\ req' = [req EXCEPT ![w].sid = s, ![w].persist = TRUE]
  BY DEF MintSession, Mint
<1>2. /\ req'[w].sid = s /\ req'[w].persist = TRUE /\ req'[w].app = req[w].app
      /\ req'[w].appOn = req[w].appOn /\ req'[w].known = req[w].known
      /\ \A v \in Workers \ {w} : req'[v] = req[v]
  BY <1>1 DEF TypeOK, Request
<1>3. /\ live' = [live EXCEPT ![w] = [k \in Apps \X Sids |-> IF k = Key(w) THEN Absent ELSE @[k]]]
      /\ slot' = [slot EXCEPT ![w] = {}]
      /\ pc' = [pc EXCEPT ![w] = "page"]
  BY DEF MintSession, Mint, Goto
<1>4. /\ \A k \in Keys : live'[w][k] \in {live[w][k], Absent}
      /\ \A v \in Workers \ {w} : live'[v] = live[v]
  BY <1>3 DEF TypeOK, Keys
<1> QED BY <1>1, <1>2, <1>3, <1>4 DEF OthersAlone, TypeOK

\* The session is there and touched, or taken over.
LEMMA SessionEffect ==
    ASSUME TypeOK, NEW w \in Workers, TouchSession(w) \/ LoadSession(w), ~MintSession(w)
    PROVE  /\ OthersAlone(w)
           /\ UNCHANGED <<appRow, sessRow, mem, live, minted, histVars>>
           /\ pc[w] \in {"touchSession", "loadSession"}
           /\ req'[w].sid = req[w].sid /\ req'[w].app = req[w].app
           /\ req'[w].appOn = req[w].appOn /\ req'[w].known = req[w].known
           /\ \/ pc'[w] = "loadSession" /\ req'[w].persist = req[w].persist
              \/ /\ pc[w] = "loadSession" /\ pc'[w] = "page" /\ sessRow[Key(w)] # Absent
                 /\ slot'[w] = IF live[w][Key(w)] # Absent THEN live[w][Key(w)]
                               ELSE sessRow[Key(w)]
  BY DEF TouchSession, LoadSession, Goto, OthersAlone, TypeOK, Request

\* A page makes an update, in both of its scopes.
LEMMA UpdateEffect ==
    ASSUME TypeOK, NEW w \in Workers, Update(w)
    PROVE  /\ OthersAlone(w)
           /\ UNCHANGED <<appRow, sessRow, live, minted, pc, req, stored, expired>>
           /\ pc[w] = "page" /\ req[w].appOn /\ req[w].persist
           /\ \E u \in Updates :
                 /\ ~Made(u) /\ mem'[w] = mem[w] \cup {u} /\ slot'[w] = slot[w] \cup {u}
                 /\ origin'[u].app = req[w].app /\ origin'[u].sid = req[w].sid
                 /\ origin'[u] = [app |-> req[w].app, client |-> req[w].client,
                                  sid |-> req[w].sid]
                 /\ \A x \in Updates \ {u} : origin'[x] = origin[x]
  BY DEF Update, OthersAlone, TypeOK, Made

LEMMA InvalidateEffect ==
    ASSUME TypeOK, NEW w \in Workers, SessionInvalidate(w)
    PROVE  /\ OthersAlone(w)
           /\ UNCHANGED <<appRow, mem, live, minted, pc, origin, stored>>
           /\ pc[w] = "page" /\ slot'[w] = {} /\ req'[w].persist = FALSE
           /\ req'[w].sid = req[w].sid /\ req'[w].app = req[w].app
           /\ req'[w].appOn = req[w].appOn /\ req'[w].known = req[w].known
           /\ sessRow' = [sessRow EXCEPT ![Key(w)] = Absent]
           /\ Forget({}, {Key(w)})
  BY DEF SessionInvalidate, OthersAlone, TypeOK, Request

LEMMA RotateEffect ==
    ASSUME TypeOK, NEW w \in Workers, SessionRotate(w)
    PROVE  /\ OthersAlone(w)
           /\ UNCHANGED <<appRow, mem, slot, live, pc, origin, stored>>
           /\ pc[w] = "page" /\ req[w].persist /\ req'[w].persist = req[w].persist
           /\ req'[w].sid \in Sids \ minted /\ minted' = minted \cup {req'[w].sid}
           /\ req'[w].app = req[w].app
           /\ req'[w].appOn = req[w].appOn /\ req'[w].known = req[w].known
           /\ sessRow' = [sessRow EXCEPT ![Key(w)] = Absent,
                                         ![<<req[w].app, req'[w].sid>>] = slot[w]]
           /\ Forget({}, {Key(w)})
<1>1. PICK s \in Sids \ minted :
          /\ minted' = minted \cup {s}
          /\ sessRow' = [sessRow EXCEPT ![Key(w)] = Absent, ![<<req[w].app, s>>] = slot[w]]
          /\ req' = [req EXCEPT ![w].sid = s]
  BY DEF SessionRotate
<1>2. /\ req'[w].sid = s /\ req'[w].persist = req[w].persist /\ req'[w].app = req[w].app
      /\ req'[w].appOn = req[w].appOn /\ req'[w].known = req[w].known
      /\ \A v \in Workers \ {w} : req'[v] = req[v]
  BY <1>1 DEF TypeOK, Request
<1> QED BY <1>1, <1>2 DEF SessionRotate, OthersAlone

LEMMA StopEffect ==
    ASSUME TypeOK, NEW w \in Workers, ApplicationStop(w)
    PROVE  /\ OthersAlone(w)
           /\ UNCHANGED <<mem, slot, live, minted, pc, origin, stored>>
           /\ pc[w] = "page" /\ req'[w].persist = FALSE /\ req'[w].appOn = FALSE
           /\ req'[w].sid = req[w].sid /\ req'[w].app = req[w].app
           /\ req'[w].known = req[w].known
           /\ appRow' = [appRow EXCEPT ![req[w].app] = Absent]
           /\ sessRow' = [k \in Apps \X Sids |-> IF k[1] = req[w].app THEN Absent ELSE sessRow[k]]
           /\ Forget({req[w].app}, {})
  BY DEF ApplicationStop, OthersAlone, TypeOK, Request

LEMMA SaveApplicationEffect ==
    ASSUME TypeOK, NEW w \in Workers, EndPage(w) \/ SaveApplication(w)
    PROVE  /\ OthersAlone(w)
           /\ UNCHANGED <<sessRow, mem, slot, live, minted, req, histVars>>
           /\ \/ pc[w] = "page" /\ pc'[w] = "saveApp" /\ appRow' = appRow
              \/ /\ pc[w] = "saveApp" /\ pc'[w] = "saveSession"
                 /\ appRow' = IF req[w].appOn THEN [appRow EXCEPT ![req[w].app] = mem[w]]
                              ELSE appRow
  BY DEF EndPage, SaveApplication, Goto, OthersAlone, TypeOK

LEMMA SaveSessionEffect ==
    ASSUME TypeOK, NEW w \in Workers, SaveSession(w)
    PROVE  /\ OthersAlone(w) /\ UNCHANGED <<appRow, mem, slot, minted, req, origin, expired>>
           /\ pc[w] = "saveSession" /\ pc'[w] = "idle"
           /\ stored' = stored \cup {u \in slot[w] \cap mem[w] :
                                        req[w].persist /\ origin[u].app = req[w].app}
           /\ ~req[w].persist => UNCHANGED <<sessRow, live>>
           /\ req[w].persist => /\ sessRow' = [sessRow EXCEPT ![Key(w)] = slot[w]]
                                /\ live'[w] = [live[w] EXCEPT ![Key(w)] = slot[w]]
  BY DEF SaveSession, EndRequest, Goto, OthersAlone, TypeOK

\* What a removal forgets stays forgotten, and nothing else is.
LEMMA ForgetEffect ==
    ASSUME NEW apps, NEW keys, Forget(apps, keys)
    PROVE  /\ expired \subseteq expired'
           /\ \A u \in Updates : Made(u) /\ (origin[u].app \in apps \/ OriginKey(u) \in keys)
                                     => u \in expired'
  BY DEF Forget, Made, OriginKey

\* Contents stay, go, or move with the request.
LEMMA KeysKept ==
    ASSUME TypeOK, KeysOwn, expired \subseteq expired',
           \A u \in Updates : Made(u) => origin'[u] = origin[u],
           \A k \in Keys : sessRow'[k] \in {sessRow[k], Absent} \/ OwnKey(sessRow[k], k)',
           \A w \in Workers, k \in Keys :
               live'[w][k] \in {live[w][k], Absent} \/ OwnKey(live[w][k], k)',
           \A w \in Workers : Saving(w)' =>
               \/ Saving(w) /\ Key(w)' = Key(w) /\ slot'[w] \in {slot[w], {}}
               \/ OwnKey(slot[w], Key(w))'
    PROVE  KeysOwn'
<1>1. ASSUME NEW content \in Optional, NEW k, OwnKey(content, k)
      PROVE  OwnKey(content, k)'
  BY <1>1 DEF OwnKey, Made, OriginKey, Optional, Scopes, Absent
<1>2. ASSUME NEW k PROVE OwnKey({}, k)' /\ OwnKey(Absent, k)'
  BY DEF OwnKey
<1>3. ASSUME NEW k \in Keys PROVE OwnKey(sessRow[k], k)'
  <2>1. sessRow[k] \in Optional /\ OwnKey(sessRow[k], k)
    BY DEF KeysOwn, TypeOK, Keys
  <2>2. PICK content \in Optional : content = sessRow[k]
    BY <2>1
  <2>3. OwnKey(content, k)'
    BY <1>1, <2>1, <2>2
  <2> QED BY <1>2, <2>2, <2>3 DEF OwnKey
<1>4. ASSUME NEW w \in Workers, NEW k \in Keys PROVE OwnKey(live[w][k], k)'
  <2>1. live[w][k] \in Optional /\ OwnKey(live[w][k], k)
    BY DEF KeysOwn, TypeOK, Keys
  <2>2. PICK content \in Optional : content = live[w][k]
    BY <2>1
  <2>3. OwnKey(content, k)'
    BY <1>1, <2>1, <2>2
  <2> QED BY <1>2, <2>2, <2>3 DEF OwnKey
<1>5. ASSUME NEW w \in Workers, Saving(w)' PROVE OwnKey(slot[w], Key(w))'
  <2>1. CASE Saving(w) /\ Key(w)' = Key(w) /\ slot'[w] \in {slot[w], {}}
    <3>1. slot[w] \in Optional /\ OwnKey(slot[w], Key(w))
      BY <2>1 DEF KeysOwn, TypeOK, Optional
    <3>2. PICK content \in Optional : content = slot[w]
      BY <3>1
    <3>3. PICK k : k = Key(w)
      OBVIOUS
    <3>4. OwnKey(content, k)'
      BY <1>1, <3>1, <3>2, <3>3
    <3> QED BY <1>2, <2>1, <3>2, <3>3, <3>4 DEF OwnKey
  <2> QED BY <1>5, <2>1
<1> QED BY <1>3, <1>4, <1>5 DEF KeysOwn

LEMMA RequestsKept ==
    ASSUME RequestsOK, NEW w \in Workers, OthersAlone(w), stored \subseteq stored',
           NeverServed(w)' => pc'[w] = "idle",
           Saving(w)' => req'[w].sid # None,
           pc'[w] # "idle" /\ ~Saving(w)' => req'[w].appOn,
           req'[w].persist => req'[w].appOn,
           req'[w].known \subseteq stored'
    PROVE  RequestsOK'
<1>1. ASSUME NEW v \in Workers \ {w}
      PROVE  /\ NeverServed(v)' => pc'[v] = "idle"
             /\ Saving(v)' => req'[v].sid # None
             /\ pc'[v] # "idle" /\ ~Saving(v)' => req'[v].appOn
             /\ req'[v].persist => req'[v].appOn
             /\ req'[v].known \subseteq stored'
  BY DEF RequestsOK, OthersAlone, NeverServed, Saving
<1> QED BY <1>1 DEF RequestsOK

LEMMA EnableHistory ==
    ASSUME HistoryInv, NEW w \in Workers,
           \/ BeginRequest(w) \/ TouchApplication(w) \/ LoadApplication(w)
           \/ TouchSession(w) \/ LoadSession(w)
    PROVE  RequestsOK' /\ OriginsOK' /\ KeysOwn'
<1>0. TypeOK /\ RequestsOK /\ OriginsOK /\ KeysOwn
  BY DEF HistoryInv, IsolationInv
<1>1. CASE BeginRequest(w)
  <2>1. RequestsOK'
    BY <1>0, <1>1, BeginEffect, RequestsKept DEF NeverServed, Saving, histVars
  <2>2. OriginsOK'
    BY <1>0, <1>1, BeginEffect DEF OriginsOK, Made, histVars
  <2>3. KeysOwn'
    <3>1. \A v \in Workers : Saving(v)' => Saving(v) /\ Key(v)' = Key(v) /\ slot'[v] = slot[v]
      BY <1>0, <1>1, BeginEffect DEF Saving, Key, OthersAlone
    <3>2. UNCHANGED <<sessRow, live, origin, expired>>
      BY <1>0, <1>1, BeginEffect DEF histVars
    <3> QED BY <1>0, <3>1, <3>2, KeysKept
  <2> QED BY <2>1, <2>2, <2>3
<1>2. CASE TouchApplication(w) \/ LoadApplication(w)
  <2>1. RequestsOK'
    <3>1. req[w].appOn /\ (req[w].persist => req[w].appOn) /\ req[w].known \subseteq stored
      BY <1>0, <1>2, ApplicationEffect DEF RequestsOK, Saving
    <3> QED BY <1>0, <1>2, <3>1, ApplicationEffect, RequestsKept DEF NeverServed, Saving, histVars
  <2>2. OriginsOK'
    BY <1>0, <1>2, ApplicationEffect DEF OriginsOK, Made, histVars
  <2>3. KeysOwn'
    <3>1. \A v \in Workers : Saving(v)' => Saving(v) /\ Key(v)' = Key(v) /\ slot'[v] = slot[v]
      BY <1>0, <1>2, ApplicationEffect DEF Saving, Key, OthersAlone
    <3>2. UNCHANGED <<sessRow, live, origin, expired>>
      BY <1>0, <1>2, ApplicationEffect DEF histVars
    <3> QED BY <1>0, <3>1, <3>2, KeysKept
  <2> QED BY <2>1, <2>2, <2>3
<1>3. CASE TouchSession(w) \/ LoadSession(w)
  <2>0. /\ pc[w] \in {"touchSession", "loadSession"} /\ req[w].appOn
        /\ (req[w].persist => req[w].appOn) /\ req[w].known \subseteq stored
        /\ UNCHANGED <<appRow, sessRow, mem, histVars>>
    BY <1>0, <1>3 DEF TouchSession, LoadSession, RequestsOK, Saving
  <2>1. CASE MintSession(w)
    <3>1. req'[w].sid # None
      BY <1>0, <2>0, <2>1, MintEffect, NoneAssumption
    <3>2. RequestsOK'
      BY <1>0, <2>0, <2>1, <3>1, MintEffect, RequestsKept DEF NeverServed, Saving, histVars
    <3>3. OriginsOK'
      BY <1>0, <2>0, <2>1, MintEffect DEF OriginsOK, Made, histVars
    <3>4. KeysOwn'
      <4>1. \A v \in Workers \ {w} :
                Saving(v)' => Saving(v) /\ Key(v)' = Key(v) /\ slot'[v] = slot[v]
        BY <1>0, <2>0, <2>1, MintEffect DEF Saving, Key, OthersAlone
      <4>2. OwnKey(slot[w], Key(w))'
        BY <1>0, <2>0, <2>1, MintEffect DEF OwnKey
      <4>3. \A v \in Workers, k \in Keys : live'[v][k] \in {live[v][k], Absent}
        BY <1>0, <2>0, <2>1, MintEffect DEF OthersAlone
      <4>4. UNCHANGED <<sessRow, origin, expired>>
        BY <2>0 DEF histVars
      <4> QED BY <1>0, <4>1, <4>2, <4>3, <4>4, KeysKept
    <3> QED BY <3>2, <3>3, <3>4
  <2>2. CASE ~MintSession(w)
    <3>1. req[w].sid # None
      BY <1>3, <2>2, <2>0 DEF HistoryInv, IsolationInv, PersistedHasId, TouchSession, LoadSession
    <3>2. RequestsOK'
      BY <1>0, <1>3, <2>0, <2>2, <3>1, SessionEffect, RequestsKept
         DEF NeverServed, Saving, histVars
    <3>3. OriginsOK'
      BY <1>0, <1>3, <2>2, SessionEffect DEF OriginsOK, Made, histVars
    <3>4. UNCHANGED <<sessRow, live, origin, expired>>
      BY <1>0, <1>3, <2>2, SessionEffect DEF histVars
    <3>5. \A v \in Workers \ {w} :
              Saving(v)' => Saving(v) /\ Key(v)' = Key(v) /\ slot'[v] = slot[v]
      BY <1>0, <1>3, <2>2, SessionEffect DEF Saving, Key, OthersAlone
    <3>6. ASSUME Saving(w)' PROVE OwnKey(slot[w], Key(w))'
      <4>1. /\ pc[w] = "loadSession" /\ sessRow[Key(w)] # Absent /\ Key(w)' = Key(w)
            /\ slot'[w] = IF live[w][Key(w)] # Absent THEN live[w][Key(w)] ELSE sessRow[Key(w)]
        BY <1>0, <1>3, <2>2, <3>6, SessionEffect DEF Saving, Key
      <4>2. Key(w) \in Keys
        BY <1>0, <3>1 DEF TypeOK, Request, Key, Keys
      <4>3. slot'[w] # Absent => slot'[w] \in {live[w][Key(w)], sessRow[Key(w)]}
        BY <4>1
      <4>4. OwnKey(live[w][Key(w)], Key(w)) /\ OwnKey(sessRow[Key(w)], Key(w))
        BY <1>0, <4>2 DEF KeysOwn
      <4> QED BY <3>4, <4>1, <4>3, <4>4 DEF OwnKey, Made, OriginKey
    <3>7. KeysOwn'
      BY <1>0, <3>4, <3>5, <3>6, KeysKept
    <3> QED BY <3>2, <3>3, <3>7
  <2> QED BY <2>1, <2>2
<1> QED BY <1>1, <1>2, <1>3

LEMMA PageHistory ==
    ASSUME HistoryInv, NEW w \in Workers,
           \/ Update(w) \/ SessionInvalidate(w) \/ SessionRotate(w) \/ ApplicationStop(w)
    PROVE  RequestsOK' /\ OriginsOK' /\ KeysOwn'
<1>0. TypeOK /\ RequestsOK /\ OriginsOK /\ KeysOwn /\ HeldIsMinted
  BY DEF HistoryInv, IsolationInv
<1>1. /\ pc[w] = "page" /\ pc' = pc /\ stored' = stored /\ OthersAlone(w)
      /\ req'[w].known = req[w].known
  BY <1>0, UpdateEffect, InvalidateEffect, RotateEffect, StopEffect
<1>2. /\ Saving(w) /\ req[w].sid # None /\ req[w].sid \in Sids /\ Key(w) \in Keys
      /\ (req[w].persist => req[w].appOn) /\ req[w].known \subseteq stored
      /\ ~NeverServed(w)
  BY <1>0, <1>1 DEF RequestsOK, Saving, TypeOK, Request, Key, Keys
<1>3. OwnKey(slot[w], Key(w)) /\ slot[w] # Absent
  BY <1>0, <1>2, NoneAssumption DEF KeysOwn, TypeOK, Scopes, Absent
<1>4. req[w].sid \in minted
  <2>1. req[w].client \in Clients /\ Holds(req[w].client, req[w].sid)
    BY <1>0, <1>1 DEF Holds, TypeOK, Request
  <2> QED BY <1>0, <1>2, <2>1 DEF HeldIsMinted
<1>5. CASE Update(w)
  <2>1. PICK u \in Updates :
            /\ ~Made(u) /\ slot'[w] = slot[w] \cup {u}
            /\ origin'[u].app = req[w].app /\ origin'[u].sid = req[w].sid
            /\ origin'[u] = [app |-> req[w].app, client |-> req[w].client, sid |-> req[w].sid]
            /\ \A x \in Updates \ {u} : origin'[x] = origin[x]
    BY <1>0, <1>5, UpdateEffect
  <2>2. UNCHANGED <<sessRow, live, minted, req, expired>>
    BY <1>0, <1>5, UpdateEffect
  <2>3. Made(u)' /\ OriginKey(u)' = Key(w)'
    <3>1. origin'[u] \in Origins
      BY <1>0, <1>2, <2>1 DEF Origins, TypeOK, Request
    <3> QED BY <2>1, <2>2, <3>1, NoneAssumption DEF Made, OriginKey, Key
  <2>4. RequestsOK'
    BY <1>0, <1>1, <1>2, <2>2, RequestsKept DEF NeverServed, Saving
  <2>5. OriginsOK'
    BY <1>0, <1>1, <1>4, <2>1, <2>2 DEF OriginsOK, Made, TypeOK
  <2>6. KeysOwn'
    <3>1. OwnKey(slot[w], Key(w))'
      BY <1>0, <1>3, <2>1, <2>2, <2>3 DEF OwnKey, Made, OriginKey, Key, TypeOK, Scopes
    <3>2. \A v \in Workers \ {w} :
              Saving(v)' => Saving(v) /\ Key(v)' = Key(v) /\ slot'[v] = slot[v]
      BY <1>1 DEF Saving, Key, OthersAlone
    <3>3. \A x \in Updates : Made(x) => origin'[x] = origin[x]
      BY <2>1
    <3> QED BY <1>0, <2>2, <3>1, <3>2, <3>3, KeysKept
  <2> QED BY <2>4, <2>5, <2>6
<1>6. CASE SessionInvalidate(w) \/ ApplicationStop(w)
  <2>1. /\ UNCHANGED <<live, minted, origin>> /\ slot'[w] \in {slot[w], {}}
        /\ req'[w].sid = req[w].sid /\ req'[w].app = req[w].app /\ req'[w].persist = FALSE
    BY <1>0, <1>6, InvalidateEffect, StopEffect
  <2>2. expired \subseteq expired'
    BY <1>0, <1>6, InvalidateEffect, StopEffect, ForgetEffect
  <2>3. \A k \in Keys : sessRow'[k] \in {sessRow[k], Absent}
    BY <1>0, <1>6, InvalidateEffect, StopEffect DEF TypeOK, Keys
  <2>4. RequestsOK'
    BY <1>0, <1>1, <1>2, <2>1, RequestsKept DEF NeverServed, Saving
  <2>5. OriginsOK'
    BY <1>0, <1>1, <2>1 DEF OriginsOK, Made
  <2>6. KeysOwn'
    <3>1. \A v \in Workers : Saving(v)' =>
              Saving(v) /\ Key(v)' = Key(v) /\ slot'[v] \in {slot[v], {}}
      BY <1>1, <2>1 DEF Saving, Key, OthersAlone
    <3> QED BY <1>0, <2>1, <2>2, <2>3, <3>1, KeysKept
  <2> QED BY <2>4, <2>5, <2>6
<1>7. CASE SessionRotate(w)
  <2>1. /\ UNCHANGED <<slot, live, origin>> /\ req[w].persist /\ req'[w].persist = req[w].persist
        /\ req'[w].sid \in Sids \ minted /\ minted' = minted \cup {req'[w].sid}
        /\ req'[w].app = req[w].app /\ req'[w].appOn = req[w].appOn
        /\ sessRow' = [sessRow EXCEPT ![Key(w)] = Absent,
                                      ![<<req[w].app, req'[w].sid>>] = slot[w]]
    BY <1>0, <1>7, RotateEffect
  <2>2. /\ expired \subseteq expired'
        /\ \A u \in Updates : Made(u) /\ OriginKey(u) = Key(w) => u \in expired'
    BY <1>0, <1>7, RotateEffect, ForgetEffect
  <2>3. slot[w] \subseteq expired'
    BY <1>0, <1>3, <2>2 DEF OwnKey, TypeOK, Scopes
  <2>4. RequestsOK'
    BY <1>0, <1>1, <1>2, <2>1, NoneAssumption, RequestsKept DEF NeverServed, Saving
  <2>5. OriginsOK'
    BY <1>0, <1>1, <2>1 DEF OriginsOK, Made
  <2>6. KeysOwn'
    <3>1. \A v \in Workers \ {w} :
              Saving(v)' => Saving(v) /\ Key(v)' = Key(v) /\ slot'[v] = slot[v]
      BY <1>1, <2>1 DEF Saving, Key, OthersAlone
    <3>2. OwnKey(slot[w], Key(w))'
      BY <2>1, <2>3 DEF OwnKey
    <3>3. \A k \in Keys : sessRow'[k] \in {sessRow[k], Absent, slot[w]}
      BY <1>0, <2>1 DEF TypeOK, Keys
    <3>4. ASSUME NEW k \in Keys, sessRow'[k] = slot[w] PROVE OwnKey(sessRow[k], k)'
      BY <2>3, <3>4 DEF OwnKey
    <3> QED BY <1>0, <2>1, <2>2, <3>1, <3>2, <3>3, <3>4, KeysKept
  <2> QED BY <2>4, <2>5, <2>6
<1> QED BY <1>5, <1>6, <1>7

LEMMA EndHistory ==
    ASSUME HistoryInv, NEW w \in Workers, EndPage(w) \/ SaveApplication(w) \/ SaveSession(w)
    PROVE  RequestsOK' /\ OriginsOK' /\ KeysOwn'
<1>0. TypeOK /\ RequestsOK /\ OriginsOK /\ KeysOwn /\ SlotIsOwn
  BY DEF HistoryInv, IsolationInv
<1>1. /\ Saving(w) /\ OthersAlone(w) /\ UNCHANGED <<mem, slot, minted, req, origin, expired>>
  BY <1>0, SaveApplicationEffect, SaveSessionEffect DEF histVars, Saving
<1>2. /\ req[w].sid # None /\ req[w].sid \in Sids /\ Key(w) \in Keys
      /\ (req[w].persist => req[w].appOn) /\ req[w].known \subseteq stored
      /\ ~NeverServed(w)
  <2>1. req[w].sid # None /\ (req[w].persist => req[w].appOn) /\ req[w].known \subseteq stored
    BY <1>0, <1>1 DEF RequestsOK
  <2> QED BY <1>0, <2>1 DEF NeverServed, TypeOK, Request, Key, Keys
<1>3. \A v \in Workers : Saving(v)' => Saving(v) /\ Key(v)' = Key(v) /\ slot'[v] = slot[v]
  BY <1>1 DEF Saving, Key, OthersAlone
<1>4. CASE EndPage(w) \/ SaveApplication(w)
  <2>1. UNCHANGED <<sessRow, live, stored>> /\ Saving(w)'
    BY <1>0, <1>4, SaveApplicationEffect DEF histVars, Saving
  <2>2. RequestsOK'
    BY <1>0, <1>1, <1>2, <2>1, RequestsKept DEF NeverServed
  <2>3. OriginsOK'
    BY <1>0, <1>1, <2>1 DEF OriginsOK, Made
  <2>4. KeysOwn'
    BY <1>0, <1>1, <1>3, <2>1, KeysKept
  <2> QED BY <2>2, <2>3, <2>4
<1>5. CASE SaveSession(w)
  <2>1. /\ pc[w] = "saveSession" /\ pc'[w] = "idle"
        /\ stored \subseteq stored' /\ stored' \subseteq stored \cup slot[w]
        /\ ~req[w].persist => UNCHANGED <<sessRow, live>>
        /\ req[w].persist => /\ sessRow' = [sessRow EXCEPT ![Key(w)] = slot[w]]
                             /\ live'[w] = [live[w] EXCEPT ![Key(w)] = slot[w]]
    BY <1>0, <1>5, SaveSessionEffect
  <2>2. RequestsOK'
    BY <1>0, <1>1, <1>2, <2>1, RequestsKept DEF NeverServed, Saving
  <2>3. OriginsOK'
    <3>1. \A u \in slot[w] : Made(u)
      BY <1>0, <2>1 DEF SlotIsOwn, By, Made
    <3> QED BY <1>0, <1>1, <2>1, <3>1 DEF OriginsOK, Made
  <2>4. OwnKey(slot[w], Key(w))'
    BY <1>0, <1>1 DEF KeysOwn, OwnKey, Made, OriginKey, Key
  <2>5. \A k \in Keys : sessRow'[k] = sessRow[k] \/ (k = Key(w)' /\ sessRow'[k] = slot'[w])
    BY <1>0, <1>1, <2>1 DEF TypeOK, Keys, Key
  <2>6. \A v \in Workers, k \in Keys :
            live'[v][k] = live[v][k] \/ (k = Key(w)' /\ live'[v][k] = slot'[w])
    <3>1. \A k \in Keys : live'[w][k] = live[w][k] \/ (k = Key(w)' /\ live'[w][k] = slot'[w])
      BY <1>0, <1>1, <2>1 DEF TypeOK, Keys, Key
    <3> QED BY <1>1, <3>1 DEF OthersAlone
  <2>7. ASSUME NEW k \in Keys PROVE sessRow'[k] \in {sessRow[k], Absent} \/ OwnKey(sessRow[k], k)'
    <3>1. CASE k = Key(w)' /\ sessRow'[k] = slot'[w]
      BY <2>4, <3>1 DEF OwnKey
    <3> QED BY <2>5, <3>1
  <2>8. ASSUME NEW v \in Workers, NEW k \in Keys
        PROVE  live'[v][k] \in {live[v][k], Absent} \/ OwnKey(live[v][k], k)'
    <3>1. CASE k = Key(w)' /\ live'[v][k] = slot'[w]
      BY <2>4, <3>1 DEF OwnKey
    <3> QED BY <2>6, <3>1
  <2>9. KeysOwn'
    BY <1>0, <1>1, <1>3, <2>7, <2>8, KeysKept
  <2> QED BY <2>2, <2>3, <2>9
<1> QED BY <1>4, <1>5

LEMMA OthersHistory ==
    ASSUME HistoryInv,
           \/ \E a \in Apps : ExpireApplication(a)
           \/ \E k \in Apps \X Sids : ExpireSession(k)
           \/ Restart \/ UNCHANGED vars
    PROVE  RequestsOK' /\ OriginsOK' /\ KeysOwn'
<1>0. TypeOK /\ RequestsOK /\ OriginsOK /\ KeysOwn
  BY DEF HistoryInv, IsolationInv
<1>1. /\ UNCHANGED <<req, stored, origin, minted>>
      /\ \A v \in Workers : pc'[v] = "idle" \/ (pc'[v] = pc[v] /\ slot'[v] = slot[v])
  BY DEF ExpireApplication, ExpireSession, Restart, vars, histVars
<1>2. expired \subseteq expired'
  BY ForgetEffect DEF ExpireApplication, ExpireSession, Restart, vars, histVars
<1>3. \A k \in Keys : sessRow'[k] \in {sessRow[k], Absent}
  BY <1>0 DEF ExpireApplication, ExpireSession, Restart, vars, TypeOK, Keys
<1>4. \A v \in Workers, k \in Keys : live'[v][k] \in {live[v][k], Absent}
  <2>1. CASE Restart
    BY <2>1 DEF Restart, Keys
  <2>2. CASE live' = live
    BY <2>2
  <2> QED BY <2>1, <2>2 DEF ExpireApplication, ExpireSession, vars
<1>5. RequestsOK'
  BY <1>0, <1>1 DEF RequestsOK, NeverServed, Saving
<1>6. OriginsOK'
  BY <1>0, <1>1 DEF OriginsOK, Made
<1>7. \A v \in Workers : Saving(v)' => Saving(v) /\ Key(v)' = Key(v) /\ slot'[v] = slot[v]
  BY <1>1 DEF Saving, Key
<1>8. KeysOwn'
  BY <1>0, <1>1, <1>2, <1>3, <1>4, <1>7, KeysKept
<1> QED BY <1>5, <1>6, <1>8

LEMMA HistoryInit == Init => HistoryInv
<1> SUFFICES ASSUME Init PROVE HistoryInv
  OBVIOUS
<1>1. RequestsOK
  BY DEF Init, RequestsOK, Saving
<1>2. OriginsOK /\ KeysOwn
  BY DEF Init, OriginsOK, Made, KeysOwn, OwnKey, Keys, Saving
<1> QED BY <1>1, <1>2, IsolationInit DEF HistoryInv

LEMMA IsolationStep == IsolationInv /\ [Next]_vars => IsolationInv'
  BY RequestIsolated, PageIsolated, EndIsolated, OthersIsolated DEF Next, WorkerStep

LEMMA HistoryStep == HistoryInv /\ [Next]_vars => HistoryInv'
  BY IsolationStep, EnableHistory, PageHistory, EndHistory, OthersHistory
     DEF HistoryInv, Next, WorkerStep

-------------------------------------------------------------------------------
(* One worker.  As long as no other has served a request, only its steps,  *)
(* the reaper's and a restart happen.                                      *)

LEMMA StepServes ==
    ASSUME HistoryInv, NEW v \in Workers, WorkerStep(v)
    PROVE  OthersAlone(v) /\ ~NeverServed(v)'
<1>0. TypeOK /\ RequestsOK
  BY DEF HistoryInv, IsolationInv
<1>1. CASE BeginRequest(v)
  BY <1>0, <1>1, BeginEffect DEF NeverServed
<1>2. CASE TouchApplication(v) \/ LoadApplication(v)
  BY <1>0, <1>2, ApplicationEffect DEF NeverServed, RequestsOK
<1>3. CASE TouchSession(v) \/ LoadSession(v)
  <2>1. pc[v] \in {"touchSession", "loadSession"} /\ UNCHANGED <<appRow, sessRow, mem, histVars>>
    BY <1>3 DEF TouchSession, LoadSession
  <2>2. CASE MintSession(v)
    BY <1>0, <2>1, <2>2, MintEffect, NoneAssumption DEF NeverServed
  <2>3. CASE ~MintSession(v)
    BY <1>0, <1>3, <2>1, <2>3, SessionEffect DEF NeverServed, RequestsOK
  <2> QED BY <2>2, <2>3
<1>4. CASE Update(v) \/ SessionInvalidate(v) \/ SessionRotate(v) \/ ApplicationStop(v)
  <2>1. pc[v] = "page" /\ OthersAlone(v) /\ req'[v].sid \in Sids \cup {req[v].sid}
    BY <1>0, <1>4, UpdateEffect, InvalidateEffect, RotateEffect, StopEffect
  <2>2. req[v].sid # None
    BY <1>0, <2>1 DEF RequestsOK, Saving
  <2> QED BY <2>1, <2>2, NoneAssumption DEF NeverServed
<1>5. CASE EndPage(v) \/ SaveApplication(v) \/ SaveSession(v)
  <2>1. Saving(v) /\ OthersAlone(v) /\ req' = req
    BY <1>0, <1>5, SaveApplicationEffect, SaveSessionEffect DEF histVars, Saving
  <2> QED BY <1>0, <2>1 DEF RequestsOK, NeverServed
<1> QED BY <1>1, <1>2, <1>3, <1>4, <1>5 DEF WorkerStep

LEMMA AloneSteps ==
    ASSUME HistoryInv, NEW w \in Workers, Alone(w)', NEW v \in Workers, WorkerStep(v)
    PROVE  v = w /\ Alone(w)
<1>1. OthersAlone(v) /\ ~NeverServed(v)'
  BY StepServes
<1>2. v = w
  BY <1>1 DEF Alone, NeverServed
<1> QED BY <1>1, <1>2 DEF Alone, OthersAlone

LEMMA KeptFacts ==
    ASSUME TypeOK, OriginsOK, NEW u \in Kept
    PROVE  /\ u \in Updates /\ u # None /\ Made(u) /\ OriginKey(u) \in Keys
           /\ origin[u].app \in Apps /\ origin[u].sid \in minted
  BY NoneAssumption DEF TypeOK, OriginsOK, Kept, Made, OriginKey, Keys, Origins

-------------------------------------------------------------------------------
(* The session: the row and the live copy of w have what was stored, and a *)
(* page that has taken the session over has it too.                        *)

SessionHeld(w) ==
    \A u \in Kept : /\ u \in sessRow[OriginKey(u)]
                    /\ live[w][OriginKey(u)] # Absent => u \in live[w][OriginKey(u)]
SlotHas(w) ==
    Saving(w) /\ req[w].persist => \A u \in Kept : OriginKey(u) = Key(w) => u \in slot[w]

SessionInv == \A w \in Workers : Alone(w) => SessionHeld(w) /\ SlotHas(w)

\* Nothing is stored, and rows and copies that go take only what is forgotten.
LEMMA HeldStays ==
    ASSUME TypeOK, OriginsOK, NEW w \in Workers, SessionHeld(w),
           \A u \in Kept' : u \in Kept /\ origin'[u] = origin[u]
                            /\ sessRow'[OriginKey(u)] = sessRow[OriginKey(u)],
           \A k \in Keys : live'[w][k] \in {live[w][k], Absent}
    PROVE  SessionHeld(w)'
<1> SUFFICES ASSUME NEW u \in Kept'
             PROVE  /\ u \in sessRow'[OriginKey(u)']
                    /\ live'[w][OriginKey(u)'] # Absent => u \in live'[w][OriginKey(u)']
  BY DEF SessionHeld
<1>1. /\ u \in Kept /\ OriginKey(u)' = OriginKey(u)
      /\ sessRow'[OriginKey(u)] = sessRow[OriginKey(u)] /\ OriginKey(u) \in Keys
  BY KeptFacts DEF OriginKey
<1> QED BY <1>1 DEF SessionHeld

LEMMA EnableShares ==
    ASSUME HistoryInv, NEW w \in Workers, SessionHeld(w), SlotHas(w),
           \/ BeginRequest(w) \/ TouchApplication(w) \/ LoadApplication(w)
           \/ TouchSession(w) \/ LoadSession(w)
    PROVE  SessionHeld(w)' /\ SlotHas(w)'
<1>0. TypeOK /\ OriginsOK
  BY DEF HistoryInv, IsolationInv
<1>1. /\ UNCHANGED <<sessRow, histVars>> /\ Kept' = Kept
      /\ \A u : OriginKey(u)' = OriginKey(u)
  BY DEF BeginRequest, TouchApplication, LoadApplication, TouchSession, LoadSession, histVars,
         Kept, OriginKey
<1>2. \A k \in Keys : live'[w][k] \in {live[w][k], Absent}
  <2>1. CASE live' = live
    BY <2>1
  <2>2. CASE MintSession(w) /\ (TouchSession(w) \/ LoadSession(w))
    BY <1>0, <2>2, MintEffect DEF TouchSession, LoadSession
  <2> QED BY <2>1, <2>2 DEF BeginRequest, TouchApplication, LoadApplication, TouchSession,
                            LoadSession
<1>3. SessionHeld(w)'
  BY <1>0, <1>1, <1>2, HeldStays DEF histVars
<1>4. SlotHas(w)'
  <2>1. CASE BeginRequest(w)
    BY <1>0, <2>1, BeginEffect DEF SlotHas, Saving
  <2>2. CASE TouchApplication(w) \/ LoadApplication(w)
    BY <1>0, <2>2, ApplicationEffect DEF SlotHas, Saving
  <2>3. CASE TouchSession(w) \/ LoadSession(w)
    <3>0. pc[w] \in {"touchSession", "loadSession"} /\ UNCHANGED <<appRow, sessRow, mem, histVars>>
      BY <2>3 DEF TouchSession, LoadSession
    <3>1. CASE MintSession(w)
      <4>1. req'[w].sid \notin minted
        BY <1>0, <3>0, <3>1, MintEffect
      <4>2. \A u \in Kept : OriginKey(u) # Key(w)'
        BY <1>0, <4>1, KeptFacts DEF OriginKey, Key
      <4> QED BY <1>1, <4>2 DEF SlotHas
    <3>2. CASE ~MintSession(w)
      <4> SUFFICES ASSUME Saving(w)', NEW u \in Kept, OriginKey(u) = Key(w)'
                   PROVE  u \in slot'[w]
        BY <1>1 DEF SlotHas
      <4>1. /\ sessRow[Key(w)] # Absent /\ Key(w)' = Key(w)
            /\ slot'[w] = IF live[w][Key(w)] # Absent THEN live[w][Key(w)] ELSE sessRow[Key(w)]
        BY <1>0, <2>3, <3>2, SessionEffect DEF Saving, Key
      <4> QED BY <4>1 DEF SessionHeld
    <3> QED BY <3>1, <3>2
  <2> QED BY <2>1, <2>2, <2>3
<1> QED BY <1>3, <1>4

LEMMA PageShares ==
    ASSUME HistoryInv, NEW w \in Workers, SessionHeld(w), SlotHas(w),
           \/ Update(w) \/ SessionInvalidate(w) \/ SessionRotate(w) \/ ApplicationStop(w)
    PROVE  SessionHeld(w)' /\ SlotHas(w)'
<1>0. TypeOK /\ OriginsOK
  BY DEF HistoryInv, IsolationInv
<1>1. /\ pc[w] = "page" /\ pc' = pc /\ UNCHANGED <<live, stored>>
      /\ expired \subseteq expired' /\ Kept' \subseteq Kept
  <2>1. pc[w] = "page" /\ pc' = pc /\ UNCHANGED <<live, stored>>
    BY <1>0, UpdateEffect, InvalidateEffect, RotateEffect, StopEffect
  <2>2. expired \subseteq expired'
    BY <1>0, UpdateEffect, InvalidateEffect, RotateEffect, StopEffect, ForgetEffect
  <2> QED BY <2>1, <2>2 DEF Kept
<1>2. \A u \in Kept' : u \in Updates /\ Made(u) /\ OriginKey(u) \in Keys
                       /\ origin[u].sid \in minted /\ origin[u].app \in Apps
  BY <1>0, <1>1, KeptFacts
<1>3. CASE Update(w)
  <2>1. /\ UNCHANGED <<sessRow, req>> /\ slot[w] \subseteq slot'[w]
        /\ \A u \in Updates : Made(u) => origin'[u] = origin[u]
    BY <1>0, <1>3, UpdateEffect
  <2>2. SessionHeld(w)'
    BY <1>0, <1>1, <1>2, <2>1, HeldStays
  <2>3. SlotHas(w)'
    BY <1>1, <1>2, <2>1 DEF SlotHas, Saving, OriginKey, Key
  <2> QED BY <2>2, <2>3
<1>4. CASE SessionInvalidate(w)
  <2>1. /\ origin' = origin /\ sessRow' = [sessRow EXCEPT ![Key(w)] = Absent]
        /\ req'[w].persist = FALSE
    BY <1>0, <1>4, InvalidateEffect
  <2>2. \A u \in Kept' : OriginKey(u) # Key(w)
    BY <1>0, <1>2, <1>4, InvalidateEffect, ForgetEffect DEF Kept
  <2>3. \A u \in Kept' : sessRow'[OriginKey(u)] = sessRow[OriginKey(u)]
    BY <1>0, <1>2, <2>1, <2>2 DEF TypeOK, Keys
  <2>4. SessionHeld(w)'
    BY <1>0, <1>1, <2>1, <2>3, HeldStays
  <2> QED BY <2>1, <2>4 DEF SlotHas
<1>5. CASE SessionRotate(w)
  <2>1. /\ origin' = origin /\ req'[w].sid \in Sids \ minted /\ req'[w].app = req[w].app
        /\ sessRow' = [sessRow EXCEPT ![Key(w)] = Absent,
                                      ![<<req[w].app, req'[w].sid>>] = slot[w]]
    BY <1>0, <1>5, RotateEffect
  <2>2. \A u \in Kept' : OriginKey(u) # Key(w)
    BY <1>0, <1>2, <1>5, RotateEffect, ForgetEffect DEF Kept
  <2>3. \A u \in Kept' : OriginKey(u) # <<req[w].app, req'[w].sid>>
    BY <1>2, <2>1 DEF OriginKey
  <2>4. \A u \in Kept' : sessRow'[OriginKey(u)] = sessRow[OriginKey(u)]
    BY <1>0, <1>2, <2>1, <2>2, <2>3 DEF TypeOK, Keys
  <2>5. SessionHeld(w)'
    BY <1>0, <1>1, <2>1, <2>4, HeldStays
  <2>6. SlotHas(w)'
    BY <2>1, <2>3 DEF SlotHas, OriginKey, Key
  <2> QED BY <2>5, <2>6
<1>6. CASE ApplicationStop(w)
  <2>1. /\ origin' = origin /\ req'[w].persist = FALSE
        /\ sessRow' = [k \in Apps \X Sids |-> IF k[1] = req[w].app THEN Absent ELSE sessRow[k]]
    BY <1>0, <1>6, StopEffect
  <2>2. \A u \in Kept' : origin[u].app # req[w].app
    BY <1>0, <1>2, <1>6, StopEffect, ForgetEffect DEF Kept
  <2>3. \A u \in Kept' : sessRow'[OriginKey(u)] = sessRow[OriginKey(u)]
    BY <1>2, <2>1, <2>2 DEF OriginKey, Keys
  <2>4. SessionHeld(w)'
    BY <1>0, <1>1, <2>1, <2>3, HeldStays
  <2> QED BY <2>1, <2>4 DEF SlotHas
<1> QED BY <1>3, <1>4, <1>5, <1>6

LEMMA EndShares ==
    ASSUME HistoryInv, NEW w \in Workers, SessionHeld(w), SlotHas(w),
           EndPage(w) \/ SaveApplication(w) \/ SaveSession(w)
    PROVE  SessionHeld(w)' /\ SlotHas(w)'
<1>0. TypeOK /\ OriginsOK /\ KeysOwn /\ OriginsOK'
  BY EndHistory DEF HistoryInv, IsolationInv
<1>1. CASE EndPage(w) \/ SaveApplication(w)
  <2>1. UNCHANGED <<sessRow, slot, live, req, histVars>> /\ Saving(w)
    BY <1>0, <1>1, SaveApplicationEffect DEF Saving
  <2>2. Kept' = Kept /\ \A u : OriginKey(u)' = OriginKey(u)
    BY <2>1 DEF Kept, OriginKey, histVars
  <2>3. SessionHeld(w)' /\ SlotHas(w)'
    BY <2>1, <2>2 DEF SessionHeld, SlotHas, Key
  <2> QED BY <2>3
<1>2. CASE SaveSession(w)
  <2>1. /\ UNCHANGED <<slot, req, origin, expired>> /\ pc[w] = "saveSession" /\ pc'[w] = "idle"
        /\ stored' = stored \cup {u \in slot[w] \cap mem[w] :
                                     req[w].persist /\ origin[u].app = req[w].app}
        /\ ~req[w].persist => UNCHANGED <<sessRow, live>>
        /\ req[w].persist => /\ sessRow' = [sessRow EXCEPT ![Key(w)] = slot[w]]
                             /\ live'[w] = [live[w] EXCEPT ![Key(w)] = slot[w]]
    BY <1>0, <1>2, SaveSessionEffect
  <2>2. SlotHas(w)'
    BY <2>1 DEF SlotHas, Saving
  <2>3. CASE ~req[w].persist
    <3>1. stored' = stored /\ Kept' = Kept /\ UNCHANGED <<sessRow, live>>
      BY <2>1, <2>3 DEF Kept
    <3> QED BY <2>1, <2>2, <3>1 DEF SessionHeld, OriginKey
  <2>4. CASE req[w].persist
    <3> SUFFICES ASSUME NEW u \in Kept'
                 PROVE  /\ u \in sessRow'[OriginKey(u)]
                        /\ live'[w][OriginKey(u)] # Absent => u \in live'[w][OriginKey(u)]
      BY <2>1, <2>2 DEF SessionHeld, OriginKey
    <3>1. OriginKey(u) \in Keys
      <4>1. u \in stored' /\ stored' \subseteq Updates /\ Made(u)
        BY <1>0, <2>1 DEF Kept, OriginsOK, Made, TypeOK, Scopes
      <4> QED BY <1>0, <4>1 DEF TypeOK, Origins, Made, OriginKey, Keys
    <3>2. /\ live[w] \in [Keys -> Optional] /\ sessRow \in [Keys -> Optional]
          /\ u \in Kept \/ u \in slot[w]
      BY <1>0, <2>1 DEF TypeOK, Keys, Kept
    <3>3. CASE OriginKey(u) = Key(w)
      <4>1. u \in slot[w]
        BY <2>1, <2>4, <3>2, <3>3 DEF SlotHas, Saving
      <4>2. sessRow'[OriginKey(u)] = slot[w] /\ live'[w][OriginKey(u)] = slot[w]
        BY <2>1, <2>4, <3>1, <3>2, <3>3
      <4> QED BY <4>1, <4>2
    <3>4. CASE OriginKey(u) # Key(w)
      <4>1. u \in slot[w] => u \in expired
        <5>1. OwnKey(slot[w], Key(w)) /\ slot[w] # Absent
          BY <1>0, <2>1, NoneAssumption DEF KeysOwn, Saving, TypeOK, Scopes, Absent
        <5> QED BY <3>4, <5>1 DEF OwnKey
      <4>2. u \in Kept
        BY <2>1, <3>2, <4>1 DEF Kept
      <4>3. /\ sessRow'[OriginKey(u)] = sessRow[OriginKey(u)]
            /\ live'[w][OriginKey(u)] = live[w][OriginKey(u)]
        BY <2>1, <2>4, <3>1, <3>2, <3>4
      <4> QED BY <4>2, <4>3 DEF SessionHeld
    <3> QED BY <3>3, <3>4
  <2> QED BY <2>3, <2>4
<1> QED BY <1>1, <1>2

LEMMA OthersShare ==
    ASSUME HistoryInv, NEW w \in Workers, SessionHeld(w), SlotHas(w),
           \/ \E a \in Apps : ExpireApplication(a)
           \/ \E k \in Apps \X Sids : ExpireSession(k)
           \/ Restart \/ UNCHANGED vars
    PROVE  SessionHeld(w)' /\ SlotHas(w)'
<1>0. TypeOK /\ OriginsOK
  BY DEF HistoryInv, IsolationInv
<1>1. /\ UNCHANGED <<req, stored, origin>> /\ expired \subseteq expired'
      /\ pc'[w] = "idle" \/ (pc'[w] = pc[w] /\ slot'[w] = slot[w])
  BY ForgetEffect DEF ExpireApplication, ExpireSession, Restart, vars, histVars
<1>2. /\ Kept' \subseteq Kept
      /\ \A u \in Kept' : u \in Updates /\ Made(u) /\ OriginKey(u) \in Keys
  BY <1>0, <1>1, KeptFacts DEF Kept
<1>3. \A k \in Keys : live'[w][k] \in {live[w][k], Absent}
  <2>1. CASE Restart
    BY <2>1 DEF Restart, Keys
  <2>2. CASE live' = live
    BY <2>2
  <2> QED BY <2>1, <2>2 DEF ExpireApplication, ExpireSession, vars
<1>4. \A u \in Kept' : sessRow'[OriginKey(u)] = sessRow[OriginKey(u)]
  <2>1. CASE sessRow' = sessRow
    BY <2>1
  <2>2. ASSUME NEW k \in Keys, ExpireSession(k)
        PROVE  \A u \in Kept' : sessRow'[OriginKey(u)] = sessRow[OriginKey(u)]
    <3>1. sessRow' = [sessRow EXCEPT ![k] = Absent] /\ Forget({}, {k})
      BY <2>2 DEF ExpireSession
    <3>2. \A u \in Kept' : OriginKey(u) # k
      BY <1>2, <3>1, ForgetEffect DEF Kept
    <3> QED BY <1>0, <1>2, <3>1, <3>2 DEF TypeOK, Keys
  <2> QED BY <2>1, <2>2 DEF ExpireApplication, Restart, vars, Keys
<1>5. SessionHeld(w)'
  BY <1>0, <1>1, <1>2, <1>3, <1>4, HeldStays
<1>6. SlotHas(w)'
  BY <1>1, <1>2 DEF SlotHas, Saving, OriginKey, Key
<1> QED BY <1>5, <1>6

LEMMA SessionStep == HistoryInv /\ SessionInv /\ [Next]_vars => SessionInv'
<1> SUFFICES ASSUME HistoryInv, SessionInv, [Next]_vars, NEW w \in Workers, Alone(w)'
             PROVE  SessionHeld(w)' /\ SlotHas(w)'
  BY DEF SessionInv
<1>1. CASE \E v \in Workers : WorkerStep(v)
  <2>1. PICK v \in Workers : WorkerStep(v)
    BY <1>1
  <2>2. v = w /\ Alone(w)
    BY <2>1, AloneSteps
  <2>3. SessionHeld(w) /\ SlotHas(w)
    BY <2>2 DEF SessionInv
  <2> QED BY <2>1, <2>2, <2>3, EnableShares, PageShares, EndShares DEF WorkerStep
<1>2. CASE \/ \E a \in Apps : ExpireApplication(a)
           \/ \E k \in Apps \X Sids : ExpireSession(k)
           \/ Restart \/ UNCHANGED vars
  <2>1. req' = req
    BY <1>2 DEF ExpireApplication, ExpireSession, Restart, vars
  <2>2. Alone(w)
    BY <2>1 DEF Alone
  <2>3. SessionHeld(w) /\ SlotHas(w)
    BY <2>2 DEF SessionInv
  <2> QED BY <1>2, <2>3, OthersShare
<1> QED BY <1>1, <1>2 DEF Next

\* A session holds what its requests have stored in it, through expiry, SessionInvalidate,
\* SessionRotate and restarts: on a server whose other workers have served nothing,
\* g_liveSessions and the table never disagree on what a request must see.
THEOREM SessionIsShared == Spec => []SessionShared
<1>1. Init => SessionInv
  BY DEF Init, SessionInv, SessionHeld, SlotHas, Kept, Saving
<1>2. HistoryInv /\ SessionInv => SessionShared
  BY DEF HistoryInv, RequestsOK, SessionInv, SessionShared, SlotHas, Saving, Settled, Kept,
         OriginKey, Key
<1> QED BY <1>1, <1>2, HistoryInit, HistoryStep, SessionStep, PTL DEF Spec

-------------------------------------------------------------------------------
(* The application, where there is one: m_application is kept from request *)
(* to request whatever application it was filled for, so two would mix.    *)

OneApplication == \A a, b \in Apps : a = b

RowHeld == \A u \in Kept : u \in appRow[origin[u].app]

\* An empty scope is filled from the row at the next request.
MemHas(w) == pc[w] # "loadApp" /\ (pc[w] = "idle" => mem[w] # {}) => Kept \subseteq mem[w]

\* Between the two statements of scope_end, the row has what the scope has.
RowHasMem(w) ==
    pc[w] = "saveSession" /\ req[w].appOn =>
        \A u \in mem[w] \ expired : Made(u) => u \in appRow[req[w].app]

ApplicationInv == \A w \in Workers : Alone(w) => RowHeld /\ MemHas(w) /\ RowHasMem(w)

LEMMA EnableApplies ==
    ASSUME OneApplication, HistoryInv, NEW w \in Workers, RowHeld, MemHas(w), RowHasMem(w),
           \/ BeginRequest(w) \/ TouchApplication(w) \/ LoadApplication(w)
           \/ TouchSession(w) \/ LoadSession(w)
    PROVE  RowHeld' /\ MemHas(w)' /\ RowHasMem(w)'
<1>0. TypeOK /\ OriginsOK
  BY DEF HistoryInv, IsolationInv
<1>1. UNCHANGED <<appRow, histVars>> /\ Kept' = Kept
  BY DEF BeginRequest, TouchApplication, LoadApplication, TouchSession, LoadSession, histVars,
         Kept
<1>2. RowHeld'
  BY <1>1 DEF RowHeld, histVars
<1>3. pc'[w] # "saveSession"
  BY <1>0 DEF BeginRequest, TouchApplication, LoadApplication, TouchSession, LoadSession,
              MintSession, Mint, Goto, TypeOK
<1>4. MemHas(w)'
  <2>1. CASE BeginRequest(w)
    BY <1>0, <1>1, <2>1, BeginEffect DEF MemHas
  <2>2. CASE TouchApplication(w)
    BY <1>0, <1>1, <2>2 DEF MemHas, TouchApplication, Goto, TypeOK
  <2>3. CASE LoadApplication(w)
    <3>1. ASSUME NEW u \in Kept PROVE appRow[req[w].app] # Absent /\ u \in appRow[req[w].app]
      <4>1. u # None /\ origin[u].app = req[w].app
        BY <1>0, KeptFacts DEF OneApplication, TypeOK, Request
      <4> QED BY <4>1 DEF RowHeld, Absent
    <3>2. mem'[w] = IF appRow[req[w].app] # Absent THEN appRow[req[w].app] ELSE mem[w]
      BY <1>0, <2>3 DEF LoadApplication, TypeOK
    <3> QED BY <1>1, <3>1, <3>2 DEF MemHas
  <2>4. CASE TouchSession(w) \/ LoadSession(w)
    BY <1>0, <1>1, <2>4 DEF TouchSession, LoadSession, MemHas
  <2> QED BY <2>1, <2>2, <2>3, <2>4
<1> QED BY <1>2, <1>3, <1>4 DEF RowHasMem

LEMMA PageApplies ==
    ASSUME OneApplication, HistoryInv, NEW w \in Workers, RowHeld, MemHas(w), RowHasMem(w),
           \/ Update(w) \/ SessionInvalidate(w) \/ SessionRotate(w) \/ ApplicationStop(w)
    PROVE  RowHeld' /\ MemHas(w)' /\ RowHasMem(w)'
<1>0. TypeOK /\ OriginsOK
  BY DEF HistoryInv, IsolationInv
<1>1. /\ pc[w] = "page" /\ pc' = pc /\ stored' = stored /\ mem[w] \subseteq mem'[w]
      /\ \A u \in Updates : Made(u) => origin'[u] = origin[u]
  BY <1>0, UpdateEffect, InvalidateEffect, RotateEffect, StopEffect
<1>2. expired \subseteq expired'
  BY <1>0, UpdateEffect, InvalidateEffect, RotateEffect, StopEffect, ForgetEffect
<1>3. Kept' \subseteq Kept
  BY <1>1, <1>2 DEF Kept
<1>4. RowHeld'
  <2>1. CASE appRow' = appRow
    BY <1>0, <1>1, <1>3, <2>1, KeptFacts DEF RowHeld
  <2>2. CASE ApplicationStop(w)
    <3>1. \A u \in Kept : u \in expired'
      <4>1. Forget({req[w].app}, {})
        BY <1>0, <2>2, StopEffect
      <4>2. \A u \in Updates : Made(u) /\ origin[u].app \in {req[w].app} => u \in expired'
        BY <1>0, <4>1, ForgetEffect
      <4>3. \A u \in Kept : u \in Updates /\ Made(u) /\ origin[u].app = req[w].app
        BY <1>0, KeptFacts DEF OneApplication, TypeOK, Request
      <4> QED BY <4>2, <4>3
    <3> QED BY <1>3, <3>1 DEF RowHeld, Kept
  <2> QED BY <1>0, <2>1, <2>2, UpdateEffect, InvalidateEffect, RotateEffect
<1>5. MemHas(w)' /\ RowHasMem(w)'
  BY <1>1, <1>3 DEF MemHas, RowHasMem
<1> QED BY <1>4, <1>5

LEMMA EndApplies ==
    ASSUME OneApplication, HistoryInv, NEW w \in Workers, RowHeld, MemHas(w), RowHasMem(w),
           EndPage(w) \/ SaveApplication(w) \/ SaveSession(w)
    PROVE  RowHeld' /\ MemHas(w)' /\ RowHasMem(w)'
<1>0. TypeOK /\ OriginsOK /\ RequestsOK /\ OriginsOK'
  BY EndHistory DEF HistoryInv, IsolationInv
<1>1. CASE EndPage(w) \/ SaveApplication(w)
  <2>1. UNCHANGED <<mem, req, histVars>> /\ Kept' = Kept /\ Kept \subseteq mem[w]
    BY <1>0, <1>1, SaveApplicationEffect DEF MemHas, Kept, histVars
  <2>2. CASE appRow' = appRow /\ (pc'[w] = "saveApp" \/ ~req[w].appOn)
    BY <2>1, <2>2 DEF RowHeld, MemHas, RowHasMem, histVars
  <2>3. CASE appRow' = [appRow EXCEPT ![req[w].app] = mem[w]]
    <3>1. \A a \in Apps : appRow'[a] = mem[w]
      BY <1>0, <2>3 DEF OneApplication, TypeOK, Request
    <3>2. RowHeld'
      BY <1>0, <2>1, <3>1, KeptFacts DEF RowHeld, histVars
    <3>3. RowHasMem(w)'
      BY <1>0, <2>1, <3>1 DEF RowHasMem, TypeOK, Request
    <3> QED BY <2>1, <3>2, <3>3 DEF MemHas
  <2> QED BY <1>0, <1>1, <2>2, <2>3, SaveApplicationEffect
<1>2. CASE SaveSession(w)
  <2>1. /\ UNCHANGED <<appRow, mem, slot, req, origin, expired>>
        /\ pc[w] = "saveSession" /\ pc'[w] = "idle"
        /\ stored' = stored \cup {u \in slot[w] \cap mem[w] :
                                     req[w].persist /\ origin[u].app = req[w].app}
    BY <1>0, <1>2, SaveSessionEffect
  <2>2. ASSUME NEW u \in Kept' PROVE u \in mem[w] /\ u \in appRow[origin[u].app]
    <3>1. CASE u \in stored
      BY <2>1, <2>2, <3>1 DEF Kept, MemHas, RowHeld
    <3>2. CASE u \notin stored
      <4>1. /\ u \in mem[w] \ expired /\ req[w].persist /\ origin[u].app = req[w].app
        BY <2>1, <2>2, <3>2 DEF Kept
      <4>2. Made(u) /\ req[w].appOn
        BY <1>0, <2>1, <2>2, <4>1 DEF OriginsOK, Made, Kept, RequestsOK
      <4> QED BY <2>1, <4>1, <4>2 DEF RowHasMem
    <3> QED BY <3>1, <3>2
  <2>3. RowHeld' /\ MemHas(w)' /\ RowHasMem(w)'
    BY <2>1, <2>2 DEF RowHeld, MemHas, RowHasMem
  <2> QED BY <2>3
<1> QED BY <1>1, <1>2

LEMMA OthersApply ==
    ASSUME OneApplication, HistoryInv, NEW w \in Workers, RowHeld, MemHas(w), RowHasMem(w),
           \/ \E a \in Apps : ExpireApplication(a)
           \/ \E k \in Apps \X Sids : ExpireSession(k)
           \/ Restart \/ UNCHANGED vars
    PROVE  RowHeld' /\ MemHas(w)' /\ RowHasMem(w)'
<1>0. TypeOK /\ OriginsOK
  BY DEF HistoryInv, IsolationInv
<1>1. /\ UNCHANGED <<req, stored, origin>> /\ expired \subseteq expired' /\ Kept' \subseteq Kept
      /\ \/ pc'[w] = "idle" /\ mem'[w] = {}
         \/ pc'[w] = pc[w] /\ mem'[w] = mem[w]
  BY ForgetEffect DEF ExpireApplication, ExpireSession, Restart, vars, histVars, Kept
<1>2. MemHas(w)'
  BY <1>1 DEF MemHas
<1>3. CASE appRow' = appRow
  BY <1>1, <1>2, <1>3 DEF RowHeld, RowHasMem, Made
<1>4. ASSUME NEW a \in Apps, ExpireApplication(a) PROVE RowHeld' /\ RowHasMem(w)'
  <2>1. \A u \in Updates : Made(u) => u \in expired'
    <3>1. \A u \in Updates : Made(u) => origin[u].app = a
      BY <1>0 DEF Made, TypeOK, Origins, OneApplication
    <3> QED BY <1>4, <3>1, ForgetEffect DEF ExpireApplication
  <2>2. RowHeld'
    BY <1>0, <1>1, <2>1, KeptFacts DEF RowHeld, Kept
  <2>3. RowHasMem(w)'
    BY <1>0, <1>1, <1>4, <2>1 DEF RowHasMem, Made, ExpireApplication, TypeOK, Scopes
  <2> QED BY <2>2, <2>3
<1> QED BY <1>2, <1>3, <1>4 DEF ExpireSession, Restart, vars

LEMMA ApplicationStep ==
    ASSUME OneApplication
    PROVE  HistoryInv /\ ApplicationInv /\ [Next]_vars => ApplicationInv'
<1> SUFFICES ASSUME HistoryInv, ApplicationInv, [Next]_vars, NEW w \in Workers, Alone(w)'
             PROVE  RowHeld' /\ MemHas(w)' /\ RowHasMem(w)'
  BY DEF ApplicationInv
<1>1. CASE \E v \in Workers : WorkerStep(v)
  <2>1. PICK v \in Workers : WorkerStep(v)
    BY <1>1
  <2>2. v = w /\ Alone(w)
    BY <2>1, AloneSteps
  <2>3. RowHeld /\ MemHas(w) /\ RowHasMem(w)
    BY <2>2 DEF ApplicationInv
  <2> QED BY <2>1, <2>2, <2>3, EnableApplies, PageApplies, EndApplies DEF WorkerStep
<1>2. CASE \/ \E a \in Apps : ExpireApplication(a)
           \/ \E k \in Apps \X Sids : ExpireSession(k)
           \/ Restart \/ UNCHANGED vars
  <2>1. req' = req
    BY <1>2 DEF ExpireApplication, ExpireSession, Restart, vars
  <2>2. Alone(w)
    BY <2>1 DEF Alone
  <2>3. RowHeld /\ MemHas(w) /\ RowHasMem(w)
    BY <2>2 DEF ApplicationInv
  <2> QED BY <1>2, <2>3, OthersApply
<1> QED BY <1>1, <1>2 DEF Next

\* An application's scope holds what its requests have stored, through expiry,
\* ApplicationStop and restarts: the copy a worker keeps in m_application is never behind
\* the row, on a server with one application whose other workers have served nothing.
THEOREM ApplicationIsShared ==
    ASSUME OneApplication
    PROVE  Spec => []ApplicationShared
<1>1. Init => ApplicationInv
  BY DEF Init, ApplicationInv, RowHeld, MemHas, RowHasMem, Kept
<1>2. HistoryInv /\ ApplicationInv => ApplicationShared
  BY DEF HistoryInv, RequestsOK, ApplicationInv, ApplicationShared, MemHas, Settled, Kept
<1> QED BY <1>1, <1>2, HistoryInit, HistoryStep, ApplicationStep, PTL DEF Spec

===============================================================================

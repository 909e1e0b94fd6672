------------------------- MODULE ScopeLifecycleProofs -------------------------
(* Theorems about ScopeLifecycle, for every set of workers and session ids *)
(* and every timeout.                                                      *)
EXTENDS ScopeLifecycle, TLAPS

-------------------------------------------------------------------------------
(* Lemmas about the statements of ScopeStore.                              *)

\* ExpiresAt is an absolute time.
LEMMA ExpiresAtType ==
    ASSUME NEW t \in Nat, NEW ms \in Nat
    PROVE  ExpiresAt(t, ms) \in Nat
  BY DEF ExpiresAt

\* Each statement of scope_store.cpp leaves a well-formed table.
LEMMA TouchType ==
    ASSUME NEW table \in Table, NEW k \in Keys, NEW t \in Nat, NEW exp \in Nat
    PROVE  Touch(table, k, exp, t) \in Table
  BY DEF Touch, Table, Live, Row

LEMMA PurgeType ==
    ASSUME NEW table \in Table, NEW k \in Keys, NEW t \in Nat
    PROVE  PurgeDue(table, k, t) \in Table
  BY DEF PurgeDue, Table

LEMMA StoreType ==
    ASSUME NEW table \in Table, NEW k \in Keys, NEW exp \in Nat,
           NEW data \in BOOLEAN, NEW cfc \in BOOLEAN
    PROVE  Store(table, k, exp, data, cfc) \in Table
<1>1. (cfc \/ (table[k] # Absent /\ table[k].cfc)) \in BOOLEAN
  BY DEF Table, Row
<1>2. [exp |-> exp, data |-> data, cfc |-> cfc \/ (table[k] # Absent /\ table[k].cfc)] \in Row
  BY <1>1 DEF Row
<1> QED BY <1>2 DEF Store, Table

LEMMA DeleteType ==
    ASSUME NEW table \in Table, NEW ks
    PROVE  Delete(table, ks) \in Table
  BY DEF Delete, Table

-------------------------------------------------------------------------------
(* Type correctness.                                                       *)

\* The steps at which cf_application_enable has settled on a session id.
Settled == {"loadSession", "start", "page", "invalidate", "rotate", "saveApp", "saveSession"}

\* TypeOK alone is not inductive: SessionInvalidate and scope_end write the id in
\* their context, so it must be one that was minted.
SessionKnown ==
    \A w \in Workers : /\ ctx[w].sid \in minted \cup {NoSid}
                       /\ pc[w] \in Settled => ctx[w].sid \in minted

TypeInv == TypeOK /\ SessionKnown

\* The assignments cf_application_enable, SessionInvalidate, ApplicationStop and
\* scope_end make to a ScopeContext keep it well formed.
LEMMA ContextUpdates ==
    ASSUME NEW c \in Context
    PROVE  /\ c.sid \in Sids \cup {NoSid} /\ c.begin \in Nat /\ c.t \in Nat
           /\ \A n \in Nat : [c EXCEPT !.t = n] \in Context
           /\ \A n \in Nat : [c EXCEPT !.newApp = TRUE, !.t = n] \in Context
           /\ [c EXCEPT !.sessOn = FALSE] \in Context
           /\ [c EXCEPT !.appOn = FALSE, !.sessOn = FALSE] \in Context
           /\ [c EXCEPT !.t = c.begin, !.appOn = TRUE, !.sessOn = TRUE] \in Context
           /\ \A s \in Sids : [c EXCEPT !.sid = s, !.newSess = TRUE] \in Context
  BY DEF Context

\* A reading of the clock is a time.
LEMMA ReadingsType ==
    ASSUME TypeOK, NEW w \in Workers, NEW t \in Readings(w)
    PROVE  t \in Nat /\ ctx[w].t <= t /\ t <= now
  BY DEF TypeOK, Context, Readings

\* Reading the clock changes nothing else in a ScopeContext.
LEMMA ReadEffect ==
    ASSUME TypeInv, NEW w \in Workers, NEW n \in Nat, ctx' = [ctx EXCEPT ![w].t = n]
    PROVE  /\ ctx' \in [Workers -> Context]
           /\ \A v \in Workers : ctx'[v].sid = ctx[v].sid
           /\ ctx'[w].begin = ctx[w].begin /\ ctx'[w].t = n
           /\ ctx'[w].newApp = ctx[w].newApp /\ ctx'[w].sessOn = ctx[w].sessOn
           /\ \A v \in Workers \ {w} : ctx'[v] = ctx[v]
<1>1. ctx[w] \in Context /\ ctx \in [Workers -> Context]
  BY DEF TypeInv, TypeOK
<1>2. ctx' = [ctx EXCEPT ![w] = [ctx[w] EXCEPT !.t = n]]
  OBVIOUS
<1>3. ctx'[w] = [ctx[w] EXCEPT !.t = n] /\ \A v \in Workers \ {w} : ctx'[v] = ctx[v]
  BY <1>1, <1>2
<1>4. /\ ctx'[w].sid = ctx[w].sid /\ ctx'[w].begin = ctx[w].begin /\ ctx'[w].t = n
      /\ ctx'[w].newApp = ctx[w].newApp /\ ctx'[w].sessOn = ctx[w].sessOn
  BY <1>1, <1>3 DEF Context
<1>5. ctx' \in [Workers -> Context]
  BY <1>1, <1>2, ContextUpdates
<1> QED BY <1>3, <1>4, <1>5

\* What minting a session changes.
LEMMA MintEffect ==
    ASSUME TypeInv, NEW w \in Workers, MintSession(w)
    PROVE  /\ minted' \subseteq Sids /\ minted \subseteq minted'
           /\ ctx' \in [Workers -> Context]
           /\ pc' \in [Workers -> Steps]
           /\ SessionKnown'
<1>1. PICK s \in Sids \ minted :
         /\ minted' = minted \cup {s}
         /\ ctx' = [ctx EXCEPT ![w] = [@ EXCEPT !.sid = s, !.t = ctx[w].begin, !.newSess = TRUE,
                                                !.appOn = TRUE, !.sessOn = TRUE]]
  BY DEF MintSession, Mint
<1>2. pc' = [pc EXCEPT ![w] = "start"]
  BY DEF MintSession, Mint, Goto
<1>3. ctx' \in [Workers -> Context]
  BY <1>1 DEF TypeInv, TypeOK, Context
<1>4. SessionKnown'
  BY <1>1, <1>2 DEF TypeInv, TypeOK, SessionKnown, Context
<1> QED BY <1>1, <1>2, <1>3, <1>4 DEF TypeInv, TypeOK, Steps

\* What the touch of a session changes when the session is there at the reading.
TouchedAt(w, t) ==
    /\ pc[w] = "touchSession" /\ pc' = [pc EXCEPT ![w] = "loadSession"]
    /\ ctx[w].sid \in Sids /\ Live(rows[ctx[w].sid], t)
    /\ rows' \in Table
    /\ \A k \in Keys \ {ctx[w].sid} : rows'[k] = rows[k]
    /\ rows'[ctx[w].sid] # Absent /\ rows'[ctx[w].sid].exp = ExpiresAt(t, SessionTimeout)
    /\ ctx' = [ctx EXCEPT ![w].t = t] /\ minted' = minted

LEMMA TouchEffect ==
    ASSUME TypeInv, NEW w \in Workers, TouchSession(w)
    PROVE  \/ MintSession(w) /\ rows' = rows
           \/ \E t \in Readings(w) : TouchedAt(w, t)
<1>1. PICK t \in Readings(w) : Adopt(w, t, Live(rows[ctx[w].sid], t), TRUE)
  BY DEF TouchSession
<1>2. t \in Nat /\ ctx[w] \in Context /\ rows \in Table
  BY ReadingsType DEF TypeInv, TypeOK
<1>3. CASE ~(ctx[w].sid # NoSid /\ Live(rows[ctx[w].sid], t))
  BY <1>1, <1>3 DEF Adopt
<1>4. CASE ctx[w].sid # NoSid /\ Live(rows[ctx[w].sid], t)
  <2>1. /\ pc[w] = "touchSession" /\ pc' = [pc EXCEPT ![w] = "loadSession"]
        /\ rows' = Touch(rows, ctx[w].sid, ExpiresAt(t, SessionTimeout), t)
        /\ ctx' = [ctx EXCEPT ![w].t = t] /\ minted' = minted
    BY <1>1, <1>4 DEF Adopt, Goto
  <2>2. ctx[w].sid \in Sids /\ ctx[w].sid \in Keys
    BY <1>2, <1>4 DEF Context, Keys
  <2>3. ExpiresAt(t, SessionTimeout) \in Nat
    BY <1>2, TimeoutAssumption, ExpiresAtType
  <2>4. rows' \in Table
    BY <1>2, <2>1, <2>2, <2>3, TouchType
  <2>5. rows' = [rows EXCEPT ![ctx[w].sid] = [@ EXCEPT !.exp = ExpiresAt(t, SessionTimeout)]]
    BY <1>4, <2>1 DEF Touch
  <2>6. rows[ctx[w].sid] \in Row
    BY <1>2, <1>4, <2>2 DEF Live, Table
  <2>7. rows'[ctx[w].sid] = [rows[ctx[w].sid] EXCEPT !.exp = ExpiresAt(t, SessionTimeout)]
    BY <1>2, <2>2, <2>5 DEF Table
  <2>8. rows'[ctx[w].sid] \in Row /\ rows'[ctx[w].sid].exp = ExpiresAt(t, SessionTimeout)
    BY <2>3, <2>6, <2>7 DEF Row
  <2>9. \A k \in Keys \ {ctx[w].sid} : rows'[k] = rows[k]
    BY <1>2, <2>5 DEF Table
  <2> QED BY <1>4, <2>1, <2>2, <2>4, <2>8, <2>9, AbsentAssumption DEF TouchedAt
<1> QED BY <1>3, <1>4

LEMMA TypeInit == Init => TypeInv
  BY KeyAssumption, NoSidAssumption
  DEF Init, TypeInv, TypeOK, SessionKnown, Settled, Table, Keys, Steps, Context,
      EmptyContext, History

\* A step of a worker keeps the type invariant.
LEMMA TypeWorker ==
    ASSUME TypeInv, NEW w \in Workers, WorkerStep(w)
    PROVE  TypeInv'
<1> USE TimeoutAssumption DEF TypeInv
<1>0. /\ ctx[w] \in Context
      /\ App \in Keys
      /\ Sids \subseteq Keys
      /\ minted \subseteq Sids
  BY DEF TypeOK, Keys
<1>1. CASE BeginRequest(w)
  <2>1. PICK cookie \in sent \cup {NoSid} :
           ctx' = [ctx EXCEPT ![w] = [EmptyContext EXCEPT !.sid = cookie, !.begin = now,
                                                          !.t = now]]
    BY <1>1 DEF BeginRequest
  <2>2. TypeOK'
    BY <1>0, <1>1, <2>1 DEF BeginRequest, TypeOK, Goto, Steps, EmptyContext, Context, reaperVars
  <2>3. SessionKnown'
    BY <1>0, <1>1, <2>1
    DEF BeginRequest, SessionKnown, TypeOK, Goto, Settled, EmptyContext, Context
  <2> QED BY <2>2, <2>3
<1>2. CASE TouchApplication(w)
  <2>1. rows' \in Table
    BY <1>0, <1>2, ContextUpdates, ExpiresAtType, TouchType DEF TouchApplication, TypeOK
  <2>2. ctx' \in [Workers -> Context] /\ \A v \in Workers : ctx'[v].sid = ctx[v].sid
    BY <1>0, <1>2, ReadEffect DEF TouchApplication, ReadsFrom, TypeOK
  <2>3. TypeOK'
    BY <1>2, <2>1, <2>2 DEF TouchApplication, TypeOK, Goto, Steps, Live, reaperVars
  <2> QED BY <1>2, <2>2, <2>3 DEF TouchApplication, SessionKnown, TypeOK, Goto, Settled
<1>3. CASE LoadApplication(w)
  <2>1. rows' \in Table
    <3>1. PurgeDue(rows, App, ctx[w].t) \in Table
      BY <1>0, PurgeType, ContextUpdates DEF TypeOK
    <3> QED BY <1>3, <3>1 DEF LoadApplication, TypeOK
  <2>2. ctx' \in [Workers -> Context]
    <3>1. [ctx[w] EXCEPT !.newApp = TRUE, !.t = now] \in Context
      BY <1>0, ContextUpdates DEF TypeOK
    <3>2. ctx' = ctx \/ ctx' = [ctx EXCEPT ![w] = [ctx[w] EXCEPT !.newApp = TRUE, !.t = now]]
      BY <1>3 DEF LoadApplication
    <3> QED BY <3>1, <3>2 DEF TypeOK
  <2>3. cached' \in [Workers -> BOOLEAN]
    BY <1>0, <1>3 DEF LoadApplication, TypeOK, Live, Table, Row
  <2>4. TypeOK'
    BY <1>3, <2>1, <2>2, <2>3 DEF LoadApplication, TypeOK, Goto, Steps, reaperVars
  <2>5. \A v \in Workers : ctx'[v].sid = ctx[v].sid
    <3>1. ctx' = ctx \/ ctx' = [ctx EXCEPT ![w] = [ctx[w] EXCEPT !.newApp = TRUE, !.t = now]]
      BY <1>3 DEF LoadApplication
    <3>2. [ctx[w] EXCEPT !.newApp = TRUE, !.t = now].sid = ctx[w].sid
      BY <1>0 DEF Context
    <3> QED BY <3>1, <3>2 DEF TypeOK
  <2> QED BY <1>3, <2>4, <2>5 DEF LoadApplication, SessionKnown, TypeOK, Goto, Settled
<1>4. CASE TouchLoadedApplication(w)
  <2>1. rows' \in Table
    BY <1>0, <1>4, ContextUpdates, ExpiresAtType, TouchType DEF TouchLoadedApplication, TypeOK
  <2>2. ctx' \in [Workers -> Context] /\ \A v \in Workers : ctx'[v].sid = ctx[v].sid
    BY <1>4, ReadEffect DEF TouchLoadedApplication, ReadsFrom, TypeOK
  <2>3. TypeOK'
    BY <1>4, <2>1, <2>2 DEF TouchLoadedApplication, TypeOK, Goto, Steps, reaperVars
  <2> QED BY <1>4, <2>2, <2>3 DEF TouchLoadedApplication, SessionKnown, TypeOK, Goto, Settled
<1>5. CASE TouchSession(w)
  <2>1. ASSUME NEW t \in Readings(w), TouchedAt(w, t)
        PROVE  TypeInv'
    <3>1. t \in Nat
      BY ReadingsType
    <3>2. ctx' \in [Workers -> Context] /\ \A v \in Workers : ctx'[v].sid = ctx[v].sid
      BY <2>1, <3>1, ReadEffect DEF TouchedAt
    <3>3. ctx[w].sid \in minted
      BY <1>0, <2>1, NoSidAssumption DEF SessionKnown, TouchedAt, Keys
    <3>4. /\ rows' \in Table /\ pc' \in [Workers -> Steps] /\ minted' = minted
          /\ pc' = [pc EXCEPT ![w] = "loadSession"]
      BY <2>1 DEF TouchedAt, TypeOK, Steps
    <3>5. TypeOK'
      BY <1>5, <3>2, <3>4 DEF TouchSession, Adopt, TypeOK, reaperVars
    <3>6. SessionKnown'
      BY <3>2, <3>3, <3>4 DEF SessionKnown, TypeOK, Settled
    <3> QED BY <3>5, <3>6
  <2>2. CASE MintSession(w) /\ rows' = rows
    BY <1>5, <2>2, MintEffect DEF TouchSession, Adopt, TypeOK, reaperVars
  <2> QED BY <1>5, <2>1, <2>2, TouchEffect
<1>6. CASE LoadSession(w)
  <2>1. CASE Live(rows[ctx[w].sid], ctx[w].t)
    <3>1. ctx' = [ctx EXCEPT ![w] = [@ EXCEPT !.t = ctx[w].begin, !.appOn = TRUE, !.sessOn = TRUE]]
      BY <1>6, <2>1 DEF LoadSession
    <3>2. TypeOK'
      BY <1>0, <1>6, <2>1, <3>1 DEF LoadSession, TypeOK, Goto, Steps, Context, reaperVars
    <3>3. SessionKnown'
      BY <1>0, <1>6, <2>1, <3>1
      DEF LoadSession, SessionKnown, TypeOK, Goto, Settled, Context
    <3> QED BY <3>2, <3>3
  <2>2. CASE ~Live(rows[ctx[w].sid], ctx[w].t)
    <3>1. rows' \in Table
      BY <1>6, <2>2 DEF LoadSession, PurgeDue, TypeOK, Table
    <3> QED BY <1>6, <2>2, <3>1, MintEffect DEF LoadSession, TypeOK, reaperVars
  <2> QED BY <2>1, <2>2
<1>7. CASE StartCallbacks(w)
  <2>1. ctx[w].sid \in minted
    BY <1>7 DEF StartCallbacks, Callbacks, SessionKnown, Settled
  <2>2. hist' \in History
    BY <1>0, <1>7, <2>1 DEF StartCallbacks, Callbacks, Holds, History, TypeOK
  <2>3. sent' \subseteq minted
    BY <1>7, <2>1 DEF StartCallbacks, Callbacks, TypeOK
  <2>4. /\ cached' \in [Workers -> BOOLEAN]
        /\ started' \in [Workers -> BOOLEAN]
        /\ pc' \in [Workers -> Steps]
    BY <1>7 DEF StartCallbacks, Callbacks, TypeOK, Goto, Steps
  <2>5. ctx' \in [Workers -> Context] /\ \A v \in Workers : ctx'[v].sid = ctx[v].sid
    <3>1. ctx' = ctx \/ ReadsFrom(w)
      BY <1>7 DEF StartCallbacks, Callbacks
    <3> QED BY <3>1, ReadEffect DEF ReadsFrom, TypeOK
  <2>6. TypeOK'
    BY <1>7, <2>2, <2>3, <2>4, <2>5 DEF StartCallbacks, Callbacks, TypeOK, reaperVars
  <2> QED BY <1>7, <2>1, <2>5, <2>6
        DEF StartCallbacks, Callbacks, SessionKnown, TypeOK, Goto, Settled
<1>8. CASE InvalidateCallback(w)
  <2>1. ctx[w].sid \in minted
    BY <1>8 DEF InvalidateCallback, SessionKnown, Settled
  <2>2. hist' \in History
    BY <1>0, <1>8, <2>1 DEF InvalidateCallback, Holds, History, TypeOK
  <2>3. TypeOK'
    BY <1>8, <2>2 DEF InvalidateCallback, TypeOK, Goto, Steps, reaperVars
  <2> QED BY <1>8, <2>1, <2>3 DEF InvalidateCallback, SessionKnown, TypeOK, Goto, Settled
<1>9. CASE InvalidateRemove(w)
  <2>1. ctx[w].sid \in minted
    BY <1>9 DEF InvalidateRemove, SessionKnown, Settled
  <2>2. hist' \in History
    BY <1>0, <1>9, <2>1 DEF InvalidateRemove, Holds, History, TypeOK
  <2>3. rows' \in Table
    BY <1>9 DEF InvalidateRemove, Delete, Table, TypeOK
  <2>4. ctx' = [ctx EXCEPT ![w] = [ctx[w] EXCEPT !.sessOn = FALSE]]
    BY <1>9 DEF InvalidateRemove
  <2>5. TypeOK'
    <3>1. ctx' \in [Workers -> Context]
      BY <1>0, <2>4, ContextUpdates DEF TypeOK
    <3> QED BY <1>9, <2>2, <2>3, <3>1 DEF InvalidateRemove, TypeOK, Goto, Steps, reaperVars
  <2> QED BY <1>9, <2>1, <2>4, <2>5
        DEF InvalidateRemove, SessionKnown, TypeOK, Goto, Settled, Context
<1>10. CASE RotateRemove(w)
  <2>1. ctx[w].sid \in minted
    BY <1>10 DEF RotateRemove, SessionKnown, Settled
  <2>2. hist' \in History
    BY <1>0, <1>10, <2>1 DEF RotateRemove, Holds, History, TypeOK
  <2>3. rows' \in Table
    BY <1>10 DEF RotateRemove, Delete, Table, TypeOK
  <2>4. ctx' \in [Workers -> Context] /\ \A v \in Workers : ctx'[v].sid = ctx[v].sid
    BY <1>10, ReadEffect DEF RotateRemove, ReadsFrom, TypeOK
  <2>5. TypeOK'
    BY <1>10, <2>2, <2>3, <2>4 DEF RotateRemove, TypeOK, Goto, Steps, reaperVars
  <2> QED BY <1>10, <2>1, <2>4, <2>5 DEF RotateRemove, SessionKnown, TypeOK, Goto, Settled
<1>11. CASE RotateStore(w)
  <2>1. PICK s \in Sids \ minted, t \in Readings(w) :
           /\ minted' = minted \cup {s}
           /\ rows' = Store(rows, s, ExpiresAt(t, SessionTimeout), TRUE, FALSE)
           /\ ctx' = [ctx EXCEPT ![w] = [@ EXCEPT !.sid = s, !.newSess = TRUE]]
           /\ hist' = [hist EXCEPT !.stored = @ \cup {s},
                                   !.begun = IF ctx[w].sid \in @ THEN @ \cup {s} ELSE @]
    BY <1>11 DEF RotateStore
  <2>2. rows' \in Table
    <3>1. ExpiresAt(t, SessionTimeout) \in Nat
      BY ReadingsType, ExpiresAtType
    <3> QED BY <1>0, <2>1, <3>1, StoreType DEF TypeOK
  <2>3. hist' \in History
    BY <2>1 DEF History, TypeOK
  <2>4. TypeOK'
    BY <1>0, <1>11, <2>1, <2>2, <2>3
    DEF RotateStore, TypeOK, Goto, Steps, Context, reaperVars
  <2>5. SessionKnown'
    BY <1>0, <1>11, <2>1 DEF RotateStore, SessionKnown, TypeOK, Goto, Settled, Context
  <2> QED BY <2>4, <2>5
<1>12. CASE ApplicationStop(w)
  <2>1. hist' \in History
    BY <1>12 DEF ApplicationStop, History, TypeOK
  <2>2. rows' \in Table
    BY <1>12 DEF ApplicationStop, Delete, Table, TypeOK
  <2>3. ctx' = [ctx EXCEPT ![w] = [@ EXCEPT !.appOn = FALSE, !.sessOn = FALSE]]
    BY <1>12 DEF ApplicationStop
  <2>4. TypeOK'
    <3>1. ctx' \in [Workers -> Context]
      BY <1>0, <2>3, ContextUpdates DEF TypeOK
    <3> QED BY <1>12, <2>1, <2>2, <3>1 DEF ApplicationStop, TypeOK, reaperVars
  <2> QED BY <1>0, <1>12, <2>3, <2>4 DEF ApplicationStop, SessionKnown, TypeOK, Context
<1>13. CASE FinishResponse(w)
  <2>1. ctx[w].sid \in minted
    BY <1>13 DEF FinishResponse, SessionKnown, Settled
  <2>2. ctx' \in [Workers -> Context] /\ \A v \in Workers : ctx'[v].sid = ctx[v].sid
    BY <1>13, ReadEffect DEF FinishResponse, ReadsFrom, TypeOK
  <2>3. TypeOK'
    BY <1>13, <2>1, <2>2 DEF FinishResponse, TypeOK, Goto, Steps, reaperVars
  <2> QED BY <1>13, <2>1, <2>2, <2>3 DEF FinishResponse, SessionKnown, TypeOK, Goto, Settled
<1>14. CASE SaveApplication(w)
  <2>1. PICK t \in Readings(w) :
           /\ rows' = IF ctx[w].appOn
                      THEN Store(rows, App, ExpiresAt(t, AppTimeout), cached[w], TRUE)
                      ELSE rows
           /\ ctx' = [ctx EXCEPT ![w].t = t]
    BY <1>14 DEF SaveApplication
  <2>2. t \in Nat
    BY ReadingsType
  <2>3. rows' \in Table
    <3>1. ExpiresAt(t, AppTimeout) \in Nat
      BY <2>2, ExpiresAtType
    <3>2. Store(rows, App, ExpiresAt(t, AppTimeout), cached[w], TRUE) \in Table
      BY <1>0, <3>1, StoreType DEF TypeOK
    <3> QED BY <2>1, <3>2 DEF TypeOK
  <2>4. ctx' \in [Workers -> Context] /\ \A v \in Workers : ctx'[v].sid = ctx[v].sid
    BY <2>1, <2>2, ReadEffect
  <2>5. TypeOK'
    BY <1>14, <2>3, <2>4 DEF SaveApplication, TypeOK, Goto, Steps, reaperVars
  <2> QED BY <1>14, <2>4, <2>5 DEF SaveApplication, SessionKnown, TypeOK, Goto, Settled
<1>15. CASE SaveSession(w)
  <2>1. ctx[w].sid \in minted
    BY <1>15 DEF SaveSession, SessionKnown, Settled
  <2>2. hist' \in History
    <3>1. hist' = hist \/ hist' = [hist EXCEPT !.stored = @ \cup {ctx[w].sid}]
      BY <1>15 DEF SaveSession, Holds
    <3> QED BY <1>0, <2>1, <3>1 DEF History, TypeOK
  <2>3. rows' \in Table
    <3>1. ExpiresAt(ctx[w].t, SessionTimeout) \in Nat
      BY <1>0, ContextUpdates, ExpiresAtType
    <3>2. Store(rows, ctx[w].sid, ExpiresAt(ctx[w].t, SessionTimeout), TRUE, TRUE) \in Table
      BY <1>0, <2>1, <3>1, StoreType DEF TypeOK
    <3> QED BY <1>15, <3>2 DEF SaveSession, TypeOK
  <2>4. ctx' = [ctx EXCEPT ![w] = EmptyContext]
    BY <1>15 DEF SaveSession
  <2>5. TypeOK'
    BY <1>15, <2>2, <2>3, <2>4
    DEF SaveSession, TypeOK, Goto, Steps, EmptyContext, Context, reaperVars
  <2> QED BY <1>15, <2>4, <2>5
        DEF SaveSession, SessionKnown, TypeOK, Goto, Settled, EmptyContext
<1>16. CASE WorkerCrash(w)
  <2>1. TypeOK'
    BY <1>16 DEF WorkerCrash, TypeOK, Goto, Steps, EmptyContext, Context, reaperVars
  <2> QED BY <1>16, <2>1 DEF WorkerCrash, SessionKnown, TypeOK, Goto, Settled, EmptyContext
<1> QED BY <1>1, <1>2, <1>3, <1>4, <1>5, <1>6, <1>7, <1>8, <1>9, <1>10, <1>11, <1>12,
           <1>13, <1>14, <1>15, <1>16 DEF WorkerStep

\* So does a step of the reaper.
LEMMA TypeReaper ==
    ASSUME TypeInv, ReaperStep
    PROVE  TypeInv'
<1> USE DEF TypeInv, workerVars
<1>1. CASE ClaimExpired
  <2>1. rows' \in Table
    BY <1>1 DEF ClaimExpired, Claims, Delete, Table, TypeOK
  <2>2. batch' \subseteq Claimed
    BY <1>1 DEF ClaimExpired, Claims, DueKeys, Due, Claimed, TypeOK, Table, Row
  <2>3. hist' \in History
    BY <1>1 DEF ClaimExpired, Claims, DueKeys, Keys, History, TypeOK
  <2> QED BY <1>1, <2>1, <2>2, <2>3 DEF ClaimExpired, Claims, TypeOK, SessionKnown
<1>2. ASSUME NEW r \in batch, EndSession(r)
      PROVE  TypeInv'
  <2>1. r.key \in Sids
    BY <1>2 DEF EndSession, TypeOK, Claimed, Keys
  <2>2. hist' \in History
    BY <1>2, <2>1 DEF EndSession, Holds, History, TypeOK
  <2> QED BY <1>2, <2>2 DEF EndSession, TypeOK, SessionKnown
<1>3. ASSUME NEW r \in batch, EndApplication(r)
      PROVE  TypeInv'
  BY <1>3 DEF EndApplication, TypeOK, SessionKnown
<1>4. CASE ReaperCrash
  <2>1. {r.key : r \in batch} \ {App} \subseteq Sids
    BY DEF TypeOK, Claimed, Keys
  <2>2. hist' \in History
    BY <1>4, <2>1 DEF ReaperCrash, History, TypeOK
  <2> QED BY <1>4, <2>2 DEF ReaperCrash, TypeOK, SessionKnown
<1>5. CASE ReaperRestart
  BY <1>5 DEF ReaperRestart, TypeOK, SessionKnown
<1> QED BY <1>1, <1>2, <1>3, <1>4, <1>5 DEF ReaperStep

LEMMA TypeStep == TypeInv /\ [Next]_vars => TypeInv'
<1> SUFFICES ASSUME TypeInv, [Next]_vars
             PROVE  TypeInv'
  OBVIOUS
<1>1. CASE Tick
  BY <1>1 DEF Tick, TypeInv, TypeOK, SessionKnown, workerVars, reaperVars
<1>2. CASE UNCHANGED vars
  BY <1>2 DEF vars, TypeInv, TypeOK, SessionKnown
<1> QED BY <1>1, <1>2, TypeWorker, TypeReaper DEF Next

\* What every variable holds in every reachable state: the rows are well formed,
\* the batch of the reaper holds records of rows, and a client holds cookies of
\* minted ids only (nextCfid, storeRow, claimExpired).
THEOREM TypeCorrect == Spec => []TypeOK
<1>1. TypeInv => TypeOK
  BY DEF TypeInv
<1> QED BY TypeInit, TypeStep, <1>1, PTL DEF Spec

-------------------------------------------------------------------------------
(* What a step of a worker can do, for the invariants below.               *)

\* A request is served in the worker's own variables: the other workers, the clock
\* and the reaper are not disturbed.
LEMMA WorkerFrame ==
    ASSUME TypeInv, NEW w \in Workers, WorkerStep(w)
    PROVE  /\ now' = now /\ UNCHANGED reaperVars
           /\ \A v \in Workers \ {w} : pc'[v] = pc[v] /\ ctx'[v] = ctx[v] /\ cached'[v] = cached[v]
<1> USE DEF TypeInv, TypeOK
<1>1. now' = now /\ UNCHANGED reaperVars
  BY DEF WorkerStep, BeginRequest, TouchApplication, LoadApplication,
         TouchLoadedApplication, TouchSession, LoadSession, Adopt, StartCallbacks, Callbacks,
         InvalidateCallback, InvalidateRemove, RotateRemove, RotateStore, ApplicationStop,
         FinishResponse, SaveApplication, SaveSession, WorkerCrash
<1>2. ASSUME NEW v \in Workers, v # w
      PROVE  pc'[v] = pc[v] /\ ctx'[v] = ctx[v] /\ cached'[v] = cached[v]
  BY <1>2 DEF WorkerStep, BeginRequest, TouchApplication, LoadApplication,
              TouchLoadedApplication, TouchSession, LoadSession, Adopt, MintSession, Mint,
              StartCallbacks, Callbacks, InvalidateCallback, InvalidateRemove, RotateRemove,
              RotateStore, ApplicationStop, FinishResponse, SaveApplication, SaveSession,
              WorkerCrash, Goto, ReadsFrom
<1> QED BY <1>1, <1>2

\* What a worker's step can do to a session's row, and to the record of it.
LEMMA WorkerOnRow ==
    ASSUME TypeInv, NEW w \in Workers, WorkerStep(w), NEW s \in Sids
    PROVE  \/ rows'[s] = rows[s]
           \/ rows'[s] = Absent /\ s \in hist'.removed
           \/ /\ pc[w] = "loadSession" /\ ctx[w].sid = s
              /\ Due(rows[s], ctx[w].t) /\ rows'[s] = Absent
           \/ \E t \in Readings(w) :
                 /\ pc[w] = "touchSession" /\ ctx[w].sid = s /\ Live(rows[s], t)
                 /\ rows'[s] # Absent /\ rows'[s].exp = ExpiresAt(t, SessionTimeout)
           \/ /\ RotateStore(w) /\ s \in minted' \ minted /\ s \in hist'.stored
              /\ ctx[w].sid \in hist.begun => s \in hist'.begun
              /\ rows'[s] # Absent
              /\ \E t \in Readings(w) : rows'[s].exp = ExpiresAt(t, SessionTimeout)
           \/ /\ pc[w] = "saveSession" /\ Using(w, s) /\ s \in hist'.stored
              /\ rows'[s] # Absent /\ rows'[s].exp = ExpiresAt(ctx[w].t, SessionTimeout)
<1> USE DEF TypeInv, TypeOK
<1>0. /\ s \in Keys /\ s # App /\ App \in Keys
      /\ ctx[w] \in Context
      /\ Sids \subseteq Keys
  BY KeyAssumption DEF Keys
<1>1. CASE TouchApplication(w) \/ LoadApplication(w) \/ TouchLoadedApplication(w)
           \/ SaveApplication(w)
  BY <1>0, <1>1 DEF TouchApplication, LoadApplication, TouchLoadedApplication,
                    SaveApplication, Touch, PurgeDue, Store, Table
<1>2. CASE TouchSession(w)
  <2>1. ASSUME NEW t \in Readings(w), TouchedAt(w, t)
        PROVE  \/ rows'[s] = rows[s]
               \/ /\ pc[w] = "touchSession" /\ ctx[w].sid = s /\ Live(rows[s], t)
                  /\ rows'[s] # Absent /\ rows'[s].exp = ExpiresAt(t, SessionTimeout)
    BY <1>0, <2>1 DEF TouchedAt
  <2> QED BY <1>2, <2>1, TouchEffect
<1>3. CASE LoadSession(w)
  <2>1. rows' = rows \/ rows' = PurgeDue(rows, ctx[w].sid, ctx[w].t)
    BY <1>3 DEF LoadSession
  <2>2. pc[w] = "loadSession"
    BY <1>3 DEF LoadSession
  <2> QED BY <1>0, <2>1, <2>2 DEF PurgeDue, Table
<1>4. CASE InvalidateRemove(w) \/ RotateRemove(w)
  <2>1. \/ rows' = rows
        \/ rows' = Delete(rows, {ctx[w].sid}) /\ Holds(ctx[w].sid, "removed")
    BY <1>4 DEF InvalidateRemove, RotateRemove
  <2> QED BY <1>0, <2>1 DEF Delete, Holds, History
<1>5. CASE RotateStore(w)
  <2>1. PICK new \in Sids \ minted, t \in Readings(w) :
           /\ minted' = minted \cup {new}
           /\ rows' = Store(rows, new, ExpiresAt(t, SessionTimeout), TRUE, FALSE)
           /\ hist' = [hist EXCEPT !.stored = @ \cup {new},
                                   !.begun = IF ctx[w].sid \in @ THEN @ \cup {new} ELSE @]
    BY <1>5 DEF RotateStore
  <2>1a. t \in Nat
    BY ReadingsType
  <2>2. pc[w] = "rotate"
    BY <1>5 DEF RotateStore
  <2>3. /\ new \in minted' \ minted /\ new \in hist'.stored
        /\ ctx[w].sid \in hist.begun => new \in hist'.begun
    BY <2>1 DEF History
  <2>4. CASE new = s
    <3>1. rows'[s].exp = ExpiresAt(t, SessionTimeout)
      BY <1>0, <2>1, <2>4 DEF Store, Table
    <3>2. rows'[s] \in Row
      BY <1>0, <2>1, <2>1a, <2>4, TimeoutAssumption, ExpiresAtType DEF Store, Table, Row
    <3> QED BY <1>5, <2>3, <2>4, <3>1, <3>2, AbsentAssumption
  <2>5. CASE new # s
    BY <1>0, <2>1, <2>5 DEF Store, Table
  <2> QED BY <2>4, <2>5
<1>6. CASE ApplicationStop(w)
  <2>1. \/ rows' = rows
        \/ /\ rows' = Delete(rows, Keys)
           /\ hist' = [hist EXCEPT !.removed = @ \cup {x \in Sids : rows[x] # Absent}]
    BY <1>6 DEF ApplicationStop
  <2> QED BY <1>0, <2>1 DEF Delete, History
<1>7. CASE SaveSession(w)
  <2>1. \/ rows' = rows
        \/ /\ rows' = Store(rows, ctx[w].sid, ExpiresAt(ctx[w].t, SessionTimeout), TRUE, TRUE)
           /\ ctx[w].sessOn /\ hist' = [hist EXCEPT !.stored = @ \cup {ctx[w].sid}]
    BY <1>7 DEF SaveSession, Holds
  <2>2. pc[w] = "saveSession"
    BY <1>7 DEF SaveSession
  <2>3. CASE rows'[s] # rows[s]
    <3>1. rows'[s].exp = ExpiresAt(ctx[w].t, SessionTimeout)
      BY <1>0, <2>1, <2>3 DEF Store, Table
    <3>2. rows'[s] \in Row
      <4>1. rows'[s] = [exp |-> ExpiresAt(ctx[w].t, SessionTimeout),
                        data |-> TRUE, cfc |-> TRUE]
        BY <1>0, <2>1, <2>3 DEF Store, Table
      <4>2. ExpiresAt(ctx[w].t, SessionTimeout) \in Nat
        BY <1>0, ContextUpdates, TimeoutAssumption, ExpiresAtType
      <4> QED BY <4>1, <4>2 DEF Row
    <3>3. Using(w, s) /\ s \in hist'.stored
      BY <1>0, <2>1, <2>3 DEF Store, Table, Using, History
    <3> QED BY <2>2, <3>1, <3>2, <3>3, AbsentAssumption
  <2> QED BY <2>3
<1>8. CASE \/ BeginRequest(w) \/ StartCallbacks(w) \/ InvalidateCallback(w)
           \/ FinishResponse(w) \/ WorkerCrash(w)
  BY <1>8 DEF BeginRequest, StartCallbacks, Callbacks, InvalidateCallback, FinishResponse,
              WorkerCrash
<1> QED BY <1>1, <1>2, <1>3, <1>4, <1>5, <1>6, <1>7, <1>8 DEF WorkerStep

\* What a worker's step records: it claims nothing, forgets nothing, and counts a
\* session as stored only when its row is there.
LEMMA WorkerOnHistory ==
    ASSUME TypeInv, NEW w \in Workers, WorkerStep(w), NEW s \in Sids
    PROVE  /\ batch' = batch
           /\ s \in hist.ended => s \in hist'.ended
           /\ s \in hist.removed => s \in hist'.removed
           /\ s \in hist.begun => s \in hist'.begun
           /\ hist'.skipped = hist.skipped /\ hist'.lost = hist.lost
           /\ s \in hist'.stored => s \in hist.stored \/ rows'[s] # Absent
<1> USE DEF TypeInv, TypeOK
<1>0. s \in Keys /\ hist \in History
  BY DEF Keys
<1>1. CASE RotateStore(w)
  <2>1. PICK new \in Sids \ minted, t \in Readings(w) :
           /\ rows' = Store(rows, new, ExpiresAt(t, SessionTimeout), TRUE, FALSE)
           /\ hist' = [hist EXCEPT !.stored = @ \cup {new},
                                   !.begun = IF ctx[w].sid \in @ THEN @ \cup {new} ELSE @]
    BY <1>1 DEF RotateStore
  <2>2. rows'[new] \in Row
    BY <2>1, ReadingsType, TimeoutAssumption, ExpiresAtType DEF Store, Table, Row, Keys
  <2>3. rows'[new] # Absent
    BY <2>2, AbsentAssumption
  <2> QED BY <1>0, <1>1, <2>1, <2>3 DEF RotateStore, History, reaperVars
<1>2. CASE SaveSession(w)
  <2>1. \/ hist' = hist
        \/ /\ rows' = Store(rows, ctx[w].sid, ExpiresAt(ctx[w].t, SessionTimeout), TRUE, TRUE)
           /\ hist' = [hist EXCEPT !.stored = @ \cup {ctx[w].sid}]
    BY <1>2 DEF SaveSession, Holds
  <2>2. ExpiresAt(ctx[w].t, SessionTimeout) \in Nat
    BY ContextUpdates, TimeoutAssumption, ExpiresAtType
  <2>3. batch' = batch
    BY <1>2 DEF SaveSession, reaperVars
  <2>4. CASE hist' = hist
    BY <2>3, <2>4
  <2>5. CASE /\ rows' = Store(rows, ctx[w].sid, ExpiresAt(ctx[w].t, SessionTimeout), TRUE, TRUE)
             /\ hist' = [hist EXCEPT !.stored = @ \cup {ctx[w].sid}]
    <3>1. s = ctx[w].sid => rows'[s] = [exp |-> ExpiresAt(ctx[w].t, SessionTimeout),
                                        data |-> TRUE, cfc |-> TRUE]
      BY <1>0, <2>5 DEF Store, Table
    <3>2. s = ctx[w].sid => rows'[s] \in Row
      <4>1. [exp |-> ExpiresAt(ctx[w].t, SessionTimeout), data |-> TRUE, cfc |-> TRUE] \in Row
        BY <2>2 DEF Row
      <4> QED BY <3>1, <4>1
    <3>3. s = ctx[w].sid => rows'[s] # Absent
      BY <3>2, AbsentAssumption
    <3> QED BY <1>0, <2>3, <2>5, <3>3 DEF History
  <2> QED BY <2>1, <2>4, <2>5
<1>3. CASE ApplicationStop(w)
  BY <1>0, <1>3 DEF ApplicationStop, History, reaperVars
<1>4. CASE StartCallbacks(w)
  <2>1. hist' = hist \/ hist' = [hist EXCEPT !.begun = @ \cup {ctx[w].sid}]
    BY <1>4 DEF StartCallbacks, Callbacks, Holds
  <2> QED BY <1>0, <1>4, <2>1 DEF StartCallbacks, Callbacks, History, reaperVars
<1>5. CASE InvalidateCallback(w) \/ InvalidateRemove(w) \/ RotateRemove(w)
  <2>1. \/ hist' = hist
        \/ hist' = [hist EXCEPT !.ended = @ \cup {ctx[w].sid}]
        \/ hist' = [hist EXCEPT !.removed = @ \cup {ctx[w].sid}]
    BY <1>5 DEF InvalidateCallback, InvalidateRemove, RotateRemove, Holds
  <2>2. batch' = batch
    BY <1>5 DEF InvalidateCallback, InvalidateRemove, RotateRemove, reaperVars
  <2> QED BY <1>0, <2>1, <2>2 DEF History
<1>6. CASE TouchSession(w) \/ LoadSession(w)
  BY <1>6 DEF TouchSession, LoadSession, Adopt, reaperVars
<1>7. CASE \/ BeginRequest(w) \/ TouchApplication(w) \/ LoadApplication(w)
           \/ TouchLoadedApplication(w) \/ FinishResponse(w) \/ SaveApplication(w)
           \/ WorkerCrash(w)
  BY <1>7 DEF BeginRequest, TouchApplication, LoadApplication, TouchLoadedApplication,
              FinishResponse, SaveApplication, WorkerCrash, reaperVars
<1> QED BY <1>1, <1>2, <1>3, <1>4, <1>5, <1>6, <1>7 DEF WorkerStep

\* A worker's step is none of the reaper's business.
LEMMA WorkerOnReaped ==
    ASSUME TypeInv, NEW w \in Workers, WorkerStep(w)
    PROVE  /\ batch' = batch /\ hist'.reaped = hist.reaped
           /\ hist'.skipped = hist.skipped /\ hist'.lost = hist.lost
<1>1. batch' = batch
  BY WorkerFrame DEF reaperVars
<1>2. hist \in History
  BY DEF TypeInv, TypeOK
<1>3. CASE \/ StartCallbacks(w) \/ InvalidateCallback(w) \/ InvalidateRemove(w)
           \/ RotateRemove(w) \/ SaveSession(w)
  <2>1. hist' = hist \/ \E set \in {"begun", "ended", "removed", "stored"} : Holds(ctx[w].sid, set)
    BY <1>3 DEF StartCallbacks, Callbacks, InvalidateCallback, InvalidateRemove, RotateRemove,
                SaveSession
  <2> QED BY <1>1, <1>2, <2>1 DEF Holds, History
<1>4. CASE RotateStore(w) \/ ApplicationStop(w)
  BY <1>1, <1>2, <1>4 DEF RotateStore, ApplicationStop, History
<1>5. CASE hist' = hist
  BY <1>1, <1>5
<1> QED BY <1>3, <1>4, <1>5
      DEF WorkerStep, BeginRequest, TouchApplication, LoadApplication, TouchLoadedApplication,
          TouchSession, LoadSession, Adopt, FinishResponse, SaveApplication, WorkerCrash

-------------------------------------------------------------------------------
(* A page never runs over an uninitialised application scope.              *)

\* PageHasApplication made inductive: what the worker's copy holds at each step
\* that leads to the page, and what the store has for a worker to load.
ApplicationInv ==
    /\ rows[App] # Absent => rows[App].data
    /\ \A w \in Workers :
          /\ pc[w] \in {"touchSession", "loadSession", "start"} => cached[w] \/ ctx[w].newApp
          /\ pc[w] \in {"touchLoaded", "page", "invalidate", "rotate", "saveApp"} => cached[w]

LEMMA ApplicationWorker ==
    ASSUME "throws" \notin StartOutcomes, TypeInv, ApplicationInv,
           NEW w \in Workers, WorkerStep(w)
    PROVE  ApplicationInv'
<1> USE DEF TypeInv, TypeOK
<1>0. /\ ctx[w] \in Context
      /\ App \in Keys
      /\ rows[App] # Absent => rows[App] \in Row
      /\ minted \subseteq Sids
      /\ App \notin Sids
  BY KeyAssumption DEF Keys, Table
\* The row of the application is the same, is gone, or was stored from a worker's
\* initialised copy.
<1>1. rows'[App] # Absent => rows'[App].data
  <2>1. CASE SaveApplication(w)
    BY <1>0, <2>1 DEF SaveApplication, Store, ApplicationInv, Table
  <2>2. CASE SaveSession(w)
    <3>1. ctx[w].sid \in Sids
      BY <1>0, <2>2 DEF SaveSession, SessionKnown, Settled
    <3> QED BY <1>0, <2>2, <3>1 DEF SaveSession, Store, ApplicationInv, Table
  <2>3. CASE RotateStore(w)
    BY <1>0, <2>3 DEF RotateStore, Store, ApplicationInv, Table
  <2>4. CASE TouchApplication(w) \/ TouchLoadedApplication(w)
    BY <1>0, <2>4 DEF TouchApplication, TouchLoadedApplication, Touch, Live,
                      ApplicationInv, Table, Row
  <2>5. CASE LoadApplication(w)
    BY <1>0, <2>5 DEF LoadApplication, PurgeDue, ApplicationInv, Table
  <2>6. CASE TouchSession(w)
    <3>1. rows'[App] = rows[App]
      BY <1>0, <2>6, TouchEffect DEF TouchedAt
    <3> QED BY <3>1 DEF ApplicationInv
  <2>7. CASE LoadSession(w)
    <3>1. ctx[w].sid \in Sids
      BY <1>0, <2>7 DEF LoadSession, SessionKnown, Settled
    <3> QED BY <1>0, <2>7, <3>1 DEF LoadSession, PurgeDue, ApplicationInv, Table
  <2>8. CASE InvalidateRemove(w) \/ RotateRemove(w) \/ ApplicationStop(w)
    BY <1>0, <2>8 DEF InvalidateRemove, RotateRemove, ApplicationStop, Delete, ApplicationInv
  <2>9. CASE \/ BeginRequest(w) \/ StartCallbacks(w) \/ InvalidateCallback(w)
             \/ FinishResponse(w) \/ WorkerCrash(w)
    BY <2>9 DEF BeginRequest, StartCallbacks, Callbacks, InvalidateCallback, FinishResponse,
                WorkerCrash, ApplicationInv
  <2> QED BY <2>1, <2>2, <2>3, <2>4, <2>5, <2>6, <2>7, <2>8, <2>9 DEF WorkerStep
\* The other workers are not disturbed; each action of w keeps w's part.
<1>2. \A v \in Workers \ {w} : pc'[v] = pc[v] /\ ctx'[v] = ctx[v] /\ cached'[v] = cached[v]
  BY WorkerFrame
<1>3. /\ pc'[w] \in {"touchSession", "loadSession", "start"} => cached'[w] \/ ctx'[w].newApp
      /\ pc'[w] \in {"touchLoaded", "page", "invalidate", "rotate", "saveApp"} => cached'[w]
  <2>1. CASE TouchApplication(w) \/ TouchLoadedApplication(w)
    <3>1. ctx'[w].newApp = ctx[w].newApp
      BY <2>1, ReadEffect DEF TouchApplication, TouchLoadedApplication, ReadsFrom
    <3> QED BY <1>0, <2>1, <3>1
        DEF TouchApplication, TouchLoadedApplication, Goto, Live, ApplicationInv
  <2>1a. CASE LoadApplication(w)
    <3>1. CASE Live(rows[App], ctx[w].t)
      BY <2>1a, <3>1 DEF LoadApplication, Goto, Live, ApplicationInv
    <3>2. CASE ~Live(rows[App], ctx[w].t)
      <4>1. ctx'[w] = [ctx[w] EXCEPT !.newApp = TRUE, !.t = now] /\ pc'[w] = "touchSession"
        BY <2>1a, <3>2 DEF LoadApplication, Goto
      <4> QED BY <1>0, <4>1 DEF Context
    <3> QED BY <3>1, <3>2
  <2>2. CASE TouchSession(w) \/ LoadSession(w)
    <3>1. ctx'[w].newApp = ctx[w].newApp
      <4>1. CASE MintSession(w)
        BY <1>0, <4>1 DEF MintSession, Mint, Context
      <4>2. ASSUME NEW t \in Readings(w), TouchedAt(w, t)
            PROVE  ctx'[w].newApp = ctx[w].newApp
        BY <4>2, ReadingsType, ReadEffect DEF TouchedAt
      <4>3. CASE ctx' = [ctx EXCEPT ![w] = [@ EXCEPT !.t = ctx[w].begin,
                                                     !.appOn = TRUE, !.sessOn = TRUE]]
        BY <1>0, <4>3 DEF Context
      <4>4. CASE LoadSession(w)
        BY <4>1, <4>3, <4>4 DEF LoadSession
      <4> QED BY <2>2, <4>1, <4>2, <4>4, TouchEffect
    <3>2. cached' = cached /\ pc'[w] \in {"loadSession", "start"}
      BY <2>2 DEF TouchSession, LoadSession, Adopt, MintSession, Mint, Goto
    <3>3. pc[w] \in {"touchSession", "loadSession"}
      BY <2>2 DEF TouchSession, LoadSession, Adopt
    <3> QED BY <3>1, <3>2, <3>3 DEF ApplicationInv
  <2>3. CASE StartCallbacks(w)
    <3>1. PICK outcome \in StartOutcomes :
             /\ cached' = [cached EXCEPT ![w] =
                             @ \/ ((~started[w] \/ ctx[w].newApp) /\ outcome # "throws")]
             /\ pc'[w] = IF (~started[w] \/ ctx[w].newApp) /\ outcome # "ok"
                         THEN "saveApp" ELSE "page"
      BY <2>3 DEF StartCallbacks, Callbacks, Goto
    <3>2. outcome # "throws"
      BY <3>1
    <3>3. cached'[w]
      BY <2>3, <3>1, <3>2 DEF ApplicationInv, StartCallbacks, Callbacks
    <3> QED BY <3>3
  <2>4. CASE \/ InvalidateCallback(w) \/ InvalidateRemove(w) \/ RotateRemove(w)
             \/ RotateStore(w) \/ ApplicationStop(w) \/ FinishResponse(w)
    BY <2>4 DEF InvalidateCallback, InvalidateRemove, RotateRemove, RotateStore,
                ApplicationStop, FinishResponse, Goto, ApplicationInv
  <2>5. CASE BeginRequest(w) \/ SaveApplication(w) \/ SaveSession(w) \/ WorkerCrash(w)
    BY <2>5 DEF BeginRequest, SaveApplication, SaveSession, WorkerCrash, Goto
  <2> QED BY <2>1, <2>2, <2>3, <2>4, <2>5, <2>1a DEF WorkerStep
<1> QED BY <1>1, <1>2, <1>3 DEF ApplicationInv

LEMMA ApplicationStep ==
    ASSUME "throws" \notin StartOutcomes
    PROVE  TypeInv /\ ApplicationInv /\ [Next]_vars => ApplicationInv'
<1> SUFFICES ASSUME TypeInv, ApplicationInv, [Next]_vars
             PROVE  ApplicationInv'
  OBVIOUS
<1>1. CASE ReaperStep
  <2>1. rows'[App] = Absent \/ rows'[App] = rows[App]
    BY <1>1 DEF ReaperStep, ClaimExpired, Claims, Delete, EndSession, EndApplication, ReaperCrash,
                ReaperRestart, Keys
  <2>2. UNCHANGED workerVars
    BY <1>1 DEF ReaperStep, ClaimExpired, Claims, EndSession, EndApplication, ReaperCrash,
                ReaperRestart
  <2> QED BY <2>1, <2>2 DEF ApplicationInv, workerVars
<1>2. CASE Tick \/ UNCHANGED vars
  BY <1>2 DEF Tick, vars, ApplicationInv, workerVars
<1> QED BY <1>1, <1>2, ApplicationWorker DEF Next

\* As long as onApplicationStart does not throw, a page always runs over an
\* application scope that it has initialised, in this worker or in the one whose
\* row was loaded (run_application_cfc, cf_application_enable).
THEOREM PageInitialised ==
    ASSUME "throws" \notin StartOutcomes
    PROVE  Spec => []PageHasApplication
<1>1. Init => ApplicationInv
  BY DEF Init, ApplicationInv, Keys
<1>2. ApplicationInv => PageHasApplication
  BY DEF ApplicationInv, PageHasApplication
<1>3. TypeInv /\ ApplicationInv /\ [Next]_vars => ApplicationInv'
  BY ApplicationStep
<1> QED BY <1>1, <1>2, <1>3, TypeInit, TypeStep, PTL DEF Spec

-------------------------------------------------------------------------------
(* onSessionStart has run for every session in the store.                  *)

\* StoredWasBegun made inductive: a request that has passed its callbacks works in a
\* session that was begun, and one before them in such a session or in a new one.
BegunInv ==
    /\ StoredWasBegun
    /\ \A w \in Workers :
          /\ pc[w] \in {"page", "invalidate", "rotate", "saveApp", "saveSession"}
               => ctx[w].sid \in hist.begun
          /\ pc[w] = "start" => ctx[w].newSess \/ ctx[w].sid \in hist.begun

LEMMA BegunWorker ==
    ASSUME StartOutcomes \subseteq {"ok"}, TypeInv, BegunInv, NEW w \in Workers, WorkerStep(w)
    PROVE  BegunInv'
<1> USE DEF TypeInv, TypeOK
<1>0. /\ ctx[w] \in Context /\ hist \in History
      /\ \A v \in Workers : pc[v] \in Settled => ctx[v].sid \in Sids
  BY DEF SessionKnown
<1>1. \A s \in Sids : s \in hist.begun => s \in hist'.begun
  BY WorkerOnHistory
<1>2. ASSUME NEW s \in Sids, rows'[s] # Absent
      PROVE  s \in hist'.begun
  <2>1. CASE rows[s] # Absent
    BY <1>1, <2>1 DEF BegunInv, StoredWasBegun
  <2>2. CASE rows[s] = Absent
    <3>1. \/ RotateStore(w) /\ (ctx[w].sid \in hist.begun => s \in hist'.begun)
          \/ pc[w] = "saveSession" /\ Using(w, s)
      BY <1>2, <2>2, WorkerOnRow DEF Live
    <3>2. CASE RotateStore(w) /\ (ctx[w].sid \in hist.begun => s \in hist'.begun)
      BY <3>2 DEF RotateStore, BegunInv
    <3>3. CASE pc[w] = "saveSession" /\ Using(w, s)
      BY <1>1, <3>3 DEF Using, BegunInv
    <3> QED BY <3>1, <3>2, <3>3
  <2> QED BY <2>1, <2>2
<1>3. ASSUME NEW v \in Workers \ {w}
      PROVE  /\ pc'[v] \in {"page", "invalidate", "rotate", "saveApp", "saveSession"}
                  => ctx'[v].sid \in hist'.begun
             /\ pc'[v] = "start" => ctx'[v].newSess \/ ctx'[v].sid \in hist'.begun
  BY <1>0, <1>1, <1>3, WorkerFrame DEF BegunInv, Settled
<1>4. /\ pc'[w] \in {"page", "invalidate", "rotate", "saveApp", "saveSession"}
           => ctx'[w].sid \in hist'.begun
      /\ pc'[w] = "start" => ctx'[w].newSess \/ ctx'[w].sid \in hist'.begun
  <2>1. CASE StartCallbacks(w)
    <3>1. PICK outcome \in StartOutcomes :
             /\ pc'[w] = IF (~started[w] \/ ctx[w].newApp) /\ outcome # "ok"
                         THEN "saveApp" ELSE "page"
             /\ IF ctx[w].newSess /\ ~((~started[w] \/ ctx[w].newApp) /\ outcome # "ok")
                THEN Holds(ctx[w].sid, "begun") ELSE UNCHANGED hist
      BY <2>1 DEF StartCallbacks, Callbacks, Goto
    <3>2. outcome = "ok"
      BY <3>1
    <3>3. pc'[w] = "page" /\ pc[w] = "start" /\ ctx'[w].sid = ctx[w].sid
      <4>1. ctx' = ctx \/ ReadsFrom(w)
        BY <2>1 DEF StartCallbacks, Callbacks
      <4> QED BY <2>1, <3>1, <3>2, <4>1, ReadEffect DEF StartCallbacks, Callbacks, ReadsFrom
    <3>4. CASE ctx[w].newSess
      <4>1. hist' = [hist EXCEPT !.begun = @ \cup {ctx[w].sid}]
        BY <3>1, <3>2, <3>4 DEF Holds
      <4>2. ctx[w].sid \in hist'.begun
        BY <1>0, <4>1 DEF History
      <4> QED BY <3>3, <4>2
    <3>5. CASE ~ctx[w].newSess
      BY <3>1, <3>3, <3>5 DEF BegunInv
    <3> QED BY <3>4, <3>5
  <2>2. CASE TouchSession(w) \/ LoadSession(w)
    <3>1. CASE MintSession(w)
      BY <1>0, <3>1 DEF MintSession, Mint, Goto, Context
    <3>2. CASE ~MintSession(w) /\ TouchSession(w)
      <4>1. pc'[w] = "loadSession"
        BY <3>2, TouchEffect DEF TouchedAt
      <4> QED BY <4>1
    <3>3. CASE ~MintSession(w) /\ LoadSession(w)
      <4>1. /\ pc[w] = "loadSession" /\ pc'[w] = "start" /\ rows[ctx[w].sid] # Absent
            /\ ctx' = [ctx EXCEPT ![w] = [@ EXCEPT !.t = ctx[w].begin,
                                                   !.appOn = TRUE, !.sessOn = TRUE]]
        BY <3>3 DEF LoadSession, Goto, Live
      <4>2. ctx[w].sid \in Sids /\ ctx'[w].sid = ctx[w].sid
        BY <1>0, <4>1 DEF Settled, Context
      <4> QED BY <1>1, <4>1, <4>2 DEF BegunInv, StoredWasBegun
    <3> QED BY <2>2, <3>1, <3>2, <3>3
  <2>3. CASE RotateStore(w)
    <3>1. PICK s \in Sids \ minted :
             /\ ctx' = [ctx EXCEPT ![w] = [@ EXCEPT !.sid = s, !.newSess = TRUE]]
             /\ hist' = [hist EXCEPT !.stored = @ \cup {s},
                                     !.begun = IF ctx[w].sid \in @ THEN @ \cup {s} ELSE @]
      BY <2>3 DEF RotateStore
    <3>2. pc[w] = "rotate" /\ ctx[w].sid \in hist.begun
      BY <2>3 DEF RotateStore, BegunInv
    <3>3. ctx'[w].sid = s /\ s \in hist'.begun
      BY <1>0, <3>1, <3>2 DEF Context, History
    <3> QED BY <2>3, <3>3 DEF RotateStore, Goto
  <2>4. CASE \/ InvalidateCallback(w) \/ InvalidateRemove(w) \/ RotateRemove(w)
             \/ ApplicationStop(w) \/ FinishResponse(w) \/ SaveApplication(w)
    <3>1. ctx'[w].sid = ctx[w].sid
      <4>1. CASE InvalidateRemove(w)
        BY <1>0, <4>1 DEF InvalidateRemove, Context
      <4>2. CASE ApplicationStop(w)
        BY <1>0, <4>2 DEF ApplicationStop, Context
      <4>3. CASE SaveApplication(w)
        BY <4>3, ReadingsType, ReadEffect DEF SaveApplication
      <4>4. CASE InvalidateCallback(w) \/ RotateRemove(w) \/ FinishResponse(w)
        BY <4>4, ReadEffect DEF InvalidateCallback, RotateRemove, FinishResponse, ReadsFrom
      <4> QED BY <2>4, <4>1, <4>2, <4>3, <4>4
    <3>2. /\ pc[w] \in {"page", "invalidate", "rotate", "saveApp", "saveSession"}
          /\ pc'[w] # "start"
      BY <2>4 DEF InvalidateCallback, InvalidateRemove, RotateRemove, ApplicationStop,
                  FinishResponse, SaveApplication, Goto
    <3> QED BY <1>0, <1>1, <3>1, <3>2 DEF BegunInv, Settled
  <2>5. CASE \/ BeginRequest(w) \/ TouchApplication(w) \/ LoadApplication(w)
             \/ TouchLoadedApplication(w) \/ SaveSession(w) \/ WorkerCrash(w)
    BY <2>5 DEF BeginRequest, TouchApplication, LoadApplication, TouchLoadedApplication,
                SaveSession, WorkerCrash, Goto
  <2> QED BY <2>1, <2>2, <2>3, <2>4, <2>5 DEF WorkerStep
<1> QED BY <1>2, <1>3, <1>4 DEF BegunInv, StoredWasBegun

LEMMA BegunStep ==
    ASSUME StartOutcomes \subseteq {"ok"}
    PROVE  TypeInv /\ BegunInv /\ [Next]_vars => BegunInv'
<1> SUFFICES ASSUME TypeInv, BegunInv, [Next]_vars
             PROVE  BegunInv'
  OBVIOUS
<1>1. CASE ReaperStep
  <2>1. \A s \in Sids : rows'[s] = Absent \/ rows'[s] = rows[s]
    BY <1>1 DEF ReaperStep, ClaimExpired, Claims, Delete, EndSession, EndApplication, ReaperCrash,
                ReaperRestart, Keys
  <2>2. pc' = pc /\ ctx' = ctx
    BY <1>1 DEF ReaperStep, ClaimExpired, Claims, EndSession, EndApplication, ReaperCrash,
                ReaperRestart, workerVars
  <2>3. hist'.begun = hist.begun
    BY <1>1 DEF ReaperStep, ClaimExpired, Claims, EndSession, EndApplication, ReaperCrash,
                ReaperRestart, Holds, TypeInv, TypeOK, History
  <2> QED BY <2>1, <2>2, <2>3 DEF BegunInv, StoredWasBegun
<1>2. CASE Tick \/ UNCHANGED vars
  BY <1>2 DEF Tick, vars, BegunInv, StoredWasBegun, workerVars
<1> QED BY <1>1, <1>2, BegunWorker DEF Next

\* As long as onApplicationStart lets every request go on, onSessionStart has run for
\* every session that scope_end or SessionRotate has put in the store, or for the one it
\* was rotated from, whichever worker minted it and whichever stored it.
THEOREM StoredSessionsBegun ==
    ASSUME StartOutcomes \subseteq {"ok"}
    PROVE  Spec => []StoredWasBegun
<1>1. Init => BegunInv
  BY DEF Init, BegunInv, StoredWasBegun, Keys
<1>2. BegunInv => StoredWasBegun
  BY DEF BegunInv
<1>3. TypeInv /\ BegunInv /\ [Next]_vars => BegunInv'
  BY BegunStep
<1> QED BY <1>1, <1>2, <1>3, TypeInit, TypeStep, PTL DEF Spec

-------------------------------------------------------------------------------
(***************************************************************************)
(* No session is lost silently.  loadSession deletes an expired row without *)
(* calling onSessionEnd; the theorem below says it never gets to, provided *)
(* a request is shorter than the session timeout.  The argument: a worker  *)
(* at loadSession has just touched the row, so the row is live at the      *)
(* clock reading the worker holds; another worker can only replace it by a *)
(* row that lives one timeout from a reading at most one request old.      *)
(***************************************************************************)

RequestsShorterThanTimeout ==
    SessionTimeout = 0 \/ SessionTimeout \div 1000 > MaxRequestTime

\* Live at t as the purge of loadSession sees it: there is nothing to purge.
NotDue(row, t) == row = Absent \/ row.exp = 0 \/ row.exp > t

\* The clock readings of a request in flight are recent.
ReadingsRecent ==
    \A w \in Workers : Busy(w) => /\ ctx[w].begin <= ctx[w].t
                                  /\ ctx[w].t <= now
                                  /\ now <= ctx[w].begin + MaxRequestTime

\* A worker about to load a session has nothing to purge.
LoadableSession ==
    \A w \in Workers : pc[w] = "loadSession" => NotDue(rows[ctx[w].sid], ctx[w].t)

LEMMA ExpiryBeyondRequest ==
    ASSUME RequestsShorterThanTimeout, SessionTimeout \in Nat, NEW t \in Nat
    PROVE  ExpiresAt(t, SessionTimeout) = 0
             \/ ExpiresAt(t, SessionTimeout) > t + MaxRequestTime
<1>1. SessionTimeout \div 1000 \in Nat
  OBVIOUS
<1>2. CASE SessionTimeout = 0
  BY <1>2 DEF ExpiresAt
<1>3. CASE SessionTimeout \div 1000 > MaxRequestTime
  BY <1>1, <1>3, BoundAssumption DEF ExpiresAt
<1> QED BY <1>2, <1>3 DEF RequestsShorterThanTimeout

-------------------------------------------------------------------------------
(* The inductive invariant, part by part.                                  *)

\* The part of the clock: a worker's step reads it afresh or keeps its reading.
LEMMA ReadingsWorker ==
    ASSUME TypeInv, ReadingsRecent, NEW w \in Workers, WorkerStep(w)
    PROVE  ReadingsRecent'
<1> USE BoundAssumption DEF TypeInv, TypeOK
<1>1. now' = now
  BY WorkerFrame
<1>2. \A v \in Workers \ {w} : pc'[v] = pc[v] /\ ctx'[v] = ctx[v]
  BY WorkerFrame
<1>3. ctx[w] \in Context
  OBVIOUS
<1>4. Busy(w)' => /\ ctx'[w].begin <= ctx'[w].t
                  /\ ctx'[w].t <= now
                  /\ now <= ctx'[w].begin + MaxRequestTime
  <2>1. CASE BeginRequest(w)
    BY <2>1 DEF BeginRequest, EmptyContext
  <2>2. CASE SaveSession(w) \/ WorkerCrash(w)
    BY <2>2 DEF SaveSession, WorkerCrash, Goto, Busy
  <2>3. ASSUME Busy(w), NEW t \in Readings(w), ctx' = [ctx EXCEPT ![w].t = t]
        PROVE  /\ ctx'[w].begin <= ctx'[w].t
               /\ ctx'[w].t <= now
               /\ now <= ctx'[w].begin + MaxRequestTime
    <3>1. t \in Nat /\ ctx[w].t <= t /\ t <= now
      BY ReadingsType
    <3>2. ctx'[w].begin = ctx[w].begin /\ ctx'[w].t = t
      BY <2>3, <3>1, ReadEffect
    <3>3. /\ ctx[w].begin <= ctx[w].t
          /\ now <= ctx[w].begin + MaxRequestTime
      BY <2>3 DEF ReadingsRecent
    <3> QED BY <1>3, <3>1, <3>2, <3>3 DEF Context
  <2>4. ASSUME Busy(w), ctx'[w].begin = ctx[w].begin,
               ctx'[w].t \in {ctx[w].t, ctx[w].begin, now}
        PROVE  /\ ctx'[w].begin <= ctx'[w].t
               /\ ctx'[w].t <= now
               /\ now <= ctx'[w].begin + MaxRequestTime
    <3>1. /\ ctx[w].begin <= ctx[w].t /\ ctx[w].t <= now
          /\ now <= ctx[w].begin + MaxRequestTime
      BY <2>4 DEF ReadingsRecent
    <3> QED BY <1>3, <2>4, <3>1 DEF Context
  <2>5. CASE TouchApplication(w) \/ TouchLoadedApplication(w) \/ StartCallbacks(w)
             \/ InvalidateCallback(w) \/ RotateRemove(w) \/ FinishResponse(w)
    <3>1. Busy(w) /\ (ctx' = ctx \/ ReadsFrom(w))
      BY <2>5 DEF TouchApplication, TouchLoadedApplication, StartCallbacks, Callbacks,
                  InvalidateCallback, RotateRemove, FinishResponse, Busy
    <3>2. ctx'[w].begin = ctx[w].begin /\ ctx'[w].t \in {ctx[w].t, now}
      BY <3>1, ReadEffect DEF ReadsFrom
    <3> QED BY <2>4, <3>1, <3>2
  <2>6. CASE MintSession(w) /\ Busy(w)
    <3>1. ctx'[w].begin = ctx[w].begin /\ ctx'[w].t = ctx[w].begin
      BY <1>3, <2>6 DEF MintSession, Mint, Context
    <3> QED BY <2>4, <2>6, <3>1
  <2>7. CASE TouchSession(w) \/ SaveApplication(w)
    <3>1. Busy(w)
      BY <2>7 DEF TouchSession, Adopt, SaveApplication, Busy
    <3> QED BY <2>3, <2>6, <2>7, <3>1, TouchEffect DEF TouchedAt, SaveApplication
  <2>8. CASE \/ LoadApplication(w) \/ LoadSession(w) \/ InvalidateRemove(w)
             \/ RotateStore(w) \/ ApplicationStop(w)
    <3>1. Busy(w)
      BY <2>8 DEF LoadApplication, LoadSession, InvalidateRemove, RotateStore,
                  ApplicationStop, Busy
    <3>2. ctx'[w].begin = ctx[w].begin /\ ctx'[w].t \in {ctx[w].t, ctx[w].begin, now}
      <4>1. CASE LoadApplication(w)
        <5>1. ctx'[w] \in {ctx[w], [ctx[w] EXCEPT !.newApp = TRUE, !.t = now]}
          BY <4>1 DEF LoadApplication
        <5> QED BY <1>3, <5>1 DEF Context
      <4>2. CASE LoadSession(w)
        <5>1. CASE MintSession(w)
          BY <1>3, <5>1 DEF MintSession, Mint, Context
        <5>2. CASE ctx' = [ctx EXCEPT ![w] = [@ EXCEPT !.t = ctx[w].begin,
                                                       !.appOn = TRUE, !.sessOn = TRUE]]
          BY <1>3, <5>2 DEF Context
        <5> QED BY <4>2, <5>1, <5>2 DEF LoadSession
      <4>3. CASE InvalidateRemove(w)
        BY <1>3, <4>3 DEF InvalidateRemove, Context
      <4>4. CASE RotateStore(w)
        BY <1>3, <4>4 DEF RotateStore, Context
      <4>5. CASE ApplicationStop(w)
        BY <1>3, <4>5 DEF ApplicationStop, Context
      <4> QED BY <2>8, <4>1, <4>2, <4>3, <4>4, <4>5
    <3> QED BY <2>4, <3>1, <3>2
  <2> QED BY <2>1, <2>2, <2>5, <2>7, <2>8 DEF WorkerStep
<1> QED BY <1>1, <1>2, <1>4 DEF ReadingsRecent, Busy

\* What a request reads of the clock is at most as old as the request.
LEMMA ReadingIsRecent ==
    ASSUME TypeInv, ReadingsRecent, NEW w \in Workers, Busy(w), NEW t \in Readings(w)
    PROVE  /\ t \in Nat /\ now \in Nat /\ ctx[w].begin \in Nat /\ MaxRequestTime \in Nat
           /\ ctx[w].begin <= t /\ t <= now /\ now <= t + MaxRequestTime
<1>1. t \in Nat /\ ctx[w].t <= t /\ t <= now
  BY ReadingsType DEF TypeInv
<1>2. /\ ctx[w].begin <= ctx[w].t
      /\ now <= ctx[w].begin + MaxRequestTime
  BY DEF ReadingsRecent
<1>3. /\ now \in Nat /\ ctx[w].begin \in Nat /\ ctx[w].t \in Nat /\ MaxRequestTime \in Nat
  BY BoundAssumption DEF TypeInv, TypeOK, Context
<1> QED BY <1>1, <1>2, <1>3

\* The part of the row about to be loaded: the other workers keep it live.
LEMMA LoadableWorker ==
    ASSUME RequestsShorterThanTimeout, TypeInv, ReadingsRecent, LoadableSession,
           NEW w \in Workers, WorkerStep(w), ReadingsRecent'
    PROVE  LoadableSession'
<1> SUFFICES ASSUME NEW v \in Workers, pc'[v] = "loadSession"
             PROVE  NotDue(rows'[ctx'[v].sid], ctx'[v].t)
  BY DEF LoadableSession
<1> USE DEF TypeInv, TypeOK
<1>0. /\ ctx[v] \in Context /\ ctx[w] \in Context /\ now \in Nat
      /\ MaxRequestTime \in Nat /\ SessionTimeout \in Nat
      /\ minted \subseteq Sids
  BY BoundAssumption, TimeoutAssumption
<1>00. ASSUME Busy(w), NEW t \in Readings(w)
       PROVE  /\ t \in Nat /\ now <= t + MaxRequestTime
              /\ ExpiresAt(t, SessionTimeout) \in Nat
              /\ \/ ExpiresAt(t, SessionTimeout) = 0
                 \/ ExpiresAt(t, SessionTimeout) > t + MaxRequestTime
  BY <1>0, <1>00, ReadingIsRecent, ExpiresAtType, ExpiryBeyondRequest
<1>1. CASE v # w
  <2>1. pc[v] = "loadSession" /\ ctx'[v] = ctx[v]
    BY <1>1 DEF WorkerStep, BeginRequest, TouchApplication, LoadApplication,
              TouchLoadedApplication, TouchSession, LoadSession, Adopt, MintSession, Mint,
              StartCallbacks, Callbacks, InvalidateCallback, InvalidateRemove, RotateRemove,
              RotateStore, ApplicationStop, FinishResponse, SaveApplication, SaveSession,
              WorkerCrash, Goto, ReadsFrom
  <2>2. ctx[v].sid \in minted /\ ctx[v].sid \in Sids
    BY <1>0, <2>1 DEF SessionKnown, Settled
  <2>3. NotDue(rows[ctx[v].sid], ctx[v].t)
    BY <2>1 DEF LoadableSession
  <2>4. ctx[v].t <= now /\ ctx[v].t \in Nat
    BY <1>0, <2>1 DEF ReadingsRecent, Busy, Context
  <2>9. ctx'[v].sid = ctx[v].sid /\ ctx'[v].t = ctx[v].t
    BY <2>1
  <2>5. ASSUME Busy(w), NEW t \in Readings(w),
               rows'[ctx[v].sid].exp = ExpiresAt(t, SessionTimeout)
        PROVE  NotDue(rows'[ctx[v].sid], ctx[v].t)
    BY <1>0, <1>00, <2>4, <2>5 DEF NotDue
  <2>6. CASE /\ pc[w] = "saveSession"
             /\ rows'[ctx[v].sid].exp = ExpiresAt(ctx[w].t, SessionTimeout)
    <3>1. ctx[w].t \in Nat /\ now <= ctx[w].t + MaxRequestTime
      BY <1>0, <2>6 DEF ReadingsRecent, Busy, Context
    <3>2. \/ ExpiresAt(ctx[w].t, SessionTimeout) = 0
          \/ ExpiresAt(ctx[w].t, SessionTimeout) > ctx[w].t + MaxRequestTime
      BY <1>0, <3>1, ExpiryBeyondRequest
    <3>3. ExpiresAt(ctx[w].t, SessionTimeout) \in Nat
      BY <1>0, <3>1, ExpiresAtType
    <3> QED BY <1>0, <2>4, <2>6, <2>9, <3>1, <3>2, <3>3 DEF NotDue
  <2>7. pc[w] = "touchSession" \/ RotateStore(w) => Busy(w)
    BY DEF RotateStore, Busy
  <2>8. NotDue(rows'[ctx[v].sid], ctx[v].t)
    BY <2>2, <2>3, <2>5, <2>6, <2>7, <2>9, WorkerOnRow DEF NotDue
  <2> QED BY <2>8, <2>9
<1>2. CASE v = w
  <2>1. TouchSession(w)
    BY <1>2 DEF WorkerStep, BeginRequest, TouchApplication, LoadApplication,
              TouchLoadedApplication, LoadSession, MintSession, Mint,
              StartCallbacks, Callbacks, InvalidateCallback, InvalidateRemove, RotateRemove,
              RotateStore, ApplicationStop, FinishResponse, SaveApplication, SaveSession,
              WorkerCrash, Goto
  <2>2. PICK t \in Readings(w) : TouchedAt(w, t)
    <3>1. ~MintSession(w)
      BY <1>2 DEF MintSession, Mint, Goto
    <3> QED BY <2>1, <3>1, TouchEffect
  <2>3. Busy(w)
    BY <2>2 DEF TouchedAt, Busy
  <2>4. ctx'[w].sid = ctx[w].sid /\ ctx'[w].t = t
    BY <1>00, <2>2, <2>3, ReadEffect DEF TouchedAt
  <2>5. rows'[ctx[w].sid].exp = ExpiresAt(t, SessionTimeout)
    BY <2>2 DEF TouchedAt
  <2> QED BY <1>0, <1>00, <1>2, <2>3, <2>4, <2>5 DEF NotDue
<1> QED BY <1>1, <1>2

\* No worker's step loses a session.
LEMMA AccountedWorker ==
    ASSUME TypeInv, LoadableSession, SessionsAccountedFor, NEW w \in Workers, WorkerStep(w)
    PROVE  SessionsAccountedFor'
<1> SUFFICES ASSUME NEW s \in Sids, s \in hist'.stored, rows'[s] = Absent,
                    ~ \E r \in batch' : r.key = s
             PROVE  s \in hist'.ended \cup hist'.removed \cup hist'.skipped \cup hist'.lost
  <2>1. hist'.stored \subseteq Sids
    BY TypeWorker DEF TypeInv, TypeOK, History
  <2> QED BY <2>1 DEF SessionsAccountedFor
<1>1. s \in hist.stored
  BY WorkerOnHistory
<1>2. CASE rows[s] = Absent
  BY <1>1, <1>2, WorkerOnHistory DEF SessionsAccountedFor
<1>3. CASE rows[s] # Absent
  <2>1. ~(pc[w] = "loadSession" /\ ctx[w].sid = s /\ Due(rows[s], ctx[w].t))
    <3>1. rows[s] \in Row /\ ctx[w].t \in Nat
      BY <1>3 DEF TypeInv, TypeOK, Table, Keys, Context
    <3> QED BY <3>1 DEF LoadableSession, NotDue, Due, Row
  <2> QED BY <1>3, <2>1, WorkerOnRow
<1> QED BY <1>2, <1>3

\* Nor does a step of the reaper: what it claims it calls back, or dies with.
LEMMA AccountedReaper ==
    ASSUME TypeInv, SessionsAccountedFor, ReaperStep
    PROVE  SessionsAccountedFor'
<1> USE DEF TypeInv, TypeOK
<1>0. hist \in History
  OBVIOUS
<1>1. CASE ClaimExpired
  <2> SUFFICES ASSUME NEW s \in hist'.stored
               PROVE  \/ rows'[s] # Absent
                      \/ \E r \in batch' : r.key = s
                      \/ s \in hist'.ended \cup hist'.removed \cup hist'.skipped \cup hist'.lost
    BY DEF SessionsAccountedFor
  <2>1. /\ hist'.stored = hist.stored /\ hist'.ended = hist.ended /\ hist'.lost = hist.lost
        /\ hist'.removed = hist.removed /\ hist'.skipped = hist.skipped
    BY <1>0, <1>1 DEF ClaimExpired, Claims, History
  <2>2. s \in Keys
    BY <1>0, <2>1 DEF History, Keys
  <2>3. CASE s \in DueKeys(rows, now)
    <3>1. [key |-> s, cfc |-> rows[s].cfc] \in batch'
      BY <1>1, <2>3 DEF ClaimExpired, Claims
    <3> QED BY <3>1
  <2>4. CASE s \notin DueKeys(rows, now)
    <3>1. rows'[s] = rows[s]
      BY <1>1, <2>2, <2>4 DEF ClaimExpired, Claims, Delete
    <3>2. batch = {}
      BY <1>1 DEF ClaimExpired, Claims
    <3> QED BY <2>1, <3>1, <3>2 DEF SessionsAccountedFor
  <2> QED BY <2>3, <2>4
<1>2. ASSUME NEW r \in batch, EndSession(r)
      PROVE  SessionsAccountedFor'
  <2>1. \/ hist' = [hist EXCEPT !.ended = @ \cup {r.key}]
        \/ hist' = [hist EXCEPT !.skipped = @ \cup {r.key}]
    BY <1>2 DEF EndSession, Holds
  <2>2. rows' = rows /\ batch' = batch \ {r}
    BY <1>2 DEF EndSession
  <2> QED BY <1>0, <2>1, <2>2 DEF SessionsAccountedFor, History
<1>3. ASSUME NEW r \in batch, EndApplication(r)
      PROVE  SessionsAccountedFor'
  <2>1. batch = {r} /\ r.key = App /\ rows' = rows /\ hist' = hist
    BY <1>3 DEF EndApplication
  <2>2. \A s \in hist.stored : s # App
    BY <1>0, KeyAssumption DEF History
  <2> QED BY <2>1, <2>2 DEF SessionsAccountedFor
<1>4. CASE ReaperCrash
  <2>1. /\ rows' = rows
        /\ hist' = [hist EXCEPT !.lost = @ \cup ({r.key : r \in batch} \ {App})]
    BY <1>4 DEF ReaperCrash
  <2>2. \A s \in hist.stored : s # App
    BY <1>0, KeyAssumption DEF History
  <2> QED BY <1>0, <2>1, <2>2 DEF SessionsAccountedFor, History
<1>5. CASE ReaperRestart
  BY <1>5 DEF ReaperRestart, SessionsAccountedFor
<1> QED BY <1>1, <1>2, <1>3, <1>4, <1>5 DEF ReaperStep

ExpiryInv == TypeInv /\ ReadingsRecent /\ LoadableSession /\ SessionsAccountedFor

LEMMA ExpiryStep ==
    ASSUME RequestsShorterThanTimeout
    PROVE  ExpiryInv /\ [Next]_vars => ExpiryInv'
<1> SUFFICES ASSUME ExpiryInv, [Next]_vars
             PROVE  ExpiryInv'
  OBVIOUS
<1>0. TypeInv /\ TypeInv'
  BY TypeStep DEF ExpiryInv
<1>1. CASE \E w \in Workers : WorkerStep(w)
  BY <1>0, <1>1, ReadingsWorker, LoadableWorker, AccountedWorker DEF ExpiryInv
<1>2. CASE ReaperStep
  <2>1. pc' = pc /\ ctx' = ctx /\ now' = now
    BY <1>2 DEF ReaperStep, ClaimExpired, Claims, EndSession, EndApplication, ReaperCrash,
                ReaperRestart, workerVars
  <2>2. ReadingsRecent'
    BY <2>1 DEF ExpiryInv, ReadingsRecent, Busy
  <2>3. \A s \in Sids : rows'[s] = rows[s] \/ rows'[s] = Absent
    BY <1>2 DEF ReaperStep, ClaimExpired, Claims, Delete, EndSession, EndApplication, ReaperCrash,
                ReaperRestart, Keys
  <2>4. LoadableSession'
    <3>1. \A w \in Workers : pc[w] = "loadSession" => ctx[w].sid \in Sids
      BY <1>0 DEF TypeInv, TypeOK, SessionKnown, Settled
    <3> QED BY <2>1, <2>3, <3>1 DEF ExpiryInv, LoadableSession, NotDue
  <2> QED BY <1>0, <1>2, <2>2, <2>4, AccountedReaper DEF ExpiryInv
<1>3. CASE Tick
  <2>1. /\ pc' = pc /\ ctx' = ctx /\ rows' = rows /\ hist' = hist /\ batch' = batch
        /\ now' = now + 1
        /\ \A w \in Workers : Busy(w) => now < ctx[w].begin + MaxRequestTime
    BY <1>3 DEF Tick, workerVars, reaperVars
  <2>2. \A w \in Workers : ctx[w] \in Context
    BY <1>0 DEF TypeInv, TypeOK
  <2>3. ReadingsRecent'
    BY <1>0, <2>1, <2>2, BoundAssumption
    DEF ExpiryInv, ReadingsRecent, Busy, TypeInv, TypeOK, Context
  <2> QED BY <1>0, <2>1, <2>3 DEF ExpiryInv, LoadableSession, SessionsAccountedFor
<1>4. CASE UNCHANGED vars
  BY <1>0, <1>4 DEF vars, ExpiryInv, ReadingsRecent, Busy, LoadableSession,
                    SessionsAccountedFor
<1> QED BY <1>1, <1>2, <1>3, <1>4 DEF Next

\* When requests are shorter than the session timeout, no session that was ever
\* stored disappears without its onSessionEnd, a removal or the reaper's claim:
\* the lazy purge of loadSession never deletes one (cf_application_enable touches
\* before it loads).
THEOREM NoSessionLost ==
    ASSUME RequestsShorterThanTimeout
    PROVE  Spec => []SessionsAccountedFor
<1>1. Init => ExpiryInv
  BY TypeInit DEF Init, ExpiryInv, ReadingsRecent, Busy, LoadableSession,
                  SessionsAccountedFor
<1>2. ExpiryInv /\ [Next]_vars => ExpiryInv'
  BY ExpiryStep
<1>3. ExpiryInv => SessionsAccountedFor
  BY DEF ExpiryInv
<1> QED BY <1>1, <1>2, <1>3, PTL DEF Spec

-------------------------------------------------------------------------------
(* A session the reaper has claimed stays gone.  The touch at the beginning *)
(* of a request makes the row live for the whole of it, whoever else stores *)
(* it in between: a row is stored with a reading of the clock that may be a *)
(* request old, and is then needed for one more.  Hence the factor of two.  *)

RequestsFarShorterThanTimeout ==
    SessionTimeout = 0 \/ SessionTimeout \div 1000 > 2 * MaxRequestTime

InSession == {"start", "page", "invalidate", "rotate", "saveApp", "saveSession"}

\* nextCfid comes before the row.
RowsMinted == \A s \in Sids : rows[s] # Absent \/ s \in hist.reaped => s \in minted

\* A ScopeContext names a session as its own between the load and scope_end only.
SessionsOn == \A w \in Workers : ctx[w].sessOn => pc[w] \in InSession

\* The row of a session in use, if there is one, lives as long as the request may.
Covered ==
    \A w \in Workers :
        pc[w] = "loadSession" \/ ctx[w].sessOn
            => NotDue(rows[ctx[w].sid], ctx[w].begin + MaxRequestTime)

GoneInv == TypeInv /\ ReadingsRecent /\ RowsMinted /\ SessionsOn /\ Covered /\ ReapedStaysGone

LEMMA ExpiryBeyondTwoRequests ==
    ASSUME RequestsFarShorterThanTimeout, NEW t \in Nat
    PROVE  /\ ExpiresAt(t, SessionTimeout) \in Nat
           /\ \/ ExpiresAt(t, SessionTimeout) = 0
              \/ ExpiresAt(t, SessionTimeout) > t + 2 * MaxRequestTime
<1>1. SessionTimeout \in Nat /\ SessionTimeout \div 1000 \in Nat /\ MaxRequestTime \in Nat
  BY TimeoutAssumption, BoundAssumption
<1>2. CASE SessionTimeout = 0
  BY <1>2 DEF ExpiresAt
<1>3. CASE SessionTimeout \div 1000 > 2 * MaxRequestTime
  BY <1>1, <1>3 DEF ExpiresAt
<1> QED BY <1>2, <1>3 DEF RequestsFarShorterThanTimeout

\* Which session a request works in after a step of it: the one before, a new one, or
\* the one of the cookie, which has just been loaded.
LEMMA SessionOfWorker ==
    ASSUME TypeInv, SessionsOn, NEW w \in Workers, WorkerStep(w), ctx'[w].sessOn
    PROVE  /\ pc'[w] \in InSession
           /\ ctx'[w].begin = ctx[w].begin
           /\ \/ ctx[w].sessOn /\ ctx'[w].sid = ctx[w].sid
              \/ ctx'[w].sid \in minted' \ minted
              \/ /\ pc[w] = "loadSession" /\ ctx'[w].sid = ctx[w].sid
                 /\ Live(rows[ctx[w].sid], ctx[w].t)
<1> USE DEF TypeInv, TypeOK
<1>0. ctx[w] \in Context
  OBVIOUS
<1>1. CASE TouchSession(w) \/ LoadSession(w)
  <2>1. CASE MintSession(w)
    <3>1. PICK s \in Sids \ minted :
             /\ minted' = minted \cup {s}
             /\ ctx' = [ctx EXCEPT ![w] = [@ EXCEPT !.sid = s, !.t = ctx[w].begin,
                                                    !.newSess = TRUE,
                                                    !.appOn = TRUE, !.sessOn = TRUE]]
      BY <2>1 DEF MintSession, Mint
    <3>2. ctx'[w].sid = s /\ ctx'[w].begin = ctx[w].begin
      BY <1>0, <3>1 DEF Context
    <3>3. pc'[w] = "start"
      BY <2>1 DEF MintSession, Mint, Goto
    <3> QED BY <3>1, <3>2, <3>3 DEF InSession
  <2>2. CASE ~MintSession(w) /\ TouchSession(w)
    <3>1. PICK t \in Readings(w) : TouchedAt(w, t)
      BY <2>2, TouchEffect
    <3>2. ctx'[w].sessOn = ctx[w].sessOn /\ pc[w] = "touchSession"
      BY <3>1, ReadingsType, ReadEffect DEF TouchedAt
    <3> QED BY <3>2 DEF SessionsOn, InSession
  <2>3. CASE ~MintSession(w) /\ LoadSession(w)
    <3>1. /\ pc[w] = "loadSession" /\ pc'[w] = "start" /\ Live(rows[ctx[w].sid], ctx[w].t)
          /\ ctx'[w] = [ctx[w] EXCEPT !.t = ctx[w].begin, !.appOn = TRUE, !.sessOn = TRUE]
      BY <2>3 DEF LoadSession, Goto
    <3> QED BY <1>0, <3>1 DEF Context, InSession
  <2> QED BY <1>1, <2>1, <2>2, <2>3
<1>2. CASE RotateStore(w)
  <2>1. PICK s \in Sids \ minted :
           /\ minted' = minted \cup {s}
           /\ ctx' = [ctx EXCEPT ![w] = [@ EXCEPT !.sid = s, !.newSess = TRUE]]
    BY <1>2 DEF RotateStore
  <2>2. ctx'[w].sid = s /\ ctx'[w].begin = ctx[w].begin
    BY <1>0, <2>1 DEF Context
  <2>3. pc'[w] = "page"
    BY <1>2 DEF RotateStore, Goto
  <2> QED BY <2>1, <2>2, <2>3 DEF InSession
<1>3. CASE InvalidateRemove(w) \/ ApplicationStop(w)
  <2>1. CASE InvalidateRemove(w)
    BY <1>0, <2>1 DEF InvalidateRemove, Context
  <2>2. CASE ApplicationStop(w)
    BY <1>0, <2>2 DEF ApplicationStop, Context
  <2> QED BY <1>3, <2>1, <2>2
<1>4. CASE BeginRequest(w) \/ SaveSession(w) \/ WorkerCrash(w)
  <2>1. CASE BeginRequest(w)
    BY <2>1 DEF BeginRequest, EmptyContext
  <2>2. CASE SaveSession(w) \/ WorkerCrash(w)
    <3>1. ctx'[w] = EmptyContext
      BY <2>2 DEF SaveSession, WorkerCrash
    <3> QED BY <3>1 DEF EmptyContext
  <2> QED BY <1>4, <2>1, <2>2
<1>5. CASE LoadApplication(w)
  <2>1. ctx'[w].sessOn = ctx[w].sessOn /\ pc[w] = "loadApp"
    BY <1>0, <1>5 DEF LoadApplication, Context
  <2> QED BY <2>1 DEF SessionsOn, InSession
<1>6. CASE TouchApplication(w) \/ TouchLoadedApplication(w)
  <2>1. ctx'[w].sessOn = ctx[w].sessOn
    BY <1>6, ReadEffect DEF TouchApplication, TouchLoadedApplication, ReadsFrom
  <2> QED BY <1>6, <2>1 DEF TouchApplication, TouchLoadedApplication, SessionsOn, InSession
<1>7. CASE SaveApplication(w)
  <2>1. /\ ctx'[w].sid = ctx[w].sid /\ ctx'[w].begin = ctx[w].begin
        /\ ctx'[w].sessOn = ctx[w].sessOn
    BY <1>7, ReadingsType, ReadEffect DEF SaveApplication
  <2> QED BY <1>7, <2>1 DEF SaveApplication, Goto, InSession
<1>8. CASE \/ StartCallbacks(w) \/ InvalidateCallback(w) \/ RotateRemove(w)
           \/ FinishResponse(w)
  <2>1. ctx' = ctx \/ ReadsFrom(w)
    BY <1>8 DEF StartCallbacks, Callbacks, InvalidateCallback, RotateRemove, FinishResponse
  <2>2. /\ ctx'[w].sid = ctx[w].sid /\ ctx'[w].begin = ctx[w].begin
        /\ ctx'[w].sessOn = ctx[w].sessOn
    BY <2>1, ReadEffect DEF ReadsFrom
  <2>3. pc'[w] \in InSession
    BY <1>8 DEF StartCallbacks, Callbacks, InvalidateCallback, RotateRemove, FinishResponse,
                Goto, InSession
  <2> QED BY <2>2, <2>3
<1> QED BY <1>1, <1>2, <1>3, <1>4, <1>5, <1>6, <1>7, <1>8 DEF WorkerStep

\* A worker's step leaves a row alone, or leaves one that outlives every request that
\* has begun, or none.
LEMMA RowOutlivesRequest ==
    ASSUME RequestsFarShorterThanTimeout, TypeInv, ReadingsRecent,
           NEW w \in Workers, WorkerStep(w), NEW s \in Sids, NEW begin \in Nat, begin <= now
    PROVE  rows'[s] = rows[s] \/ NotDue(rows'[s], begin + MaxRequestTime)
<1>0. now \in Nat /\ MaxRequestTime \in Nat /\ ctx[w].t \in Nat /\ ctx[w].begin \in Nat
  BY BoundAssumption DEF TypeInv, TypeOK, Context
<1>1. ASSUME Busy(w), NEW t \in Readings(w), rows'[s].exp = ExpiresAt(t, SessionTimeout)
      PROVE  NotDue(rows'[s], begin + MaxRequestTime)
  <2>1. t \in Nat /\ now <= t + MaxRequestTime
    BY <1>1, ReadingIsRecent
  <2>2. /\ ExpiresAt(t, SessionTimeout) \in Nat
        /\ \/ ExpiresAt(t, SessionTimeout) = 0
           \/ ExpiresAt(t, SessionTimeout) > t + 2 * MaxRequestTime
    BY <2>1, ExpiryBeyondTwoRequests
  <2> QED BY <1>0, <1>1, <2>1, <2>2 DEF NotDue
<1>2. CASE pc[w] = "saveSession" /\ rows'[s].exp = ExpiresAt(ctx[w].t, SessionTimeout)
  <2>1. now <= ctx[w].t + MaxRequestTime
    BY <1>0, <1>2 DEF ReadingsRecent, Busy
  <2>2. /\ ExpiresAt(ctx[w].t, SessionTimeout) \in Nat
        /\ \/ ExpiresAt(ctx[w].t, SessionTimeout) = 0
           \/ ExpiresAt(ctx[w].t, SessionTimeout) > ctx[w].t + 2 * MaxRequestTime
    BY <1>0, ExpiryBeyondTwoRequests
  <2> QED BY <1>0, <1>2, <2>1, <2>2 DEF NotDue
<1>3. pc[w] = "touchSession" \/ RotateStore(w) => Busy(w)
  BY DEF RotateStore, Busy
<1> QED BY <1>1, <1>2, <1>3, WorkerOnRow DEF NotDue

LEMMA CoveredWorker ==
    ASSUME RequestsFarShorterThanTimeout, GoneInv, NEW w \in Workers, WorkerStep(w)
    PROVE  Covered'
<1> SUFFICES ASSUME NEW v \in Workers, pc'[v] = "loadSession" \/ ctx'[v].sessOn
             PROVE  NotDue(rows'[ctx'[v].sid], ctx'[v].begin + MaxRequestTime)
  BY DEF Covered
<1> USE DEF GoneInv, TypeInv, TypeOK
<1>0. /\ ctx[v] \in Context /\ now \in Nat /\ MaxRequestTime \in Nat
      /\ ctx[v].begin \in Nat /\ ctx[v].t \in Nat
  BY BoundAssumption DEF Context
<1>1. CASE pc[v] = "loadSession" \/ ctx[v].sessOn
  <2>1. ctx[v].sid \in Sids /\ ctx[v].begin <= now
    BY <1>0, <1>1 DEF SessionsOn, InSession, SessionKnown, Settled, ReadingsRecent, Busy
  <2>2. NotDue(rows'[ctx[v].sid], ctx[v].begin + MaxRequestTime)
    BY <1>0, <1>1, <2>1, RowOutlivesRequest DEF Covered
  <2>3. CASE ctx'[v].sid = ctx[v].sid /\ ctx'[v].begin = ctx[v].begin
    BY <2>2, <2>3
  <2>4. CASE v # w
    BY <2>2, <2>4, WorkerFrame
  <2>5. CASE v = w /\ ~(ctx'[v].sid = ctx[v].sid /\ ctx'[v].begin = ctx[v].begin)
    <3>1. ctx'[v].sessOn
      BY <1>1, <2>5 DEF WorkerStep, BeginRequest, TouchApplication, LoadApplication,
              TouchLoadedApplication, TouchSession, LoadSession, Adopt, MintSession, Mint,
              StartCallbacks, Callbacks, InvalidateCallback, InvalidateRemove, RotateRemove,
              RotateStore, ApplicationStop, FinishResponse, SaveApplication, SaveSession,
              WorkerCrash, Goto, ReadsFrom, SessionsOn, InSession
    <3>2. ctx'[v].sid \in minted' \ minted /\ ctx'[v].begin = ctx[v].begin
      BY <2>5, <3>1, SessionOfWorker
    <3>3. ctx'[v].sid \in Sids
      BY <3>2, TypeWorker
    <3>4. NotDue(rows[ctx'[v].sid], ctx[v].begin + MaxRequestTime)
      BY <3>2, <3>3 DEF RowsMinted, NotDue
    <3> QED BY <1>0, <2>1, <3>2, <3>3, <3>4, RowOutlivesRequest
  <2> QED BY <2>3, <2>4, <2>5
<1>2. CASE ~(pc[v] = "loadSession" \/ ctx[v].sessOn)
  <2>1. v = w
    BY <1>2, WorkerFrame
  <2>2. CASE ctx'[v].sessOn
    <3>1. ctx'[v].sid \in minted' \ minted /\ ctx'[v].begin = ctx[v].begin
      BY <1>2, <2>1, <2>2, SessionOfWorker
    <3>2. ctx'[v].sid \in Sids
      BY <3>1, TypeWorker
    <3>3. NotDue(rows[ctx'[v].sid], ctx[v].begin + MaxRequestTime)
      BY <3>1, <3>2 DEF RowsMinted, NotDue
    <3>4. ctx[v].begin <= now
      <4>1. ReadingsRecent' /\ ctx'[v] \in Context /\ now' = now
        BY TypeWorker, ReadingsWorker, WorkerFrame
      <4>2. Busy(v)'
        BY <2>1, <2>2, SessionOfWorker DEF InSession, Busy
      <4>3. ctx'[v].begin <= ctx'[v].t /\ ctx'[v].t <= now
        BY <4>1, <4>2 DEF ReadingsRecent
      <4> QED BY <1>0, <3>1, <4>1, <4>3 DEF Context
    <3> QED BY <1>0, <3>1, <3>2, <3>3, <3>4, RowOutlivesRequest
  <2>3. CASE pc'[v] = "loadSession"
    <3>1. TouchSession(w)
      BY <1>2, <2>1, <2>3 DEF WorkerStep, BeginRequest, TouchApplication, LoadApplication,
              TouchLoadedApplication, LoadSession, MintSession, Mint,
              StartCallbacks, Callbacks, InvalidateCallback, InvalidateRemove, RotateRemove,
              RotateStore, ApplicationStop, FinishResponse, SaveApplication, SaveSession,
              WorkerCrash, Goto
    <3>2. PICK t \in Readings(w) : TouchedAt(w, t)
      <4>1. ~MintSession(w)
        BY <2>1, <2>3 DEF MintSession, Mint, Goto
      <4> QED BY <3>1, <4>1, TouchEffect
    <3>3. Busy(w) /\ rows'[ctx[w].sid].exp = ExpiresAt(t, SessionTimeout)
      BY <3>2 DEF TouchedAt, Busy
    <3>4. t \in Nat /\ ctx[w].begin <= t
      BY <3>3, ReadingIsRecent
    <3>5. ctx'[w].sid = ctx[w].sid /\ ctx'[w].begin = ctx[w].begin
      BY <3>2, <3>4, ReadEffect DEF TouchedAt
    <3>6. /\ ExpiresAt(t, SessionTimeout) \in Nat
          /\ \/ ExpiresAt(t, SessionTimeout) = 0
             \/ ExpiresAt(t, SessionTimeout) > t + 2 * MaxRequestTime
      BY <3>4, ExpiryBeyondTwoRequests
    <3> QED BY <1>0, <2>1, <3>3, <3>4, <3>5, <3>6 DEF NotDue
  <2> QED BY <2>2, <2>3
<1> QED BY <1>1, <1>2

\* A worker neither stores a session that is gone nor takes one up.
LEMMA GoneWorker ==
    ASSUME GoneInv, NEW w \in Workers, WorkerStep(w)
    PROVE  RowsMinted' /\ SessionsOn' /\ ReapedStaysGone'
<1> USE DEF GoneInv
<1>0. /\ minted \subseteq Sids /\ hist.reaped \subseteq Sids
      /\ \A v \in Workers : pc[v] \in Settled => ctx[v].sid \in minted
  BY DEF TypeInv, TypeOK, SessionKnown, History
<1>1. hist'.reaped = hist.reaped /\ minted \subseteq minted'
  <2>1. hist'.reaped = hist.reaped
    BY WorkerOnReaped
  <2>2. minted \subseteq minted'
    BY MintEffect DEF WorkerStep, BeginRequest, TouchApplication, LoadApplication,
              TouchLoadedApplication, TouchSession, LoadSession, Adopt, StartCallbacks,
              Callbacks, InvalidateCallback, InvalidateRemove, RotateRemove, RotateStore,
              ApplicationStop, FinishResponse, SaveApplication, SaveSession, WorkerCrash
  <2> QED BY <2>1, <2>2
<1>2. \A s \in hist.reaped : s \in minted /\ rows[s] = Absent /\ ~Using(w, s)
  BY <1>0 DEF RowsMinted, ReapedStaysGone
<1>3. ASSUME NEW s \in Sids, rows'[s] # Absent
      PROVE  s \in minted' /\ s \notin hist.reaped
  <2>1. CASE rows[s] # Absent
    BY <1>1, <1>2, <2>1 DEF RowsMinted
  <2>2. CASE rows[s] = Absent
    <3>1. s \in minted' \ minted \/ (pc[w] = "saveSession" /\ Using(w, s))
      BY <1>3, <2>2, WorkerOnRow DEF Live
    <3> QED BY <1>0, <1>1, <1>2, <3>1 DEF Using, Settled
  <2> QED BY <2>1, <2>2
<1>4. RowsMinted'
  BY <1>1, <1>2, <1>3 DEF RowsMinted
<1>5. SessionsOn'
  BY WorkerFrame, SessionOfWorker DEF SessionsOn
<1>6. ASSUME NEW s \in hist.reaped, NEW v \in Workers, Using(v, s)'
      PROVE  FALSE
  <2>1. CASE v # w
    BY <1>6, <2>1, WorkerFrame DEF Using, ReapedStaysGone
  <2>2. CASE v = w
    <3>1. ctx'[w].sessOn /\ ctx'[w].sid = s
      BY <1>6, <2>2 DEF Using
    <3>2. ctx'[w].sid \notin minted' \ minted
      BY <1>2, <3>1
    <3>3. \/ ctx[w].sessOn /\ ctx'[w].sid = ctx[w].sid
          \/ ctx'[w].sid = ctx[w].sid /\ Live(rows[ctx[w].sid], ctx[w].t)
      BY <3>1, <3>2, SessionOfWorker
    <3> QED BY <1>2, <3>1, <3>3 DEF Using, Live
  <2> QED BY <2>1, <2>2
<1>7. ReapedStaysGone'
  BY <1>0, <1>1, <1>3, <1>6 DEF ReapedStaysGone
<1> QED BY <1>4, <1>5, <1>7

\* The reaper claims no session that a request works in.
LEMMA GoneReaper ==
    ASSUME GoneInv, ReaperStep
    PROVE  RowsMinted' /\ SessionsOn' /\ Covered' /\ ReapedStaysGone'
<1> USE DEF GoneInv
<1>0. /\ UNCHANGED <<pc, ctx, minted>> /\ now' = now
  BY DEF ReaperStep, ClaimExpired, Claims, EndSession, EndApplication, ReaperCrash,
         ReaperRestart, workerVars
<1>1. \A s \in Sids : rows'[s] = rows[s] \/ rows'[s] = Absent
  BY DEF ReaperStep, ClaimExpired, Claims, Delete, EndSession, EndApplication, ReaperCrash,
         ReaperRestart, Keys
<1>2. /\ minted \subseteq Sids /\ hist.reaped \subseteq Sids
      /\ \A v \in Workers : pc[v] \in Settled => ctx[v].sid \in Sids
  BY DEF TypeInv, TypeOK, SessionKnown, History
<1>3. SessionsOn'
  BY <1>0 DEF SessionsOn
<1>4. Covered'
  BY <1>0, <1>1, <1>2 DEF Covered, SessionsOn, InSession, Settled, NotDue
<1>5. CASE ClaimExpired
  <2>1. /\ rows' = Delete(rows, DueKeys(rows, now))
        /\ hist'.reaped = hist.reaped \cup (DueKeys(rows, now) \ {App})
    BY <1>5 DEF ClaimExpired, Claims, TypeInv, TypeOK, History
  <2>2. ASSUME NEW s \in DueKeys(rows, now) \ {App}
        PROVE  s \in Sids /\ rows'[s] = Absent /\ rows[s] # Absent
    BY <2>1 DEF Delete, DueKeys, Due, Keys
  <2>3. ASSUME NEW s \in DueKeys(rows, now) \ {App}, NEW v \in Workers, Using(v, s)
        PROVE  FALSE
    <3>1. Due(rows[s], now) /\ rows[s] \in Row /\ now \in Nat
      BY DEF DueKeys, Due, TypeInv, TypeOK, Table
    <3>2. NotDue(rows[s], ctx[v].begin + MaxRequestTime) /\ Busy(v)
      BY <2>3 DEF Using, Covered, SessionsOn, InSession, Busy
    <3>3. now <= ctx[v].begin + MaxRequestTime /\ ctx[v].begin + MaxRequestTime \in Nat
      BY <3>2, BoundAssumption DEF ReadingsRecent, TypeInv, TypeOK, Context
    <3> QED BY <3>1, <3>2, <3>3 DEF Due, NotDue, Row
  <2>4. RowsMinted'
    BY <1>0, <1>1, <2>1, <2>2 DEF RowsMinted
  <2>5. ReapedStaysGone'
    BY <1>0, <1>1, <1>2, <2>1, <2>2, <2>3 DEF ReapedStaysGone, Using
  <2> QED BY <1>3, <1>4, <2>4, <2>5
<1>6. CASE ~ClaimExpired
  <2>1. rows' = rows /\ hist'.reaped = hist.reaped
    BY <1>6 DEF ReaperStep, EndSession, EndApplication, ReaperCrash, ReaperRestart, Holds,
                TypeInv, TypeOK, History
  <2>2. RowsMinted' /\ ReapedStaysGone'
    BY <1>0, <2>1 DEF RowsMinted, ReapedStaysGone, Using
  <2> QED BY <1>3, <1>4, <2>2
<1> QED BY <1>5, <1>6

LEMMA GoneInit == Init => GoneInv
  BY TypeInit
  DEF Init, GoneInv, ReadingsRecent, Busy, RowsMinted, SessionsOn, Covered, ReapedStaysGone,
      Using, EmptyContext, Keys

LEMMA GoneStep ==
    ASSUME RequestsFarShorterThanTimeout
    PROVE  GoneInv /\ [Next]_vars => GoneInv'
<1> SUFFICES ASSUME GoneInv, [Next]_vars
             PROVE  GoneInv'
  OBVIOUS
<1>0. TypeInv /\ TypeInv'
  BY TypeStep DEF GoneInv
<1>1. CASE \E w \in Workers : WorkerStep(w)
  BY <1>0, <1>1, ReadingsWorker, CoveredWorker, GoneWorker DEF GoneInv
<1>2. CASE ReaperStep
  <2>1. ReadingsRecent'
    BY <1>2 DEF GoneInv, ReadingsRecent, Busy, ReaperStep, ClaimExpired, Claims, EndSession,
                EndApplication, ReaperCrash, ReaperRestart, workerVars
  <2> QED BY <1>0, <1>2, <2>1, GoneReaper DEF GoneInv
<1>3. CASE Tick
  <2>1. UNCHANGED <<rows, minted, pc, ctx, hist>>
    BY <1>3 DEF Tick, workerVars
  <2>2. ReadingsRecent'
    BY <1>0, <1>3, <2>1, BoundAssumption
    DEF GoneInv, Tick, ReadingsRecent, Busy, TypeInv, TypeOK, Context
  <2> QED BY <1>0, <2>1, <2>2 DEF GoneInv, RowsMinted, SessionsOn, Covered, ReapedStaysGone, Using
<1>4. CASE UNCHANGED vars
  BY <1>0, <1>4 DEF vars, GoneInv, ReadingsRecent, Busy, RowsMinted, SessionsOn, Covered,
                    ReapedStaysGone, Using
<1> QED BY <1>1, <1>2, <1>3, <1>4 DEF Next

\* When the session timeout is above twice the longest request, a session that the
\* reaper has claimed is over: no request works in it, no scope_end stores it again and
\* no cookie brings it back.
THEOREM ReapedIsOver ==
    ASSUME RequestsFarShorterThanTimeout
    PROVE  Spec => []ReapedStaysGone
<1>1. GoneInv => ReapedStaysGone
  BY DEF GoneInv
<1>2. GoneInv /\ [Next]_vars => GoneInv'
  BY GoneStep
<1> QED BY <1>1, <1>2, GoneInit, PTL DEF Spec

\* Under the same condition no statement of any worker extends a row that expired as
\* long ago as a request may take: touchRow tests for it, with a reading no older than its
\* request, SessionRotate has a new id, and scope_end comes in time.
THEOREM NoneExtended ==
    ASSUME RequestsFarShorterThanTimeout
    PROVE  Spec => LongExpiredIsNeverExtended
<1>1. ASSUME GoneInv, [Next]_vars, NEW s \in Sids, Due(rows[s], now),
             rows[s].exp + MaxRequestTime <= now
      PROVE  rows'[s] \in {rows[s], Absent}
  <2>1. CASE \E w \in Workers : WorkerStep(w)
    <3>1. PICK w \in Workers : WorkerStep(w)
      BY <2>1
    <3>2. /\ rows[s] \in Row /\ rows[s].exp \in Nat /\ rows[s].exp > 0
          /\ now \in Nat /\ MaxRequestTime \in Nat /\ s \in minted
      BY <1>1, BoundAssumption DEF Due, GoneInv, RowsMinted, TypeInv, TypeOK, Table, Keys, Row
    <3>3. ASSUME pc[w] = "touchSession", NEW t \in Readings(w)
          PROVE  ~Live(rows[s], t)
      <4>1. t \in Nat /\ now <= t + MaxRequestTime
        BY <1>1, <3>3, ReadingIsRecent DEF GoneInv, Busy
      <4> QED BY <1>1, <3>2, <4>1 DEF Live
    <3>4. ~(pc[w] = "saveSession" /\ Using(w, s))
      <4> SUFFICES ASSUME pc[w] = "saveSession", Using(w, s)
                   PROVE  FALSE
        OBVIOUS
      <4>1. NotDue(rows[s], ctx[w].begin + MaxRequestTime)
        BY <1>1 DEF Using, GoneInv, Covered
      <4>2. now <= ctx[w].begin + MaxRequestTime /\ ctx[w].begin + MaxRequestTime \in Nat
        BY <1>1, BoundAssumption DEF GoneInv, ReadingsRecent, Busy, TypeInv, TypeOK, Context
      <4> QED BY <1>1, <3>2, <4>1, <4>2 DEF Due, NotDue, Row
    <3> QED BY <1>1, <3>1, <3>2, <3>3, <3>4, WorkerOnRow DEF GoneInv
  <2>2. CASE ReaperStep
    BY <2>2 DEF ReaperStep, ClaimExpired, Claims, Delete, EndSession, EndApplication,
                ReaperCrash, ReaperRestart, Keys
  <2>3. CASE Tick \/ UNCHANGED vars
    BY <2>3 DEF Tick, vars
  <2> QED BY <1>1, <2>1, <2>2, <2>3 DEF Next
<1>2. GoneInv /\ [Next]_vars
        => [\A s \in Sids : /\ Due(rows[s], now)
                            /\ rows[s].exp + MaxRequestTime <= now
                            => rows'[s] \in {rows[s], Absent}]_vars
  BY <1>1
<1>3. GoneInv /\ [Next]_vars => GoneInv'
  BY GoneStep
<1> QED BY <1>2, <1>3, GoneInit, PTL DEF Spec, LongExpiredIsNeverExtended

-------------------------------------------------------------------------------
(* ScopeLifecycle implements SessionFate.                                  *)

InBatch(s) == \E r \in batch : r.key = s

\* What the reaper has in hand it has claimed, once, and not called back.
BatchReaped ==
    \A r \in batch : r.key # App =>
        /\ r.key \in hist.reaped \ (hist.lost \cup hist.skipped)
        /\ \A q \in batch : q.key = r.key => q = r

OnlyReapedLost == hist.lost \cup hist.skipped \subseteq hist.reaped

\* A row goes by the reaper's claim or by a removal.
NoneMissing == \A s \in hist.stored : rows[s] # Absent \/ s \in hist.reaped \cup hist.removed

FateInv == GoneInv /\ BatchReaped /\ OnlyReapedLost /\ NoneMissing

\* The row that was touched is not due when it is loaded.
LEMMA NothingToPurge ==
    ASSUME GoneInv, NEW w \in Workers, pc[w] = "loadSession"
    PROVE  ~Due(rows[ctx[w].sid], ctx[w].t)
<1> SUFFICES ASSUME Due(rows[ctx[w].sid], ctx[w].t)
             PROVE  FALSE
  OBVIOUS
<1> USE DEF GoneInv, TypeInv, TypeOK
<1>1. /\ ctx[w].sid \in Keys /\ ctx[w].t \in Nat /\ ctx[w].begin \in Nat
      /\ now \in Nat /\ MaxRequestTime \in Nat
  BY BoundAssumption DEF SessionKnown, Settled, Keys, Context
<1>2. rows[ctx[w].sid] \in Row
  BY <1>1 DEF Due, Table
<1>3. NotDue(rows[ctx[w].sid], ctx[w].begin + MaxRequestTime)
  BY DEF Covered
<1>4. ctx[w].t <= ctx[w].begin + MaxRequestTime
  BY <1>1 DEF ReadingsRecent, Busy
<1> QED BY <1>1, <1>2, <1>3, <1>4 DEF Due, NotDue, Row

LEMMA FateInvWorker ==
    ASSUME FateInv, NEW w \in Workers, WorkerStep(w)
    PROVE  BatchReaped' /\ OnlyReapedLost' /\ NoneMissing'
<1> USE DEF FateInv
<1>0. TypeInv /\ TypeInv'
  BY TypeWorker DEF GoneInv
<1>1. BatchReaped' /\ OnlyReapedLost'
  BY <1>0, WorkerOnReaped DEF BatchReaped, OnlyReapedLost
<1>2. ASSUME NEW s \in Sids, s \in hist'.stored, rows'[s] = Absent
      PROVE  s \in hist'.reaped \cup hist'.removed
  <2>1. s \in hist.stored
    BY <1>0, <1>2, WorkerOnHistory
  <2>2. CASE rows[s] = Absent
    BY <1>0, <2>1, <2>2, WorkerOnHistory, WorkerOnReaped DEF NoneMissing
  <2>3. CASE rows[s] # Absent
    <3>1. ~(pc[w] = "loadSession" /\ ctx[w].sid = s /\ Due(rows[s], ctx[w].t))
      BY NothingToPurge
    <3> QED BY <1>0, <1>2, <2>3, <3>1, WorkerOnRow
  <2> QED BY <2>2, <2>3
<1>3. hist'.stored \subseteq Sids
  BY <1>0 DEF TypeInv, TypeOK, History
<1> QED BY <1>1, <1>2, <1>3 DEF NoneMissing

LEMMA FateInvReaper ==
    ASSUME FateInv, ReaperStep
    PROVE  BatchReaped' /\ OnlyReapedLost' /\ NoneMissing'
<1> USE DEF FateInv
<1>0. /\ hist \in History /\ batch \subseteq Claimed /\ App \notin Sids
      /\ \A s \in Sids : rows[s] # Absent => s \notin hist.reaped
  BY KeyAssumption DEF GoneInv, TypeInv, TypeOK, ReapedStaysGone
<1>1. CASE ClaimExpired
  <2> DEFINE due == DueKeys(rows, now)
  <2>1. /\ batch = {}
        /\ batch' = {[key |-> k, cfc |-> rows[k].cfc] : k \in due}
        /\ rows' = Delete(rows, due)
        /\ hist' = [hist EXCEPT !.reaped = @ \cup (due \ {App})]
    BY <1>1 DEF ClaimExpired, Claims
  <2>2. /\ hist'.reaped = hist.reaped \cup (due \ {App})
        /\ hist'.lost = hist.lost /\ hist'.skipped = hist.skipped
        /\ hist'.stored = hist.stored /\ hist'.removed = hist.removed
    BY <1>0, <2>1 DEF History
  <2>3. \A s \in due \ {App} : s \in Sids /\ s \notin hist.reaped
    BY <1>0 DEF DueKeys, Due, Keys
  <2>4. BatchReaped'
    BY <2>1, <2>2, <2>3 DEF BatchReaped, OnlyReapedLost
  <2>5. OnlyReapedLost'
    BY <2>2 DEF OnlyReapedLost
  <2>6. NoneMissing'
    BY <1>0, <2>1, <2>2 DEF NoneMissing, Delete, Keys, History
  <2> QED BY <2>4, <2>5, <2>6
<1>2. ASSUME NEW r \in batch, EndSession(r)
      PROVE  BatchReaped' /\ OnlyReapedLost' /\ NoneMissing'
  <2>1. /\ r.key # App /\ batch' = batch \ {r} /\ rows' = rows
        /\ \/ hist' = [hist EXCEPT !.ended = @ \cup {r.key}]
           \/ hist' = [hist EXCEPT !.skipped = @ \cup {r.key}]
    BY <1>2 DEF EndSession, Holds
  <2>2. /\ hist'.reaped = hist.reaped /\ hist'.lost = hist.lost
        /\ hist'.skipped \subseteq hist.skipped \cup {r.key}
        /\ hist'.stored = hist.stored /\ hist'.removed = hist.removed
    BY <1>0, <2>1 DEF History
  <2> QED BY <2>1, <2>2 DEF BatchReaped, OnlyReapedLost, NoneMissing
<1>3. CASE ReaperCrash
  <2>1. /\ batch' = {} /\ rows' = rows
        /\ hist' = [hist EXCEPT !.lost = @ \cup ({r.key : r \in batch} \ {App})]
    BY <1>3 DEF ReaperCrash
  <2>2. /\ hist'.reaped = hist.reaped /\ hist'.skipped = hist.skipped
        /\ hist'.lost = hist.lost \cup ({r.key : r \in batch} \ {App})
        /\ hist'.stored = hist.stored /\ hist'.removed = hist.removed
    BY <1>0, <2>1 DEF History
  <2> QED BY <2>1, <2>2 DEF BatchReaped, OnlyReapedLost, NoneMissing
<1>4. CASE ReaperRestart \/ \E r \in batch : EndApplication(r)
  <2>1. batch' \subseteq batch /\ rows' = rows /\ hist' = hist
    BY <1>4 DEF ReaperRestart, EndApplication
  <2> QED BY <2>1 DEF BatchReaped, OnlyReapedLost, NoneMissing
<1> QED BY <1>1, <1>2, <1>3, <1>4 DEF ReaperStep

LEMMA FateInvStep ==
    ASSUME RequestsFarShorterThanTimeout
    PROVE  FateInv /\ [Next]_vars => FateInv'
<1> SUFFICES ASSUME FateInv, [Next]_vars
             PROVE  FateInv'
  OBVIOUS
<1>1. GoneInv'
  BY GoneStep DEF FateInv
<1>2. CASE Tick \/ UNCHANGED vars
  BY <1>1, <1>2 DEF Tick, vars, reaperVars, FateInv, BatchReaped, OnlyReapedLost, NoneMissing
<1> QED BY <1>1, <1>2, FateInvWorker, FateInvReaper DEF Next, FateInv

\* The fate of a session, case by case.
FateValues ==
    \A s \in Sids :
        /\ InBatch(s) => s \in hist.reaped /\ FateOf(s) = "claimed"
        /\ rows[s] # Absent => s \notin hist.reaped /\ FateOf(s) = "open"
        /\ rows[s] = Absent /\ s \notin hist.reaped
             => FateOf(s) = IF s \in hist.removed THEN "removed" ELSE "new"
        /\ s \in hist.reaped /\ ~InBatch(s)
             => FateOf(s) = IF s \in hist.lost THEN "lost"
                            ELSE IF s \in hist.skipped THEN "skipped" ELSE "ended"

LEMMA FateValue == FateInv => FateValues
<1> SUFFICES ASSUME FateInv, NEW s \in Sids
             PROVE  /\ InBatch(s) => s \in hist.reaped /\ FateOf(s) = "claimed"
                    /\ rows[s] # Absent => s \notin hist.reaped /\ FateOf(s) = "open"
                    /\ rows[s] = Absent /\ s \notin hist.reaped
                         => FateOf(s) = IF s \in hist.removed THEN "removed" ELSE "new"
                    /\ s \in hist.reaped /\ ~InBatch(s)
                         => FateOf(s) = IF s \in hist.lost THEN "lost"
                                        ELSE IF s \in hist.skipped THEN "skipped" ELSE "ended"
  BY DEF FateValues
<1>1. InBatch(s) => s \in hist.reaped
  BY KeyAssumption DEF InBatch, FateInv, BatchReaped
<1>2. rows[s] # Absent => s \notin hist.reaped
  BY DEF FateInv, GoneInv, ReapedStaysGone
<1>3. rows[s] = Absent /\ s \notin hist.reaped => s \in hist.removed \/ s \notin hist.stored
  BY DEF FateInv, NoneMissing
<1> QED BY <1>1, <1>2, <1>3 DEF FateOf, InBatch

LEMMA FateValueNext ==
    ASSUME FateInv'
    PROVE  FateValues'
  BY FateValue, PTL

\* A step that neither adds nor takes rows, nor touches the batch, is none of SessionFate's.
LEMMA FateStutters ==
    ASSUME FateInv, FateInv',
           \A s \in Sids : /\ rows'[s] = Absent <=> rows[s] = Absent
                           /\ InBatch(s)' <=> InBatch(s),
           hist'.reaped = hist.reaped, hist'.removed = hist.removed,
           hist'.skipped = hist.skipped, hist'.lost = hist.lost
    PROVE  fateBar' = fateBar
<1>1. \A s \in Sids : FateOf(s)' = FateOf(s)
  BY FateValue, FateValueNext DEF FateValues
<1> QED BY <1>1 DEF fateBar

\* A row that is stored opens its session, or leaves it open.
LEMMA FateOpens ==
    ASSUME FateInv, FateInv', NEW o \in Sids, rows'[o] # Absent, o \notin hist.reaped,
           \A s \in Sids \ {o} : rows'[s] = rows[s],
           batch' = batch, hist'.reaped = hist.reaped, hist'.removed = hist.removed,
           hist'.skipped = hist.skipped, hist'.lost = hist.lost
    PROVE  [Fate!Next]_fateBar
<1>0. \A s \in Sids : InBatch(s)' <=> InBatch(s)
  BY DEF InBatch
<1>1. CASE rows[o] # Absent
  BY <1>0, <1>1, FateStutters
<1>2. CASE rows[o] = Absent
  <2>1. \A s \in Sids : FateOf(s)' = IF s \in {o} THEN "open" ELSE FateOf(s)
    BY <1>0, FateValue, FateValueNext DEF FateValues
  <2>2. FateOf(o) \in {"new", "removed"}
    BY <1>2, FateValue DEF FateValues
  <2>3. o \in Fate!In({"new", "removed"}) /\ Fate!Become({o}, "open")
    BY <2>1, <2>2 DEF Fate!In, Fate!Become, fateBar
  <2> QED BY <2>3 DEF Fate!Next, Fate!Open
<1> QED BY <1>1, <1>2

\* Sessions that are removed had not been claimed.
LEMMA FateRemoves ==
    ASSUME FateInv, FateInv', NEW gone \in SUBSET Sids, gone \cap hist.reaped = {},
           \A s \in Sids : rows'[s] = IF s \in gone THEN Absent ELSE rows[s],
           batch' = batch, hist'.reaped = hist.reaped, hist'.removed = hist.removed \cup gone,
           hist'.skipped = hist.skipped, hist'.lost = hist.lost
    PROVE  [Fate!Next]_fateBar
<1> DEFINE set == {s \in gone : FateOf(s) \in {"new", "open"}}
<1>0. \A s \in Sids : InBatch(s)' <=> InBatch(s)
  BY DEF InBatch
<1>1. ASSUME NEW s \in Sids
      PROVE  FateOf(s)' = IF s \in set THEN "removed" ELSE FateOf(s)
  <2>1. CASE s \in gone
    BY <1>0, <2>1, FateValue, FateValueNext DEF FateValues
  <2>2. CASE s \notin gone
    BY <1>0, <2>2, FateValue, FateValueNext DEF FateValues
  <2> QED BY <2>1, <2>2
<1>2. set \in SUBSET Fate!In({"new", "open"})
  BY DEF Fate!In, fateBar
<1>3. Fate!Become(set, "removed")
  BY <1>1 DEF Fate!Become, fateBar
<1> QED BY <1>2, <1>3 DEF Fate!Next, Fate!Remove

LEMMA FateWorker ==
    ASSUME FateInv, FateInv', NEW w \in Workers, WorkerStep(w)
    PROVE  [Fate!Next]_fateBar
<1> USE DEF FateInv, GoneInv, TypeInv, TypeOK
<1>0. /\ hist \in History /\ App \notin Sids /\ Sids \subseteq Keys /\ App \in Keys
      /\ \A s \in Sids : InBatch(s)' <=> InBatch(s)
      /\ minted \subseteq Sids
      /\ ctx[w].sessOn => ctx[w].sid \in Sids /\ ctx[w].sid \notin hist.reaped
  BY KeyAssumption, WorkerOnReaped
  DEF Keys, InBatch, SessionsOn, InSession, SessionKnown, Settled, ReapedStaysGone, Using
<1>1. CASE RotateStore(w)
  <2>1. PICK o \in Sids \ minted, t \in Readings(w) :
           /\ rows' = Store(rows, o, ExpiresAt(t, SessionTimeout), TRUE, FALSE)
           /\ hist' = [hist EXCEPT !.stored = @ \cup {o},
                                   !.begun = IF ctx[w].sid \in @ THEN @ \cup {o} ELSE @]
    BY <1>1 DEF RotateStore
  <2>2. o \notin hist.reaped /\ o \in hist'.stored /\ hist'.removed = hist.removed
    BY <1>0, <2>1 DEF RowsMinted, History
  <2>3. rows'[o] # Absent
    <3>1. rows'[o] \in Row
      BY <1>0, <2>1, ReadingsType, TimeoutAssumption, ExpiresAtType DEF Store, Table, Row, Keys
    <3> QED BY <3>1, AbsentAssumption
  <2>4. \A s \in Sids \ {o} : rows'[s] = rows[s]
    BY <1>0, <2>1 DEF Store, Table
  <2> QED BY <2>2, <2>3, <2>4, FateOpens, WorkerOnReaped
<1>2. CASE SaveSession(w)
  <2>1. CASE ctx[w].sessOn
    <3>1. /\ rows' = Store(rows, ctx[w].sid, ExpiresAt(ctx[w].t, SessionTimeout), TRUE, TRUE)
          /\ hist' = [hist EXCEPT !.stored = @ \cup {ctx[w].sid}]
      BY <1>2, <2>1 DEF SaveSession, Holds
    <3>2. hist'.removed = hist.removed
      BY <1>0, <3>1 DEF History
    <3>3. rows'[ctx[w].sid] # Absent
      <4>1. ExpiresAt(ctx[w].t, SessionTimeout) \in Nat
        BY ContextUpdates, TimeoutAssumption, ExpiresAtType
      <4>2. rows'[ctx[w].sid] = [exp |-> ExpiresAt(ctx[w].t, SessionTimeout),
                                 data |-> TRUE, cfc |-> TRUE]
        BY <1>0, <2>1, <3>1 DEF Store, Table
      <4>3. rows'[ctx[w].sid] \in Row
        BY <4>1, <4>2 DEF Row
      <4> QED BY <4>3, AbsentAssumption
    <3>4. \A s \in Sids \ {ctx[w].sid} : rows'[s] = rows[s]
      BY <1>0, <3>1 DEF Store, Table
    <3> QED BY <1>0, <2>1, <3>2, <3>3, <3>4, FateOpens, WorkerOnReaped
  <2>2. CASE ~ctx[w].sessOn
    <3>1. rows' = rows /\ hist' = hist
      BY <1>2, <2>2 DEF SaveSession
    <3> QED BY <1>0, <3>1, FateStutters
  <2> QED BY <2>1, <2>2
<1>3. CASE InvalidateRemove(w) \/ RotateRemove(w)
  <2>1. CASE ctx[w].sessOn
    <3>1. /\ rows' = Delete(rows, {ctx[w].sid})
          /\ hist' = [hist EXCEPT !.removed = @ \cup {ctx[w].sid}]
      BY <1>3, <2>1 DEF InvalidateRemove, RotateRemove, Holds
    <3>2. hist'.removed = hist.removed \cup {ctx[w].sid}
      BY <1>0, <3>1 DEF History
    <3>3. \A s \in Sids : rows'[s] = IF s \in {ctx[w].sid} THEN Absent ELSE rows[s]
      BY <1>0, <3>1 DEF Delete
    <3>4. {ctx[w].sid} \in SUBSET Sids /\ {ctx[w].sid} \cap hist.reaped = {}
      BY <1>0, <2>1
    <3> QED BY <3>2, <3>3, <3>4, FateRemoves, WorkerOnReaped
  <2>2. CASE ~ctx[w].sessOn
    <3>1. rows' = rows /\ hist' = hist
      BY <1>3, <2>2 DEF InvalidateRemove, RotateRemove
    <3> QED BY <1>0, <3>1, FateStutters
  <2> QED BY <2>1, <2>2
<1>4. CASE ApplicationStop(w)
  <2>1. CASE ctx[w].appOn
    <3> DEFINE gone == {s \in Sids : rows[s] # Absent}
    <3>1. /\ rows' = Delete(rows, Keys)
          /\ hist' = [hist EXCEPT !.removed = @ \cup gone]
      BY <1>4, <2>1 DEF ApplicationStop
    <3>2. hist'.removed = hist.removed \cup gone
      BY <1>0, <3>1 DEF History
    <3>3. \A s \in Sids : rows'[s] = IF s \in gone THEN Absent ELSE rows[s]
      BY <1>0, <3>1 DEF Delete
    <3>4. gone \in SUBSET Sids /\ gone \cap hist.reaped = {}
      BY DEF ReapedStaysGone
    <3> HIDE DEF gone
    <3> QED BY <3>2, <3>3, <3>4, FateRemoves, WorkerOnReaped
  <2>2. CASE ~ctx[w].appOn
    <3>1. rows' = rows /\ hist' = hist
      BY <1>4, <2>2 DEF ApplicationStop
    <3> QED BY <1>0, <3>1, FateStutters
  <2> QED BY <2>1, <2>2
<1>5. CASE TouchSession(w) \/ LoadSession(w)
  <2>1. hist' = hist
    BY <1>5 DEF TouchSession, LoadSession, Adopt
  <2>2. \A s \in Sids : rows'[s] = Absent <=> rows[s] = Absent
    <3>1. CASE TouchSession(w)
      <4>1. ASSUME NEW t \in Readings(w), TouchedAt(w, t)
            PROVE  \A s \in Sids : rows'[s] = Absent <=> rows[s] = Absent
        BY <1>0, <4>1 DEF TouchedAt, Live
      <4> QED BY <3>1, <4>1, TouchEffect
    <3>2. CASE LoadSession(w)
      <4>1. rows' = rows
        BY <3>2, NothingToPurge DEF LoadSession, PurgeDue
      <4> QED BY <4>1
    <3> QED BY <1>5, <3>1, <3>2
  <2> QED BY <1>0, <2>1, <2>2, FateStutters
<1>6. CASE \/ BeginRequest(w) \/ TouchApplication(w) \/ LoadApplication(w)
           \/ TouchLoadedApplication(w) \/ StartCallbacks(w) \/ InvalidateCallback(w)
           \/ FinishResponse(w) \/ SaveApplication(w) \/ WorkerCrash(w)
  <2>1. \A s \in Sids : rows'[s] = rows[s]
    BY <1>0, <1>6 DEF BeginRequest, TouchApplication, LoadApplication, TouchLoadedApplication,
                StartCallbacks, Callbacks, InvalidateCallback, FinishResponse, SaveApplication,
                WorkerCrash, Touch, PurgeDue, Store, Table
  <2>2. hist' = hist \/ Holds(ctx[w].sid, "begun") \/ Holds(ctx[w].sid, "ended")
    BY <1>6 DEF BeginRequest, TouchApplication, LoadApplication, TouchLoadedApplication,
                StartCallbacks, Callbacks, InvalidateCallback, FinishResponse, SaveApplication,
                WorkerCrash
  <2>3. hist'.removed = hist.removed
    BY <1>0, <2>2 DEF Holds, History
  <2> QED BY <1>0, <2>1, <2>3, FateStutters, WorkerOnReaped
<1> QED BY <1>1, <1>2, <1>3, <1>4, <1>5, <1>6 DEF WorkerStep

LEMMA FateReaper ==
    ASSUME FateInv, FateInv', ReaperStep
    PROVE  [Fate!Next]_fateBar
<1> USE DEF FateInv, GoneInv, TypeInv, TypeOK
<1>0. /\ hist \in History /\ batch \subseteq Claimed /\ App \notin Sids /\ Sids \subseteq Keys
      /\ FateValues /\ FateValues'
  BY KeyAssumption, FateValue, FateValueNext DEF Keys
<1>1. CASE ClaimExpired
  <2> DEFINE due == DueKeys(rows, now)
             set == due \ {App}
  <2>1. /\ batch = {} /\ batch' = {[key |-> k, cfc |-> rows[k].cfc] : k \in due}
        /\ rows' = Delete(rows, due)
        /\ hist' = [hist EXCEPT !.reaped = @ \cup set]
    BY <1>1 DEF ClaimExpired, Claims
  <2>2. /\ hist'.reaped = hist.reaped \cup set /\ hist'.removed = hist.removed
        /\ hist'.skipped = hist.skipped /\ hist'.lost = hist.lost
    BY <1>0, <2>1 DEF History
  <2>3. \A s \in Sids : /\ InBatch(s)' <=> s \in set
                        /\ ~InBatch(s)
                        /\ s \in set => rows[s] # Absent
                        /\ rows'[s] = IF s \in set THEN Absent ELSE rows[s]
    <3> SUFFICES ASSUME NEW s \in Sids
                 PROVE  /\ InBatch(s)' <=> s \in set
                        /\ ~InBatch(s)
                        /\ s \in set => rows[s] # Absent
                        /\ rows'[s] = IF s \in set THEN Absent ELSE rows[s]
      OBVIOUS
    <3>1. s # App
      BY <1>0
    <3>2. s \in due => rows[s] # Absent
      BY DEF DueKeys, Due
    <3>6. s \in set <=> s \in due
      BY <3>1
    <3> HIDE DEF due, set
    <3>3. InBatch(s)' <=> s \in due
      <4>1. \A r : r \in batch' <=> \E k \in due : r = [key |-> k, cfc |-> rows[k].cfc]
        BY <2>1
      <4>2. \A k : [key |-> k, cfc |-> rows[k].cfc].key = k
        OBVIOUS
      <4>3. ASSUME s \in due
            PROVE  InBatch(s)'
        <5>1. [key |-> s, cfc |-> rows[s].cfc] \in batch'
          BY <4>1, <4>3
        <5> QED BY <5>1, <4>2 DEF InBatch
      <4>4. ASSUME InBatch(s)'
            PROVE  s \in due
        <5>1. PICK r \in batch' : r.key = s
          BY <4>4 DEF InBatch
        <5>2. PICK k \in due : r = [key |-> k, cfc |-> rows[k].cfc]
          BY <5>1, <4>1
        <5> QED BY <5>1, <5>2, <4>2
      <4> QED BY <4>3, <4>4
    <3>4. ~InBatch(s)
      BY <2>1 DEF InBatch
    <3>5. rows'[s] = IF s \in due THEN Absent ELSE rows[s]
      BY <1>0, <2>1 DEF Delete
    <3> QED BY <3>6, <3>2, <3>3, <3>4, <3>5
  <2>4. set \in SUBSET Sids
    BY DEF DueKeys, Keys
  <2>5. ASSUME NEW s \in Sids
        PROVE  FateOf(s)' = IF s \in set THEN "claimed" ELSE FateOf(s)
    BY <1>0, <2>2, <2>3 DEF FateValues
  <2>6. set \in SUBSET Fate!In({"open"})
    BY <1>0, <2>3, <2>4 DEF Fate!In, fateBar, FateValues
  <2>7. Fate!Become(set, "claimed")
    BY <2>5 DEF Fate!Become, fateBar
  <2> HIDE DEF set
  <2> QED BY <2>6, <2>7 DEF Fate!Next, Fate!Claim
<1>2. ASSUME NEW r \in batch, EndSession(r)
      PROVE  [Fate!Next]_fateBar
  <2> DEFINE result == IF r.cfc THEN "ended" ELSE "skipped"
  <2>1. /\ r.key \in Sids /\ batch' = batch \ {r} /\ rows' = rows
        /\ hist' = [hist EXCEPT ![result] = @ \cup {r.key}]
    BY <1>0, <1>2 DEF EndSession, Holds, Claimed, Keys
  <2>2. /\ hist'.reaped = hist.reaped /\ hist'.removed = hist.removed /\ hist'.lost = hist.lost
        /\ hist'.skipped = IF r.cfc THEN hist.skipped ELSE hist.skipped \cup {r.key}
    BY <1>0, <2>1 DEF History
  <2>3. /\ r.key \in hist.reaped /\ r.key \notin hist.lost /\ r.key \notin hist.skipped
        /\ InBatch(r.key) /\ ~InBatch(r.key)'
        /\ \A s \in Sids \ {r.key} : InBatch(s)' <=> InBatch(s)
    BY <1>0, <2>1 DEF BatchReaped, InBatch
  <2>4. ASSUME NEW s \in Sids
        PROVE  FateOf(s)' = IF s \in {r.key} THEN result ELSE FateOf(s)
    BY <1>0, <2>1, <2>2, <2>3 DEF FateValues
  <2>5. r.key \in Fate!In({"claimed"})
    BY <1>0, <2>1, <2>3 DEF Fate!In, fateBar, FateValues
  <2>6. Fate!Become({r.key}, result)
    BY <2>4 DEF Fate!Become, fateBar
  <2> QED BY <2>5, <2>6 DEF Fate!Next, Fate!CallBack
<1>3. CASE ReaperCrash
  <2> DEFINE set == {r.key : r \in batch} \ {App}
  <2>1. /\ batch' = {} /\ rows' = rows /\ hist' = [hist EXCEPT !.lost = @ \cup set]
    BY <1>3 DEF ReaperCrash
  <2>2. /\ hist'.reaped = hist.reaped /\ hist'.removed = hist.removed
        /\ hist'.skipped = hist.skipped /\ hist'.lost = hist.lost \cup set
    BY <1>0, <2>1 DEF History
  <2>3. \A s \in Sids : (s \in set <=> InBatch(s)) /\ ~InBatch(s)'
    BY <1>0, <2>1 DEF InBatch
  <2>4. ASSUME NEW s \in Sids
        PROVE  FateOf(s)' = IF InBatch(s) THEN "lost" ELSE FateOf(s)
    BY <1>0, <2>1, <2>2, <2>3 DEF FateValues
  <2>5. \A s \in Sids : s \in Fate!In({"claimed"}) <=> InBatch(s)
    BY <1>0 DEF Fate!In, fateBar, FateValues
  <2>6. Fate!Become(Fate!In({"claimed"}), "lost")
    BY <2>4, <2>5 DEF Fate!Become, fateBar
  <2> QED BY <2>6 DEF Fate!Next, Fate!Lose
<1>4. CASE ReaperRestart \/ \E r \in batch : EndApplication(r)
  <2>1. /\ rows' = rows /\ hist' = hist
        /\ \A s \in Sids : InBatch(s)' <=> InBatch(s)
    BY <1>0, <1>4 DEF ReaperRestart, EndApplication, InBatch
  <2> QED BY <2>1, FateStutters
<1> QED BY <1>1, <1>2, <1>3, <1>4 DEF ReaperStep

\* Workers, reaper and clock together do to a session what SessionFate allows and
\* nothing else: the reaper claims only open sessions, calls each back at most once,
\* and one it has claimed is never open again (scope_store.cpp, reap_expired_scopes).
THEOREM ImplementsSessionFate ==
    ASSUME RequestsFarShorterThanTimeout
    PROVE  Spec => KeepsSessionFate
<1>1. Init => FateInv
  BY GoneInit DEF Init, FateInv, BatchReaped, OnlyReapedLost, NoneMissing
<1>2. Init => Fate!Init
  BY DEF Init, Fate!Init, fateBar, FateOf, Keys
<1>3. FateInv /\ [Next]_vars => FateInv'
  BY FateInvStep
<1>4. FateInv /\ FateInv' /\ [Next]_vars => [Fate!Next]_fateBar
  <2> SUFFICES ASSUME FateInv, FateInv', [Next]_vars
               PROVE  [Fate!Next]_fateBar
    OBVIOUS
  <2>1. CASE Tick \/ UNCHANGED vars
    <3>1. UNCHANGED <<rows, batch, hist>>
      BY <2>1 DEF Tick, vars, reaperVars
    <3> QED BY <3>1, FateStutters DEF InBatch
  <2> QED BY <2>1, FateWorker, FateReaper DEF Next
<1> QED BY <1>1, <1>2, <1>3, <1>4, PTL DEF Spec, KeepsSessionFate, Fate!Spec
===============================================================================

----------------------------- MODULE LoginsProofs -----------------------------
(***************************************************************************)
(* Logins, for any number of workers, clients, applications and tokens.    *)
(* The proofs follow a token: it is pending between the two statements of  *)
(* the login that makes it, and only its worker knows it; then a cookie of  *)
(* its client names it, in the jar or in a request; then it is out.  The    *)
(* frames that a request has opened are on top of what earlier requests     *)
(* have left, and hold no name but that of its client.                      *)
(***************************************************************************)
EXTENDS Logins, SequenceTheorems, TLAPS

Typed ==
    /\ rows \in [Tokens -> Row \cup {None}] /\ jar \in [Clients -> Cookies]
    /\ clock \in 0 .. MaxTime /\ requests \in 0 .. MaxRequests
    /\ sec \in [Workers -> Login \cup {None}]
    /\ late \subseteq out /\ out \subseteq Tokens /\ hollow \subseteq Tokens

\* A request that resolves a cookie has what the cookie says, and one that is between the
\* statements of a login has a token.
RequestOK(r) ==
    /\ r \in Request
    /\ r.pc = "idle" => r.client = None /\ r.open = 0
    /\ r.pc # "idle" => r.client \in Clients
    /\ r.pc \in {"idle", "page"} => r.token = None
    /\ r.pc \in {"resolve", "purge", "roles"} =>
          r.token \in Values /\ r.app \in Apps /\ r.idle \in Idles
    /\ r.pc = "roles" => r.token \in Tokens
    /\ r.pc \in {"resolve", "purge"} => r.token = r.sent[r.app]

ReqOK == req \in [Workers -> Request] /\ \A w \in Workers : RequestOK(req[w])

\* There is room for the body that a lookup is about to open.
FramesOK ==
    /\ frames \in [Workers -> Seq(Frame)]
    /\ \A w \in Workers :
          /\ Len(frames[w]) <= MaxDepth /\ req[w].open <= Len(frames[w])
          /\ req[w].pc \in {"resolve", "purge"} => Len(frames[w]) < MaxDepth

\* What a request has opened is on top, and was opened for its client.
OwnFrames ==
    \A w \in Workers : \A i \in 1 .. Len(frames[w]) :
        i > Len(frames[w]) - req[w].open => frames[w][i].user \in {None, req[w].client}

OwnSec ==
    \A w \in Workers : req[w].pc # "idle" /\ sec[w] # None => sec[w].client = req[w].client

\* A cookie of client c for application a names t, in the jar or on its way.
Names(c, a, t) ==
    \/ jar[c][a] = t
    \/ \E w \in Workers : req[w].client = c /\ (req[w].sent[a] = t \/ req[w].set[a] = t)

OwnRows ==
    \A c \in Clients, a \in Apps, t \in Tokens :
        Names(c, a, t) /\ rows[t] # None =>
            rows[t].client = c /\ rows[t].app = a /\ (rows[t].roles \/ t \in hollow)

\* A token between the two statements of its login.
Pends(w, t) == req[w].pc = "roles" /\ req[w].token = t

Pending ==
    \A w \in Workers, t \in Tokens : Pends(w, t) =>
        /\ sec[w] # None /\ sec[w].app = req[w].app
        /\ rows[t] # None => rows[t].client = req[w].client /\ rows[t].app = req[w].app
        /\ \A c \in Clients, a \in Apps : ~Names(c, a, t)
        /\ t \notin out \ late
        /\ \A v \in Workers \ {w} : req[v].token # t

LoginInv ==
    /\ Typed /\ ReqOK /\ FramesOK /\ OwnFrames
    /\ OwnSec /\ OwnRows /\ Pending /\ LoggedOutStaysOut

LEMMA InvIsSafe == LoginInv => TypeOK /\ OwnLogin /\ LoggedOutStaysOut /\ WholeLogin
<1> SUFFICES ASSUME LoginInv PROVE TypeOK /\ OwnLogin /\ LoggedOutStaysOut /\ WholeLogin
  OBVIOUS
<1>1. TypeOK
  BY DEF LoginInv, Typed, ReqOK, FramesOK, TypeOK
<1>2. ASSUME NEW c \in Clients, NEW a \in Apps, jar[c][a] \in Tokens, rows[jar[c][a]] # None
      PROVE  /\ rows[jar[c][a]].client = c /\ rows[jar[c][a]].app = a
             /\ rows[jar[c][a]].roles \/ jar[c][a] \in hollow
  <2>1. Names(c, a, jar[c][a])
    BY DEF Names
  <2> QED BY <2>1, <1>2 DEF LoginInv, OwnRows
<1>3. OwnLogin
  BY <1>2 DEF LoginInv, OwnSec, OwnLogin
<1>4. WholeLogin
  BY <1>2 DEF WholeLogin
<1> QED BY <1>1, <1>3, <1>4 DEF LoginInv

-------------------------------------------------------------------------------
(* What most steps do to a token: nothing new.                             *)

\* A row stays what it is, or goes.
RowsKept ==
    \A t \in Tokens :
        rows'[t] # None => /\ rows[t] # None /\ rows'[t].client = rows[t].client
                           /\ rows'[t].app = rows[t].app /\ rows'[t].roles = rows[t].roles

NamesKept ==
    \A c \in Clients, a \in Apps, t \in Tokens : Names(c, a, t)' => Names(c, a, t)

\* A worker that is between no two statements of a login takes no token but a cookie's.
TokenKept(w) ==
    /\ \A v \in Workers \ {w} : req'[v] = req[v] /\ sec'[v] = sec[v]
    /\ req'[w].pc # "roles"
    /\ req'[w].token \in {None, req[w].token}
       \/ \E a \in Apps : req[w].client \in Clients /\ req'[w].token = req[w].sent[a]

OutKept ==
    \A t \in out' \ late' :
        t \in out \ late \/ (rows'[t] = None /\ \A v \in Workers : ~Pends(v, t))

LEMMA KeptSteps ==
    ASSUME OwnRows, Pending, LoggedOutStaysOut, out \subseteq Tokens, out' \subseteq Tokens,
           NEW w \in Workers, req[w].pc # "roles",
           RowsKept, NamesKept, TokenKept(w), OutKept, hollow' = hollow
    PROVE  OwnRows' /\ Pending' /\ LoggedOutStaysOut'
<1>1. OwnRows'
  BY DEF OwnRows, RowsKept, NamesKept
<1>2. LoggedOutStaysOut'
  BY DEF LoggedOutStaysOut, OutKept, RowsKept
<1>3. Pending'
  <2> SUFFICES ASSUME NEW v \in Workers, NEW t \in Tokens, Pends(v, t)'
               PROVE  /\ sec'[v] # None /\ sec'[v].app = req'[v].app
                      /\ rows'[t] # None => /\ rows'[t].client = req'[v].client
                                            /\ rows'[t].app = req'[v].app
                      /\ \A c \in Clients, a \in Apps : ~Names(c, a, t)'
                      /\ t \notin out' \ late'
                      /\ \A u \in Workers \ {v} : req'[u].token # t
    BY DEF Pending
  <2>1. v # w /\ req'[v] = req[v] /\ sec'[v] = sec[v] /\ Pends(v, t)
    BY DEF TokenKept, Pends
  <2>2. /\ sec[v] # None /\ sec[v].app = req[v].app
        /\ rows[t] # None => rows[t].client = req[v].client /\ rows[t].app = req[v].app
        /\ \A c \in Clients, a \in Apps : ~Names(c, a, t)
        /\ t \notin out \ late
        /\ \A u \in Workers \ {v} : req[u].token # t
    BY <2>1 DEF Pending
  <2>3. t # None
    BY NoneAssumption
  <2>4. ASSUME NEW u \in Workers \ {v} PROVE req'[u].token # t
    <3>1. CASE u # w
      BY <3>1, <2>2 DEF TokenKept
    <3>2. CASE u = w
      <4>1. ASSUME NEW a \in Apps, req[w].client \in Clients, req'[w].token = req[w].sent[a]
            PROVE  req'[w].token # t
        BY <4>1, <2>2 DEF Names
      <4> QED BY <4>1, <3>2, <2>2, <2>3 DEF TokenKept
    <3> QED BY <3>1, <3>2
  <2>5. t \notin out' \ late' /\ \A c \in Clients, a \in Apps : ~Names(c, a, t)'
    BY <2>1, <2>2 DEF OutKept, NamesKept
  <2> QED BY <2>1, <2>2, <2>4, <2>5 DEF RowsKept
<1> QED BY <1>1, <1>2, <1>3

-------------------------------------------------------------------------------
(* What the parts of an action do.                                         *)

LEMMA CookieValues == None \in Values /\ Tokens \subseteq Values
  BY DEF Values

LEMMA OneRequest ==
    ASSUME ReqOK, NEW w \in Workers, NEW r, RequestOK(r), req' = [req EXCEPT ![w] = r]
    PROVE  ReqOK' /\ req'[w] = r /\ \A v \in Workers \ {w} : req'[v] = req[v]
<1>1. req'[w] = r /\ \A v \in Workers \ {w} : req'[v] = req[v]
  BY DEF ReqOK
<1>2. req' \in [Workers -> Request]
  BY DEF ReqOK, RequestOK
<1>3. \A v \in Workers : RequestOK(req[v])'
  BY <1>1 DEF ReqOK, RequestOK
<1> QED BY <1>1, <1>2, <1>3 DEF ReqOK

\* The fields of a request, whatever it does.
LEMMA Fields ==
    ASSUME ReqOK, NEW w \in Workers
    PROVE  /\ RequestOK(req[w]) /\ req[w] \in Request
           /\ req[w].pc \in {"idle", "page", "resolve", "purge", "roles"}
           /\ req[w].client \in Clients \cup {None} /\ req[w].app \in Apps \cup {None}
           /\ req[w].idle \in Idles \cup {None} /\ req[w].at \in 0 .. MaxTime
           /\ req[w].token \in Values /\ req[w].open \in 0 .. MaxDepth
           /\ req[w].sent \in Cookies /\ req[w].set \in [Apps -> Values \cup {"keep"}]
<1>1. RequestOK(req[w]) /\ req[w] \in Request
  BY DEF ReqOK
<1> QED BY <1>1 DEF Request

\* The response keeps what it has, or clears a cookie.
SameCookies(w) ==
    /\ req'[w].client = req[w].client /\ req'[w].sent = req[w].sent
    /\ \A a \in Apps : req'[w].set[a] \in {None, req[w].set[a]}

LEMMA CookiesKept ==
    ASSUME NEW w \in Workers, SameCookies(w), jar' = jar,
           \A v \in Workers \ {w} : req'[v] = req[v]
    PROVE  NamesKept
<1> SUFFICES ASSUME NEW c \in Clients, NEW a \in Apps, NEW t \in Tokens, Names(c, a, t)'
             PROVE  Names(c, a, t)
  BY DEF NamesKept
<1>1. t # None
  BY NoneAssumption
<1>2. CASE jar'[c][a] = t
  BY <1>2 DEF Names
<1>3. ASSUME NEW v \in Workers, req'[v].client = c, req'[v].sent[a] = t \/ req'[v].set[a] = t
      PROVE  Names(c, a, t)
  <2>1. req[v].client = c /\ (req[v].sent[a] = t \/ req[v].set[a] = t)
    BY <1>1, <1>3 DEF SameCookies
  <2> QED BY <2>1 DEF Names
<1> QED BY <1>2, <1>3 DEF Names

\* The cookie of an application, set or cleared unless the response is gone.
LEMMA CookieSet ==
    ASSUME ReqOK, NEW w \in Workers, NEW a \in Apps, NEW values \in SUBSET Values,
           NEW r \in SetCookie(w, a, values)
    PROVE  /\ r \in Request
           /\ r.pc = req[w].pc /\ r.client = req[w].client /\ r.app = req[w].app
           /\ r.idle = req[w].idle /\ r.at = req[w].at /\ r.token = req[w].token
           /\ r.open = req[w].open /\ r.sent = req[w].sent
           /\ r.set[a] \in values \cup {req[w].set[a]}
           /\ \A b \in Apps \ {a} : r.set[b] = req[w].set[b]
<1>1. PICK v \in values \cup {req[w].set[a]} : r = [req[w] EXCEPT !.set[a] = v]
  BY DEF SetCookie
<1>2. v \in Values \cup {"keep"}
  BY Fields
<1>3. /\ r.pc = req[w].pc /\ r.client = req[w].client /\ r.app = req[w].app
      /\ r.idle = req[w].idle /\ r.at = req[w].at /\ r.token = req[w].token
      /\ r.open = req[w].open /\ r.sent = req[w].sent
  BY <1>1, Fields DEF Request
<1>4. r.set = [req[w].set EXCEPT ![a] = v]
  BY <1>1, Fields DEF Request
<1>5. r.set[a] = v /\ \A b \in Apps \ {a} : r.set[b] = req[w].set[b]
  BY <1>4, Fields
<1>6. r \in Request
  BY <1>1, <1>2, Fields DEF Request
<1> QED BY <1>3, <1>5, <1>6

\* Nothing is pushed or popped, and the request counts no more of the frames its own.
LEMMA StackKept ==
    ASSUME ReqOK, FramesOK, OwnFrames, NEW w \in Workers, frames' = frames,
           \A v \in Workers \ {w} : req'[v] = req[v],
           \/ req'[w].open = 0
           \/ req'[w].client = req[w].client /\ req'[w].open \in 0 .. req[w].open,
           req'[w].pc \in {"resolve", "purge"} => Len(frames[w]) < MaxDepth
    PROVE  FramesOK' /\ OwnFrames'
<1>1. frames[w] \in Seq(Frame) /\ Len(frames[w]) \in Nat /\ req[w].open \in Nat
  BY Fields, BoundAssumption DEF FramesOK
<1>2. FramesOK'
  BY <1>1 DEF FramesOK
<1>3. ASSUME NEW i \in 1 .. Len(frames[w]), i > Len(frames[w]) - req'[w].open
      PROVE  frames[w][i].user \in {None, req'[w].client}
  BY <1>1, <1>3 DEF OwnFrames
<1>4. OwnFrames'
  BY <1>3 DEF OwnFrames
<1> QED BY <1>2, <1>4

-------------------------------------------------------------------------------
(* Requests.                                                               *)

LEMMA NewRequest ==
    /\ NoRequest \in Request /\ RequestOK(NoRequest)
    /\ NoRequest.pc = "idle" /\ NoRequest.client = None /\ NoRequest.token = None
    /\ NoRequest.open = 0 /\ NoRequest.sent = NoCookies
    /\ NoRequest.set = [a \in Apps |-> "keep"]
<1>1. NoCookies \in Cookies /\ None \in Values /\ 0 \in 0 .. MaxTime /\ 0 \in 0 .. MaxDepth
  BY BoundAssumption DEF NoCookies, Cookies, Values
<1>2. [a \in Apps |-> "keep"] \in [Apps -> Values \cup {"keep"}]
  OBVIOUS
<1>3. NoRequest \in Request
  BY <1>1, <1>2 DEF NoRequest, Request
<1> QED BY <1>3 DEF NoRequest, RequestOK

LEMMA InitInv == Init => LoginInv
<1> SUFFICES ASSUME Init PROVE LoginInv
  OBVIOUS
<1>1. Typed
  BY BoundAssumption, NewRequest DEF Init, Typed, NoRequest, NoCookies, Cookies, Values
<1>2. ReqOK
  BY NewRequest DEF Init, ReqOK
<1>3. FramesOK /\ OwnFrames
  BY BoundAssumption, NewRequest DEF Init, FramesOK, OwnFrames
<1>4. OwnSec /\ Pending
  BY NewRequest DEF Init, OwnSec, Pending, Pends
<1>5. OwnRows /\ LoggedOutStaysOut
  BY DEF Init, OwnRows, LoggedOutStaysOut
<1> QED BY <1>1, <1>2, <1>3, <1>4, <1>5 DEF LoginInv

LEMMA BeginRequestStep ==
    ASSUME LoginInv, NEW w \in Workers, BeginRequest(w)
    PROVE  LoginInv'
<1>0. Typed /\ ReqOK /\ FramesOK /\ OwnFrames /\ OwnSec /\ OwnRows /\ Pending /\ LoggedOutStaysOut
  BY DEF LoginInv
<1>1. PICK c \in Clients :
          req' = [req EXCEPT ![w] = [NoRequest EXCEPT !.pc = "page", !.client = c,
                                                      !.sent = jar[c]]]
  BY DEF BeginRequest
<1> DEFINE r == [NoRequest EXCEPT !.pc = "page", !.client = c, !.sent = jar[c]]
<1>2. /\ r.pc = "page" /\ r.client = c /\ r.sent = jar[c] /\ r.token = None /\ r.open = 0
      /\ r.set = [a \in Apps |-> "keep"]
  BY NewRequest DEF Request
<1>3. r \in Request
  BY <1>0, NewRequest DEF Request, Typed
<1>4. RequestOK(r)
  BY <1>2, <1>3 DEF RequestOK
<1> HIDE DEF r
<1>5. ReqOK' /\ req'[w] = r /\ \A v \in Workers \ {w} : req'[v] = req[v]
  BY <1>0, <1>1, <1>4, OneRequest DEF r
<1>6. Typed'
  BY <1>0, BoundAssumption DEF Typed, BeginRequest
<1>7. FramesOK' /\ OwnFrames'
  BY <1>0, <1>2, <1>5, StackKept DEF BeginRequest
<1>8. sec'[w] = None /\ \A v \in Workers \ {w} : sec'[v] = sec[v]
  BY <1>0 DEF BeginRequest, Typed
<1>9. OwnSec'
  BY <1>0, <1>5, <1>8 DEF OwnSec
<1>10. NamesKept
  <2> SUFFICES ASSUME NEW d \in Clients, NEW a \in Apps, NEW t \in Tokens, Names(d, a, t)'
               PROVE  Names(d, a, t)
    BY DEF NamesKept
  <2>1. t # "keep" /\ jar' = jar
    BY NoneAssumption DEF BeginRequest
  <2>2. ASSUME NEW v \in Workers, req'[v].client = d, req'[v].sent[a] = t \/ req'[v].set[a] = t
        PROVE  Names(d, a, t)
    BY <1>2, <1>5, <2>1, <2>2 DEF Names
  <2> QED BY <2>1, <2>2 DEF Names
<1>11. RowsKept /\ OutKept /\ TokenKept(w) /\ req[w].pc # "roles" /\ hollow' = hollow
  BY <1>2, <1>5, <1>8 DEF RowsKept, OutKept, TokenKept, BeginRequest
<1>12. OwnRows' /\ Pending' /\ LoggedOutStaysOut'
  BY <1>0, <1>6, <1>10, <1>11, KeptSteps DEF Typed
<1> QED BY <1>5, <1>6, <1>7, <1>9, <1>12 DEF LoginInv

LEMMA EndRequestStep ==
    ASSUME LoginInv, NEW w \in Workers, EndRequest(w)
    PROVE  LoginInv'
<1>0. Typed /\ ReqOK /\ FramesOK /\ OwnFrames /\ OwnSec /\ OwnRows /\ Pending /\ LoggedOutStaysOut
  BY DEF LoginInv
<1> DEFINE c == req[w].client
           new == [a \in Apps |-> IF req[w].set[a] = "keep" THEN jar[c][a] ELSE req[w].set[a]]
<1>1. req[w].pc = "page" /\ c \in Clients /\ jar' = [jar EXCEPT ![c] = new]
  BY <1>0, Fields DEF EndRequest, RequestOK
<1>2. new \in Cookies
  BY <1>0, <1>1, Fields DEF Cookies, Typed
<1>3. Typed'
  BY <1>0, <1>1, <1>2 DEF Typed, EndRequest
<1>4. ReqOK' /\ req'[w] = NoRequest /\ \A v \in Workers \ {w} : req'[v] = req[v]
  BY <1>0, NewRequest, OneRequest DEF EndRequest
<1>5. FramesOK' /\ OwnFrames'
  BY <1>0, <1>4, NewRequest, StackKept DEF EndRequest
<1>6. OwnSec'
  BY <1>0, <1>4, NewRequest DEF OwnSec, EndRequest
<1>7. NamesKept
  <2> SUFFICES ASSUME NEW d \in Clients, NEW a \in Apps, NEW t \in Tokens, Names(d, a, t)'
               PROVE  Names(d, a, t)
    BY DEF NamesKept
  <2>1. t # None
    BY NoneAssumption
  <2>2. CASE jar'[d][a] = t
    <3>1. CASE d = c
      BY <1>0, <1>1, <2>2, <3>1 DEF Names, Typed
    <3>2. CASE d # c
      BY <1>0, <1>1, <2>2, <3>2 DEF Names, Typed
    <3> QED BY <3>1, <3>2
  <2>3. ASSUME NEW v \in Workers, req'[v].client = d, req'[v].sent[a] = t \/ req'[v].set[a] = t
        PROVE  Names(d, a, t)
    BY <1>4, <2>3, NewRequest, NoneAssumption DEF Names
  <2> QED BY <2>2, <2>3 DEF Names
<1>8. RowsKept /\ OutKept /\ TokenKept(w) /\ req[w].pc # "roles" /\ hollow' = hollow
  BY <1>1, <1>4, NewRequest DEF RowsKept, OutKept, TokenKept, EndRequest
<1>9. OwnRows' /\ Pending' /\ LoggedOutStaysOut'
  BY <1>0, <1>3, <1>7, <1>8, KeptSteps DEF Typed
<1> QED BY <1>3, <1>4, <1>5, <1>6, <1>9 DEF LoginInv

LEMMA TickStep == ASSUME LoginInv, Tick PROVE LoginInv'
<1>1. Typed'
  BY BoundAssumption DEF LoginInv, Typed, Tick
<1>2. Pending' /\ OwnRows'
  BY DEF LoginInv, Tick, Pending, Pends, OwnRows, Names
<1> QED
  BY <1>1, <1>2 DEF LoginInv, Tick, ReqOK, FramesOK, OwnFrames, OwnSec, LoggedOutStaysOut

-------------------------------------------------------------------------------
(* <cflogin> and the statements of loadSecurity.                           *)

LEMMA EnterKeeps ==
    ASSUME ReqOK, FramesOK, OwnFrames, NEW w \in Workers, Len(frames[w]) < MaxDepth,
           NEW r \in Request, r.app \in Apps, r.idle \in Idles,
           r.client = req[w].client, r.client \in Clients, r.open = req[w].open,
           r.sent = req[w].sent, r.set = req[w].set, Enter(w, r)
    PROVE  /\ ReqOK' /\ FramesOK' /\ OwnFrames' /\ SameCookies(w)
           /\ req'[w].pc = "page" /\ req'[w].token = None /\ req'[w].client = req[w].client
           /\ \A v \in Workers \ {w} : req'[v] = req[v]
<1> DEFINE s == [r EXCEPT !.pc = "page", !.open = @ + 1, !.app = None,
                          !.idle = None, !.token = None, !.at = 0]
           f == [app |-> r.app, idle |-> r.idle, user |-> None]
<1>1. req' = [req EXCEPT ![w] = s] /\ frames' = [frames EXCEPT ![w] = Append(@, f)]
  BY DEF Enter
<1>2. f \in Frame /\ f.user = None
  BY DEF Frame
<1>3. /\ s.pc = "page" /\ s.open = req[w].open + 1 /\ s.client = req[w].client
      /\ s.token = None /\ s.sent = req[w].sent /\ s.set = req[w].set
  BY DEF Request
<1>4. /\ frames[w] \in Seq(Frame) /\ Len(frames[w]) \in Nat
      /\ req[w].open \in Nat /\ req[w].open <= Len(frames[w]) /\ MaxDepth \in Nat
  BY Fields, BoundAssumption DEF FramesOK
<1>5. r.open + 1 \in 0 .. MaxDepth /\ 0 \in 0 .. MaxTime
  BY <1>4, BoundAssumption
<1>6. s \in Request
  BY <1>5, CookieValues DEF Request
<1>7. RequestOK(s)
  BY <1>3, <1>6 DEF RequestOK
<1> HIDE DEF s, f
<1>8. ReqOK' /\ req'[w] = s /\ \A v \in Workers \ {w} : req'[v] = req[v]
  BY <1>1, <1>7, OneRequest
<1>9. /\ Append(frames[w], f) \in Seq(Frame)
      /\ Len(Append(frames[w], f)) = Len(frames[w]) + 1
      /\ \A i \in 1 .. Len(frames[w]) : Append(frames[w], f)[i] = frames[w][i]
      /\ Append(frames[w], f)[Len(frames[w]) + 1] = f
  BY <1>2, <1>4, AppendProperties
<1>10. /\ frames'[w] = Append(frames[w], f)
       /\ \A v \in Workers \ {w} : frames'[v] = frames[v]
       /\ frames' \in [Workers -> Seq(Frame)]
  BY <1>1, <1>9 DEF FramesOK
<1>11. FramesOK'
  <2>1. Len(frames'[w]) <= MaxDepth /\ req'[w].open <= Len(frames'[w]) /\ req'[w].pc = "page"
    BY <1>3, <1>4, <1>8, <1>9, <1>10
  <2>2. ASSUME NEW v \in Workers \ {w}
        PROVE  /\ Len(frames'[v]) <= MaxDepth /\ req'[v].open <= Len(frames'[v])
               /\ req'[v].pc \in {"resolve", "purge"} => Len(frames'[v]) < MaxDepth
    BY <1>8, <1>10 DEF FramesOK
  <2> QED BY <1>10, <2>1, <2>2 DEF FramesOK
<1>12. ASSUME NEW i \in 1 .. Len(frames'[w]), i > Len(frames'[w]) - req'[w].open
       PROVE  frames'[w][i].user \in {None, req'[w].client}
  <2>1. CASE i = Len(frames[w]) + 1
    BY <2>1, <1>2, <1>9, <1>10
  <2>2. CASE i # Len(frames[w]) + 1
    <3>1. i \in 1 .. Len(frames[w]) /\ i > Len(frames[w]) - req[w].open
      BY <2>2, <1>3, <1>4, <1>8, <1>9, <1>10, <1>12
    <3>2. frames[w][i].user \in {None, req[w].client}
      BY <3>1 DEF OwnFrames
    <3> QED BY <3>1, <3>2, <1>3, <1>8, <1>9, <1>10
  <2> QED BY <2>1, <2>2
<1>13. OwnFrames'
  BY <1>8, <1>10, <1>12 DEF OwnFrames
<1>14. SameCookies(w)
  BY <1>3, <1>8 DEF SameCookies
<1> QED BY <1>3, <1>8, <1>11, <1>13, <1>14

LEMMA LoginBeginStep ==
    ASSUME LoginInv, NEW w \in Workers, LoginBegin(w)
    PROVE  LoginInv'
<1>0. Typed /\ ReqOK /\ FramesOK /\ OwnFrames /\ OwnSec /\ OwnRows /\ Pending /\ LoggedOutStaysOut
  BY DEF LoginInv
<1>1. PICK a \in Apps, i \in Idles :
          LET r == [req[w] EXCEPT !.app = a, !.idle = i] IN
          IF r.sent[a] = None
          THEN Enter(w, r)
          ELSE /\ req' = [req EXCEPT ![w] = [r EXCEPT !.pc = "resolve", !.at = clock,
                                                      !.token = r.sent[a]]]
               /\ UNCHANGED frames
  BY DEF LoginBegin
<1> DEFINE r == [req[w] EXCEPT !.app = a, !.idle = i]
           s == [r EXCEPT !.pc = "resolve", !.at = clock, !.token = r.sent[a]]
<1>2. /\ req[w].pc = "page" /\ Len(frames[w]) < MaxDepth
      /\ req[w].client \in Clients /\ req[w].token = None
  BY <1>0, Fields DEF LoginBegin, RequestOK
<1>3. /\ r \in Request /\ r.app = a /\ r.idle = i /\ r.client = req[w].client
      /\ r.open = req[w].open /\ r.sent = req[w].sent /\ r.set = req[w].set
  BY <1>0, Fields DEF Request
<1>4. /\ ReqOK' /\ FramesOK' /\ OwnFrames' /\ SameCookies(w)
      /\ req'[w].pc # "roles" /\ req'[w].client = req[w].client
      /\ req'[w].token = None \/ \E b \in Apps : req'[w].token = req[w].sent[b]
      /\ \A v \in Workers \ {w} : req'[v] = req[v]
  <2>1. CASE r.sent[a] = None
    <3>1. Enter(w, r)
      BY <1>1, <2>1
    <3> QED BY <3>1, <1>0, <1>2, <1>3, EnterKeeps
  <2>2. CASE r.sent[a] # None
    <3>1. req' = [req EXCEPT ![w] = s] /\ frames' = frames
      BY <1>1, <2>2
    <3>2. /\ s.pc = "resolve" /\ s.token = req[w].sent[a] /\ s.client = req[w].client
          /\ s.open = req[w].open /\ s.sent = req[w].sent /\ s.set = req[w].set
          /\ s.app = a /\ s.idle = i
      BY <1>0, Fields DEF Request
    <3>3. req[w].sent[a] \in Values
      BY <1>0, Fields DEF Cookies
    <3>4. s \in Request
      BY <1>0, <1>3, <3>3 DEF Request, Typed
    <3>5. RequestOK(s)
      BY <1>2, <3>2, <3>3, <3>4 DEF RequestOK
    <3> HIDE DEF s, r
    <3>6. ReqOK' /\ req'[w] = s /\ \A v \in Workers \ {w} : req'[v] = req[v]
      BY <1>0, <3>1, <3>5, OneRequest
    <3>7. req[w].open \in 0 .. req[w].open
      BY <1>0, Fields, BoundAssumption
    <3>8. FramesOK' /\ OwnFrames'
      BY <1>0, <1>2, <3>1, <3>2, <3>6, <3>7, StackKept
    <3>9. SameCookies(w)
      BY <3>2, <3>6 DEF SameCookies
    <3> QED BY <3>2, <3>6, <3>8, <3>9
  <2> QED BY <2>1, <2>2
<1> HIDE DEF s, r
<1>5. Typed' /\ sec' = sec
  BY <1>0 DEF Typed, LoginBegin
<1>6. OwnSec'
  BY <1>0, <1>2, <1>4, <1>5 DEF OwnSec
<1>7. NamesKept
  BY <1>4, CookiesKept DEF LoginBegin
<1>8. RowsKept /\ OutKept /\ TokenKept(w) /\ hollow' = hollow
  BY <1>2, <1>4, <1>5 DEF RowsKept, OutKept, TokenKept, LoginBegin
<1>9. OwnRows' /\ Pending' /\ LoggedOutStaysOut'
  BY <1>0, <1>2, <1>5, <1>7, <1>8, KeptSteps DEF Typed
<1> QED BY <1>4, <1>5, <1>6, <1>9 DEF LoginInv

\* A live login is that of the client whose cookie it is.
LEMMA ResolveStep ==
    ASSUME LoginInv, NEW w \in Workers, Resolve(w)
    PROVE  LoginInv'
<1>0. Typed /\ ReqOK /\ FramesOK /\ OwnFrames /\ OwnSec /\ OwnRows /\ Pending /\ LoggedOutStaysOut
  BY DEF LoginInv
<1> DEFINE t == req[w].token
           s == [req[w] EXCEPT !.pc = "page", !.app = None, !.idle = None,
                               !.token = None, !.at = 0]
<1>1. /\ req[w].pc = "resolve" /\ t = req[w].sent[req[w].app]
      /\ req[w].app \in Apps /\ req[w].idle \in Idles /\ req[w].client \in Clients
      /\ req[w].at \in 0 .. MaxTime /\ req[w].open \in 0 .. req[w].open
  BY <1>0, Fields, BoundAssumption DEF Resolve, RequestOK
<1>2. Names(req[w].client, req[w].app, t)
  BY <1>1 DEF Names
<1>3. CASE IsLive(t, req[w].at)
  <2>1. /\ rows' \in {rows, [rows EXCEPT ![t].last = req[w].at]}
        /\ sec' = [sec EXCEPT ![w] = [client |-> rows[t].client, app |-> rows[t].app,
                                      roles |-> rows[t].roles]]
        /\ req' = [req EXCEPT ![w] = s]
    BY <1>3 DEF Resolve
  <2>2. t \in Tokens /\ rows[t] # None /\ rows[t] \in Row /\ rows[t].client = req[w].client
    BY <1>0, <1>1, <1>2, <1>3 DEF IsLive, OwnRows, Typed
  <2>3. /\ s.pc = "page" /\ s.token = None /\ s.client = req[w].client
        /\ s.open = req[w].open /\ s.sent = req[w].sent /\ s.set = req[w].set
    BY <1>0, Fields DEF Request
  <2>4. s \in Request
    <3>1. 0 \in 0 .. MaxTime
      BY BoundAssumption
    <3> QED BY <1>0, <3>1, Fields, CookieValues DEF Request
  <2>5. RequestOK(s)
    BY <1>1, <2>3, <2>4 DEF RequestOK
  <2> DEFINE row == [rows[t] EXCEPT !.last = req[w].at]
             login == [client |-> rows[t].client, app |-> rows[t].app, roles |-> rows[t].roles]
  <2>6. /\ row \in Row /\ row.client = rows[t].client /\ row.app = rows[t].app
        /\ row.roles = rows[t].roles
    BY <1>1, <2>2 DEF Row
  <2>7. login \in Login /\ login.client = req[w].client
    BY <2>2 DEF Row, Login
  <2>8. rows' = rows \/ rows' = [rows EXCEPT ![t] = row]
    BY <2>1
  <2>9. sec' = [sec EXCEPT ![w] = login]
    BY <2>1
  <2> HIDE DEF s, row, login
  <2>10. ReqOK' /\ req'[w] = s /\ \A v \in Workers \ {w} : req'[v] = req[v]
    BY <1>0, <2>1, <2>5, OneRequest
  <2>11. rows' \in [Tokens -> Row \cup {None}] /\ RowsKept
    BY <1>0, <1>1, <2>2, <2>6, <2>8 DEF Typed, RowsKept
  <2>12. sec' \in [Workers -> Login \cup {None}] /\ sec'[w] = login
         /\ \A v \in Workers \ {w} : sec'[v] = sec[v]
    BY <1>0, <2>7, <2>9 DEF Typed
  <2>13. Typed'
    BY <1>0, <2>11, <2>12 DEF Typed, Resolve
  <2>14. FramesOK' /\ OwnFrames'
    BY <1>0, <1>1, <2>3, <2>10, StackKept DEF Resolve
  <2>15. OwnSec'
    BY <1>0, <2>3, <2>7, <2>10, <2>12 DEF OwnSec
  <2>16. SameCookies(w)
    BY <2>3, <2>10 DEF SameCookies
  <2>17. NamesKept
    BY <2>10, <2>16, CookiesKept DEF Resolve
  <2>18. OutKept /\ TokenKept(w) /\ hollow' = hollow
    BY <2>3, <2>10, <2>12 DEF OutKept, TokenKept, Resolve
  <2>19. OwnRows' /\ Pending' /\ LoggedOutStaysOut'
    BY <1>0, <1>1, <2>11, <2>13, <2>17, <2>18, KeptSteps DEF Typed
  <2> QED BY <2>10, <2>13, <2>14, <2>15, <2>19 DEF LoginInv
<1>4. CASE ~IsLive(t, req[w].at)
  <2> DEFINE r == [req[w] EXCEPT !.pc = "purge"]
  <2>1. req' = [req EXCEPT ![w] = r] /\ rows' = rows /\ sec' = sec
    BY <1>4 DEF Resolve
  <2>2. /\ r.pc = "purge" /\ r.token = req[w].token /\ r.client = req[w].client
        /\ r.open = req[w].open /\ r.sent = req[w].sent /\ r.set = req[w].set
        /\ r.app = req[w].app /\ r.idle = req[w].idle
    BY <1>0, Fields DEF Request
  <2>3. r \in Request
    BY <1>0, Fields DEF Request
  <2>4. RequestOK(r)
    <3>1. r.token \in Values
      BY <1>0, <2>2, Fields
    <3> QED BY <1>1, <2>2, <2>3, <3>1 DEF RequestOK
  <2> HIDE DEF r
  <2>5. ReqOK' /\ req'[w] = r /\ \A v \in Workers \ {w} : req'[v] = req[v]
    BY <1>0, <2>1, <2>4, OneRequest
  <2>6. Typed'
    BY <1>0, <2>1 DEF Typed, Resolve
  <2>7. Len(frames[w]) < MaxDepth
    BY <1>0, <1>1 DEF FramesOK
  <2>8. FramesOK' /\ OwnFrames'
    BY <1>0, <1>1, <2>2, <2>5, <2>7, StackKept DEF Resolve
  <2>9. OwnSec'
    BY <1>0, <1>1, <2>1, <2>2, <2>5 DEF OwnSec
  <2>10. SameCookies(w)
    BY <2>2, <2>5 DEF SameCookies
  <2>11. NamesKept
    BY <2>5, <2>10, CookiesKept DEF Resolve
  <2>12. RowsKept /\ OutKept /\ TokenKept(w) /\ hollow' = hollow
    BY <2>1, <2>2, <2>5 DEF RowsKept, OutKept, TokenKept, Resolve
  <2>13. OwnRows' /\ Pending' /\ LoggedOutStaysOut'
    BY <1>0, <1>1, <2>6, <2>11, <2>12, KeptSteps DEF Typed
  <2> QED BY <2>5, <2>6, <2>8, <2>9, <2>13 DEF LoginInv
<1> QED BY <1>3, <1>4

LEMMA DeleteKeeps ==
    ASSUME Typed, NEW tokens, Delete(tokens)
    PROVE  /\ rows' \in [Tokens -> Row \cup {None}] /\ RowsKept
           /\ \A t \in Tokens : t \in tokens => rows'[t] = None
  BY DEF Typed, Delete, RowsKept

LEMMA PurgeIdleStep ==
    ASSUME LoginInv, NEW w \in Workers, PurgeIdle(w)
    PROVE  LoginInv'
<1>0. Typed /\ ReqOK /\ FramesOK /\ OwnFrames /\ OwnSec /\ OwnRows /\ Pending /\ LoggedOutStaysOut
  BY DEF LoginInv
<1>1. /\ req[w].pc = "purge" /\ req[w].client \in Clients /\ Len(frames[w]) < MaxDepth
      /\ req[w] \in Request /\ req[w].app \in Apps /\ req[w].idle \in Idles
  BY <1>0, Fields DEF PurgeIdle, RequestOK, FramesOK
<1>2. Enter(w, req[w])
  BY DEF PurgeIdle
<1>3. /\ ReqOK' /\ FramesOK' /\ OwnFrames' /\ SameCookies(w)
      /\ req'[w].pc = "page" /\ req'[w].token = None /\ req'[w].client = req[w].client
      /\ \A v \in Workers \ {w} : req'[v] = req[v]
  BY <1>0, <1>1, <1>2, EnterKeeps
<1>4. rows' \in [Tokens -> Row \cup {None}] /\ RowsKept
  BY <1>0, DeleteKeeps DEF PurgeIdle, Typed, RowsKept
<1>5. Typed'
  BY <1>0, <1>4 DEF Typed, PurgeIdle
<1>6. OwnSec'
  BY <1>0, <1>1, <1>3 DEF OwnSec, PurgeIdle
<1>7. NamesKept
  BY <1>3, CookiesKept DEF PurgeIdle
<1>8. OutKept /\ TokenKept(w) /\ hollow' = hollow
  BY <1>3 DEF OutKept, TokenKept, PurgeIdle
<1>9. OwnRows' /\ Pending' /\ LoggedOutStaysOut'
  BY <1>0, <1>1, <1>4, <1>5, <1>7, <1>8, KeptSteps DEF Typed
<1> QED BY <1>3, <1>5, <1>6, <1>9 DEF LoginInv

-------------------------------------------------------------------------------
(* <cfloginuser>, <cflogout> and a body that is left.                      *)

LEMMA LogOutKeeps ==
    ASSUME Typed, NEW tokens \in SUBSET Tokens, LogOut(tokens)
    PROVE  /\ rows' \in [Tokens -> Row \cup {None}] /\ RowsKept
           /\ late' \subseteq out' /\ out' \subseteq Tokens /\ OutKept
<1>1. PICK removed \in SUBSET Tokens : Delete(removed) /\ Leaves(removed)
  BY DEF LogOut
<1>2. /\ rows' \in [Tokens -> Row \cup {None}] /\ RowsKept
      /\ \A t \in removed : rows'[t] = None
  BY <1>1, DeleteKeeps
<1>3. out' = out \cup removed /\ late' \subseteq late \cup removed
  BY <1>1 DEF Leaves
<1>4. \A t \in removed \ late' : \A v \in Workers : ~Pends(v, t)
  BY <1>1 DEF Leaves, Pends
<1>5. late \ removed \subseteq late'
  BY <1>1 DEF Leaves
<1>6. OutKept
  BY <1>2, <1>3, <1>4, <1>5 DEF OutKept
<1> QED BY <1>2, <1>3, <1>6 DEF Typed

\* An open body's frame takes the name of the client; so does an older one.
LEMMA LoginUserStep ==
    ASSUME LoginInv, NEW w \in Workers, LoginUser(w)
    PROVE  LoginInv'
<1>0. Typed /\ ReqOK /\ FramesOK /\ OwnFrames /\ OwnSec /\ OwnRows /\ Pending /\ LoggedOutStaysOut
  BY DEF LoginInv
<1>1. /\ req[w].pc = "page" /\ req[w].client \in Clients /\ req' = req
      /\ rows' = rows /\ jar' = jar /\ out' = out /\ late' = late /\ hollow' = hollow
      /\ clock' = clock /\ requests' = requests /\ req[w].token = None
  BY <1>0, Fields DEF LoginUser, RequestOK
<1> DEFINE n == Len(frames[w])
<1>2. frames[w] \in Seq(Frame) /\ n \in Nat
  BY <1>0 DEF FramesOK
<1>3. CASE frames[w] # <<>>
  <2> DEFINE f == [frames[w][n] EXCEPT !.user = req[w].client]
             new == [frames[w] EXCEPT ![n] = f]
  <2>1. n \in 1 .. n
    BY <1>2, <1>3, EmptySeq
  <2>2. frames[w][n] \in Frame
    BY <1>2, <2>1, ElementOfSeq
  <2>3. f \in Frame /\ f.user = req[w].client
    BY <1>1, <2>2 DEF Frame
  <2>4. frames' = [frames EXCEPT ![w] = new] /\ sec' = sec
    BY <1>3 DEF LoginUser
  <2> HIDE DEF f
  <2>5. /\ new \in Seq(Frame) /\ Len(new) = n
        /\ \A j \in 1 .. n : new[j] = IF j = n THEN f ELSE frames[w][j]
    BY <1>2, <2>1, <2>3, ExceptSeq
  <2> HIDE DEF new
  <2>6. /\ frames' \in [Workers -> Seq(Frame)] /\ frames'[w] = new
        /\ \A v \in Workers \ {w} : frames'[v] = frames[v]
    BY <1>0, <2>4, <2>5 DEF FramesOK
  <2>7. \A v \in Workers : Len(frames'[v]) = Len(frames[v])
    BY <2>5, <2>6
  <2>8. FramesOK'
    BY <1>0, <1>1, <2>6, <2>7 DEF FramesOK
  <2>9. ASSUME NEW v \in Workers, NEW i \in 1 .. Len(frames[v]),
               i > Len(frames[v]) - req[v].open
        PROVE  frames'[v][i].user \in {None, req[v].client}
    <3>1. frames[v][i].user \in {None, req[v].client}
      BY <1>0, <2>9 DEF OwnFrames
    <3> QED BY <2>3, <2>5, <2>6, <3>1
  <2>10. OwnFrames'
    BY <1>1, <2>7, <2>9 DEF OwnFrames
  <2>11. Typed'
    BY <1>0, <1>1, <2>4 DEF Typed
  <2>12. NamesKept /\ RowsKept /\ OutKept /\ TokenKept(w)
    BY <1>1, <2>4 DEF NamesKept, Names, RowsKept, OutKept, TokenKept
  <2>13. OwnRows' /\ Pending' /\ LoggedOutStaysOut'
    BY <1>0, <1>1, <2>11, <2>12, KeptSteps DEF Typed
  <2>14. ReqOK' /\ OwnSec'
    BY <1>0, <1>1, <2>4 DEF ReqOK, OwnSec
  <2> QED BY <2>8, <2>10, <2>11, <2>13, <2>14 DEF LoginInv
<1>4. CASE frames[w] = <<>>
  <2>1. PICK a \in Apps :
            sec' = [sec EXCEPT ![w] = [client |-> req[w].client, app |-> a, roles |-> TRUE]]
    BY <1>4 DEF LoginUser
  <2> DEFINE login == [client |-> req[w].client, app |-> a, roles |-> TRUE]
  <2>2. login \in Login /\ login.client = req[w].client
    BY <1>1 DEF Login
  <2>3. sec' = [sec EXCEPT ![w] = login] /\ frames' = frames
    BY <1>4, <2>1 DEF LoginUser
  <2> HIDE DEF login
  <2>4. /\ sec' \in [Workers -> Login \cup {None}] /\ sec'[w] = login
        /\ \A v \in Workers \ {w} : sec'[v] = sec[v]
    BY <1>0, <2>2, <2>3 DEF Typed
  <2>5. Typed'
    BY <1>0, <1>1, <2>4 DEF Typed
  <2>6. NamesKept /\ RowsKept /\ OutKept /\ TokenKept(w)
    BY <1>1, <2>4 DEF NamesKept, Names, RowsKept, OutKept, TokenKept
  <2>7. OwnRows' /\ Pending' /\ LoggedOutStaysOut'
    BY <1>0, <1>1, <2>5, <2>6, KeptSteps DEF Typed
  <2>8. ReqOK' /\ FramesOK' /\ OwnFrames' /\ OwnSec'
    BY <1>0, <1>1, <2>2, <2>3, <2>4 DEF ReqOK, FramesOK, OwnFrames, OwnSec
  <2> QED BY <2>5, <2>7, <2>8 DEF LoginInv
<1> QED BY <1>3, <1>4

LEMMA LeaveBodyStep ==
    ASSUME LoginInv, NEW w \in Workers, LeaveBody(w)
    PROVE  LoginInv'
<1>0. Typed /\ ReqOK /\ FramesOK /\ OwnFrames /\ OwnSec /\ OwnRows /\ Pending /\ LoggedOutStaysOut
  BY DEF LoginInv
<1> DEFINE r == [req[w] EXCEPT !.open = @ - 1]
<1>1. /\ req[w].pc = "page" /\ req[w].open > 0 /\ req[w].open \in 0 .. MaxDepth /\ MaxDepth \in Nat
      /\ req' = [req EXCEPT ![w] = r]
  BY <1>0, Fields, BoundAssumption DEF LeaveBody
<1>2. /\ r.pc = "page" /\ r.open = req[w].open - 1 /\ r.client = req[w].client
      /\ r.token = req[w].token /\ r.sent = req[w].sent /\ r.set = req[w].set
  BY <1>0, <1>1, Fields DEF Request
<1>3. req[w].open - 1 \in 0 .. MaxDepth /\ req[w].open - 1 \in 0 .. req[w].open
  BY <1>1
<1>4. r \in Request
  BY <1>0, <1>3, Fields DEF Request
<1>5. RequestOK(r)
  BY <1>0, <1>1, <1>2, <1>4, Fields DEF RequestOK
<1> HIDE DEF r
<1>6. ReqOK' /\ req'[w] = r /\ \A v \in Workers \ {w} : req'[v] = req[v]
  BY <1>0, <1>1, <1>5, OneRequest
<1>7. Typed'
  BY <1>0 DEF Typed, LeaveBody
<1>8. FramesOK' /\ OwnFrames'
  BY <1>0, <1>2, <1>3, <1>6, StackKept DEF LeaveBody
<1>9. OwnSec'
  BY <1>0, <1>1, <1>2, <1>6 DEF OwnSec, LeaveBody
<1>10. SameCookies(w)
  BY <1>2, <1>6 DEF SameCookies
<1>11. NamesKept
  BY <1>6, <1>10, CookiesKept DEF LeaveBody
<1>12. RowsKept /\ OutKept /\ TokenKept(w) /\ hollow' = hollow
  BY <1>1, <1>2, <1>6 DEF RowsKept, OutKept, TokenKept, LeaveBody
<1>13. OwnRows' /\ Pending' /\ LoggedOutStaysOut'
  BY <1>0, <1>1, <1>7, <1>11, <1>12, KeptSteps DEF Typed
<1> QED BY <1>6, <1>7, <1>8, <1>9, <1>13 DEF LoginInv

LEMMA LogoutStep ==
    ASSUME LoginInv, NEW w \in Workers, Logout(w)
    PROVE  LoginInv'
<1>0. Typed /\ ReqOK /\ FramesOK /\ OwnFrames /\ OwnSec /\ OwnRows /\ Pending /\ LoggedOutStaysOut
  BY DEF LoginInv
<1>1. PICK a \in Apps :
          /\ \/ UNCHANGED <<rows, sec, out, late>>
             \/ /\ \E tokens \in Named(w, a) : LogOut(tokens)
                /\ sec' = [sec EXCEPT ![w] = None]
          /\ \E r \in SetCookie(w, a, {None}) : req' = [req EXCEPT ![w] = r]
  BY DEF Logout
<1>2. /\ req[w].pc = "page" /\ {None} \in SUBSET Values
      /\ req[w].token = None /\ req[w].client \in Clients /\ req[w].open \in 0 .. req[w].open
  BY <1>0, Fields, BoundAssumption DEF Logout, RequestOK, Values
<1>3. /\ rows' \in [Tokens -> Row \cup {None}] /\ RowsKept
      /\ late' \subseteq out' /\ out' \subseteq Tokens /\ OutKept
  <2>1. CASE UNCHANGED <<rows, out, late>>
    BY <2>1, <1>0 DEF Typed, RowsKept, OutKept
  <2>2. CASE \E tokens \in Named(w, a) : LogOut(tokens)
    <3>1. PICK tokens \in Named(w, a) : LogOut(tokens)
      BY <2>2
    <3>2. tokens \in SUBSET Tokens
      BY DEF Named
    <3> QED BY <1>0, <3>1, <3>2, LogOutKeeps
  <2> QED BY <1>1, <2>1, <2>2
<1>4. PICK r \in SetCookie(w, a, {None}) : req' = [req EXCEPT ![w] = r]
  BY <1>1
<1>5. /\ r \in Request /\ r.pc = "page" /\ r.client = req[w].client /\ r.token = None
      /\ r.open = req[w].open /\ r.sent = req[w].sent
      /\ \A b \in Apps : r.set[b] \in {None, req[w].set[b]}
  BY <1>0, <1>2, CookieSet
<1>6. RequestOK(r)
  BY <1>2, <1>5 DEF RequestOK
<1>7. ReqOK' /\ req'[w] = r /\ \A v \in Workers \ {w} : req'[v] = req[v]
  BY <1>0, <1>4, <1>6, OneRequest
<1>8. /\ sec' \in [Workers -> Login \cup {None}] /\ sec'[w] \in {None, sec[w]}
      /\ \A v \in Workers \ {w} : sec'[v] = sec[v]
  BY <1>0, <1>1 DEF Typed
<1>9. Typed'
  BY <1>0, <1>3, <1>8 DEF Typed, Logout
<1>10. FramesOK' /\ OwnFrames'
  BY <1>0, <1>2, <1>5, <1>7, StackKept DEF Logout
<1>11. OwnSec'
  BY <1>0, <1>2, <1>5, <1>7, <1>8 DEF OwnSec
<1>12. NamesKept
  BY <1>5, <1>7, CookiesKept DEF Logout, SameCookies
<1>13. TokenKept(w) /\ hollow' = hollow
  BY <1>5, <1>7, <1>8 DEF TokenKept, Logout
<1>14. OwnRows' /\ Pending' /\ LoggedOutStaysOut'
  BY <1>0, <1>2, <1>3, <1>9, <1>12, <1>13, KeptSteps DEF Typed
<1> QED BY <1>7, <1>9, <1>10, <1>11, <1>14 DEF LoginInv

-------------------------------------------------------------------------------
(* </cflogin> and the statements of storeSecurity.                         *)

LEMMA PopTyped ==
    ASSUME NEW S, NEW seq \in Seq(S), Len(seq) > 0
    PROVE  /\ Pop(seq) \in Seq(S) /\ Len(Pop(seq)) = Len(seq) - 1
           /\ \A i \in 1 .. Len(seq) - 1 : Pop(seq)[i] = seq[i]
<1> DEFINE n == Len(seq) - 1
<1>1. n \in Nat /\ (\A i \in 1 .. n : seq[i] \in S) /\ Pop(seq) = SubSeq(seq, 1, n)
  BY DEF Pop
<1> HIDE DEF n
<1>2. /\ SubSeq(seq, 1, n) \in Seq(S)
      /\ Len(SubSeq(seq, 1, n)) = IF 1 <= n THEN n - 1 + 1 ELSE 0
      /\ \A i \in 1 .. n - 1 + 1 : SubSeq(seq, 1, n)[i] = seq[1 + i - 1]
  BY <1>1, SubSeqProperties
<1>3. Len(Pop(seq)) = n /\ \A i \in 1 .. n : Pop(seq)[i] = seq[i]
  BY <1>1, <1>2
<1> QED BY <1>1, <1>2, <1>3 DEF n

\* The frame that an end takes is one that this request has opened.
LEMMA TopIsOwn ==
    ASSUME ReqOK, FramesOK, OwnFrames, NEW w \in Workers, req[w].open > 0
    PROVE  /\ Len(frames[w]) > 0 /\ Top(w) \in Frame
           /\ Top(w).user \in {None, req[w].client}
<1>1. /\ frames[w] \in Seq(Frame) /\ Len(frames[w]) \in Nat
      /\ req[w].open \in Nat /\ req[w].open <= Len(frames[w])
  BY Fields, BoundAssumption DEF FramesOK
<1>2. Len(frames[w]) \in 1 .. Len(frames[w]) /\ Len(frames[w]) > Len(frames[w]) - req[w].open
  BY <1>1
<1> QED BY <1>1, <1>2, ElementOfSeq DEF Top, OwnFrames

LEMMA StackPopped ==
    ASSUME ReqOK, FramesOK, OwnFrames, NEW w \in Workers, req[w].open > 0,
           frames' = [frames EXCEPT ![w] = Pop(frames[w])],
           \A v \in Workers \ {w} : req'[v] = req[v],
           req'[w].open = req[w].open - 1, req'[w].client = req[w].client,
           req'[w].pc \notin {"resolve", "purge"}
    PROVE  FramesOK' /\ OwnFrames'
<1>1. /\ frames[w] \in Seq(Frame) /\ Len(frames[w]) \in Nat /\ Len(frames[w]) > 0
      /\ req[w].open \in Nat /\ req[w].open <= Len(frames[w])
      /\ Len(frames[w]) <= MaxDepth /\ MaxDepth \in Nat
  BY Fields, TopIsOwn, BoundAssumption DEF FramesOK
<1>2. /\ Pop(frames[w]) \in Seq(Frame) /\ Len(Pop(frames[w])) = Len(frames[w]) - 1
      /\ \A i \in 1 .. Len(frames[w]) - 1 : Pop(frames[w])[i] = frames[w][i]
  BY <1>1, PopTyped
<1>3. /\ frames' \in [Workers -> Seq(Frame)] /\ frames'[w] = Pop(frames[w])
      /\ \A v \in Workers \ {w} : frames'[v] = frames[v]
  BY <1>2 DEF FramesOK
<1>4. FramesOK'
  <2>1. Len(frames'[w]) <= MaxDepth /\ req'[w].open <= Len(frames'[w])
    BY <1>1, <1>2, <1>3
  <2>2. ASSUME NEW v \in Workers \ {w}
        PROVE  /\ Len(frames'[v]) <= MaxDepth /\ req'[v].open <= Len(frames'[v])
               /\ req'[v].pc \in {"resolve", "purge"} => Len(frames'[v]) < MaxDepth
    BY <1>3 DEF FramesOK
  <2> QED BY <1>3, <2>1, <2>2 DEF FramesOK
<1>5. ASSUME NEW i \in 1 .. Len(frames'[w]), i > Len(frames'[w]) - req'[w].open
      PROVE  frames'[w][i].user \in {None, req'[w].client}
  <2>1. i \in 1 .. Len(frames[w]) - 1 /\ i > Len(frames[w]) - req[w].open
    BY <1>1, <1>2, <1>3, <1>5
  <2>2. i \in 1 .. Len(frames[w])
    BY <1>1, <2>1
  <2> QED BY <1>2, <1>3, <2>1, <2>2 DEF OwnFrames
<1>6. OwnFrames'
  BY <1>3, <1>5 DEF OwnFrames
<1> QED BY <1>4, <1>6

\* Nothing names the token that a login makes, and no request has it.
LEMMA FreshToken ==
    ASSUME Typed, ReqOK, NEW t \in Tokens \ Made, NEW a \in Apps
    PROVE  /\ rows[t] = None /\ t \notin out
           /\ \A c \in Clients, b \in Apps : ~Names(c, b, t)
           /\ \A v \in Workers : req[v].token # t
<1>1. rows[t] = None /\ t \notin out
  BY DEF Made
<1>2. ASSUME NEW c \in Clients, NEW b \in Apps PROVE jar[c][b] # t
  BY DEF Made
<1>3. ASSUME NEW v \in Workers, NEW b \in Apps
      PROVE  req[v].token # t /\ req[v].sent[b] # t /\ req[v].set[b] # t
  <2> DEFINE names(u, x) == {req[u].token, req[u].sent[x], req[u].set[x]}
  <2>1. t \notin UNION {names(u, x) : u \in Workers, x \in Apps}
    BY DEF Made
  <2>2. t \notin names(v, b)
    <3> HIDE DEF names
    <3> QED BY <2>1
  <2> QED BY <2>2
<1> QED BY <1>1, <1>2, <1>3 DEF Names

LEMMA CommitStep ==
    ASSUME LoginInv, NEW w \in Workers, LoginEnd(w), Top(w).user # None
    PROVE  LoginInv'
<1>0. Typed /\ ReqOK /\ FramesOK /\ OwnFrames /\ OwnSec /\ OwnRows /\ Pending /\ LoggedOutStaysOut
  BY DEF LoginInv
<1>1. /\ req[w].pc = "page" /\ req[w].open > 0 /\ req[w].client \in Clients
      /\ req[w].open \in 0 .. MaxDepth /\ MaxDepth \in Nat /\ CommitLogin(w, Top(w))
      /\ frames' = [frames EXCEPT ![w] = Pop(frames[w])]
      /\ jar' = jar /\ clock' = clock /\ requests' = requests /\ hollow' = hollow
  BY <1>0, Fields, BoundAssumption DEF LoginEnd, End, RequestOK
<1> DEFINE f == Top(w)
<1>2. /\ f \in Frame /\ f.user = req[w].client /\ f.app \in Apps /\ f.idle \in Idles
  BY <1>0, <1>1, TopIsOwn DEF Frame
<1> DEFINE login == [client |-> f.user, app |-> f.app, roles |-> TRUE]
           row == [client |-> f.user, app |-> f.app, roles |-> FALSE,
                   last |-> clock, idle |-> f.idle]
           with(t) == [req[w] EXCEPT !.pc = "roles", !.token = t, !.app = f.app,
                                     !.idle = f.idle, !.open = @ - 1]
<1>3. PICK t \in Tokens \ Made :
          rows' \in {rows, [rows EXCEPT ![t] = row]} /\ req' = [req EXCEPT ![w] = with(t)]
  BY <1>1 DEF CommitLogin
<1> DEFINE r == with(t)
<1>4. req' = [req EXCEPT ![w] = r] /\ sec' = [sec EXCEPT ![w] = login]
      /\ out' = out /\ late' = late
  BY <1>1, <1>3 DEF CommitLogin
<1>5. /\ login \in Login /\ login.client = req[w].client /\ login.app = f.app
      /\ row \in Row /\ row.client = req[w].client /\ row.app = f.app
  BY <1>0, <1>1, <1>2 DEF Login, Row, Typed
<1>6. /\ r.pc = "roles" /\ r.token = t /\ r.app = f.app /\ r.idle = f.idle
      /\ r.open = req[w].open - 1 /\ r.client = req[w].client
      /\ r.sent = req[w].sent /\ r.set = req[w].set
  BY <1>0, <1>1, Fields DEF Request
<1>7. r \in Request
  <2>1. req[w].open - 1 \in 0 .. MaxDepth
    BY <1>1
  <2> QED BY <1>0, <1>2, <2>1, Fields, CookieValues DEF Request
<1>8. RequestOK(r)
  BY <1>1, <1>2, <1>6, <1>7, CookieValues DEF RequestOK
<1>9. rows' = rows \/ rows' = [rows EXCEPT ![t] = row]
  BY <1>3
<1> HIDE DEF r, row, login, with, f
<1>10. ReqOK' /\ req'[w] = r /\ \A v \in Workers \ {w} : req'[v] = req[v]
  BY <1>0, <1>4, <1>8, OneRequest
<1>11. /\ sec' \in [Workers -> Login \cup {None}] /\ sec'[w] = login
       /\ \A v \in Workers \ {w} : sec'[v] = sec[v]
  BY <1>0, <1>4, <1>5 DEF Typed
<1>12. /\ rows' \in [Tokens -> Row \cup {None}] /\ \A u \in Tokens \ {t} : rows'[u] = rows[u]
       /\ rows'[t] # None => rows'[t] = rows[t] \/ rows'[t] = row
  BY <1>0, <1>5, <1>9 DEF Typed
<1>13. Typed'
  BY <1>0, <1>1, <1>4, <1>11, <1>12 DEF Typed
<1>14. FramesOK' /\ OwnFrames'
  BY <1>0, <1>1, <1>6, <1>10, StackPopped
<1>15. OwnSec'
  BY <1>0, <1>5, <1>6, <1>10, <1>11 DEF OwnSec
<1>16. NamesKept
  BY <1>1, <1>6, <1>10, CookiesKept DEF SameCookies
<1>17. /\ rows[t] = None /\ t \notin out
       /\ \A c \in Clients, a \in Apps : ~Names(c, a, t)
       /\ \A v \in Workers : req[v].token # t
  BY <1>0, <1>2, FreshToken
<1>18. OwnRows'
  BY <1>0, <1>1, <1>12, <1>16, <1>17 DEF OwnRows, NamesKept
<1>19. LoggedOutStaysOut'
  BY <1>0, <1>4, <1>12, <1>17 DEF LoggedOutStaysOut, Typed
<1>20. Pending'
  <2> SUFFICES ASSUME NEW v \in Workers, NEW u \in Tokens, Pends(v, u)'
               PROVE  /\ sec'[v] # None /\ sec'[v].app = req'[v].app
                      /\ rows'[u] # None => /\ rows'[u].client = req'[v].client
                                            /\ rows'[u].app = req'[v].app
                      /\ \A c \in Clients, a \in Apps : ~Names(c, a, u)'
                      /\ u \notin out' \ late'
                      /\ \A x \in Workers \ {v} : req'[x].token # u
    BY DEF Pending
  <2>1. CASE v = w
    <3>1. u = t
      BY <1>6, <1>10, <2>1 DEF Pends
    <3>2. login # None
      BY <1>5, NoneAssumption
    <3>3. /\ sec'[v] # None /\ sec'[v].app = req'[v].app
          /\ rows'[t] # None => /\ rows'[t].client = req'[v].client
                                /\ rows'[t].app = req'[v].app
      BY <1>5, <1>6, <1>10, <1>11, <1>12, <1>17, <2>1, <3>2
    <3>4. t \notin out' \ late' /\ \A c \in Clients, a \in Apps : ~Names(c, a, t)'
      BY <1>4, <1>16, <1>17 DEF NamesKept
    <3>5. \A x \in Workers \ {v} : req'[x].token # t
      BY <1>10, <1>17, <2>1
    <3> QED BY <3>1, <3>3, <3>4, <3>5
  <2>2. CASE v # w
    <3>1. req'[v] = req[v] /\ sec'[v] = sec[v] /\ Pends(v, u)
      BY <1>10, <1>11, <2>2 DEF Pends
    <3>2. /\ sec[v] # None /\ sec[v].app = req[v].app
          /\ rows[u] # None => rows[u].client = req[v].client /\ rows[u].app = req[v].app
          /\ \A c \in Clients, a \in Apps : ~Names(c, a, u)
          /\ u \notin out \ late
          /\ \A x \in Workers \ {v} : req[x].token # u
      BY <1>0, <3>1 DEF Pending
    <3>3. u # t
      BY <1>17, <3>1 DEF Pends
    <3>4. u \notin out' \ late' /\ \A c \in Clients, a \in Apps : ~Names(c, a, u)'
      BY <1>4, <1>16, <3>2 DEF NamesKept
    <3>5. \A x \in Workers \ {v} : req'[x].token # u
      BY <1>6, <1>10, <3>2, <3>3
    <3> QED BY <1>12, <3>1, <3>2, <3>3, <3>4, <3>5
  <2> QED BY <2>1, <2>2
<1> QED BY <1>10, <1>13, <1>14, <1>15, <1>18, <1>19, <1>20 DEF LoginInv

\* A body that has named no user logs out.
LEMMA NoUserStep ==
    ASSUME LoginInv, NEW w \in Workers, LoginEnd(w), Top(w).user = None
    PROVE  LoginInv'
<1>0. Typed /\ ReqOK /\ FramesOK /\ OwnFrames /\ OwnSec /\ OwnRows /\ Pending /\ LoggedOutStaysOut
  BY DEF LoginInv
<1> DEFINE a == Top(w).app
           with(r) == [r EXCEPT !.open = @ - 1]
<1>1. PICK r \in SetCookie(w, a, {None}) : req' = [req EXCEPT ![w] = with(r)]
  BY DEF LoginEnd, End
<1>2. /\ req[w].pc = "page" /\ req[w].open > 0 /\ req[w].client \in Clients
      /\ req[w].open \in 0 .. MaxDepth /\ MaxDepth \in Nat /\ req[w].token = None
      /\ frames' = [frames EXCEPT ![w] = Pop(frames[w])] /\ sec' = [sec EXCEPT ![w] = None]
      /\ jar' = jar /\ clock' = clock /\ requests' = requests /\ hollow' = hollow
      /\ LogOut({req[w].sent[a]} \cap Tokens)
  BY <1>0, Fields, BoundAssumption DEF LoginEnd, End, RequestOK
<1>3. a \in Apps
  BY <1>0, <1>2, TopIsOwn DEF Frame
<1>4. {req[w].sent[a]} \cap Tokens \in SUBSET Tokens /\ {None} \in SUBSET Values
  BY DEF Values
<1> HIDE DEF a
<1>5. /\ r \in Request /\ r.pc = "page" /\ r.client = req[w].client /\ r.token = None
      /\ r.open = req[w].open /\ r.sent = req[w].sent
      /\ \A b \in Apps : r.set[b] \in {None, req[w].set[b]}
  BY <1>0, <1>2, <1>3, <1>4, CookieSet
<1>6. r.open - 1 \in 0 .. MaxDepth
  BY <1>2, <1>5
<1>7. /\ with(r) \in Request /\ with(r).pc = "page" /\ with(r).client = req[w].client
      /\ with(r).token = None /\ with(r).open = req[w].open - 1
      /\ with(r).sent = req[w].sent /\ with(r).set = r.set
  BY <1>5, <1>6 DEF Request
<1> HIDE DEF with
<1>8. RequestOK(with(r))
  BY <1>2, <1>7 DEF RequestOK
<1>9. ReqOK' /\ req'[w] = with(r) /\ \A v \in Workers \ {w} : req'[v] = req[v]
  BY <1>0, <1>1, <1>8, OneRequest
<1>10. /\ rows' \in [Tokens -> Row \cup {None}] /\ RowsKept
       /\ late' \subseteq out' /\ out' \subseteq Tokens /\ OutKept
  BY <1>0, <1>2, <1>4, LogOutKeeps
<1>11. /\ sec' \in [Workers -> Login \cup {None}] /\ sec'[w] = None
       /\ \A v \in Workers \ {w} : sec'[v] = sec[v]
  BY <1>0, <1>2 DEF Typed
<1>12. Typed'
  BY <1>0, <1>2, <1>10, <1>11 DEF Typed
<1>13. FramesOK' /\ OwnFrames'
  BY <1>0, <1>2, <1>7, <1>9, StackPopped
<1>14. OwnSec'
  BY <1>0, <1>9, <1>11 DEF OwnSec
<1>15. NamesKept
  BY <1>2, <1>5, <1>7, <1>9, CookiesKept DEF SameCookies
<1>16. TokenKept(w)
  BY <1>7, <1>9, <1>11 DEF TokenKept
<1>17. OwnRows' /\ Pending' /\ LoggedOutStaysOut'
  BY <1>0, <1>2, <1>10, <1>12, <1>15, <1>16, KeptSteps DEF Typed
<1> QED BY <1>9, <1>12, <1>13, <1>14, <1>17 DEF LoginInv

\* The token is a cookie's now, and its row, if there is one, is the login's.
LEMMA StoreRolesStep ==
    ASSUME LoginInv, NEW w \in Workers, StoreRoles(w)
    PROVE  LoginInv'
<1>0. Typed /\ ReqOK /\ FramesOK /\ OwnFrames /\ OwnSec /\ OwnRows /\ Pending /\ LoggedOutStaysOut
  BY DEF LoginInv
<1> DEFINE t == req[w].token
           a == req[w].app
           row == [client |-> sec[w].client, app |-> sec[w].app, roles |-> TRUE,
                   last |-> clock, idle |-> req[w].idle]
           with(r) == [r EXCEPT !.pc = "page", !.token = None, !.app = None, !.idle = None]
<1>1. PICK r \in SetCookie(w, a, {t, "quoted"}) : req' = [req EXCEPT ![w] = with(r)]
  BY DEF StoreRoles, Complete
<1>2. /\ \/ rows' = [rows EXCEPT ![t] = row] /\ hollow' = hollow
         \/ rows' = rows /\ hollow' = hollow \cup {t}
      /\ frames' = frames /\ sec' = sec /\ out' = out /\ late' = late
      /\ jar' = jar /\ clock' = clock /\ requests' = requests
  BY DEF StoreRoles, Complete
<1>3. /\ req[w].pc = "roles" /\ req[w].client \in Clients /\ t \in Tokens /\ a \in Apps
      /\ req[w].idle \in Idles /\ req[w].open \in 0 .. req[w].open
  BY <1>0, Fields, BoundAssumption DEF StoreRoles, Complete, RequestOK
<1>4. /\ sec[w] # None /\ sec[w].app = a /\ sec[w].client = req[w].client
      /\ rows[t] # None => rows[t].client = req[w].client /\ rows[t].app = a
      /\ \A c \in Clients, b \in Apps : ~Names(c, b, t)
      /\ t \notin out \ late
      /\ \A v \in Workers \ {w} : req[v].token # t
  BY <1>0, <1>3 DEF Pending, Pends, OwnSec
<1>5. /\ row \in Row /\ row.client = req[w].client /\ row.app = a /\ row.roles = TRUE
  BY <1>0, <1>3, <1>4 DEF Row, Login, Typed
<1>6. /\ r \in Request /\ r.client = req[w].client
      /\ r.open = req[w].open /\ r.sent = req[w].sent
      /\ r.set[a] \in {t, "quoted", req[w].set[a]}
      /\ \A b \in Apps \ {a} : r.set[b] = req[w].set[b]
  <2>1. {t, "quoted"} \in SUBSET Values
    BY <1>3 DEF Values
  <2>2. r.set[a] \in {t, "quoted"} \cup {req[w].set[a]}
    BY <1>0, <1>3, <2>1, CookieSet
  <2> QED BY <1>0, <1>3, <2>1, <2>2, CookieSet
<1>7. /\ with(r) \in Request /\ with(r).pc = "page" /\ with(r).client = req[w].client
      /\ with(r).token = None /\ with(r).open = req[w].open
      /\ with(r).sent = req[w].sent /\ with(r).set = r.set
  BY <1>6, CookieValues DEF Request
<1> HIDE DEF with, row, t, a
<1>8. RequestOK(with(r))
  BY <1>3, <1>7 DEF RequestOK
<1>9. ReqOK' /\ req'[w] = with(r) /\ \A v \in Workers \ {w} : req'[v] = req[v]
  BY <1>0, <1>1, <1>8, OneRequest
<1>10. rows' \in [Tokens -> Row \cup {None}] /\ \A u \in Tokens \ {t} : rows'[u] = rows[u]
  BY <1>0, <1>2, <1>5 DEF Typed
<1>11. /\ rows'[t] # None => rows'[t].client = req[w].client /\ rows'[t].app = a
       /\ rows'[t] # None => rows'[t].roles \/ t \in hollow'
       /\ hollow \subseteq hollow' /\ hollow' \subseteq Tokens
  BY <1>0, <1>2, <1>3, <1>4, <1>5 DEF Typed
<1>12. Typed'
  BY <1>0, <1>2, <1>10, <1>11 DEF Typed
<1>13. FramesOK' /\ OwnFrames'
  BY <1>0, <1>2, <1>3, <1>7, <1>9, StackKept
<1>14. OwnSec'
  BY <1>0, <1>2, <1>3, <1>7, <1>9 DEF OwnSec
<1>15. ASSUME NEW c \in Clients, NEW b \in Apps, NEW u \in Tokens, Names(c, b, u)'
       PROVE  Names(c, b, u) \/ (u = t /\ c = req[w].client /\ b = a)
  <2>1. ASSUME NEW v \in Workers, req'[v].client = c, req'[v].sent[b] = u \/ req'[v].set[b] = u
        PROVE  Names(c, b, u) \/ (u = t /\ c = req[w].client /\ b = a)
    <3>1. CASE v # w
      BY <1>9, <2>1, <3>1 DEF Names
    <3>2. CASE v = w
      <4>1. c = req[w].client /\ (req[w].sent[b] = u \/ r.set[b] = u)
        BY <1>7, <1>9, <2>1, <3>2
      <4>2. CASE req[w].sent[b] = u \/ req[w].set[b] = u
        BY <4>1, <4>2 DEF Names
      <4>3. CASE r.set[b] = u /\ req[w].set[b] # u
        BY <1>6, <4>1, <4>3, NoneAssumption
      <4> QED BY <4>1, <4>2, <4>3
    <3> QED BY <3>1, <3>2
  <2> QED BY <1>2, <1>15, <2>1 DEF Names
<1>16. OwnRows'
  <2> SUFFICES ASSUME NEW c \in Clients, NEW b \in Apps, NEW u \in Tokens,
                      Names(c, b, u)', rows'[u] # None
               PROVE  rows'[u].client = c /\ rows'[u].app = b /\ (rows'[u].roles \/ u \in hollow')
    BY DEF OwnRows
  <2>1. CASE u = t
    BY <1>4, <1>11, <1>15, <2>1
  <2>2. CASE u # t
    <3>1. Names(c, b, u) /\ rows'[u] = rows[u]
      BY <1>10, <1>15, <2>2
    <3> QED BY <1>0, <1>11, <3>1 DEF OwnRows
  <2> QED BY <2>1, <2>2
<1>17. LoggedOutStaysOut'
  BY <1>0, <1>2, <1>4, <1>10 DEF LoggedOutStaysOut, Typed
<1>18. Pending'
  <2> SUFFICES ASSUME NEW v \in Workers, NEW u \in Tokens, Pends(v, u)'
               PROVE  /\ sec'[v] # None /\ sec'[v].app = req'[v].app
                      /\ rows'[u] # None => /\ rows'[u].client = req'[v].client
                                            /\ rows'[u].app = req'[v].app
                      /\ \A c \in Clients, b \in Apps : ~Names(c, b, u)'
                      /\ u \notin out' \ late'
                      /\ \A x \in Workers \ {v} : req'[x].token # u
    BY DEF Pending
  <2>1. v # w /\ req'[v] = req[v] /\ sec'[v] = sec[v] /\ Pends(v, u)
    BY <1>2, <1>7, <1>9 DEF Pends
  <2>2. /\ sec[v] # None /\ sec[v].app = req[v].app
        /\ rows[u] # None => rows[u].client = req[v].client /\ rows[u].app = req[v].app
        /\ \A c \in Clients, b \in Apps : ~Names(c, b, u)
        /\ u \notin out \ late
        /\ \A x \in Workers \ {v} : req[x].token # u
    BY <1>0, <2>1 DEF Pending
  <2>3. u # t /\ u # None
    BY <1>4, <2>1, NoneAssumption DEF Pends
  <2>4. \A c \in Clients, b \in Apps : ~Names(c, b, u)'
    BY <1>15, <2>2, <2>3
  <2>5. \A x \in Workers \ {v} : req'[x].token # u
    BY <1>7, <1>9, <2>2, <2>3
  <2> QED BY <1>2, <1>10, <2>1, <2>2, <2>3, <2>4, <2>5
<1> QED BY <1>9, <1>12, <1>13, <1>14, <1>16, <1>17, <1>18 DEF LoginInv

-------------------------------------------------------------------------------
(* The specification.                                                      *)

LEMMA StutterStep == ASSUME LoginInv, UNCHANGED vars PROVE LoginInv'
<1>1. Typed' /\ ReqOK' /\ FramesOK' /\ OwnFrames'
  BY DEF LoginInv, vars, Typed, ReqOK, FramesOK, OwnFrames
<1>2. OwnSec' /\ OwnRows' /\ Pending' /\ LoggedOutStaysOut'
  BY DEF LoginInv, vars, OwnSec, OwnRows, Pending, Pends, Names, LoggedOutStaysOut
<1> QED BY <1>1, <1>2 DEF LoginInv

LEMMA NextStep == ASSUME LoginInv, [Next]_vars PROVE LoginInv'
<1>1. ASSUME NEW w \in Workers, BeginRequest(w) PROVE LoginInv'
  BY <1>1, BeginRequestStep
<1>2. ASSUME NEW w \in Workers, EndRequest(w) PROVE LoginInv'
  BY <1>2, EndRequestStep
<1>3. ASSUME NEW w \in Workers, LoginBegin(w) PROVE LoginInv'
  BY <1>3, LoginBeginStep
<1>4. ASSUME NEW w \in Workers, Resolve(w) PROVE LoginInv'
  BY <1>4, ResolveStep
<1>5. ASSUME NEW w \in Workers, PurgeIdle(w) PROVE LoginInv'
  BY <1>5, PurgeIdleStep
<1>6. ASSUME NEW w \in Workers, LoginUser(w) PROVE LoginInv'
  BY <1>6, LoginUserStep
<1>7. ASSUME NEW w \in Workers, LoginEnd(w) PROVE LoginInv'
  BY <1>7, CommitStep, NoUserStep
<1>8. ASSUME NEW w \in Workers, StoreRoles(w) PROVE LoginInv'
  BY <1>8, StoreRolesStep
<1>9. ASSUME NEW w \in Workers, LeaveBody(w) PROVE LoginInv'
  BY <1>9, LeaveBodyStep
<1>10. ASSUME NEW w \in Workers, Logout(w) PROVE LoginInv'
  BY <1>10, LogoutStep
<1>11. CASE Tick
  BY <1>11, TickStep
<1>12. CASE UNCHANGED vars
  BY <1>12, StutterStep
<1> QED
  BY <1>1, <1>2, <1>3, <1>4, <1>5, <1>6, <1>7, <1>8, <1>9, <1>10, <1>11, <1>12 DEF Next

LEMMA LoginInvariant == Spec => []LoginInv
<1>1. Init => LoginInv
  BY InitInv
<1>2. LoginInv /\ [Next]_vars => LoginInv'
  BY NextStep
<1> QED BY <1>1, <1>2, PTL DEF Spec

\* The state of the security tags is of its type, and a request never counts more bodies
\* open than g_loginFrames holds.
THEOREM LoginsTypeCorrect == Spec => []TypeOK
<1>1. LoginInv => TypeOK
  BY InvIsSafe
<1> QED BY <1>1, LoginInvariant, PTL

\* No request runs under a login of another client, whatever g_sec and g_loginFrames have
\* kept from earlier requests, and no cookie names another client's row.
THEOREM LoginsAreOwn == Spec => []OwnLogin
<1>1. LoginInv => OwnLogin
  BY InvIsSafe
<1> QED BY <1>1, LoginInvariant, PTL

\* What removeSecurity has deleted is deleted for good: no statement of a loadSecurity that was
\* under way brings the row back, and no storeSecurity but the second one of a login that was
\* between its two when the row was deleted.
THEOREM LoggedOutIsOut == Spec => []LoggedOutStaysOut
<1>1. LoginInv => LoggedOutStaysOut
  BY InvIsSafe
<1> QED BY <1>1, LoginInvariant, PTL

\* A cookie is handed out only when the second storeSecurity has stored the roles, or failed.
THEOREM LoginsAreWhole == Spec => []WholeLogin
<1>1. LoginInv => WholeLogin
  BY InvIsSafe
<1> QED BY <1>1, LoginInvariant, PTL

===============================================================================

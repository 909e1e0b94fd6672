-------------------------------- MODULE Logins --------------------------------
(***************************************************************************)
(* <cflogin>, <cfloginuser>, <cflogout> and the cf_security table that the  *)
(* workers share.  A request brings its client's cookies; a <cflogin> with  *)
(* a cookie whose login is live takes it over and skips its body, any other *)
(* one runs the body, which may name a user, and its end issues a token or  *)
(* logs out.  Each worker keeps the login of its request (g_sec) and a      *)
(* stack of the bodies that have begun (g_loginFrames).                     *)
(*                                                                         *)
(* A user is the client who gave the name.  Tokens are kept in cookies      *)
(* (loginStorage="cookie"); the browser is external.  A token whose base64  *)
(* is padded, as the lengths of names make it, is set in quotes, comes back *)
(* in them, and is the token of no row.                                     *)
(***************************************************************************)
EXTENDS Naturals, Sequences

CONSTANTS Workers, Clients,
          Apps,          \* application tokens
          Tokens,        \* createAuthToken never makes one twice
          None,
          Idles,         \* idle timeouts, 0 for never
          MaxTime,       \* bound on the clock
          MaxDepth,      \* bound on the frames of a worker
          MaxRequests    \* bound on the requests

ASSUME IdleAssumption == Idles \subseteq Nat
ASSUME BoundAssumption == MaxTime \in Nat /\ MaxDepth \in Nat /\ MaxRequests \in Nat

VARIABLES rows,      \* cf_security
          jar,       \* the cookies of each client
          clock,
          requests,  \* how many there have been
          req,       \* the request of each worker
          sec,       \* g_sec
          frames,    \* g_loginFrames, which no request clears
          out,       \* history: tokens that a logout has removed
          late,      \* history: those whose roles were still to be stored when it did
          hollow     \* history: tokens whose roles could not be stored

vars == <<rows, jar, clock, requests, req, sec, frames, out, late, hollow>>

Login == [client : Clients, app : Apps, roles : BOOLEAN]
Row == [client : Clients, app : Apps, roles : BOOLEAN, last : 0 .. MaxTime, idle : Idles]
Frame == [app : Apps, idle : Idles, user : Clients \cup {None}]

ASSUME NoneAssumption ==
    /\ None \notin Tokens \cup Clients \cup Apps \cup Idles \cup Login \cup Row
    /\ {"keep", "quoted"} \cap (Tokens \cup {None}) = {}

\* What a cookie may say; "quoted" is any token in quotes.
Values == Tokens \cup {None, "quoted"}
Cookies == [Apps -> Values]

\* sent: the cookies the request brought; set: those of its response, "keep" for none.
Request == [pc : {"idle", "page", "resolve", "purge", "roles"}, client : Clients \cup {None},
            app : Apps \cup {None}, idle : Idles \cup {None}, at : 0 .. MaxTime,
            token : Values, open : 0 .. MaxDepth, sent : Cookies,
            set : [Apps -> Values \cup {"keep"}]]

NoCookies == [a \in Apps |-> None]
NoRequest == [pc |-> "idle", client |-> None, app |-> None, idle |-> None, at |-> 0,
              token |-> None, open |-> 0, sent |-> NoCookies,
              set |-> [a \in Apps |-> "keep"]]

\* The tokens that something still names; any other is as good as new.
Made == {t \in Tokens : rows[t] # None} \cup out \cup hollow
        \cup {jar[c][a] : c \in Clients, a \in Apps}
        \cup UNION {{req[w].token, req[w].sent[a], req[w].set[a]} : w \in Workers, a \in Apps}

TypeOK ==
    /\ rows \in [Tokens -> Row \cup {None}]
    /\ jar \in [Clients -> Cookies]
    /\ clock \in 0 .. MaxTime /\ requests \in 0 .. MaxRequests
    /\ req \in [Workers -> Request]
    /\ sec \in [Workers -> Login \cup {None}]
    /\ frames \in [Workers -> Seq(Frame)]
    /\ \A w \in Workers : req[w].open <= Len(frames[w])
    /\ late \subseteq out /\ out \subseteq Tokens /\ hollow \subseteq Tokens

Init ==
    /\ rows = [t \in Tokens |-> None]
    /\ jar = [c \in Clients |-> NoCookies]
    /\ clock = 0 /\ requests = 0
    /\ req = [w \in Workers |-> NoRequest]
    /\ sec = [w \in Workers |-> None]
    /\ frames = [w \in Workers |-> <<>>]
    /\ out = {} /\ late = {} /\ hollow = {}

Top(w) == frames[w][Len(frames[w])]
Pop(seq) == SubSeq(seq, 1, Len(seq) - 1)
Delete(tokens) == rows' = [t \in Tokens |-> IF t \in tokens THEN None ELSE rows[t]]

\* setAuthCookie sets the cookie to one of "values"; a flushed response keeps what it has.
SetCookie(w, a, values) == {[req[w] EXCEPT !.set[a] = v] : v \in values \cup {req[w].set[a]}}

-------------------------------------------------------------------------------
(* Requests.                                                               *)

BeginRequest(w) ==
    /\ req[w].pc = "idle" /\ requests < MaxRequests
    /\ requests' = requests + 1
    /\ \E c \in Clients :
          req' = [req EXCEPT ![w] = [NoRequest EXCEPT !.pc = "page", !.client = c,
                                                      !.sent = jar[c]]]
    /\ sec' = [sec EXCEPT ![w] = None]
    /\ UNCHANGED <<rows, jar, clock, frames, out, late, hollow>>

\* The response arrives; what an error or a jump has left stays in frames.
EndRequest(w) ==
    /\ req[w].pc = "page"
    /\ LET c == req[w].client
           new == [a \in Apps |-> IF req[w].set[a] = "keep" THEN jar[c][a] ELSE req[w].set[a]]
       IN jar' = [jar EXCEPT ![c] = new]
    /\ req' = [req EXCEPT ![w] = NoRequest]
    /\ UNCHANGED <<rows, clock, requests, sec, frames, out, late, hollow>>

\* Nothing but a row has an age.
Tick ==
    /\ clock < MaxTime /\ \E t \in Tokens : rows[t] # None
    /\ clock' = clock + 1
    /\ UNCHANGED <<rows, jar, requests, req, sec, frames, out, late, hollow>>

-------------------------------------------------------------------------------
(* <cflogin>: its begin, the statements of loadSecurity, its body, its end. *)

Enter(w, r) ==
    /\ req' = [req EXCEPT ![w] = [r EXCEPT !.pc = "page", !.open = @ + 1, !.app = None,
                                           !.idle = None, !.token = None, !.at = 0]]
    /\ frames' = [frames EXCEPT ![w] = Append(@, [app |-> r.app, idle |-> r.idle,
                                                  user |-> None])]

LoginBegin(w) ==
    /\ req[w].pc = "page" /\ Len(frames[w]) < MaxDepth
    /\ \E a \in Apps, i \in Idles :
          LET r == [req[w] EXCEPT !.app = a, !.idle = i] IN
          IF r.sent[a] = None
          THEN Enter(w, r)
          ELSE /\ req' = [req EXCEPT ![w] = [r EXCEPT !.pc = "resolve", !.at = clock,
                                                      !.token = r.sent[a]]]
               /\ UNCHANGED frames
    /\ UNCHANGED <<rows, jar, clock, requests, sec, out, late, hollow>>

IsLive(t, now) ==
    t \in Tokens /\ rows[t] # None /\ (rows[t].idle = 0 \/ now <= rows[t].last + rows[t].idle)

\* The two SELECTs and the UPDATE are one transaction, whose UPDATE fails, unnoticed,
\* if another worker has written since.  A live login skips the body.
Resolve(w) ==
    /\ req[w].pc = "resolve"
    /\ LET t == req[w].token IN
       IF IsLive(t, req[w].at)
       THEN /\ rows' \in {rows, [rows EXCEPT ![t].last = req[w].at]}
            /\ sec' = [sec EXCEPT ![w] = [client |-> rows[t].client, app |-> rows[t].app,
                                          roles |-> rows[t].roles]]
            /\ req' = [req EXCEPT ![w] = [@ EXCEPT !.pc = "page", !.app = None, !.idle = None,
                                                   !.token = None, !.at = 0]]
       ELSE req' = [req EXCEPT ![w].pc = "purge"] /\ UNCHANGED <<rows, sec>>
    /\ UNCHANGED <<jar, clock, requests, frames, out, late, hollow>>

\* The DELETE is another transaction, and asks for nothing but the token.
PurgeIdle(w) ==
    /\ req[w].pc = "purge"
    /\ \/ Delete({req[w].token}) \/ UNCHANGED rows
    /\ Enter(w, req[w])
    /\ UNCHANGED <<jar, clock, requests, sec, out, late, hollow>>

\* <cfloginuser>: the frame on top, or the request itself where there is none.
LoginUser(w) ==
    /\ req[w].pc = "page"
    /\ IF frames[w] # <<>>
       THEN /\ frames' = [frames EXCEPT ![w][Len(frames[w])].user = req[w].client]
            /\ UNCHANGED sec
       ELSE /\ \E a \in Apps :
                  sec' = [sec EXCEPT ![w] = [client |-> req[w].client, app |-> a,
                                             roles |-> TRUE]]
            /\ UNCHANGED frames
    /\ UNCHANGED <<rows, jar, clock, requests, req, out, late, hollow>>

\* The token is stored without roles first.
CommitLogin(w, frame) ==
    /\ sec' = [sec EXCEPT ![w] = [client |-> frame.user, app |-> frame.app, roles |-> TRUE]]
    /\ \E t \in Tokens \ Made :
          /\ rows' \in {rows, [rows EXCEPT ![t] = [client |-> frame.user, app |-> frame.app,
                               roles |-> FALSE, last |-> clock, idle |-> frame.idle]]}
          /\ req' = [req EXCEPT ![w] = [req[w] EXCEPT !.pc = "roles", !.token = t,
                                        !.app = frame.app, !.idle = frame.idle,
                                        !.open = @ - 1]]
    /\ UNCHANGED <<out, late>>

\* A login that is still to store its roles is late from this logout to the next.
Leaves(tokens) ==
    /\ out' = out \cup tokens
    /\ late' = (late \ tokens) \cup {t \in tokens : \E v \in Workers : req[v].pc = "roles"
                                                                     /\ req[v].token = t}

\* The mutated form: only the cookie goes.
LogOutCookie(tokens) == UNCHANGED rows /\ Leaves(tokens)

\* removeSecurity may fail, unnoticed.
LogOut(tokens) == \E removed \in {tokens, {}} : Delete(removed) /\ Leaves(removed)

\* </cflogin> of a body that has run: no user means a logout.
End(w, frame, rest) ==
    /\ req[w].pc = "page" /\ req[w].open > 0
    /\ frames' = [frames EXCEPT ![w] = rest]
    /\ IF frame.user # None
       THEN CommitLogin(w, frame)
       ELSE /\ sec' = [sec EXCEPT ![w] = None]
            /\ \E r \in SetCookie(w, frame.app, {None}) :
                  req' = [req EXCEPT ![w] = [r EXCEPT !.open = @ - 1]]
            /\ LogOut({req[w].sent[frame.app]} \cap Tokens)
    /\ UNCHANGED <<jar, clock, requests, hollow>>

\* The mutated form: the frame at the bottom.
LoginEndBottom(w) == End(w, Head(frames[w]), Tail(frames[w]))

LoginEnd(w) == End(w, Top(w), Pop(frames[w]))

\* The second statement of a login, then the cookie.
Complete(w, stored) ==
    /\ req[w].pc = "roles"
    /\ LET t == req[w].token
           row == [client |-> sec[w].client, app |-> sec[w].app, roles |-> TRUE,
                   last |-> clock, idle |-> req[w].idle]
       IN /\ \/ rows' = [rows EXCEPT ![t] = IF stored THEN row ELSE @] /\ UNCHANGED hollow
             \/ UNCHANGED rows /\ hollow' = hollow \cup {t}
          /\ \E r \in SetCookie(w, req[w].app, {t, "quoted"}) :
                req' = [req EXCEPT ![w] = [r EXCEPT !.pc = "page", !.token = None, !.app = None,
                                                    !.idle = None]]
    /\ UNCHANGED <<jar, clock, requests, sec, frames, out, late>>

\* The mutated form: what createAuthToken has stored must do.
StoreRolesNot(w) == Complete(w, FALSE)

StoreRoles(w) == Complete(w, TRUE)

\* The mutated form: the frame is dropped, the body goes on.
LeaveBodyCounted(w) ==
    /\ req[w].pc = "page" /\ req[w].open > 0
    /\ frames' = [frames EXCEPT ![w] = Pop(@)]
    /\ UNCHANGED <<rows, jar, clock, requests, req, sec, out, late, hollow>>

\* An exception, a jump or an abort leaves the body; nothing pops its frame.
LeaveBody(w) ==
    /\ req[w].pc = "page" /\ req[w].open > 0
    /\ req' = [req EXCEPT ![w].open = @ - 1]
    /\ UNCHANGED <<rows, jar, clock, requests, sec, frames, out, late, hollow>>

\* What a session="current", and a session="all", remove.
Named(w, a) ==
    IF req[w].sent[a] = None THEN {{}}
    ELSE {{req[w].sent[a]} \cap Tokens, {u \in Tokens : rows[u] # None /\ rows[u].app = a}}

\* <cflogout>; session="others" removes no row, and clears the cookie all the same.
Logout(w) ==
    /\ req[w].pc = "page"
    /\ \E a \in Apps :
          /\ \/ UNCHANGED <<rows, sec, out, late>>
             \/ /\ \E tokens \in Named(w, a) : LogOut(tokens)
                /\ sec' = [sec EXCEPT ![w] = None]
          /\ \E r \in SetCookie(w, a, {None}) : req' = [req EXCEPT ![w] = r]
    /\ UNCHANGED <<jar, clock, requests, frames, hollow>>

Next ==
    \/ \E w \in Workers :
          \/ BeginRequest(w) \/ EndRequest(w)
          \/ LoginBegin(w) \/ Resolve(w) \/ PurgeIdle(w)
          \/ LoginUser(w) \/ LoginEnd(w) \/ StoreRoles(w) \/ LeaveBody(w) \/ Logout(w)
    \/ Tick

Spec == Init /\ [][Next]_vars

-------------------------------------------------------------------------------
(* Properties.                                                             *)

\* A request runs under a login of its own client, and a client's cookies name logins
\* of its own, whatever earlier requests have left on the worker (g_sec, g_loginFrames).
OwnLogin ==
    /\ \A w \in Workers :
          req[w].pc # "idle" /\ sec[w] # None => sec[w].client = req[w].client
    /\ \A c \in Clients, a \in Apps :
          LET t == jar[c][a] IN
          t \in Tokens /\ rows[t] # None => rows[t].client = c /\ rows[t].app = a

\* A login that a logout has removed comes back in one way only: the logout came between the
\* two storeSecurity of that login, and the second, an upsert, stores it again.  Nothing else
\* that was under way does, be it loadSecurity's UPDATE or a login with another token.
LoggedOutStaysOut == \A t \in out \ late : rows[t] = None

\* A cookie never names a login without its roles, which the first storeSecurity leaves
\* out, unless the second one failed.
WholeLogin ==
    \A c \in Clients, a \in Apps :
        LET t == jar[c][a] IN
        t \in Tokens \ hollow /\ rows[t] # None => rows[t].roles
===============================================================================

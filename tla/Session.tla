------------------------------ MODULE Session ------------------------------
(***************************************************************************)
(* The sessions of one user: refresh, logout and logoutAll of              *)
(* auth.service.ts, one action for each statement they send to the         *)
(* database, and the pages that call them.  The tabs of a browser share    *)
(* its refresh_token cookie.                                               *)
(*                                                                         *)
(* A refresh token is a JWT of the session's id and of the second it was   *)
(* issued in, and of nothing else that changes: two tokens issued for one  *)
(* session in one second are the same token.                               *)
(*                                                                         *)
(* A definition Name_Variant is Name with a plausible mistake in it.  No   *)
(* specification uses it; it is there to show that the properties notice.  *)
(***************************************************************************)
EXTENDS Naturals, FiniteSets

CONSTANTS
    Sessions,      \* ids a session can get
    Browsers,
    Tabs,          \* the tabs of each browser
    Lifetime,      \* seconds a refresh token lives
    MaxTime,       \* bound: the clock stops here
    MaxRequests,   \* bound: requests sent to the server
    None

VARIABLES
    now,        \* the second it is
    session,    \* the rows of Session; None for one not created yet
    jar,        \* the refresh_token cookie of each browser
    page,       \* what AuthContext shows in each tab
    waiting,    \* the request whose answer a tab awaits: its refreshPromise or its logout
    requests,   \* requests whose answers have not arrived
    sent,       \* how many have been sent
    accepted    \* history: the renewals made, the token presented and the one issued

vars == <<now, session, jar, page, waiting, requests, sent, accepted>>

Pages == Browsers \X Tabs
Browser(p) == p[1]
Tokens == [session : Sessions, iat : 0..MaxTime]
Rows == [hash : Tokens, expiresAt : Nat, revoked : BOOLEAN]
TokenOrNone == Tokens \cup {None}

\* What the constants must satisfy.
SessionConstants ==
    /\ Lifetime \in Nat \ {0}
    /\ MaxTime \in Nat
    /\ MaxRequests \in Nat
    /\ None \notin Tokens \cup Rows

\* generateRefreshToken, now.
generateRefreshToken(s) == [session |-> s, iat |-> now]
getTokenExpiration(token) == token.iat + Lifetime
verifyRefreshToken(token) == now < getTokenExpiration(token)

Row(token) == [hash |-> token, expiresAt |-> getTokenExpiration(token), revoked |-> FALSE]
Revoked(row) == [row EXCEPT !.revoked = TRUE]

(***************************************************************************)
(* The pages.                                                              *)
(***************************************************************************)
RequestRecords ==
    [id : 1..MaxRequests, kind : {"refresh", "logout", "logoutAll"}, page : Pages,
     token : TokenOrNone, pc : {"start", "rotate", "revoke", "answer"},
     issued : TokenOrNone, heard : BOOLEAN]

Request(kind, p, token) ==
    [id |-> sent + 1, kind |-> kind, page |-> p, token |-> token, pc |-> "start",
     issued |-> None, heard |-> TRUE]

\* The page sends a request and waits for the answer.
Send(kind, p, token) ==
    /\ sent < MaxRequests
    /\ sent' = sent + 1
    /\ requests' = requests \cup {Request(kind, p, token)}
    /\ waiting' = [waiting EXCEPT ![p] = sent + 1]

\* refreshAccessToken: StrictMode may run the effect twice, and the second run
\* finds the refreshPromise of the first.
refreshAccessToken(p, token) == Send("refresh", p, token)

\* bootstrapAuth.  Without a cookie the server refuses the request.
Bootstrap(p, token) ==
    IF token = None
    THEN /\ page' = [page EXCEPT ![p] = "out"]
         /\ waiting' = [waiting EXCEPT ![p] = None]
         /\ UNCHANGED <<requests, sent>>
    ELSE /\ refreshAccessToken(p, token)
         /\ page' = [page EXCEPT ![p] = "loading"]

\* A tab is opened or reloaded.
Load(p) ==
    /\ Bootstrap(p, jar[Browser(p)])
    /\ UNCHANGED <<now, session, jar, accepted>>

\* createAuthenticatedSession, after which the browser is sent to a page.
SignIn(p, s) ==
    /\ page[p] \in {"closed", "out"}
    /\ session[s] = None
    /\ LET token == generateRefreshToken(s)
       IN  /\ session' = [session EXCEPT ![s] = Row(token)]
           /\ jar' = [jar EXCEPT ![Browser(p)] = token]
           /\ Bootstrap(p, token)
    /\ UNCHANGED <<now, accepted>>

\* getMe answers, or fails and the page forgets its access token.
GetMe(p) ==
    /\ page[p] = "fetchingUser"
    /\ \E outcome \in {"in", "out"} : page' = [page EXCEPT ![p] = outcome]
    /\ UNCHANGED <<now, session, jar, waiting, requests, sent, accepted>>

\* The logout of AuthContext.  Without a cookie the server has nothing to do.
Logout(p) ==
    /\ page[p] = "in"
    /\ waiting[p] = None
    /\ IF jar[Browser(p)] = None
       THEN page' = [page EXCEPT ![p] = "out"] /\ UNCHANGED <<waiting, requests, sent>>
       ELSE Send("logout", p, jar[Browser(p)]) /\ UNCHANGED page
    /\ UNCHANGED <<now, session, jar, accepted>>

\* A client with an access token calls logout-all.
LogoutAll(p) ==
    /\ page[p] = "in"
    /\ waiting[p] = None
    /\ Send("logoutAll", p, None)
    /\ UNCHANGED <<now, session, jar, page, accepted>>

(***************************************************************************)
(* The server.                                                             *)
(***************************************************************************)
Becomes(q, r) == requests' = (requests \ {q}) \cup {r}
Goes(q, pc)   == Becomes(q, [q EXCEPT !.pc = pc])

\* refresh checks the token and the session it reads, and issues the next token.
RefreshRead(q) ==
    /\ q.kind = "refresh" /\ q.pc = "start"
    /\ LET row == session[q.token.session]
       IN  IF ~verifyRefreshToken(q.token) \/ row.revoked \/ row.expiresAt <= now
           THEN Goes(q, "answer")
           ELSE Becomes(q, [q EXCEPT !.pc = "rotate",
                                     !.issued = generateRefreshToken(q.token.session)])
    /\ UNCHANGED <<now, session, jar, page, waiting, sent, accepted>>

\* The rows that rotateSession updates: with one condition of two, and with both.
Rotatable_AnyHash(row, token)     == ~row.revoked
Rotatable_EvenRevoked(row, token) == row.hash = token
Rotatable(row, token)             == row.hash = token /\ ~row.revoked

Renewed_SameExpiry(row, token) == [row EXCEPT !.hash = token]
Renewed(row, token) ==
    [row EXCEPT !.hash = token, !.expiresAt = getTokenExpiration(token)]

\* rotateSession, one UPDATE; when it updates nothing the token was used before.
RotateSession(q) ==
    /\ q.pc = "rotate"
    /\ IF Rotatable(session[q.token.session], q.token)
       THEN /\ session' = [session EXCEPT ![q.token.session] = Renewed(@, q.issued)]
            /\ accepted' = accepted \cup {[token |-> q.token, renewed |-> q.issued]}
            /\ Goes(q, "answer")
       ELSE /\ Becomes(q, [q EXCEPT !.pc = "revoke", !.issued = None])
            /\ UNCHANGED <<session, accepted>>
    /\ UNCHANGED <<now, jar, page, waiting, sent>>

\* logout ends a session whose current token it is given.
Ends(row, token) == ~row.revoked /\ row.hash = token

LogoutRead(q) ==
    /\ q.kind = "logout" /\ q.pc = "start"
    /\ Goes(q, IF verifyRefreshToken(q.token) /\ Ends(session[q.token.session], q.token)
               THEN "revoke" ELSE "answer")
    /\ UNCHANGED <<now, session, jar, page, waiting, sent, accepted>>

\* revokeSession, whatever happened to the session meanwhile.
RevokeSession(q) ==
    /\ q.pc = "revoke"
    /\ session' = [session EXCEPT ![q.token.session] = Revoked(@)]
    /\ Goes(q, "answer")
    /\ UNCHANGED <<now, jar, page, waiting, sent, accepted>>

RevokeAllSessions(q) ==
    /\ q.kind = "logoutAll" /\ q.pc = "start"
    /\ session' = [s \in Sessions |-> IF session[s] = None THEN None ELSE Revoked(session[s])]
    /\ Goes(q, "answer")
    /\ UNCHANGED <<now, jar, page, waiting, sent, accepted>>

Serve(q) == \/ RefreshRead(q) \/ RotateSession(q) \/ LogoutRead(q)
            \/ RevokeSession(q) \/ RevokeAllSessions(q)

(***************************************************************************)
(* Answers.                                                                *)
(***************************************************************************)
\* What the tab shows once the promise it awaits is settled.
Settled(q) ==
    CASE q.kind = "refresh" /\ q.issued # None -> "fetchingUser"
      [] q.kind = "refresh" /\ q.issued = None -> "out"
      [] q.kind = "logout" -> "out"
      [] q.kind = "logoutAll" -> "in"

\* The tab learns the outcome, unless it has been reloaded since.
Tell(q) ==
    IF waiting[q.page] = q.id
    THEN /\ waiting' = [waiting EXCEPT ![q.page] = None]
         /\ page' = [page EXCEPT ![q.page] = Settled(q)]
    ELSE UNCHANGED <<waiting, page>>

\* The cookie an answer leaves in the browser.
Cookie(q) == CASE q.kind = "refresh" /\ q.issued # None -> q.issued
               [] q.kind = "logout" -> None
               [] OTHER -> jar[Browser(q.page)]

\* The browser gets the answer and stores its cookie.
Answer(q) ==
    /\ q.pc = "answer"
    /\ requests' = requests \ {q}
    /\ IF q.heard THEN /\ jar' = [jar EXCEPT ![Browser(q.page)] = Cookie(q)]
                       /\ Tell(q)
       ELSE UNCHANGED <<jar, page, waiting>>
    /\ UNCHANGED <<now, session, sent, accepted>>

\* The connection breaks, by the network or because the tab reloads: the
\* request may never have arrived, and if it has the server carries on.
Disconnect(q) ==
    /\ q.heard
    /\ \/ q.pc = "start" /\ requests' = requests \ {q}
       \/ Becomes(q, [q EXCEPT !.heard = FALSE])
    /\ Tell([q EXCEPT !.issued = None])
    /\ UNCHANGED <<now, session, jar, sent, accepted>>

Tick ==
    /\ now < MaxTime
    /\ now' = now + 1
    /\ UNCHANGED <<session, jar, page, waiting, requests, sent, accepted>>

Init ==
    /\ now = 0
    /\ session = [s \in Sessions |-> None]
    /\ jar = [b \in Browsers |-> None]
    /\ page = [p \in Pages |-> "closed"]
    /\ waiting = [p \in Pages |-> None]
    /\ requests = {}
    /\ sent = 0
    /\ accepted = {}

Next ==
    \/ \E p \in Pages : Load(p) \/ GetMe(p) \/ Logout(p) \/ LogoutAll(p)
    \/ \E p \in Pages, s \in Sessions : SignIn(p, s)
    \/ \E q \in requests : Serve(q) \/ Answer(q) \/ Disconnect(q)
    \/ Tick

Spec == Init /\ [][Next]_vars

-----------------------------------------------------------------------------
(***************************************************************************)
(* Properties.                                                             *)
(***************************************************************************)
\* Every variable has its type; a session's token is its own, and a request that
\* may change a session is about one that exists.
TypeOK ==
    /\ now \in 0..MaxTime
    /\ session \in [Sessions -> Rows \cup {None}]
    /\ jar \in [Browsers -> TokenOrNone]
    /\ page \in [Pages -> {"closed", "loading", "fetchingUser", "in", "out"}]
    /\ waiting \in [Pages -> 1..MaxRequests \cup {None}]
    /\ requests \subseteq RequestRecords
    /\ sent \in 0..MaxRequests
    /\ accepted \subseteq [token : Tokens, renewed : Tokens]
    /\ \A s \in Sessions :
         session[s] # None =>
            /\ session[s].hash.session = s
            /\ session[s].expiresAt = getTokenExpiration(session[s].hash)
    /\ \A q \in requests :
         q.kind # "logoutAll" => q.token # None /\ session[q.token.session] # None

\* A logout is final for the session it ends: no refresh that read the session
\* before renews it after, and nothing restores it.
RevokedForGood ==
    [][\A s \in Sessions :
         session[s] # None /\ session[s].revoked => session'[s] = session[s]]_vars

\* A token that has been exchanged for another is never accepted again,
\* however the requests that present it interleave and however late they come.
\* (A token renewed in the second of its issue is exchanged for itself.)
ExchangedIsDead ==
    \A s \in Sessions :
        session[s] # None =>
            \A a \in accepted : a.token = session[s].hash => a.token = a.renewed

=============================================================================

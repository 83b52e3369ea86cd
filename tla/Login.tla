------------------------------- MODULE Login -------------------------------
(***************************************************************************)
(* Signing in with Google: googleLogin and googleCallback of               *)
(* auth.controller.ts and googleLogin of auth.service.ts, one action for   *)
(* each await.  One person signs in from several tabs and browsers.        *)
(*                                                                         *)
(* A flow is one visit to /auth/google.  It sets two cookies together, the *)
(* state it invented and the page to return to; both are written here as   *)
(* the flow.  The tabs of a browser overwrite each other's.                *)
(*                                                                         *)
(* A definition Name_Variant is Name with a plausible mistake in it.  No   *)
(* specification uses it; it is there to show that the properties notice.  *)
(***************************************************************************)
EXTENDS Naturals, FiniteSets

CONSTANTS
    Flows,      \* visits to /auth/google
    Browsers,
    Callbacks,  \* requests to the callback URL; a reload makes another
    None

ASSUME LoginConstants == None \notin Flows \cup Browsers \cup Callbacks

VARIABLES
    cookie,    \* the flow whose state and page a browser's cookies hold, or None
    flow,      \* the browser a flow runs in and what Google did with it
    callback,  \* what each callback request is doing
    used,      \* flows whose authorization code Google has exchanged
    users,     \* number of User rows with the person's googleId
    sessions,  \* the callbacks that created a session
    landed     \* history: where successful callbacks sent the browser

vars == <<cookie, flow, callback, used, users, sessions, landed>>

At(c, pc) == callback[c].pc = pc
Goes(c, pc) == callback' = [callback EXCEPT ![c].pc = pc]
FlowOf(c) == callback[c].flow
BrowserOf(c) == flow[FlowOf(c)].browser

(***************************************************************************)
(* The browser and Google.                                                 *)
(***************************************************************************)
\* googleLogin.
Start(f, b) ==
    /\ flow[f].pc = "new"
    /\ flow' = [flow EXCEPT ![f] = [pc |-> "consent", browser |-> b]]
    /\ cookie' = [cookie EXCEPT ![b] = f]
    /\ UNCHANGED <<callback, used, users, sessions, landed>>

\* Google sends the browser to the callback URL, with a code or with an error.
Consent(f) ==
    /\ flow[f].pc = "consent"
    /\ \E outcome \in {"code", "error"} : flow' = [flow EXCEPT ![f].pc = outcome]
    /\ UNCHANGED <<cookie, callback, used, users, sessions, landed>>

\* The browser requests the callback URL, for the first time or again.
Request(f, c) ==
    /\ flow[f].pc \in {"code", "error"}
    /\ At(c, "new")
    /\ callback' = [callback EXCEPT ![c] =
         [pc |-> "check", flow |-> f, saved |-> cookie[flow[f].browser], ok |-> FALSE]]
    /\ UNCHANGED <<cookie, flow, used, users, sessions, landed>>

\* The cookies live for ten minutes.
Expire(b) ==
    /\ cookie' = [cookie EXCEPT ![b] = None]
    /\ UNCHANGED <<flow, callback, used, users, sessions, landed>>

(***************************************************************************)
(* googleCallback                                                          *)
(***************************************************************************)
\* The callback goes on.
Accepted(c) == flow[FlowOf(c)].pc = "code" /\ callback[c].saved = FlowOf(c)

Check(c) ==
    /\ At(c, "check")
    /\ Goes(c, IF Accepted(c) THEN "exchange" ELSE "answer")
    /\ UNCHANGED <<cookie, flow, used, users, sessions, landed>>

\* The callback goes on without what Google refused.
Exchange_ErrorIgnored(c) ==
    /\ At(c, "exchange")
    /\ used' = used \cup {FlowOf(c)}
    /\ \/ Goes(c, "find user") \/ Goes(c, "answer")
    /\ UNCHANGED <<cookie, flow, users, sessions, landed>>
\* getToken and verifyIdToken: Google exchanges a code once, and the exchange
\* or the verification may fail.
Exchange(c) ==
    /\ At(c, "exchange")
    /\ used' = used \cup {FlowOf(c)}
    /\ \/ FlowOf(c) \notin used /\ Goes(c, "find user")
       \/ Goes(c, "answer")
    /\ UNCHANGED <<cookie, flow, users, sessions, landed>>

FindUser(c) ==
    /\ At(c, "find user")
    /\ Goes(c, IF users > 0 THEN "create session" ELSE "create user")
    /\ UNCHANGED <<cookie, flow, used, users, sessions, landed>>

\* User.googleId is unique: the slower of two first logins fails.
CreateUser(c) ==
    /\ At(c, "create user")
    /\ IF users = 0 THEN users' = 1 /\ Goes(c, "create session")
       ELSE UNCHANGED users /\ Goes(c, "answer")
    /\ UNCHANGED <<cookie, flow, used, sessions, landed>>

CreateSession(c) ==
    /\ At(c, "create session")
    /\ sessions' = sessions \cup {c}
    /\ callback' = [callback EXCEPT ![c].pc = "answer", ![c].ok = TRUE]
    /\ UNCHANGED <<cookie, flow, used, users, landed>>

\* The browser is sent to the page its cookies hold by now.
Answer_CurrentPage(c) ==
    /\ At(c, "answer")
    /\ cookie' = [cookie EXCEPT ![BrowserOf(c)] = None]
    /\ landed' = IF callback[c].ok THEN landed \cup {[callback |-> c, page |-> cookie[BrowserOf(c)]]}
                 ELSE landed
    /\ Goes(c, "done")
    /\ UNCHANGED <<flow, used, users, sessions>>
\* Every answer, of an error too, clears the cookies, whichever flow they are of
\* by now.  A successful one sends the browser to the page its request carried.
Answer(c) ==
    /\ At(c, "answer")
    /\ cookie' = [cookie EXCEPT ![BrowserOf(c)] = None]
    /\ landed' = IF callback[c].ok THEN landed \cup {[callback |-> c, page |-> callback[c].saved]}
                 ELSE landed
    /\ Goes(c, "done")
    /\ UNCHANGED <<flow, used, users, sessions>>

\* The answer is lost, and the cookies stay.
Lose(c) ==
    /\ At(c, "answer")
    /\ Goes(c, "lost")
    /\ UNCHANGED <<cookie, flow, used, users, sessions, landed>>

Serve(c) == \/ Check(c) \/ Exchange(c) \/ FindUser(c) \/ CreateUser(c)
            \/ CreateSession(c) \/ Answer(c)

Init ==
    /\ cookie = [b \in Browsers |-> None]
    /\ flow = [f \in Flows |-> [pc |-> "new", browser |-> None]]
    /\ callback = [c \in Callbacks |-> [pc |-> "new", flow |-> None, saved |-> None, ok |-> FALSE]]
    /\ used = {}
    /\ users = 0
    /\ sessions = {}
    /\ landed = {}

Next ==
    \/ \E f \in Flows : \/ \E b \in Browsers : Start(f, b)
                        \/ Consent(f)
                        \/ \E c \in Callbacks : Request(f, c)
    \/ \E b \in Browsers : Expire(b)
    \/ \E c \in Callbacks : Serve(c) \/ Lose(c)

Spec == Init /\ [][Next]_vars

-----------------------------------------------------------------------------
(***************************************************************************)
(* Properties.                                                             *)
(***************************************************************************)
FlowOrNone == Flows \cup {None}

\* Every variable has its type, and what has succeeded has a session.
TypeOK ==
    /\ cookie \in [Browsers -> FlowOrNone]
    /\ flow \in [Flows -> [pc : {"new", "consent", "code", "error"}, browser : Browsers \cup {None}]]
    /\ callback \in [Callbacks ->
         [pc : {"new", "check", "exchange", "find user", "create user", "create session",
                "answer", "lost", "done"},
          flow : FlowOrNone, saved : FlowOrNone, ok : BOOLEAN]]
    /\ used \subseteq Flows
    /\ users \in 0..1
    /\ sessions = {c \in Callbacks : callback[c].ok}
    /\ landed \subseteq [callback : Callbacks, page : FlowOrNone]

\* One visit to /auth/google creates one session at most, however often its
\* callback is requested: the state is still in the cookie while a callback
\* runs, but Google exchanges the code once.
OneSessionPerFlow ==
    \A c, d \in sessions : FlowOf(c) = FlowOf(d) => c = d

\* Two tabs that sign in at the same time overwrite each other's cookies, and
\* still a login returns to the page it was started from.
ReturnsWhereItStarted == \A l \in landed : l.page = FlowOf(l.callback)
=============================================================================

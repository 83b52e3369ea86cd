--------------------------- MODULE Accounts_proofs ---------------------------
(***************************************************************************)
(* Proofs about Login, Session and Address, and about MCAccounts, which    *)
(* runs them side by side: for any number of browsers, tabs, sessions,     *)
(* requests and addresses.                                                 *)
(***************************************************************************)
EXTENDS MCAccounts, TLAPS

(***************************************************************************)
(* Signing in.                                                             *)
(*                                                                         *)
(* The argument: Google exchanges the code of a flow once, so at most one  *)
(* callback of a flow is past the exchange, and only such a callback can   *)
(* create a session.  It got there because the state in the request's      *)
(* cookie was its own flow, and the page in the request's other cookie was *)
(* set together with that state.                                           *)
(***************************************************************************)
\* The callback is past the exchange and has not failed.
Exchanged(c) ==
    callback[c].pc \in {"find user", "create user", "create session"} \/ callback[c].ok

FlowHasBrowser == \A f \in Flows : flow[f].pc # "new" => flow[f].browser \in Browsers

CallbackHasFlow == \A c \in Callbacks : ~At(c, "new") => FlowOf(c) \in Flows

StateWasChecked ==
    \A c \in Callbacks : At(c, "exchange") \/ Exchanged(c) => callback[c].saved = FlowOf(c)

ExchangedIsUsed == \A c \in Callbacks : Exchanged(c) => FlowOf(c) \in used

ExchangedOnce ==
    \A c, d \in Callbacks : Exchanged(c) /\ Exchanged(d) /\ FlowOf(c) = FlowOf(d) => c = d

OkIsOver == \A c \in Callbacks : callback[c].ok => callback[c].pc \in {"answer", "lost", "done"}

LandedIsOk ==
    \A l \in landed : callback[l.callback].ok /\ l.page = FlowOf(l.callback)

\* The inductive invariant.
LoginInv ==
    /\ FlowHasBrowser
    /\ CallbackHasFlow
    /\ StateWasChecked
    /\ ExchangedIsUsed
    /\ ExchangedOnce
    /\ OkIsOver
    /\ LandedIsOk

\* The invariant holds at the start.
LEMMA LoginInit == Init => TypeOK /\ LoginInv
<1>. SUFFICES ASSUME Init PROVE TypeOK /\ LoginInv
  OBVIOUS
<1>1. \A c \in Callbacks : callback[c] = [pc |-> "new", flow |-> None, saved |-> None, ok |-> FALSE]
  BY DEF Init
<1>2. \A c \in Callbacks : callback[c].pc = "new" /\ callback[c].ok = FALSE
  BY <1>1
<1>3. TypeOK
  <2>1. sessions = {c \in Callbacks : callback[c].ok}
    BY <1>2 DEF Init
  <2>2. cookie \in [Browsers -> FlowOrNone] /\ users \in 0..1
    BY DEF Init, FlowOrNone
  <2>. QED BY <2>1, <2>2 DEF Init, TypeOK, FlowOrNone
<1>4. FlowHasBrowser
  BY DEF Init, FlowHasBrowser
<1>. QED
  BY <1>2, <1>3, <1>4
     DEF Init, LoginInv, CallbackHasFlow, StateWasChecked, ExchangedIsUsed, ExchangedOnce,
         OkIsOver, LandedIsOk, Exchanged, At

\* The places a callback can be in.
Places == {"new", "check", "exchange", "find user", "create user", "create session",
           "answer", "lost", "done"}

\* Moving one callback on changes nothing else about the callbacks.
LEMMA GoesEffect ==
    ASSUME TypeOK, NEW c \in Callbacks, NEW p \in Places, Goes(c, p)
    PROVE  /\ callback' \in [Callbacks -> [pc : Places, flow : FlowOrNone, saved : FlowOrNone,
                                          ok : BOOLEAN]]
           /\ callback'[c].pc = p
           /\ \A d \in Callbacks : /\ d # c => callback'[d].pc = callback[d].pc
                                   /\ callback'[d].flow = callback[d].flow
                                   /\ callback'[d].saved = callback[d].saved
                                   /\ callback'[d].ok = callback[d].ok
           /\ {d \in Callbacks : callback'[d].ok} = {d \in Callbacks : callback[d].ok}
<1>1. callback \in [Callbacks -> [pc : Places, flow : FlowOrNone, saved : FlowOrNone, ok : BOOLEAN]]
  BY DEF TypeOK, Places
<1>2. callback' = [callback EXCEPT ![c].pc = p]
  BY DEF Goes
<1>. HIDE DEF Places
<1>3. callback' \in [Callbacks -> [pc : Places, flow : FlowOrNone, saved : FlowOrNone, ok : BOOLEAN]]
  BY <1>1, <1>2
<1>4. callback'[c].pc = p /\ \A d \in Callbacks : /\ d # c => callback'[d].pc = callback[d].pc
                                                /\ callback'[d].flow = callback[d].flow
                                                /\ callback'[d].saved = callback[d].saved
                                                /\ callback'[d].ok = callback[d].ok
  BY <1>1, <1>2
<1>. QED BY <1>3, <1>4

-----------------------------------------------------------------------------
\* The person's first login makes the one user there is.
LEMMA UsersType ==
    ASSUME users \in 0..1, users' = 1 \/ users' = users
    PROVE  users' \in 0..1
OBVIOUS

\* Every step keeps the types.  A request reads the cookie of the flow's
\* browser, so that a flow that was started has a browser is needed too.
LEMMA LoginTypeNext == TypeOK /\ LoginInv /\ [Next]_vars => TypeOK'
<1>. SUFFICES ASSUME TypeOK, LoginInv, [Next]_vars PROVE TypeOK'
  OBVIOUS
<1>. USE DEF TypeOK, FlowOrNone, At, FlowOf
<1>1. ASSUME NEW f \in Flows, NEW b \in Browsers, Start(f, b) PROVE TypeOK'
  BY <1>1 DEF Start
<1>2. ASSUME NEW f \in Flows, Consent(f) PROVE TypeOK'
  <2>1. PICK o \in {"code", "error"} : flow' = [flow EXCEPT ![f].pc = o]
    BY <1>2 DEF Consent
  <2>2. flow' \in [Flows -> [pc : {"new", "consent", "code", "error"}, browser : Browsers \cup {None}]]
    BY <2>1
  <2>. QED BY <1>2, <2>2 DEF Consent
<1>3. ASSUME NEW f \in Flows, NEW c \in Callbacks, Request(f, c) PROVE TypeOK'
  <2>1. cookie[flow[f].browser] \in Flows \cup {None}
    BY <1>3 DEF Request, LoginInv, FlowHasBrowser
  <2>2. callback[c].ok = FALSE
    BY <1>3 DEF Request, LoginInv, OkIsOver
  <2>. QED BY <1>3, <2>1, <2>2 DEF Request
<1>4. ASSUME NEW b \in Browsers, Expire(b) PROVE TypeOK'
  BY <1>4 DEF Expire
<1>5. ASSUME NEW c \in Callbacks, Check(c) PROVE TypeOK'
  <2>1. PICK p \in {"exchange", "answer"} : Goes(c, p)
    BY <1>5 DEF Check
  <2>2. p \in Places
    BY DEF Places
  <2>3. callback' \in [Callbacks -> [pc : Places, flow : FlowOrNone, saved : FlowOrNone, ok : BOOLEAN]]
        /\ {d \in Callbacks : callback'[d].ok} = {d \in Callbacks : callback[d].ok}
    BY <2>1, <2>2, GoesEffect
  <2>. QED BY <1>5, <2>3 DEF Check, Places
<1>6. ASSUME NEW c \in Callbacks, Exchange(c) PROVE TypeOK'
  <2>1. PICK p \in {"find user", "answer"} : Goes(c, p)
    BY <1>6 DEF Exchange
  <2>2. p \in Places
    BY DEF Places
  <2>3. callback' \in [Callbacks -> [pc : Places, flow : FlowOrNone, saved : FlowOrNone, ok : BOOLEAN]]
        /\ {d \in Callbacks : callback'[d].ok} = {d \in Callbacks : callback[d].ok}
    BY <2>1, <2>2, GoesEffect
  <2>4. FlowOf(c) \in Flows
    BY <1>6 DEF Exchange, LoginInv, CallbackHasFlow
  <2>. QED BY <1>6, <2>3, <2>4 DEF Exchange, Places
<1>7. ASSUME NEW c \in Callbacks, FindUser(c) PROVE TypeOK'
  <2>1. PICK p \in {"create session", "create user"} : Goes(c, p)
    BY <1>7 DEF FindUser
  <2>2. p \in Places
    BY DEF Places
  <2>3. callback' \in [Callbacks -> [pc : Places, flow : FlowOrNone, saved : FlowOrNone, ok : BOOLEAN]]
        /\ {d \in Callbacks : callback'[d].ok} = {d \in Callbacks : callback[d].ok}
    BY <2>1, <2>2, GoesEffect
  <2>. QED BY <1>7, <2>3 DEF FindUser, Places
<1>8. ASSUME NEW c \in Callbacks, CreateUser(c) PROVE TypeOK'
  <2>1. PICK p \in {"create session", "answer"} : Goes(c, p)
    <3>1. CASE users = 0
      BY <1>8, <3>1 DEF CreateUser
    <3>2. CASE users # 0
      BY <1>8, <3>2 DEF CreateUser
    <3>. QED BY <3>1, <3>2
  <2>2. p \in Places
    BY DEF Places
  <2>3. callback' \in [Callbacks -> [pc : Places, flow : FlowOrNone, saved : FlowOrNone, ok : BOOLEAN]]
        /\ {d \in Callbacks : callback'[d].ok} = {d \in Callbacks : callback[d].ok}
    BY <2>1, <2>2, GoesEffect
  <2>4. users' \in 0..1
    <3>1. users' = 1 \/ users' = users
      BY <1>8, Zenon DEF CreateUser
    <3>2. users \in 0..1
      OBVIOUS
    <3>. HIDE DEF TypeOK
    <3>. QED BY <3>1, <3>2, UsersType, Zenon
  <2>. QED BY <1>8, <2>3, <2>4 DEF CreateUser, Places
<1>9. ASSUME NEW c \in Callbacks, CreateSession(c) PROVE TypeOK'
  <2>1. callback' = [callback EXCEPT ![c].pc = "answer", ![c].ok = TRUE]
    BY <1>9 DEF CreateSession
  <2>2. callback' \in [Callbacks -> [pc : Places, flow : FlowOrNone, saved : FlowOrNone, ok : BOOLEAN]]
    <3>1. callback \in [Callbacks -> [pc : Places, flow : FlowOrNone, saved : FlowOrNone, ok : BOOLEAN]]
      BY DEF Places
    <3>2. "answer" \in Places
      BY DEF Places
    <3>. HIDE DEF TypeOK, FlowOrNone
    <3>3. [callback[c] EXCEPT !.pc = "answer", !.ok = TRUE] \in
             [pc : Places, flow : FlowOrNone, saved : FlowOrNone, ok : BOOLEAN]
      BY <3>1, <3>2
    <3>4. callback' = [callback EXCEPT ![c] = [callback[c] EXCEPT !.pc = "answer", !.ok = TRUE]]
      BY <2>1
    <3>. QED BY <3>1, <3>3, <3>4
  <2>3. \A d \in Callbacks : callback'[d].ok = (d = c \/ callback[d].ok)
    BY <2>1
  <2>4. sessions' = {d \in Callbacks : callback'[d].ok}
    BY <1>9, <2>3 DEF CreateSession
  <2>. QED BY <1>9, <2>2, <2>4 DEF CreateSession, Places
<1>10. ASSUME NEW c \in Callbacks, Answer(c) PROVE TypeOK'
  <2>1. PICK p \in {"done"} : Goes(c, p)
    BY <1>10 DEF Answer
  <2>2. p \in Places
    BY DEF Places
  <2>3. callback' \in [Callbacks -> [pc : Places, flow : FlowOrNone, saved : FlowOrNone, ok : BOOLEAN]]
        /\ {d \in Callbacks : callback'[d].ok} = {d \in Callbacks : callback[d].ok}
    BY <2>1, <2>2, GoesEffect
  <2>4. cookie' \in [Browsers -> FlowOrNone]
    BY <1>10 DEF Answer
  <2>5. landed' \subseteq [callback : Callbacks, page : FlowOrNone]
    <3>1. callback[c].saved \in FlowOrNone
      OBVIOUS
    <3>2. CASE callback[c].ok
      <4>1. [callback |-> c, page |-> callback[c].saved] \in [callback : Callbacks, page : FlowOrNone]
        BY <3>1
      <4>. QED BY <1>10, <3>2, <4>1 DEF Answer
    <3>3. CASE ~callback[c].ok
      BY <1>10, <3>3 DEF Answer
    <3>. QED BY <3>2, <3>3
  <2>. QED BY <1>10, <2>3, <2>4, <2>5 DEF Answer, Places
<1>11. ASSUME NEW c \in Callbacks, Lose(c) PROVE TypeOK'
  <2>1. PICK p \in {"lost"} : Goes(c, p)
    BY <1>11 DEF Lose
  <2>2. p \in Places
    BY DEF Places
  <2>3. callback' \in [Callbacks -> [pc : Places, flow : FlowOrNone, saved : FlowOrNone, ok : BOOLEAN]]
        /\ {d \in Callbacks : callback'[d].ok} = {d \in Callbacks : callback[d].ok}
    BY <2>1, <2>2, GoesEffect
  <2>. QED BY <1>11, <2>3 DEF Lose, Places
<1>12. CASE UNCHANGED vars
  BY <1>12 DEF vars
<1>. QED
  BY <1>1, <1>2, <1>3, <1>4, <1>5, <1>6, <1>7, <1>8, <1>9, <1>10, <1>11, <1>12 DEF Next, Serve

-----------------------------------------------------------------------------
\* Moving a callback on keeps the invariant when the place it goes to is
\* justified: the state was checked before the exchange, and the exchange was
\* the first of its flow.
Justified(c, p) ==
    /\ ~At(c, "new") /\ p # "new"
    /\ callback[c].ok => p \in {"answer", "lost", "done"}
    /\ p \in {"exchange", "find user", "create user", "create session"} =>
         callback[c].saved = FlowOf(c)
    /\ p \in {"find user", "create user", "create session"} =>
         /\ FlowOf(c) \in used'
         /\ \A d \in Callbacks : Exchanged(d) /\ FlowOf(d) = FlowOf(c) => d = c

\* A callback that moves on and keeps its flow keeps the invariant.
LEMMA MoveKeepsInv ==
    ASSUME TypeOK, LoginInv, NEW c \in Callbacks, NEW p \in Places, Goes(c, p), Justified(c, p),
           UNCHANGED flow, used \subseteq used'
    PROVE  /\ FlowHasBrowser' /\ CallbackHasFlow' /\ StateWasChecked' /\ ExchangedIsUsed'
           /\ ExchangedOnce' /\ OkIsOver'
           /\ \A l \in landed : callback'[l.callback].ok /\ l.page = callback'[l.callback].flow
<1>1. /\ callback'[c].pc = p
      /\ \A d \in Callbacks : /\ d # c => callback'[d].pc = callback[d].pc
                              /\ callback'[d].flow = callback[d].flow
                              /\ callback'[d].saved = callback[d].saved
                              /\ callback'[d].ok = callback[d].ok
  BY GoesEffect
<1>2. \A d \in Callbacks : Exchanged(d)' /\ ~Exchanged(d) =>
        d = c /\ p \in {"find user", "create user", "create session"}
  <2>1. \A d \in Callbacks : callback'[d].ok <=> callback[d].ok
    BY <1>1
  <2>. QED BY <1>1, <2>1 DEF Exchanged
<1>3. FlowHasBrowser'
  BY DEF LoginInv, FlowHasBrowser
<1>4. CallbackHasFlow'
  BY <1>1 DEF LoginInv, CallbackHasFlow, Justified, At, FlowOf
<1>5. StateWasChecked'
  BY <1>1, <1>2 DEF LoginInv, StateWasChecked, Justified, At, FlowOf
<1>6. ExchangedIsUsed'
  BY <1>1, <1>2 DEF LoginInv, ExchangedIsUsed, Justified, FlowOf
<1>7. ExchangedOnce'
  <2>1. SUFFICES ASSUME NEW d \in Callbacks, NEW e \in Callbacks,
                        Exchanged(d)', Exchanged(e)', FlowOf(d)' = FlowOf(e)'
                 PROVE  d = e
    BY DEF ExchangedOnce
  <2>2. FlowOf(d) = FlowOf(e)
    BY <1>1, <2>1 DEF FlowOf
  <2>3. CASE Exchanged(d) /\ Exchanged(e)
    BY <2>2, <2>3 DEF LoginInv, ExchangedOnce
  <2>4. CASE ~Exchanged(d)
    BY <1>2, <2>1, <2>2, <2>4 DEF Justified
  <2>5. CASE ~Exchanged(e)
    BY <1>2, <2>1, <2>2, <2>5 DEF Justified
  <2>. QED BY <2>3, <2>4, <2>5
<1>8. OkIsOver'
  BY <1>1 DEF LoginInv, OkIsOver, Justified
<1>9. \A l \in landed : callback'[l.callback].ok /\ l.page = callback'[l.callback].flow
  BY <1>1 DEF TypeOK, LoginInv, LandedIsOk, FlowOf
<1>. QED BY <1>3, <1>4, <1>5, <1>6, <1>7, <1>8, <1>9

\* Every step keeps the invariant.
LEMMA LoginInvNext == TypeOK /\ LoginInv /\ [Next]_vars => LoginInv'
<1>. SUFFICES ASSUME TypeOK, LoginInv, [Next]_vars PROVE LoginInv'
  OBVIOUS
<1>1. ASSUME NEW f \in Flows, NEW b \in Browsers, Start(f, b) PROVE LoginInv'
  <2>1. FlowHasBrowser'
    BY <1>1 DEF Start, TypeOK, LoginInv, FlowHasBrowser
  <2>. QED
    BY <1>1, <2>1 DEF Start, LoginInv, CallbackHasFlow, StateWasChecked, ExchangedIsUsed,
                      ExchangedOnce, OkIsOver, LandedIsOk, Exchanged, At, FlowOf
<1>2. ASSUME NEW f \in Flows, Consent(f) PROVE LoginInv'
  <2>1. PICK o \in {"code", "error"} : flow' = [flow EXCEPT ![f].pc = o]
    BY <1>2 DEF Consent
  <2>2. FlowHasBrowser'
    BY <2>1, <1>2 DEF Consent, TypeOK, LoginInv, FlowHasBrowser
  <2>. QED
    BY <1>2, <2>2 DEF Consent, LoginInv, CallbackHasFlow, StateWasChecked, ExchangedIsUsed,
                      ExchangedOnce, OkIsOver, LandedIsOk, Exchanged, At, FlowOf
<1>3. ASSUME NEW f \in Flows, NEW c \in Callbacks, Request(f, c) PROVE LoginInv'
  <2>1. /\ callback'[c].pc = "check" /\ callback'[c].flow = f /\ ~callback'[c].ok
        /\ \A d \in Callbacks \ {c} : callback'[d] = callback[d]
    BY <1>3 DEF Request, TypeOK
  <2>2. ~Exchanged(c) /\ ~Exchanged(c)' /\ \A d \in Callbacks \ {c} : Exchanged(d)' = Exchanged(d)
    BY <1>3, <2>1 DEF Request, LoginInv, OkIsOver, Exchanged, At
  <2>3. CallbackHasFlow' /\ StateWasChecked' /\ OkIsOver'
    BY <2>1, <2>2 DEF LoginInv, CallbackHasFlow, StateWasChecked, OkIsOver, At, FlowOf
  <2>4. ExchangedIsUsed' /\ ExchangedOnce'
    BY <1>3, <2>1, <2>2 DEF Request, LoginInv, ExchangedIsUsed, ExchangedOnce, FlowOf
  <2>5. LandedIsOk'
    BY <1>3, <2>1, <2>2 DEF Request, TypeOK, LoginInv, LandedIsOk, Exchanged, FlowOf
  <2>. QED BY <1>3, <2>3, <2>4, <2>5 DEF Request, LoginInv, FlowHasBrowser
<1>4. ASSUME NEW b \in Browsers, Expire(b) PROVE LoginInv'
  BY <1>4 DEF Expire, LoginInv, FlowHasBrowser, CallbackHasFlow, StateWasChecked,
              ExchangedIsUsed, ExchangedOnce, OkIsOver, LandedIsOk, Exchanged, At, FlowOf
<1>5. ASSUME NEW c \in Callbacks, Check(c) PROVE LoginInv'
  <2>1. PICK p \in {"exchange", "answer"} : Goes(c, p) /\ (p = "exchange" => Accepted(c))
    BY <1>5 DEF Check
  <2>2. p \in Places /\ Justified(c, p)
    BY <1>5, <2>1 DEF Check, Places, Justified, At, Accepted, LoginInv, OkIsOver
  <2>. QED BY <1>5, <2>1, <2>2, MoveKeepsInv DEF Check, LoginInv, LandedIsOk, FlowOf
<1>6. ASSUME NEW c \in Callbacks, Exchange(c) PROVE LoginInv'
  <2>1. PICK p \in {"find user", "answer"} : Goes(c, p) /\ (p = "find user" => FlowOf(c) \notin used)
    BY <1>6 DEF Exchange
  <2>2. p \in Places /\ Justified(c, p)
    BY <1>6, <2>1 DEF Exchange, Places, Justified, At, LoginInv, OkIsOver, StateWasChecked,
                      ExchangedIsUsed
  <2>. QED BY <1>6, <2>1, <2>2, MoveKeepsInv DEF Exchange, LoginInv, LandedIsOk, FlowOf
<1>7. ASSUME NEW c \in Callbacks, FindUser(c) PROVE LoginInv'
  <2>1. PICK p \in {"create session", "create user"} : Goes(c, p)
    BY <1>7 DEF FindUser
  <2>2. Exchanged(c)
    BY <1>7 DEF FindUser, Exchanged, At
  <2>3. p \in Places /\ Justified(c, p)
    BY <1>7, <2>1, <2>2 DEF FindUser, Places, Justified, At, LoginInv, OkIsOver, StateWasChecked,
                            ExchangedIsUsed, ExchangedOnce
  <2>. QED BY <1>7, <2>1, <2>3, MoveKeepsInv DEF FindUser, LoginInv, LandedIsOk, FlowOf
<1>8. ASSUME NEW c \in Callbacks, CreateUser(c) PROVE LoginInv'
  <2>1. PICK p \in {"create session", "answer"} : Goes(c, p)
    <3>1. CASE users = 0
      BY <1>8, <3>1 DEF CreateUser
    <3>2. CASE users # 0
      BY <1>8, <3>2 DEF CreateUser
    <3>. QED BY <3>1, <3>2
  <2>2. Exchanged(c)
    BY <1>8 DEF CreateUser, Exchanged, At
  <2>3. p \in Places /\ Justified(c, p)
    BY <1>8, <2>1, <2>2 DEF CreateUser, Places, Justified, At, LoginInv, OkIsOver,
                            StateWasChecked, ExchangedIsUsed, ExchangedOnce
  <2>. QED BY <1>8, <2>1, <2>3, MoveKeepsInv DEF CreateUser, LoginInv, LandedIsOk, FlowOf
<1>9. ASSUME NEW c \in Callbacks, CreateSession(c) PROVE LoginInv'
  <2>1. callback' = [callback EXCEPT ![c].pc = "answer", ![c].ok = TRUE]
    BY <1>9 DEF CreateSession
  <2>2. callback \in [Callbacks -> [pc : Places, flow : FlowOrNone, saved : FlowOrNone, ok : BOOLEAN]]
    BY DEF TypeOK, Places
  <2>3. /\ callback'[c].pc = "answer"
        /\ \A d \in Callbacks : /\ d # c => callback'[d] = callback[d]
                                /\ callback'[d].flow = callback[d].flow
                                /\ callback'[d].saved = callback[d].saved
                                /\ callback'[d].ok = (d = c \/ callback[d].ok)
    BY <2>1, <2>2
  <2>4. Exchanged(c) /\ \A d \in Callbacks : Exchanged(d)' = Exchanged(d)
    BY <1>9, <2>3 DEF CreateSession, Exchanged, At
  <2>5. CallbackHasFlow' /\ StateWasChecked' /\ OkIsOver'
    BY <1>9, <2>3, <2>4 DEF CreateSession, LoginInv, CallbackHasFlow, StateWasChecked, OkIsOver,
                            At, FlowOf
  <2>6. ExchangedIsUsed' /\ ExchangedOnce'
    <3>1. \A d \in Callbacks : Exchanged(d)' <=> Exchanged(d)
      BY <2>4
    <3>2. used' = used
      BY <1>9 DEF CreateSession
    <3>. HIDE DEF Exchanged
    <3>. QED BY <2>3, <3>1, <3>2 DEF LoginInv, ExchangedIsUsed, ExchangedOnce, FlowOf
  <2>7. LandedIsOk'
    <3>1. landed' = landed /\ \A l \in landed : l.callback \in Callbacks
      BY <1>9 DEF CreateSession, TypeOK
    <3>2. \A d \in Callbacks : callback[d].ok => callback'[d].ok
      BY <2>3
    <3>. QED BY <2>3, <3>1, <3>2 DEF LoginInv, LandedIsOk, FlowOf
  <2>. QED BY <1>9, <2>5, <2>6, <2>7 DEF CreateSession, LoginInv, FlowHasBrowser
<1>10. ASSUME NEW c \in Callbacks, Answer(c) PROVE LoginInv'
  <2>1. Goes(c, "done") /\ "done" \in Places /\ Justified(c, "done")
    BY <1>10 DEF Answer, Places, Justified, At
  <2>2. /\ FlowHasBrowser' /\ CallbackHasFlow' /\ StateWasChecked' /\ ExchangedIsUsed'
        /\ ExchangedOnce' /\ OkIsOver'
        /\ \A l \in landed : callback'[l.callback].ok /\ l.page = callback'[l.callback].flow
    BY <1>10, <2>1, MoveKeepsInv DEF Answer
  <2>3. callback'[c].ok = callback[c].ok /\ callback'[c].flow = callback[c].flow
    BY <2>1, GoesEffect
  <2>4. callback[c].ok => callback[c].saved = callback[c].flow
    BY DEF LoginInv, StateWasChecked, Exchanged, FlowOf
  <2>5. LandedIsOk'
    BY <1>10, <2>2, <2>3, <2>4 DEF Answer, LandedIsOk, FlowOf
  <2>. QED BY <2>2, <2>5 DEF LoginInv
<1>11. ASSUME NEW c \in Callbacks, Lose(c) PROVE LoginInv'
  <2>1. Goes(c, "lost") /\ "lost" \in Places /\ Justified(c, "lost")
    BY <1>11 DEF Lose, Places, Justified, At
  <2>. QED BY <1>11, <2>1, MoveKeepsInv DEF Lose, LoginInv, LandedIsOk, FlowOf
<1>12. CASE UNCHANGED vars
  BY <1>12 DEF vars, LoginInv, FlowHasBrowser, CallbackHasFlow, StateWasChecked,
               ExchangedIsUsed, ExchangedOnce, OkIsOver, LandedIsOk, Exchanged, At, FlowOf
<1>. QED
  BY <1>1, <1>2, <1>3, <1>4, <1>5, <1>6, <1>7, <1>8, <1>9, <1>10, <1>11, <1>12 DEF Next, Serve

-----------------------------------------------------------------------------
\* The types and the invariant hold in every reachable state.
THEOREM LoginInvariance == Spec => [](TypeOK /\ LoginInv)
<1>1. Init => TypeOK /\ LoginInv
  BY LoginInit
<1>2. (TypeOK /\ LoginInv) /\ [Next]_vars => (TypeOK /\ LoginInv)'
  BY LoginTypeNext, LoginInvNext
<1>. QED BY <1>1, <1>2, PTL DEF Spec

\* Every variable of the sign-in keeps its type, and exactly the callbacks that
\* have succeeded have a session.
THEOREM LoginTypeCorrect == Spec => []TypeOK
BY LoginInvariance, PTL

\* One visit to /auth/google creates one session at most.
THEOREM SessionOncePerFlow == Spec => []OneSessionPerFlow
<1>1. TypeOK /\ LoginInv => OneSessionPerFlow
  BY DEF TypeOK, LoginInv, ExchangedOnce, Exchanged, OneSessionPerFlow, FlowOf
<1>. QED BY <1>1, LoginInvariance, PTL

\* A login returns to the page it was started from, whatever other tabs of the
\* browser have done to its cookies.
THEOREM LoginReturns == Spec => []ReturnsWhereItStarted
<1>1. LoginInv => ReturnsWhereItStarted
  BY DEF LoginInv, LandedIsOk, ReturnsWhereItStarted
<1>. QED BY <1>1, LoginInvariance, PTL

(***************************************************************************)
(* Sessions.                                                               *)
(*                                                                         *)
(* The argument: a token is no newer than the clock, and a renewal gives   *)
(* the row a token that is no older than the one it had.  So every token   *)
(* that was exchanged is no newer than the row's, and one that is as new   *)
(* as the row's is the row's only because it was exchanged for itself.     *)
(***************************************************************************)
\* The token was issued, and by now.
Known(t) == /\ t \in S!Tokens
            /\ t.iat <= now
            /\ session[t.session] # None

\* What holds of a request about a session.
RequestOK(q) ==
    /\ q \in S!RequestRecords
    /\ q.kind # "logoutAll" => Known(q.token)
    /\ q.pc = "rotate" => q.kind = "refresh" /\ q.issued # None
    /\ q.pc = "revoke" => q.kind # "logoutAll"
    /\ q.issued # None => /\ q.kind = "refresh"
                          /\ q.issued.session = q.token.session
                          /\ q.token.iat <= q.issued.iat
                          /\ q.issued.iat <= now

\* What holds of a row.
RowOK(s) == session[s] # None => /\ session[s].hash.session = s
                                 /\ session[s].hash.iat <= now
                                 /\ session[s].expiresAt = S!getTokenExpiration(session[s].hash)

\* A renewal that was made is of a session that exists and no newer than its token.
Past(a) == /\ session[a.token.session] # None
           /\ a.token.iat <= session[a.token.session].hash.iat

\* The types of the variables.
SessionTypes ==
    /\ now \in 0..MaxTime
    /\ session \in [Sessions -> S!Rows \cup {None}]
    /\ jar \in [Devices -> S!TokenOrNone]
    /\ page \in [S!Pages -> {"closed", "loading", "fetchingUser", "in", "out"}]
    /\ waiting \in [S!Pages -> 1..MaxRequests \cup {None}]
    /\ sent \in 0..MaxRequests
    /\ accepted \subseteq [token : S!Tokens, renewed : S!Tokens]

\* The inductive invariant.
SessionInv ==
    /\ SessionTypes
    /\ \A b \in Devices : jar[b] # None => Known(jar[b])
    /\ \A s \in Sessions : RowOK(s)
    /\ \A q \in requests : RequestOK(q)
    /\ \A a \in accepted : Past(a)

\* The invariant implies the type invariant of Session.
LEMMA SessionInvType == SessionInv => S!TypeOK
<1>. SUFFICES ASSUME SessionInv PROVE S!TypeOK
  OBVIOUS
<1>1. requests \subseteq S!RequestRecords
  BY DEF SessionInv, RequestOK
<1>2. ASSUME NEW q \in requests, q.kind # "logoutAll"
      PROVE  q.token # None /\ session[q.token.session] # None
  BY <1>2, AccountsConstants DEF SessionInv, RequestOK, Known, S!SessionConstants
<1>. QED BY <1>1, <1>2 DEF SessionInv, SessionTypes, RowOK, S!TypeOK

\* The invariant holds at the start.
LEMMA SessionInit == S!Init => SessionInv /\ ExchangedIsDead
<1>. SUFFICES ASSUME S!Init PROVE SessionInv /\ ExchangedIsDead
  OBVIOUS
<1>. QED
  BY AccountsConstants
     DEF S!Init, SessionInv, SessionTypes, RowOK, ExchangedIsDead, S!ExchangedIsDead,
         S!SessionConstants, S!TokenOrNone

\* Sessions are not forgotten and their tokens only become newer.
Renewing ==
    \A s \in Sessions :
        session[s] # None => session'[s] # None /\ session[s].hash.iat <= session'[s].hash.iat

\* What the steps need of the times, the tokens and the rows.
LEMMA Times ==
    /\ 0..MaxTime \subseteq Nat
    /\ \A t \in S!Tokens : t.session \in Sessions /\ t.iat \in Nat
    /\ None \notin S!Tokens /\ None \notin S!Rows
BY AccountsConstants DEF S!SessionConstants, S!Tokens

\* A token that is known stays known while rows and requests only keep theirs.
LEMMA KnownStays ==
    ASSUME SessionInv, Renewing, now' \in 0..MaxTime, now <= now', NEW t, Known(t)
    PROVE  Known(t)'
<1>1. t.session \in Sessions /\ t.iat \in Nat
  BY Times DEF Known
<1>2. now \in Nat /\ now' \in Nat
  BY Times DEF SessionInv, SessionTypes
<1>3. session'[t.session] # None
  BY <1>1 DEF Known, Renewing
<1>. QED BY <1>1, <1>2, <1>3 DEF Known, S!Tokens

\* A request keeps its part of the invariant when what it speaks of grows.
LEMMA RequestStays ==
    ASSUME SessionInv, Renewing, now' \in 0..MaxTime, now <= now', NEW q, RequestOK(q)
    PROVE  RequestOK(q)'
<1>1. now \in Nat /\ now' \in Nat
  BY Times DEF SessionInv, SessionTypes
<1>2. q \in S!RequestRecords
  BY DEF RequestOK
<1>3. q.issued # None => q.issued.iat \in Nat
  <2>1. q.issued \in S!TokenOrNone
    BY <1>2 DEF S!RequestRecords
  <2>. QED BY <2>1, Times DEF S!TokenOrNone
<1>4. ASSUME q.issued # None PROVE q.issued.iat <= now'
  <2>1. q.issued.iat <= now
    BY <1>4 DEF RequestOK
  <2>. QED BY <1>1, <1>3, <1>4, <2>1
<1>5. q.kind # "logoutAll" => Known(q.token)'
  BY KnownStays DEF RequestOK
<1>. QED BY <1>2, <1>4, <1>5 DEF RequestOK, S!RequestRecords, S!Pages

\* What a step has to show to keep the invariant.
LEMMA SessionStep ==
    ASSUME SessionInv, Renewing, now <= now', SessionTypes',
           \A b \in Devices : \A t \in S!Tokens : jar'[b] = t => Known(t) \/ Known(t)',
           \A s \in Sessions : RowOK(s)',
           \A q \in requests' : RequestOK(q) \/ RequestOK(q)',
           \A a \in accepted' : a \in accepted \/ Past(a)'
    PROVE  SessionInv'
<1>0. now' \in 0..MaxTime
  BY DEF SessionTypes
<1>1. ASSUME NEW b \in Devices, jar'[b] # None PROVE Known(jar[b])'
  <2>1. PICK t \in S!Tokens : t = jar'[b]
    BY <1>1 DEF SessionTypes, S!TokenOrNone
  <2>2. Known(t)'
    BY <1>0, <2>1, KnownStays
  <2>. QED BY <2>1, <2>2 DEF Known
<1>2. \A q \in requests' : RequestOK(q)'
  BY <1>0, RequestStays
<1>3. ASSUME NEW a \in accepted PROVE Past(a)'
  <2>1. a.token \in S!Tokens /\ Past(a)
    BY DEF SessionInv, SessionTypes
  <2>2. a.token.session \in Sessions /\ a.token.iat \in Nat
    BY <2>1, Times
  <2>3. session[a.token.session] \in S!Rows /\ session'[a.token.session] \in S!Rows
    BY <2>1, <2>2 DEF SessionInv, SessionTypes, Past, Renewing
  <2>4. session[a.token.session].hash.iat \in Nat /\ session'[a.token.session].hash.iat \in Nat
    BY <2>3, Times DEF S!Rows
  <2>. QED BY <2>1, <2>2, <2>4 DEF Past, Renewing
<1>. QED BY <1>1, <1>2, <1>3 DEF SessionInv

\* A step of the pages: no session changes.
LEMMA SessionQuiet ==
    ASSUME SessionInv, now' \in 0..MaxTime, now <= now', session' = session, accepted' = accepted,
           jar' \in [Devices -> S!TokenOrNone],
           page' \in [S!Pages -> {"closed", "loading", "fetchingUser", "in", "out"}],
           waiting' \in [S!Pages -> 1..MaxRequests \cup {None}],
           sent' \in 0..MaxRequests,
           \A b \in Devices : \A t \in S!Tokens : jar'[b] = t => Known(t),
           \A q \in requests' : RequestOK(q)
    PROVE  SessionInv'
<1>0. now \in Nat /\ now' \in Nat
  BY Times DEF SessionInv, SessionTypes
<1>1. ASSUME NEW s \in Sessions, session[s] # None
      PROVE  session[s] \in S!Rows /\ session[s].hash.iat \in Nat
  <2>1. session[s] \in S!Rows
    BY <1>1 DEF SessionInv, SessionTypes
  <2>. QED BY <2>1, Times DEF S!Rows
<1>2. Renewing
  BY <1>1 DEF Renewing
<1>3. ASSUME NEW s \in Sessions PROVE RowOK(s)'
  <2>1. RowOK(s)
    BY DEF SessionInv
  <2>. QED BY <2>1, <1>0, <1>1 DEF RowOK, S!getTokenExpiration
<1>4. SessionTypes'
  BY DEF SessionInv, SessionTypes, S!Pages
<1>5. \A b \in Devices : \A t \in S!Tokens : jar'[b] = t => Known(t) \/ Known(t)'
  OBVIOUS
<1>6. \A q \in requests' : RequestOK(q) \/ RequestOK(q)'
  OBVIOUS
<1>7. \A a \in accepted' : a \in accepted \/ Past(a)'
  OBVIOUS
<1>. QED BY <1>2, <1>3, <1>4, <1>5, <1>6, <1>7, SessionStep

\* The tokens in the browsers, for steps that leave them alone.
LEMMA JarKnown ==
    ASSUME SessionInv, NEW b \in Devices, NEW t \in S!Tokens, jar[b] = t
    PROVE  Known(t)
BY Times DEF SessionInv

\* A request that was just sent has its part of the invariant.
LEMMA NewRequest ==
    ASSUME SessionInv, NEW p \in S!Pages, NEW kind \in {"refresh", "logout", "logoutAll"},
           NEW token \in S!TokenOrNone, S!Send(kind, p, token),
           NEW r, r = S!Request(kind, p, token)
    PROVE  /\ r \in S!RequestRecords
           /\ r.kind = kind /\ r.token = token /\ r.pc = "start" /\ r.issued = None
<1>1. sent \in 0..MaxRequests /\ sent < MaxRequests /\ MaxRequests \in Nat
  BY AccountsConstants DEF S!Send, SessionInv, SessionTypes, S!SessionConstants
<1>2. sent + 1 \in 1..MaxRequests
  BY <1>1
<1>. QED BY <1>2 DEF S!Request, S!RequestRecords, S!TokenOrNone

\* What Send does to the requests of a tab.
LEMMA SendEffect ==
    ASSUME SessionInv, NEW p \in S!Pages, NEW kind \in {"refresh", "logout", "logoutAll"},
           NEW token \in S!TokenOrNone, S!Send(kind, p, token)
    PROVE  /\ sent' \in 0..MaxRequests
           /\ waiting' \in [S!Pages -> 1..MaxRequests \cup {None}]
           /\ (kind # "logoutAll" => Known(token)) => \A q \in requests' : RequestOK(q)
<1>1. sent \in 0..MaxRequests /\ sent < MaxRequests /\ sent' = sent + 1 /\ MaxRequests \in Nat
  BY AccountsConstants DEF S!Send, SessionInv, SessionTypes, S!SessionConstants
<1>2. sent + 1 \in 1..MaxRequests /\ sent' \in 0..MaxRequests
  BY <1>1
<1>3. waiting' \in [S!Pages -> 1..MaxRequests \cup {None}]
  BY <1>2 DEF S!Send, SessionInv, SessionTypes
<1>4. (kind # "logoutAll" => Known(token)) => RequestOK(S!Request(kind, p, token))
  BY NewRequest DEF RequestOK
<1>5. requests' = requests \cup {S!Request(kind, p, token)}
  BY DEF S!Send
<1>. QED BY <1>2, <1>3, <1>4, <1>5 DEF SessionInv

\* What a page that loads sends.
LEMMA BootstrapEffect ==
    ASSUME SessionInv, NEW p \in S!Pages, NEW token \in S!TokenOrNone,
           S!Bootstrap(p, token)
    PROVE  /\ sent' \in 0..MaxRequests
           /\ waiting' \in [S!Pages -> 1..MaxRequests \cup {None}]
           /\ page' \in [S!Pages -> {"closed", "loading", "fetchingUser", "in", "out"}]
           /\ Known(token) \/ token = None => \A q \in requests' : RequestOK(q)
<1>1. CASE token = None
  BY <1>1 DEF S!Bootstrap, SessionInv, SessionTypes
<1>2. CASE token # None
  <2>1. S!Send("refresh", p, token)
    BY <1>2 DEF S!Bootstrap, S!refreshAccessToken
  <2>2. page' \in [S!Pages -> {"closed", "loading", "fetchingUser", "in", "out"}]
    BY <1>2 DEF S!Bootstrap, SessionInv, SessionTypes
  <2>. QED BY <1>2, <2>1, <2>2, SendEffect
<1>. QED BY <1>1, <1>2

\* Load keeps the invariant.
LEMMA SessionLoad ==
    ASSUME SessionInv, NEW p \in S!Pages, S!Load(p)
    PROVE  SessionInv'
<1>1. p[1] \in Devices
  BY DEF S!Pages
<1>2. PICK token \in S!TokenOrNone : token = jar[p[1]]
  BY <1>1 DEF SessionInv, SessionTypes
<1>3. S!Bootstrap(p, token) /\ UNCHANGED <<now, session, jar, accepted>>
  BY <1>2 DEF S!Load, S!Browser
<1>4. Known(token) \/ token = None
  BY <1>1, <1>2 DEF SessionInv
<1>5. now \in 0..MaxTime /\ now <= now /\ jar \in [Devices -> S!TokenOrNone]
  BY Times DEF SessionInv, SessionTypes
<1>. QED BY <1>3, <1>4, <1>5, BootstrapEffect, JarKnown, SessionQuiet

\* GetMe keeps the invariant.
LEMMA SessionGetMe ==
    ASSUME SessionInv, NEW p \in S!Pages, S!GetMe(p)
    PROVE  SessionInv'
<1>1. PICK o \in {"in", "out"} : page' = [page EXCEPT ![p] = o]
  BY DEF S!GetMe
<1>2. page' \in [S!Pages -> {"closed", "loading", "fetchingUser", "in", "out"}]
  BY <1>1 DEF SessionInv, SessionTypes
<1>3. UNCHANGED <<now, session, jar, waiting, requests, sent, accepted>>
  BY DEF S!GetMe
<1>. QED BY <1>2, <1>3, Times, JarKnown, SessionQuiet DEF SessionInv, SessionTypes

\* Logout keeps the invariant.
LEMMA SessionLogout ==
    ASSUME SessionInv, NEW p \in S!Pages, S!Logout(p)
    PROVE  SessionInv'
<1>1. p[1] \in Devices
  BY DEF S!Pages
<1>2. PICK token \in S!TokenOrNone : token = jar[p[1]]
  BY <1>1 DEF SessionInv, SessionTypes
<1>3. UNCHANGED <<now, session, jar, accepted>> /\ now \in 0..MaxTime /\ now <= now
  BY Times DEF S!Logout, SessionInv, SessionTypes
<1>4. CASE token = None
  <2>1. UNCHANGED <<waiting, requests, sent>> /\ page' = [page EXCEPT ![p] = "out"]
    BY <1>2, <1>4 DEF S!Logout, S!Browser
  <2>2. page' \in [S!Pages -> {"closed", "loading", "fetchingUser", "in", "out"}]
    BY <2>1 DEF SessionInv, SessionTypes
  <2>. QED BY <1>3, <2>1, <2>2, JarKnown, SessionQuiet DEF SessionInv, SessionTypes
<1>5. CASE token # None
  <2>1. S!Send("logout", p, token) /\ page' = page
    BY <1>2, <1>5 DEF S!Logout, S!Browser
  <2>2. Known(token)
    BY <1>1, <1>2, <1>5 DEF SessionInv
  <2>3. sent' \in 0..MaxRequests /\ waiting' \in [S!Pages -> 1..MaxRequests \cup {None}]
        /\ \A q \in requests' : RequestOK(q)
    BY <2>1, <2>2, SendEffect
  <2>. QED BY <1>3, <2>1, <2>3, JarKnown, SessionQuiet DEF SessionInv, SessionTypes
<1>. QED BY <1>4, <1>5

\* LogoutAll keeps the invariant.
LEMMA SessionLogoutAll ==
    ASSUME SessionInv, NEW p \in S!Pages, S!LogoutAll(p)
    PROVE  SessionInv'
<1>1. S!Send("logoutAll", p, None) /\ UNCHANGED <<now, session, jar, page, accepted>>
  BY DEF S!LogoutAll
<1>2. None \in S!TokenOrNone
  BY DEF S!TokenOrNone
<1>3. sent' \in 0..MaxRequests /\ waiting' \in [S!Pages -> 1..MaxRequests \cup {None}]
      /\ \A q \in requests' : RequestOK(q)
  BY <1>1, <1>2, SendEffect
<1>4. now \in 0..MaxTime /\ now <= now
  BY Times DEF SessionInv, SessionTypes
<1>. QED BY <1>1, <1>3, <1>4, JarKnown, SessionQuiet DEF SessionInv, SessionTypes

\* Time that passes keeps the invariant.
LEMMA SessionTick == SessionInv /\ S!Tick => SessionInv'
<1>. SUFFICES ASSUME SessionInv, S!Tick PROVE SessionInv'
  OBVIOUS
<1>1. now \in 0..MaxTime /\ now' \in 0..MaxTime /\ now <= now'
  BY AccountsConstants DEF S!Tick, SessionInv, SessionTypes, S!SessionConstants
<1>2. UNCHANGED <<session, jar, page, waiting, requests, sent, accepted>>
  BY DEF S!Tick
<1>. QED BY <1>1, <1>2, JarKnown, SessionQuiet DEF SessionInv, SessionTypes

\* The session that a sign-in creates.
LEMMA SessionSignIn ==
    ASSUME SessionInv, NEW p \in S!Pages, NEW s \in Sessions, S!SignIn(p, s)
    PROVE  SessionInv'
<1>0. p[1] \in Devices /\ now \in 0..MaxTime /\ now \in Nat /\ Lifetime \in Nat
  BY AccountsConstants, Times DEF S!Pages, SessionInv, SessionTypes, S!SessionConstants
<1>1. PICK token : token = S!generateRefreshToken(s)
  OBVIOUS
<1>2. token \in S!Tokens /\ token.session = s /\ token.iat = now
  BY <1>0, <1>1 DEF S!generateRefreshToken, S!Tokens
<1>3. PICK row : row = S!Row(token)
  OBVIOUS
<1>4. row \in S!Rows /\ row.hash = token /\ row.expiresAt = S!getTokenExpiration(token)
  BY <1>0, <1>2, <1>3, Times DEF S!Row, S!Rows, S!getTokenExpiration
<1>5. /\ session[s] = None /\ session' = [session EXCEPT ![s] = row]
      /\ jar' = [jar EXCEPT ![p[1]] = token]
      /\ S!Bootstrap(p, token)
      /\ UNCHANGED <<now, accepted>>
  BY <1>1, <1>3 DEF S!SignIn, S!Browser
<1>6. row # None /\ token # None /\ token \in S!TokenOrNone
  BY <1>2, <1>4, Times DEF S!TokenOrNone
<1>7. session' \in [Sessions -> S!Rows \cup {None}] /\ session'[s] = row
      /\ \A x \in Sessions : x # s => session'[x] = session[x]
  BY <1>4, <1>5 DEF SessionInv, SessionTypes
<1>8. Renewing
  <2>. SUFFICES ASSUME NEW x \in Sessions, session[x] # None
                PROVE  session'[x] # None /\ session[x].hash.iat <= session'[x].hash.iat
    BY DEF Renewing
  <2>1. session[x] \in S!Rows
    BY DEF SessionInv, SessionTypes
  <2>2. session[x].hash.iat \in Nat
    BY <2>1, Times DEF S!Rows
  <2>. QED BY <1>5, <1>7, <2>2
<1>9. Known(token)'
  BY <1>0, <1>2, <1>5, <1>6, <1>7 DEF Known
<1>10. /\ sent' \in 0..MaxRequests
       /\ waiting' \in [S!Pages -> 1..MaxRequests \cup {None}]
       /\ page' \in [S!Pages -> {"closed", "loading", "fetchingUser", "in", "out"}]
  BY <1>5, <1>6, BootstrapEffect
<1>11. jar' \in [Devices -> S!TokenOrNone] /\ \A b \in Devices : jar'[b] = token \/ jar'[b] = jar[b]
  BY <1>0, <1>5, <1>6 DEF SessionInv, SessionTypes
<1>12. \A b \in Devices : \A t \in S!Tokens : jar'[b] = t => Known(t) \/ Known(t)'
  BY <1>9, <1>11, JarKnown
<1>13. ASSUME NEW x \in Sessions PROVE RowOK(x)'
  <2>1. CASE x = s
    <3>1. session'[x] = row
      BY <1>7, <2>1
    <3>. QED BY <1>0, <1>2, <1>4, <1>5, <2>1, <3>1 DEF RowOK, S!getTokenExpiration
  <2>2. CASE x # s
    <3>1. session'[x] = session[x] /\ RowOK(x)
      BY <1>7, <2>2 DEF SessionInv
    <3>. QED BY <1>5, <3>1 DEF RowOK, S!getTokenExpiration
  <2>. QED BY <2>1, <2>2
<1>14. ASSUME NEW q \in requests' PROVE RequestOK(q) \/ RequestOK(q)'
  <2>1. S!Send("refresh", p, token)
    BY <1>5, <1>6 DEF S!Bootstrap, S!refreshAccessToken
  <2>2. PICK r : r = S!Request("refresh", p, token)
    OBVIOUS
  <2>3. /\ r \in S!RequestRecords /\ r.kind = "refresh" /\ r.token = token
        /\ r.pc = "start" /\ r.issued = None
    BY <1>6, <2>1, <2>2, NewRequest
  <2>4. RequestOK(r)'
    BY <1>9, <2>3 DEF RequestOK, S!RequestRecords, S!Pages
  <2>5. q \in requests \/ q = r
    BY <2>1, <2>2 DEF S!Send
  <2>. QED BY <2>4, <2>5 DEF SessionInv
<1>15. SessionTypes'
  BY <1>0, <1>5, <1>7, <1>10, <1>11 DEF SessionInv, SessionTypes, S!Pages
<1>16. now <= now' /\ \A a \in accepted' : a \in accepted \/ Past(a)'
  BY <1>0, <1>5
<1>. QED BY <1>8, <1>12, <1>13, <1>14, <1>15, <1>16, SessionStep

\* A request moves on.
LEMMA SessionGoes ==
    ASSUME SessionInv, NEW q \in requests, NEW pc \in {"start", "rotate", "revoke", "answer"},
           pc \in {"start", "answer"} \/ (pc = "revoke" /\ q.kind # "logoutAll")
    PROVE  RequestOK([q EXCEPT !.pc = pc])
<1>1. RequestOK(q) /\ q \in S!RequestRecords
  BY DEF SessionInv, RequestOK
<1>2. PICK r : r = [q EXCEPT !.pc = pc]
  OBVIOUS
<1>3. /\ r \in S!RequestRecords /\ r.pc = pc
      /\ r.kind = q.kind /\ r.token = q.token /\ r.issued = q.issued
  BY <1>1, <1>2 DEF S!RequestRecords
<1>4. RequestOK(r)
  BY <1>1, <1>3 DEF RequestOK
<1>. QED BY <1>2, <1>4

\* A step that only changes the requests.
LEMMA SessionRequests ==
    ASSUME SessionInv, UNCHANGED <<now, session, jar, page, waiting, sent, accepted>>,
           \A q \in requests' : RequestOK(q)
    PROVE  SessionInv'
BY Times, JarKnown, SessionQuiet DEF SessionInv, SessionTypes

\* What a row says of the token that a request presents.
LEMMA RowOfRequest ==
    ASSUME SessionInv, NEW q \in requests, q.kind # "logoutAll"
    PROVE  /\ q \in S!RequestRecords /\ q.token \in S!Tokens /\ q.token.session \in Sessions
           /\ q.token.iat \in 0..MaxTime /\ q.token.iat <= now
           /\ session[q.token.session] \in S!Rows /\ session[q.token.session] # None
           /\ RowOK(q.token.session)
<1>1. RequestOK(q)
  BY DEF SessionInv
<1>2. q \in S!RequestRecords /\ Known(q.token)
  BY <1>1 DEF RequestOK
<1>3. q.token \in S!Tokens /\ q.token.session \in Sessions /\ q.token.iat \in 0..MaxTime
  BY <1>2 DEF Known, S!Tokens
<1>. QED BY <1>2, <1>3 DEF SessionInv, SessionTypes, Known

\* The read of a refresh keeps the invariant.
LEMMA SessionRefreshRead ==
    ASSUME SessionInv, NEW q \in requests, S!RefreshRead(q)
    PROVE  SessionInv'
<1>1. q.kind = "refresh" /\ UNCHANGED <<now, session, jar, page, waiting, sent, accepted>>
  BY DEF S!RefreshRead
<1>2. RequestOK(q) /\ q \in S!RequestRecords
  BY DEF SessionInv, RequestOK
<1>3. PICK next : next = S!generateRefreshToken(q.token.session)
  OBVIOUS
<1>4. next \in S!Tokens /\ next.session = q.token.session /\ next.iat = now
  BY <1>1, <1>3, RowOfRequest DEF S!generateRefreshToken, S!Tokens, SessionInv, SessionTypes
<1>5. PICK r : r = [q EXCEPT !.pc = "rotate", !.issued = next]
  OBVIOUS
<1>6. /\ r \in S!RequestRecords /\ r.pc = "rotate" /\ r.issued = next
      /\ r.kind = q.kind /\ r.token = q.token
  BY <1>2, <1>4, <1>5 DEF S!RequestRecords, S!TokenOrNone
<1>7. now \in Nat
  BY Times DEF SessionInv, SessionTypes
<1>8. RequestOK(r)
  BY <1>1, <1>2, <1>4, <1>6, <1>7, Times DEF RequestOK, Known
<1>9. S!Goes(q, "answer") \/ S!Becomes(q, r)
  BY <1>3, <1>5 DEF S!RefreshRead
<1>10. RequestOK([q EXCEPT !.pc = "answer"])
  BY SessionGoes
<1>11. \A x \in requests' : RequestOK(x)
  BY <1>8, <1>9, <1>10 DEF S!Goes, S!Becomes, SessionInv
<1>. QED BY <1>1, <1>11, SessionRequests

\* The read of a logout keeps the invariant.
LEMMA SessionLogoutRead ==
    ASSUME SessionInv, NEW q \in requests, S!LogoutRead(q)
    PROVE  SessionInv'
<1>1. q.kind = "logout" /\ UNCHANGED <<now, session, jar, page, waiting, sent, accepted>>
  BY DEF S!LogoutRead
<1>2. PICK pc \in {"revoke", "answer"} : S!Goes(q, pc)
  BY DEF S!LogoutRead
<1>3. RequestOK([q EXCEPT !.pc = pc])
  BY <1>1, SessionGoes
<1>4. \A x \in requests' : RequestOK(x)
  BY <1>2, <1>3 DEF S!Goes, S!Becomes, SessionInv
<1>. QED BY <1>1, <1>4, SessionRequests

\* A step of the server that changes rows and nothing of their tokens.
LEMMA SessionRevokes ==
    ASSUME SessionInv, NEW q \in requests, S!Goes(q, "answer"),
           UNCHANGED <<now, jar, page, waiting, sent, accepted>>,
           session' \in [Sessions -> S!Rows \cup {None}],
           \A s \in Sessions : /\ session[s] = None => session'[s] = None
                               /\ session[s] # None =>
                                    /\ session'[s] # None
                                    /\ session'[s].hash = session[s].hash
                                    /\ session'[s].expiresAt = session[s].expiresAt
    PROVE  SessionInv'
<1>1. Renewing
  <2>. SUFFICES ASSUME NEW x \in Sessions, session[x] # None
                PROVE  session'[x] # None /\ session[x].hash.iat <= session'[x].hash.iat
    BY DEF Renewing
  <2>1. session[x] \in S!Rows
    BY DEF SessionInv, SessionTypes
  <2>2. session[x].hash.iat \in Nat
    BY <2>1, Times DEF S!Rows
  <2>3. session'[x] # None /\ session'[x].hash = session[x].hash
    OBVIOUS
  <2>. QED BY <2>2, <2>3
<1>2. ASSUME NEW s \in Sessions PROVE RowOK(s)'
  BY DEF SessionInv, RowOK, S!getTokenExpiration
<1>3. RequestOK([q EXCEPT !.pc = "answer"])
  BY SessionGoes
<1>4. \A x \in requests' : RequestOK(x)
  BY <1>3 DEF S!Goes, S!Becomes, SessionInv
<1>5. now <= now' /\ \A b \in Devices : \A t \in S!Tokens : jar'[b] = t => Known(t) \/ Known(t)'
  BY Times, JarKnown DEF SessionInv, SessionTypes
<1>6. SessionTypes'
  BY DEF SessionInv, SessionTypes, S!Pages
<1>. QED BY <1>1, <1>2, <1>4, <1>5, <1>6, SessionStep

\* A row that is revoked keeps its token.
LEMMA RevokedRow ==
    ASSUME NEW row \in S!Rows
    PROVE  /\ S!Revoked(row) \in S!Rows /\ S!Revoked(row).hash = row.hash
           /\ S!Revoked(row).expiresAt = row.expiresAt
           /\ row.revoked => S!Revoked(row) = row
<1>1. S!Revoked(row) \in S!Rows /\ S!Revoked(row).hash = row.hash
      /\ S!Revoked(row).expiresAt = row.expiresAt
  BY DEF S!Revoked, S!Rows
<1>2. ASSUME row.revoked PROVE S!Revoked(row) = row
  <2>1. row.revoked = TRUE
    BY <1>2 DEF S!Rows
  <2>. QED BY <2>1 DEF S!Revoked, S!Rows
<1>. QED BY <1>1, <1>2

\* What the revocation of a row does to the table.
LEMMA RevokeOneEffect ==
    ASSUME SessionInv, NEW q \in requests, S!RevokeSession(q)
    PROVE  /\ q.kind # "logoutAll" /\ q.token.session \in Sessions
           /\ session[q.token.session] \in S!Rows
           /\ session' = [session EXCEPT ![q.token.session] = S!Revoked(session[q.token.session])]
<1>1. q.pc = "revoke"
  BY DEF S!RevokeSession
<1>2. q.kind # "logoutAll"
  BY <1>1 DEF SessionInv, RequestOK
<1>. QED BY <1>2, RowOfRequest DEF S!RevokeSession

\* revokeSession keeps the invariant.
LEMMA SessionRevokeSession ==
    ASSUME SessionInv, NEW q \in requests, S!RevokeSession(q)
    PROVE  SessionInv'
<1>1. PICK s \in Sessions : s = q.token.session
  BY RevokeOneEffect
<1>2. PICK row \in S!Rows : row = S!Revoked(session[s])
  BY <1>1, RevokeOneEffect, RevokedRow
<1>3. session' = [session EXCEPT ![s] = row] /\ session[s] \in S!Rows
      /\ row.hash = session[s].hash /\ row.expiresAt = session[s].expiresAt
  BY <1>1, <1>2, RevokeOneEffect, RevokedRow
<1>4. session \in [Sessions -> S!Rows \cup {None}]
  BY DEF SessionInv, SessionTypes
<1>5. session' \in [Sessions -> S!Rows \cup {None}] /\ session'[s] = row
      /\ \A x \in Sessions : x # s => session'[x] = session[x]
  BY <1>3, <1>4
<1>6. session[s] # None /\ row # None
  BY <1>3, Times
<1>7. S!Goes(q, "answer") /\ UNCHANGED <<now, jar, page, waiting, sent, accepted>>
  BY DEF S!RevokeSession
<1>. QED BY <1>3, <1>5, <1>6, <1>7, SessionRevokes

\* revokeAllSessions keeps the invariant.
LEMMA SessionRevokeAll ==
    ASSUME SessionInv, NEW q \in requests, S!RevokeAllSessions(q)
    PROVE  SessionInv'
<1>1. session' = [s \in Sessions |-> IF session[s] = None THEN None ELSE S!Revoked(session[s])]
  BY DEF S!RevokeAllSessions
<1>2. ASSUME NEW s \in Sessions
      PROVE  /\ session'[s] \in S!Rows \cup {None}
             /\ session[s] = None => session'[s] = None
             /\ session[s] # None => /\ session'[s] # None
                                     /\ session'[s].hash = session[s].hash
                                     /\ session'[s].expiresAt = session[s].expiresAt
  <2>1. session[s] \in S!Rows \cup {None}
    BY DEF SessionInv, SessionTypes
  <2>2. session[s] # None => S!Revoked(session[s]) \in S!Rows
    BY <2>1, RevokedRow
  <2>. QED BY <1>1, <2>1, <2>2, RevokedRow, Times
<1>3. session' \in [Sessions -> S!Rows \cup {None}]
  BY <1>1, <1>2
<1>4. S!Goes(q, "answer") /\ UNCHANGED <<now, jar, page, waiting, sent, accepted>>
  BY DEF S!RevokeAllSessions
<1>. QED BY <1>2, <1>3, <1>4, SessionRevokes

\* rotateSession gives the row the token that the request was issued, and only
\* while the row's token is the one it presented.
LEMMA RotateEffect ==
    ASSUME SessionInv, NEW q \in requests, S!RotateSession(q),
           S!Rotatable(session[q.token.session], q.token)
    PROVE  \E s \in Sessions, row \in S!Rows :
             /\ s = q.token.session /\ session[s] \in S!Rows /\ session[s] # None
             /\ session[s].hash = q.token /\ ~session[s].revoked
             /\ session' = [session EXCEPT ![s] = row]
             /\ row.hash = q.issued /\ row.expiresAt = S!getTokenExpiration(q.issued)
             /\ q.issued \in S!Tokens /\ q.issued.session = s
             /\ q.token.iat <= q.issued.iat /\ q.issued.iat <= now
             /\ accepted' = accepted \cup {[token |-> q.token, renewed |-> q.issued]}
             /\ S!Goes(q, "answer")
<1>1. q.pc = "rotate" /\ RequestOK(q)
  BY DEF S!RotateSession, SessionInv
<1>2. q.kind # "logoutAll" /\ q.issued # None /\ q \in S!RequestRecords
      /\ q.issued.session = q.token.session /\ q.token.iat <= q.issued.iat /\ q.issued.iat <= now
  BY <1>1 DEF RequestOK
<1>3. q.issued \in S!Tokens
  BY <1>2 DEF S!RequestRecords, S!TokenOrNone
<1>4. PICK s \in Sessions : s = q.token.session /\ session[s] \in S!Rows /\ session[s] # None
  BY <1>2, RowOfRequest
<1>5. PICK row : row = S!Renewed(session[s], q.issued)
  OBVIOUS
<1>6. S!getTokenExpiration(q.issued) \in Nat
  <2>1. q.issued.iat \in Nat /\ Lifetime \in Nat
    BY <1>3, Times, AccountsConstants DEF S!SessionConstants
  <2>. QED BY <2>1 DEF S!getTokenExpiration
<1>7. row \in S!Rows /\ row.hash = q.issued /\ row.expiresAt = S!getTokenExpiration(q.issued)
  BY <1>3, <1>4, <1>5, <1>6 DEF S!Renewed, S!Rows
<1>8. session' = [session EXCEPT ![s] = row]
  BY <1>4, <1>5 DEF S!RotateSession
<1>9. session[s].hash = q.token /\ ~session[s].revoked
  BY <1>4 DEF S!Rotatable
<1>. QED BY <1>2, <1>3, <1>4, <1>7, <1>8, <1>9 DEF S!RotateSession

\* rotateSession keeps the invariant.
LEMMA SessionRotate ==
    ASSUME SessionInv, NEW q \in requests, S!RotateSession(q)
    PROVE  SessionInv'
<1>0. q.pc = "rotate" /\ RequestOK(q) /\ q.kind = "refresh"
      /\ UNCHANGED <<now, jar, page, waiting, sent>> /\ now \in Nat
  BY Times DEF S!RotateSession, SessionInv, RequestOK, SessionTypes
<1>1. CASE S!Rotatable(session[q.token.session], q.token)
  <2>1. PICK s \in Sessions, row \in S!Rows :
             /\ s = q.token.session /\ session[s] \in S!Rows /\ session[s] # None
             /\ session[s].hash = q.token /\ ~session[s].revoked
             /\ session' = [session EXCEPT ![s] = row]
             /\ row.hash = q.issued /\ row.expiresAt = S!getTokenExpiration(q.issued)
             /\ q.issued \in S!Tokens /\ q.issued.session = s
             /\ q.token.iat <= q.issued.iat /\ q.issued.iat <= now
             /\ accepted' = accepted \cup {[token |-> q.token, renewed |-> q.issued]}
             /\ S!Goes(q, "answer")
    BY <1>1, RotateEffect
  <2>2. session' \in [Sessions -> S!Rows \cup {None}] /\ session'[s] = row
        /\ \A x \in Sessions : x # s => session'[x] = session[x]
    BY <2>1 DEF SessionInv, SessionTypes
  <2>3. row # None /\ q.token \in S!Tokens
    BY <1>0, Times, RowOfRequest
  <2>4. Renewing
    <3>. SUFFICES ASSUME NEW x \in Sessions, session[x] # None
                  PROVE  session'[x] # None /\ session[x].hash.iat <= session'[x].hash.iat
      BY DEF Renewing
    <3>1. session[x] \in S!Rows
      BY DEF SessionInv, SessionTypes
    <3>2. session[x].hash.iat \in Nat
      BY <3>1, Times DEF S!Rows
    <3>3. CASE x = s
      BY <2>1, <2>2, <2>3, <3>3
    <3>4. CASE x # s
      BY <2>2, <3>2, <3>4
    <3>. QED BY <3>3, <3>4
  <2>5. ASSUME NEW x \in Sessions PROVE RowOK(x)'
    <3>1. CASE x = s
      BY <1>0, <2>1, <2>2, <3>1 DEF RowOK, S!getTokenExpiration
    <3>2. CASE x # s
      <4>1. session'[x] = session[x] /\ RowOK(x)
        BY <2>2, <3>2 DEF SessionInv
      <4>. QED BY <1>0, <4>1 DEF RowOK, S!getTokenExpiration
    <3>. QED BY <3>1, <3>2
  <2>6. PICK a : a = [token |-> q.token, renewed |-> q.issued]
    OBVIOUS
  <2>7. a \in [token : S!Tokens, renewed : S!Tokens] /\ a.token = q.token
    BY <2>1, <2>3, <2>6
  <2>8. Past(a)'
    BY <2>1, <2>2, <2>3, <2>7 DEF Past
  <2>9. SessionTypes'
    BY <1>0, <2>1, <2>2, <2>6, <2>7 DEF SessionInv, SessionTypes, S!Pages
  <2>10. RequestOK([q EXCEPT !.pc = "answer"])
    BY SessionGoes
  <2>11. \A x \in requests' : RequestOK(x)
    BY <2>1, <2>10 DEF S!Goes, S!Becomes, SessionInv
  <2>12. \A b \in Devices : \A t \in S!Tokens : jar'[b] = t => Known(t) \/ Known(t)'
    BY <1>0, JarKnown
  <2>13. now <= now' /\ \A x \in accepted' : x \in accepted \/ Past(x)'
    BY <1>0, <2>1, <2>6, <2>8
  <2>. QED BY <2>4, <2>5, <2>9, <2>11, <2>12, <2>13, SessionStep
<1>2. CASE ~S!Rotatable(session[q.token.session], q.token)
  <2>1. PICK r : r = [q EXCEPT !.pc = "revoke", !.issued = None]
    OBVIOUS
  <2>2. q \in S!RequestRecords
    BY <1>0 DEF RequestOK
  <2>3. /\ r \in S!RequestRecords /\ r.pc = "revoke" /\ r.issued = None
        /\ r.kind = q.kind /\ r.token = q.token
    BY <2>1, <2>2 DEF S!RequestRecords, S!TokenOrNone
  <2>4. RequestOK(r)
    BY <1>0, <2>3 DEF RequestOK
  <2>5. S!Becomes(q, r) /\ UNCHANGED <<session, accepted>>
    BY <1>2, <2>1 DEF S!RotateSession
  <2>6. \A x \in requests' : RequestOK(x)
    BY <2>4, <2>5 DEF S!Becomes, SessionInv
  <2>. QED BY <1>0, <2>5, <2>6, SessionRequests
<1>. QED BY <1>1, <1>2

\* What the page shows is one of its states, whatever the answer.
LEMMA TellEffect ==
    ASSUME SessionInv, NEW q \in S!RequestRecords, S!Tell(q)
    PROVE  /\ waiting' \in [S!Pages -> 1..MaxRequests \cup {None}]
           /\ page' \in [S!Pages -> {"closed", "loading", "fetchingUser", "in", "out"}]
<1>1. S!Settled(q) \in {"closed", "loading", "fetchingUser", "in", "out"}
  <2>1. q.kind \in {"refresh", "logout", "logoutAll"}
    BY DEF S!RequestRecords
  <2>2. CASE q.kind = "refresh" /\ q.issued # None
    BY <2>2 DEF S!Settled
  <2>3. CASE q.kind = "refresh" /\ q.issued = None
    BY <2>3 DEF S!Settled
  <2>4. CASE q.kind = "logout"
    BY <2>4 DEF S!Settled
  <2>5. CASE q.kind = "logoutAll"
    BY <2>5 DEF S!Settled
  <2>. QED BY <2>1, <2>2, <2>3, <2>4, <2>5
<1>. QED BY <1>1 DEF S!Tell, SessionInv, SessionTypes

\* An answer that arrives keeps the invariant.
LEMMA SessionAnswer ==
    ASSUME SessionInv, NEW q \in requests, S!Answer(q)
    PROVE  SessionInv'
<1>1. RequestOK(q) /\ q \in S!RequestRecords /\ q.page[1] \in Devices
  BY DEF SessionInv, RequestOK, S!RequestRecords, S!Pages
<1>2. UNCHANGED <<now, session, sent, accepted>> /\ now \in 0..MaxTime /\ now <= now'
      /\ sent' \in 0..MaxRequests /\ \A x \in requests' : RequestOK(x)
  BY Times DEF S!Answer, SessionInv, SessionTypes
<1>3. CASE q.heard
  <2>1. S!Tell(q) /\ jar' = [jar EXCEPT ![q.page[1]] = S!Cookie(q)]
    BY <1>3 DEF S!Answer, S!Browser
  <2>2. S!Cookie(q) \in S!TokenOrNone /\ \A t \in S!Tokens : S!Cookie(q) = t => Known(t)
    <3>1. CASE q.kind = "refresh" /\ q.issued # None
      <4>1. S!Cookie(q) = q.issued /\ q.issued \in S!TokenOrNone
        BY <1>1, <3>1 DEF S!Cookie, S!RequestRecords
      <4>2. Known(q.token) /\ q.issued.session = q.token.session /\ q.issued.iat <= now
        BY <1>1, <3>1 DEF RequestOK
      <4>. QED BY <4>1, <4>2 DEF Known
    <3>2. CASE q.kind = "logout"
      <4>1. S!Cookie(q) = None
        BY <3>2 DEF S!Cookie
      <4>. QED BY <4>1, Times DEF S!TokenOrNone
    <3>3. CASE ~(q.kind = "refresh" /\ q.issued # None) /\ q.kind # "logout"
      <4>1. S!Cookie(q) = jar[q.page[1]]
        BY <3>3 DEF S!Cookie, S!Browser
      <4>. QED BY <1>1, <4>1, JarKnown DEF SessionInv, SessionTypes
    <3>. QED BY <3>1, <3>2, <3>3
  <2>3. jar' \in [Devices -> S!TokenOrNone]
    BY <2>1, <2>2 DEF SessionInv, SessionTypes
  <2>4. \A b \in Devices : jar'[b] = S!Cookie(q) \/ jar'[b] = jar[b]
    BY <2>1 DEF SessionInv, SessionTypes
  <2>5. \A b \in Devices : \A t \in S!Tokens : jar'[b] = t => Known(t)
    BY <2>2, <2>4, JarKnown
  <2>. QED BY <1>1, <1>2, <2>1, <2>3, <2>5, TellEffect, SessionQuiet
<1>4. CASE ~q.heard
  <2>1. UNCHANGED <<jar, page, waiting>>
    BY <1>4 DEF S!Answer
  <2>. QED BY <1>2, <2>1, JarKnown, SessionQuiet DEF SessionInv, SessionTypes
<1>. QED BY <1>3, <1>4

\* A connection that breaks keeps the invariant.
LEMMA SessionDisconnect ==
    ASSUME SessionInv, NEW q \in requests, S!Disconnect(q)
    PROVE  SessionInv'
<1>1. RequestOK(q) /\ q \in S!RequestRecords
  BY DEF SessionInv, RequestOK
<1>2. UNCHANGED <<now, session, jar, sent, accepted>> /\ now \in 0..MaxTime /\ now <= now'
      /\ sent' \in 0..MaxRequests /\ jar' \in [Devices -> S!TokenOrNone]
  BY Times DEF S!Disconnect, SessionInv, SessionTypes
<1>3. PICK x : x = [q EXCEPT !.issued = None]
  OBVIOUS
<1>4. x \in S!RequestRecords /\ S!Tell(x)
  BY <1>1, <1>3 DEF S!Disconnect, S!RequestRecords, S!TokenOrNone
<1>5. PICK r : r = [q EXCEPT !.heard = FALSE]
  OBVIOUS
<1>6. /\ r \in S!RequestRecords /\ r.pc = q.pc /\ r.issued = q.issued
      /\ r.kind = q.kind /\ r.token = q.token
  BY <1>1, <1>5 DEF S!RequestRecords
<1>7. RequestOK(r)
  BY <1>1, <1>6 DEF RequestOK
<1>8. requests' = requests \ {q} \/ S!Becomes(q, r)
  BY <1>5 DEF S!Disconnect
<1>9. \A y \in requests' : RequestOK(y)
  BY <1>7, <1>8 DEF S!Becomes, SessionInv
<1>. QED BY <1>2, <1>4, <1>9, TellEffect, JarKnown, SessionQuiet

\* Every step of Session keeps the invariant.
LEMMA SessionNext == SessionInv /\ [S!Next]_S!vars => SessionInv'
<1>. SUFFICES ASSUME SessionInv, [S!Next]_S!vars PROVE SessionInv'
  OBVIOUS
<1>1. CASE UNCHANGED S!vars
  <2>1. UNCHANGED <<now, session, jar, page, waiting, requests, sent, accepted>>
    BY <1>1 DEF S!vars
  <2>. QED BY <2>1, SessionRequests DEF SessionInv
<1>2. ASSUME NEW p \in S!Pages, S!Load(p) \/ S!GetMe(p) \/ S!Logout(p) \/ S!LogoutAll(p)
      PROVE  SessionInv'
  BY <1>2, SessionLoad, SessionGetMe, SessionLogout, SessionLogoutAll
<1>3. ASSUME NEW p \in S!Pages, NEW s \in Sessions, S!SignIn(p, s) PROVE SessionInv'
  BY <1>3, SessionSignIn
<1>4. ASSUME NEW q \in requests, S!Serve(q) PROVE SessionInv'
  BY <1>4, SessionRefreshRead, SessionRotate, SessionLogoutRead, SessionRevokeSession, SessionRevokeAll
     DEF S!Serve
<1>5. ASSUME NEW q \in requests, S!Answer(q) \/ S!Disconnect(q) PROVE SessionInv'
  BY <1>5, SessionAnswer, SessionDisconnect
<1>. QED BY <1>1, <1>2, <1>3, <1>4, <1>5, SessionTick DEF S!Next

-----------------------------------------------------------------------------
\* The steps that change a row or the history of renewals.
RowChanges ==
    \/ \E p \in S!Pages, s \in Sessions : S!SignIn(p, s)
    \/ \E q \in requests : \/ S!RotateSession(q) /\ S!Rotatable(session[q.token.session], q.token)
                           \/ S!RevokeSession(q) \/ S!RevokeAllSessions(q)

\* Which steps change a row, and how.
LEMMA SessionChanges ==
    ASSUME [S!Next]_S!vars
    PROVE  RowChanges \/ (session' = session /\ accepted' = accepted)
<1>1. CASE UNCHANGED S!vars
  BY <1>1 DEF S!vars
<1>2. ASSUME NEW p \in S!Pages, S!Load(p) \/ S!GetMe(p) \/ S!Logout(p) \/ S!LogoutAll(p)
      PROVE  session' = session /\ accepted' = accepted
  BY <1>2 DEF S!Load, S!GetMe, S!Logout, S!LogoutAll
<1>3. ASSUME NEW q \in requests, S!Serve(q)
      PROVE  RowChanges \/ (session' = session /\ accepted' = accepted)
  BY <1>3 DEF S!Serve, S!RefreshRead, S!RotateSession, S!LogoutRead, RowChanges
<1>4. ASSUME NEW q \in requests, S!Answer(q) \/ S!Disconnect(q)
      PROVE  session' = session /\ accepted' = accepted
  BY <1>4 DEF S!Answer, S!Disconnect
<1>5. S!Tick => session' = session /\ accepted' = accepted
  BY DEF S!Tick
<1>. QED BY <1>1, <1>2, <1>3, <1>4, <1>5 DEF S!Next, RowChanges

\* A renewal makes the row's token newer, so the tokens exchanged before stay
\* behind it; only a renewal in the second of the issue gives the same one.
LEMMA ExchangedNext == SessionInv /\ ExchangedIsDead /\ [S!Next]_S!vars => ExchangedIsDead'
<1>. SUFFICES ASSUME SessionInv, ExchangedIsDead, [S!Next]_S!vars,
                     NEW s \in Sessions, session'[s] # None,
                     NEW a \in accepted', a.token = session'[s].hash
              PROVE  a.token = a.renewed
  BY DEF ExchangedIsDead, S!ExchangedIsDead
<1>. USE DEF ExchangedIsDead, S!ExchangedIsDead
<1>0. ASSUME NEW b \in accepted
      PROVE  b.token \in S!Tokens /\ Past(b) /\ b.token.session \in Sessions /\ b.token.iat \in Nat
  BY Times DEF SessionInv, SessionTypes
<1>1. CASE session' = session /\ accepted' = accepted
  BY <1>1
<1>2. ASSUME NEW p \in S!Pages, NEW x \in Sessions, S!SignIn(p, x) PROVE a.token = a.renewed
  <2>1. PICK row : row = S!Row(S!generateRefreshToken(x))
    OBVIOUS
  <2>2. session[x] = None /\ session' = [session EXCEPT ![x] = row] /\ accepted' = accepted
    BY <1>2, <2>1 DEF S!SignIn
  <2>3. session'[x] = row /\ \A y \in Sessions : y # x => session'[y] = session[y]
    BY <2>2 DEF SessionInv, SessionTypes
  <2>4. CASE s = x
    <3>1. row.hash.session = x
      BY <2>1 DEF S!Row, S!generateRefreshToken
    <3>2. a.token.session = x /\ session[x] # None
      BY <1>0, <2>2, <2>3, <2>4, <3>1 DEF Past
    <3>. QED BY <2>2, <3>2
  <2>5. CASE s # x
    BY <2>2, <2>3, <2>5
  <2>. QED BY <2>4, <2>5
<1>3. ASSUME NEW q \in requests, S!RotateSession(q),
             S!Rotatable(session[q.token.session], q.token)
      PROVE  a.token = a.renewed
  <2>1. PICK x \in Sessions, row \in S!Rows :
             /\ x = q.token.session /\ session[x] \in S!Rows /\ session[x] # None
             /\ session[x].hash = q.token /\ ~session[x].revoked
             /\ session' = [session EXCEPT ![x] = row]
             /\ row.hash = q.issued /\ row.expiresAt = S!getTokenExpiration(q.issued)
             /\ q.issued \in S!Tokens /\ q.issued.session = x
             /\ q.token.iat <= q.issued.iat /\ q.issued.iat <= now
             /\ accepted' = accepted \cup {[token |-> q.token, renewed |-> q.issued]}
             /\ S!Goes(q, "answer")
    BY <1>3, RotateEffect
  <2>2. session'[x] = row /\ \A y \in Sessions : y # x => session'[y] = session[y]
    BY <2>1 DEF SessionInv, SessionTypes
  <2>3. q.token \in S!Tokens /\ q.issued.iat \in Nat /\ q.token.iat \in Nat
    <3>1. q.token \in S!Tokens
      BY <2>1 DEF S!Rows
    <3>. QED BY <2>1, <3>1, Times
  <2>4. CASE a \notin accepted
    <3>1. a.token = q.token /\ a.renewed = q.issued
      BY <2>1, <2>4
    <3>2. CASE s = x
      BY <2>1, <2>2, <3>1, <3>2
    <3>3. CASE s # x
      <4>1. session[s] = session'[s] /\ RowOK(s)
        BY <2>2, <3>3 DEF SessionInv
      <4>2. q.token.session = s
        BY <3>1, <4>1 DEF RowOK
      <4>. QED BY <2>1, <3>3, <4>2
    <3>. QED BY <3>2, <3>3
  <2>5. CASE a \in accepted /\ s = x
    <3>1. a.token = q.issued
      BY <2>1, <2>2, <2>5
    <3>2. a.token.iat <= q.token.iat
      BY <1>0, <2>1, <2>5, <3>1 DEF Past
    <3>3. q.issued.iat = q.token.iat
      BY <2>1, <2>3, <3>1, <3>2
    <3>4. q.issued = q.token
      BY <2>1, <2>3, <3>3 DEF S!Tokens
    <3>. QED BY <2>1, <2>5, <3>1, <3>4
  <2>6. CASE a \in accepted /\ s # x
    BY <2>2, <2>6
  <2>. QED BY <2>4, <2>5, <2>6
<1>4. ASSUME NEW q \in requests, S!RevokeSession(q) PROVE a.token = a.renewed
  <2>1. PICK x \in Sessions : x = q.token.session
    BY <1>4, RevokeOneEffect
  <2>2. PICK row \in S!Rows : row = S!Revoked(session[x]) /\ row.hash = session[x].hash
    BY <1>4, <2>1, RevokeOneEffect, RevokedRow
  <2>3. session[x] # None /\ session' = [session EXCEPT ![x] = row] /\ accepted' = accepted
    BY <1>4, <2>1, <2>2, RevokeOneEffect, Times DEF S!RevokeSession
  <2>4. session'[x] = row /\ \A y \in Sessions : y # x => session'[y] = session[y]
    BY <2>3 DEF SessionInv, SessionTypes
  <2>. QED BY <2>2, <2>3, <2>4
<1>5. ASSUME NEW q \in requests, S!RevokeAllSessions(q) PROVE a.token = a.renewed
  <2>1. session' = [y \in Sessions |-> IF session[y] = None THEN None ELSE S!Revoked(session[y])]
        /\ accepted' = accepted
    BY <1>5 DEF S!RevokeAllSessions
  <2>2. session[s] # None /\ session'[s] = S!Revoked(session[s])
    BY <2>1
  <2>3. session[s] \in S!Rows
    BY <2>2 DEF SessionInv, SessionTypes
  <2>4. session'[s].hash = session[s].hash
    BY <2>2, <2>3, RevokedRow
  <2>. QED BY <2>1, <2>2, <2>4
<1>. QED BY <1>1, <1>2, <1>3, <1>4, <1>5, SessionChanges DEF RowChanges

\* The rows of sessions that were ended do not change.
EndedStays ==
    \A s \in Sessions : session[s] # None /\ session[s].revoked => session'[s] = session[s]

\* No step makes a row active again or gives it another end.
LEMMA EndedNext == SessionInv /\ [S!Next]_S!vars => EndedStays
<1>. SUFFICES ASSUME SessionInv, [S!Next]_S!vars,
                     NEW s \in Sessions, session[s] # None, session[s].revoked
              PROVE  session'[s] = session[s]
  BY DEF EndedStays
<1>0. session \in [Sessions -> S!Rows \cup {None}] /\ session[s] \in S!Rows
  BY DEF SessionInv, SessionTypes
<1>1. ASSUME NEW p \in S!Pages, NEW x \in Sessions, S!SignIn(p, x) PROVE session'[s] = session[s]
  <2>1. PICK row : row = S!Row(S!generateRefreshToken(x))
    OBVIOUS
  <2>2. session[x] = None /\ session' = [session EXCEPT ![x] = row]
    BY <1>1, <2>1 DEF S!SignIn
  <2>. QED BY <1>0, <2>2
<1>2. ASSUME NEW q \in requests, S!RotateSession(q),
             S!Rotatable(session[q.token.session], q.token)
      PROVE  session'[s] = session[s]
  <2>1. PICK x \in Sessions, row \in S!Rows :
             ~session[x].revoked /\ session' = [session EXCEPT ![x] = row]
    BY <1>2, RotateEffect
  <2>. QED BY <1>0, <2>1
<1>3. ASSUME NEW q \in requests, S!RevokeSession(q) PROVE session'[s] = session[s]
  <2>1. PICK x \in Sessions : x = q.token.session
    BY <1>3, RevokeOneEffect
  <2>2. session' = [session EXCEPT ![x] = S!Revoked(session[x])]
    BY <1>3, <2>1, RevokeOneEffect
  <2>3. S!Revoked(session[s]) = session[s]
    BY <1>0, RevokedRow
  <2>. QED BY <1>0, <2>2, <2>3
<1>4. ASSUME NEW q \in requests, S!RevokeAllSessions(q) PROVE session'[s] = session[s]
  <2>1. session' = [y \in Sessions |-> IF session[y] = None THEN None ELSE S!Revoked(session[y])]
    BY <1>4 DEF S!RevokeAllSessions
  <2>. QED BY <1>0, <2>1, RevokedRow
<1>. QED BY <1>1, <1>2, <1>3, <1>4, SessionChanges DEF RowChanges

-----------------------------------------------------------------------------
(***************************************************************************)
(* Addresses.                                                              *)
(*                                                                         *)
(* AddressInv holds whatever overlaps: a row is written only under its     *)
(* lock, and a row that is being created is known to its creator alone.    *)
(* AloneInv says of a transaction that runs alone what it sees after each  *)
(* statement, so that the table it commits is as good as the one it found. *)
(***************************************************************************)
\* The transaction of t runs.
Active(t) == tx[t].pc \notin {"new", "done", "failed"}

\* The ids that are the default, as the transaction of t sees them.
Seen(t) == A!Defaults(A!Visible(t))

\* At most one default, and one if there are addresses and none was switched off.
GoodTable(table) ==
    /\ \A x, y \in A!Defaults(table) : x = y
    /\ DOMAIN table # {} /\ ~unset => A!Defaults(table) # {}

\* What a request asks for decides what its transaction does.
AskedOK(t) ==
    /\ tx[t].op \in {"remove", "setDefault"} => tx[t].wanted = "yes"
    /\ tx[t].op = "update" /\ tx[t].wanted = "no" => unset
    /\ tx[t].op = "create" => tx[t].id \in given /\ tx[t].wanted # "same"
    /\ tx[t].op = "none" => tx[t].pc = "new"
    /\ tx[t].pc \in {"delete", "successor"} => tx[t].op = "remove"
    /\ tx[t].pc = "insert" => tx[t].op = "create"
    /\ tx[t].pc \in {"set", "find"} => tx[t].op # "create"
    /\ tx[t].pc \in {"clear", "clearing"} => tx[t].op # "remove" /\ tx[t].wanted = "yes"
    /\ tx[t].pc \in {"find", "clear", "delete"} => writes[t] = A!Empty

\* The row that a request creates is its own until the commit.
CreatedOK(t) ==
    tx[t].op = "create" /\ tx[t].pc \in {"clear", "clearing", "insert"} =>
        tx[t].id \notin DOMAIN rows

\* A write is to a row that exists or that the transaction has inserted.
WritesOK(t) ==
    \A id \in DOMAIN writes[t] :
        id \in DOMAIN rows \/ (tx[t].op = "create" /\ tx[t].id = id /\ tx[t].pc = "commit")

\* The address that was chosen has been made the default.
ChosenOK(t) ==
    tx[t].pc = "commit" /\ tx[t].op # "remove" /\ tx[t].wanted = "yes" =>
        tx[t].id \in DOMAIN writes[t] /\ writes[t][tx[t].id] = TRUE

\* What a transaction that runs alone has done so far.
AloneOK(t) ==
    /\ tx[t].pc = "delete" => (tx[t].wasDefault <=> tx[t].id \in A!Defaults(rows))
    /\ tx[t].pc = "clearing" => Seen(t) \subseteq tx[t].targets
    /\ tx[t].pc \in {"insert", "set"} => \/ tx[t].wanted = "yes" /\ Seen(t) = {}
                                         \/ tx[t].wanted # "yes" /\ writes[t] = A!Empty
    /\ tx[t].pc = "successor" => Seen(t) = {}
    /\ tx[t].pc = "commit" => GoodTable(A!Visible(t))

AddressInv ==
    /\ A!TypeOK
    /\ \A t \in Requests : AskedOK(t) /\ CreatedOK(t) /\ WritesOK(t) /\ ChosenOK(t)
    /\ \A t, u \in Requests : tx[t].op = "create" /\ tx[u].op = "create" /\ tx[t].id = tx[u].id => t = u

\* While no two requests have overlapped.
AloneInv ==
    ~overlapped => /\ GoodTable(rows)
                   /\ \A t, u \in Requests : Active(t) /\ Active(u) => t = u
                   /\ \A t \in Requests : AloneOK(t)

\* What a statement sees of a table and of its transaction's writes.
LEMMA OverlayEffect ==
    ASSUME NEW table, NEW w,
           \A id \in DOMAIN table : table[id] \in BOOLEAN,
           \A id \in DOMAIN w : w[id] \in BOOLEAN \cup {None}
    PROVE  /\ \A id : id \in DOMAIN A!Overlay(table, w) <=>
                          \/ id \in DOMAIN w /\ w[id] # None
                          \/ id \notin DOMAIN w /\ id \in DOMAIN table
           /\ \A id \in DOMAIN A!Overlay(table, w) :
                 A!Overlay(table, w)[id] = IF id \in DOMAIN w THEN w[id] ELSE table[id]
           /\ \A id \in DOMAIN A!Overlay(table, w) : A!Overlay(table, w)[id] \in BOOLEAN
<1>. DEFINE gone == {id \in DOMAIN w : w[id] = None}
<1>1. A!Overlay(table, w) = [id \in (DOMAIN table \cup DOMAIN w) \ gone |->
                               IF id \in DOMAIN w THEN w[id] ELSE table[id]]
  BY DEF A!Overlay
<1>2. DOMAIN A!Overlay(table, w) = (DOMAIN table \cup DOMAIN w) \ gone
  BY <1>1
<1>3. \A id : id \in gone <=> id \in DOMAIN w /\ w[id] = None
  OBVIOUS
<1>4. \A id \in DOMAIN A!Overlay(table, w) :
         A!Overlay(table, w)[id] = IF id \in DOMAIN w THEN w[id] ELSE table[id]
  BY <1>1, <1>2
<1>5. \A id : id \in DOMAIN A!Overlay(table, w) <=>
                          \/ id \in DOMAIN w /\ w[id] # None
                          \/ id \notin DOMAIN w /\ id \in DOMAIN table
  BY <1>2, <1>3, Zenon
<1>6. ASSUME NEW id \in DOMAIN A!Overlay(table, w) PROVE A!Overlay(table, w)[id] \in BOOLEAN
  <2>1. CASE id \in DOMAIN w
    <3>1. w[id] \in BOOLEAN
      BY <1>5, <2>1, Zenon
    <3>. QED BY <1>4, <2>1, <3>1, Zenon
  <2>2. CASE id \notin DOMAIN w
    <3>1. table[id] \in BOOLEAN
      BY <1>5, <2>2, Zenon
    <3>. QED BY <1>4, <2>2, <3>1, Zenon
  <2>. QED BY <2>1, <2>2
<1>. HIDE DEF gone
<1>. QED BY <1>4, <1>5, <1>6, Zenon

\* The defaults that a statement sees.
LEMMA OverlayDefaults ==
    ASSUME NEW table, NEW w,
           \A id \in DOMAIN table : table[id] \in BOOLEAN,
           \A id \in DOMAIN w : w[id] \in BOOLEAN \cup {None}
    PROVE  \A id : id \in A!Defaults(A!Overlay(table, w)) <=>
                      \/ id \in DOMAIN w /\ w[id] = TRUE
                      \/ id \notin DOMAIN w /\ id \in DOMAIN table /\ table[id] = TRUE
<1>. SUFFICES ASSUME NEW id
              PROVE  id \in A!Defaults(A!Overlay(table, w)) <=>
                        \/ id \in DOMAIN w /\ w[id] = TRUE
                        \/ id \notin DOMAIN w /\ id \in DOMAIN table /\ table[id] = TRUE
  OBVIOUS
<1>0. None # TRUE
  BY AccountsConstants DEF A!AddressConstants
<1>1. id \in A!Defaults(A!Overlay(table, w)) <=>
        id \in DOMAIN A!Overlay(table, w) /\ A!Overlay(table, w)[id]
  BY DEF A!Defaults
<1>2. ASSUME id \in DOMAIN A!Overlay(table, w)
      PROVE  /\ A!Overlay(table, w)[id] <=> A!Overlay(table, w)[id] = TRUE
             /\ A!Overlay(table, w)[id] = IF id \in DOMAIN w THEN w[id] ELSE table[id]
  <2>1. A!Overlay(table, w)[id] \in BOOLEAN
    BY <1>2, OverlayEffect, Zenon
  <2>2. A!Overlay(table, w)[id] <=> A!Overlay(table, w)[id] = TRUE
    BY <2>1, Zenon
  <2>. QED BY <1>2, <2>2, OverlayEffect, Zenon
<1>3. id \in DOMAIN A!Overlay(table, w) <=>
         \/ id \in DOMAIN w /\ w[id] # None
         \/ id \notin DOMAIN w /\ id \in DOMAIN table
  BY OverlayEffect
<1>4. CASE id \in DOMAIN w
  <2>1. CASE w[id] # None
    <3>1. A!Overlay(table, w)[id] = w[id] /\ id \in DOMAIN A!Overlay(table, w)
      BY <1>2, <1>3, <1>4, <2>1, Zenon
    <3>. QED BY <1>1, <1>2, <1>4, <3>1, Zenon
  <2>2. CASE w[id] = None
    BY <1>0, <1>1, <1>3, <1>4, <2>2, Zenon
  <2>. QED BY <2>1, <2>2
<1>5. CASE id \notin DOMAIN w
  BY <1>0, <1>1, <1>2, <1>3, <1>5, Zenon
<1>. QED BY <1>4, <1>5

\* The invariant holds at the start.
LEMMA AddressInit == A!Init => AddressInv /\ AloneInv
<1>. SUFFICES ASSUME A!Init PROVE AddressInv /\ AloneInv
  OBVIOUS
<1>1. /\ rows = A!Empty /\ given = {} /\ unset = FALSE /\ overlapped = FALSE
      /\ tx = [t \in Requests |-> A!Asks("none", None, "no", "new")]
      /\ writes = [t \in Requests |-> A!Empty]
  BY DEF A!Init
<1>2. DOMAIN A!Empty = {} /\ A!Defaults(A!Empty) = {}
  BY DEF A!Empty, A!Defaults
<1>3. A!Asks("none", None, "no", "new") \in A!Transactions
  BY DEF A!Asks, A!Transactions
<1>4. \A t \in Requests : /\ tx[t].op = "none" /\ tx[t].pc = "new" /\ tx[t].wanted = "no"
                         /\ writes[t] = A!Empty
  BY <1>1 DEF A!Asks
<1>5. A!TypeOK
  BY <1>1, <1>2, <1>3, <1>4 DEF A!TypeOK
<1>6. \A t \in Requests : AskedOK(t) /\ CreatedOK(t) /\ WritesOK(t) /\ ChosenOK(t)
  BY <1>2, <1>4 DEF AskedOK, CreatedOK, WritesOK, ChosenOK
<1>7. AloneInv
  BY <1>1, <1>2, <1>4 DEF AloneInv, GoodTable, AloneOK, Active
<1>. QED BY <1>4, <1>5, <1>6, <1>7 DEF AddressInv

\* The request of t goes on, and the others stay where they are.
Alone(t) ==
    /\ tx' \in [Requests -> A!Transactions]
    /\ DOMAIN writes' = Requests
    /\ \A u \in Requests : u # t => tx'[u] = tx[u] /\ writes'[u] = writes[u]

\* The types of the writes of one request.
WritesType(t) ==
    /\ DOMAIN writes[t] \subseteq given
    /\ \A id \in DOMAIN writes[t] : writes[t][id] \in BOOLEAN \cup {None}
    /\ tx[t].pc \in {"new", "done", "failed"} => writes[t] = A!Empty

\* What AddressInv says of the types.
LEMMA AddressTypes ==
    ASSUME AddressInv
    PROVE  /\ \A id \in DOMAIN rows : rows[id] \in BOOLEAN
           /\ DOMAIN rows \subseteq given /\ given \subseteq Ids
           /\ tx \in [Requests -> A!Transactions] /\ DOMAIN writes = Requests
           /\ \A t \in Requests : WritesType(t)
           /\ \A t, u \in Requests : t # u => DOMAIN writes[t] \cap DOMAIN writes[u] = {}
           /\ unset \in BOOLEAN /\ overlapped \in BOOLEAN
BY DEF AddressInv, A!TypeOK, WritesType

\* What a step of t that commits nothing has to show.
LEMMA AddressStep ==
    ASSUME AddressInv, NEW t \in Requests, Alone(t), rows' = rows,
           given \subseteq given', given' \subseteq Ids, unset => unset',
           unset' \in BOOLEAN, overlapped' \in BOOLEAN,
           WritesType(t)', AskedOK(t)', CreatedOK(t)', WritesOK(t)', ChosenOK(t)',
           \A u \in Requests : u # t => DOMAIN writes'[t] \cap DOMAIN writes[u] = {},
           tx'[t].op = "create" =>
               \A u \in Requests : u # t /\ tx[u].op = "create" => tx[u].id # tx'[t].id
    PROVE  AddressInv'
<1>1. ASSUME NEW u \in Requests, u # t
      PROVE  AskedOK(u)' /\ CreatedOK(u)' /\ WritesOK(u)' /\ ChosenOK(u)' /\ WritesType(u)'
  <2>0. AskedOK(u) /\ CreatedOK(u) /\ WritesOK(u) /\ ChosenOK(u) /\ WritesType(u)
    BY AddressTypes DEF AddressInv
  <2>1. tx'[u] = tx[u] /\ writes'[u] = writes[u]
    BY <1>1 DEF Alone
  <2>2. AskedOK(u)'
    BY <2>0, <2>1 DEF AskedOK
  <2>3. CreatedOK(u)' /\ WritesOK(u)' /\ ChosenOK(u)'
    BY <2>0, <2>1 DEF CreatedOK, WritesOK, ChosenOK
  <2>4. WritesType(u)'
    BY <2>0, <2>1 DEF WritesType
  <2>. QED BY <2>2, <2>3, <2>4
<1>2. \A u \in Requests : AskedOK(u)' /\ CreatedOK(u)' /\ WritesOK(u)' /\ ChosenOK(u)' /\ WritesType(u)'
  BY <1>1
<1>3. \A u, v \in Requests : u # v => DOMAIN writes'[u] \cap DOMAIN writes'[v] = {}
  BY AddressTypes DEF Alone
<1>4. \A u, v \in Requests :
         tx'[u].op = "create" /\ tx'[v].op = "create" /\ tx'[u].id = tx'[v].id => u = v
  BY DEF Alone, AddressInv
<1>5. A!TypeOK'
  <2>1. given' \subseteq Ids /\ DOMAIN rows' \subseteq given' /\ \A id \in DOMAIN rows' : rows'[id] \in BOOLEAN
    BY AddressTypes
  <2>. QED BY <1>2, <1>3, <2>1 DEF A!TypeOK, Alone, WritesType, A!Transactions
<1>. QED BY <1>2, <1>4, <1>5 DEF AddressInv

\* A step of t in which only its transaction goes on.
Quiet(t) ==
    /\ Alone(t)
    /\ rows' = rows /\ given' = given /\ unset' = unset /\ overlapped' = overlapped
    /\ tx'[t].op = tx[t].op /\ tx'[t].wanted = tx[t].wanted

\* The steps that write nothing.
Reads(t) == Quiet(t) /\ writes'[t] = writes[t] /\ tx'[t].id = tx[t].id

\* A step of a request that reads nothing new and writes nothing keeps the invariant.
LEMMA QuietStep ==
    ASSUME AddressInv, NEW t \in Requests, Quiet(t),
           WritesType(t)', AskedOK(t)', CreatedOK(t)', WritesOK(t)', ChosenOK(t)',
           \A u \in Requests : u # t => DOMAIN writes'[t] \cap DOMAIN writes[u] = {},
           tx[t].op = "create" => tx'[t].id = tx[t].id
    PROVE  AddressInv'
<1>1. given \subseteq given' /\ given' \subseteq Ids /\ (unset => unset')
      /\ unset' \in BOOLEAN /\ overlapped' \in BOOLEAN
  BY AddressTypes DEF Quiet
<1>2. tx'[t].op = "create" =>
         \A u \in Requests : u # t /\ tx[u].op = "create" => tx[u].id # tx'[t].id
  BY DEF Quiet, AddressInv
<1>. QED BY <1>1, <1>2, AddressStep DEF Quiet

\* A step of a request that only reads keeps the invariant.
LEMMA ReadsStep ==
    ASSUME AddressInv, NEW t \in Requests, Reads(t), WritesType(t)', AskedOK(t)',
           tx'[t].pc # "commit", tx[t].pc # "commit",
           tx'[t].pc \in {"clear", "clearing", "insert"} =>
               tx[t].pc \in {"clear", "clearing", "insert"} \/ tx[t].op # "create"
    PROVE  AddressInv'
<1>1. CreatedOK(t) /\ WritesOK(t)
  BY DEF AddressInv
<1>2. CreatedOK(t)' /\ WritesOK(t)' /\ ChosenOK(t)'
  BY <1>1 DEF CreatedOK, WritesOK, ChosenOK, Reads, Quiet
<1>3. \A u \in Requests : u # t => DOMAIN writes'[t] \cap DOMAIN writes[u] = {}
  BY AddressTypes DEF Reads
<1>. QED BY <1>2, <1>3, QuietStep DEF Reads

\* A transaction that runs alone goes on.
LEMMA AloneStep ==
    ASSUME AloneInv, NEW t \in Requests, Active(t), Quiet(t),
           ~overlapped /\ GoodTable(rows) /\ AloneOK(t) => AloneOK(t)'
    PROVE  AloneInv'
<1>. SUFFICES ASSUME ~overlapped PROVE AloneInv'
  BY DEF AloneInv, Quiet
<1>1. \A u \in Requests : u # t => ~Active(u) /\ tx'[u] = tx[u]
  BY DEF AloneInv, Quiet, Alone
<1>2. \A u \in Requests : u # t => ~Active(u)' /\ AloneOK(u)'
  BY <1>1 DEF Active, AloneOK
<1>3. GoodTable(rows)'
  BY DEF AloneInv, GoodTable, Quiet
<1>4. AloneOK(t)'
  BY DEF AloneInv
<1>. QED BY <1>2, <1>3, <1>4 DEF AloneInv, Quiet

\* The writes of the other transactions, when there is one that runs.
LEMMA AloneUnlocked ==
    ASSUME AddressInv, AloneInv, ~overlapped, NEW t \in Requests, Active(t), NEW id
    PROVE  ~A!Locked(t, id)
<1>1. \A u \in Requests : u # t => writes[u] = A!Empty
  BY AddressTypes DEF AloneInv, Active, WritesType
<1>2. DOMAIN A!Empty = {}
  BY DEF A!Empty
<1>. QED BY <1>1, <1>2 DEF A!Locked

\* A transaction that is rolled back keeps the invariant.
LEMMA RollbackStep ==
    ASSUME AddressInv, NEW t \in Requests, Active(t), A!Rollback(t),
           rows' = rows, given' = given, unset' = unset, overlapped' = overlapped
    PROVE  AddressInv' /\ (AloneInv => AloneInv')
<1>1. tx' = [tx EXCEPT ![t].pc = "failed"] /\ writes' = [writes EXCEPT ![t] = A!Empty]
  BY DEF A!Rollback, A!Goes
<1>2. tx \in [Requests -> A!Transactions] /\ DOMAIN writes = Requests
  BY AddressTypes
<1>3. tx' \in [Requests -> A!Transactions]
  BY <1>1, <1>2 DEF A!Transactions
<1>4. /\ tx'[t].pc = "failed" /\ tx'[t].op = tx[t].op /\ tx'[t].wanted = tx[t].wanted
      /\ tx'[t].id = tx[t].id /\ \A u \in Requests : u # t => tx'[u] = tx[u]
  BY <1>1, <1>2 DEF A!Transactions
<1>5. DOMAIN writes' = Requests /\ writes'[t] = A!Empty
      /\ \A u \in Requests : u # t => writes'[u] = writes[u]
  BY <1>1, <1>2
<1>6. Quiet(t)
  BY <1>3, <1>4, <1>5 DEF Quiet, Alone
<1>7. DOMAIN A!Empty = {}
  BY DEF A!Empty
<1>8. AskedOK(t)'
  <2>1. AskedOK(t) /\ tx[t].pc # "new"
    BY DEF AddressInv, Active
  <2>. QED BY <1>4, <2>1 DEF AskedOK
<1>9. CreatedOK(t)' /\ WritesOK(t)' /\ ChosenOK(t)' /\ WritesType(t)'
  BY <1>4, <1>5, <1>7 DEF CreatedOK, WritesOK, ChosenOK, WritesType
<1>10. AddressInv'
  BY <1>4, <1>5, <1>6, <1>7, <1>8, <1>9, QuietStep
<1>11. AloneOK(t)'
  BY <1>4 DEF AloneOK
<1>. QED BY <1>6, <1>10, <1>11, AloneStep

\* A row that nobody else has locked is written.
LEMMA WriteEffect ==
    ASSUME AddressInv, NEW t \in Requests, NEW id \in given, NEW value \in BOOLEAN \cup {None},
           A!Write(t, id, value), ~A!Locked(t, id)
    PROVE  /\ DOMAIN writes' = Requests
           /\ \A u \in Requests : u # t => writes'[u] = writes[u]
           /\ DOMAIN writes'[t] = DOMAIN writes[t] \cup {id}
           /\ writes'[t][id] = value
           /\ \A x \in DOMAIN writes[t] : x # id => writes'[t][x] = writes[t][x]
           /\ DOMAIN writes'[t] \subseteq given
           /\ \A x \in DOMAIN writes'[t] : writes'[t][x] \in BOOLEAN \cup {None}
           /\ \A u \in Requests : u # t => DOMAIN writes'[t] \cap DOMAIN writes[u] = {}
<1>1. DOMAIN writes = Requests /\ WritesType(t)
  BY AddressTypes
<1>2. PICK w : w = [x \in DOMAIN writes[t] \cup {id} |-> IF x = id THEN value ELSE writes[t][x]]
  OBVIOUS
<1>3. writes' = [writes EXCEPT ![t] = w]
  BY <1>2 DEF A!Write
<1>4. writes'[t] = w /\ DOMAIN writes' = Requests
      /\ \A u \in Requests : u # t => writes'[u] = writes[u]
  BY <1>1, <1>3
<1>5. DOMAIN w = DOMAIN writes[t] \cup {id} /\ w[id] = value
      /\ \A x \in DOMAIN writes[t] : x # id => w[x] = writes[t][x]
  BY <1>2
<1>6. \A u \in Requests : u # t => id \notin DOMAIN writes[u]
  BY DEF A!Locked
<1>7. \A u \in Requests : u # t => DOMAIN w \cap DOMAIN writes[u] = {}
  BY <1>5, <1>6, AddressTypes
<1>8. DOMAIN w \subseteq given /\ \A x \in DOMAIN w : w[x] \in BOOLEAN \cup {None}
  BY <1>1, <1>5 DEF WritesType
<1>. QED BY <1>4, <1>5, <1>7, <1>8

\* What the statements of t see, and what its next one will see.
LEMMA SeenIs ==
    ASSUME AddressInv, NEW t \in Requests
    PROVE  /\ \A id : id \in DOMAIN A!Visible(t) <=>
                          \/ id \in DOMAIN writes[t] /\ writes[t][id] # None
                          \/ id \notin DOMAIN writes[t] /\ id \in DOMAIN rows
           /\ \A id : id \in Seen(t) <=>
                          \/ id \in DOMAIN writes[t] /\ writes[t][id] = TRUE
                          \/ id \notin DOMAIN writes[t] /\ id \in DOMAIN rows /\ rows[id] = TRUE
           /\ \A id \in DOMAIN A!Visible(t) :
                 /\ A!Visible(t)[id] = IF id \in DOMAIN writes[t] THEN writes[t][id] ELSE rows[id]
                 /\ A!Visible(t)[id] \in BOOLEAN
<1>1. /\ \A id \in DOMAIN rows : rows[id] \in BOOLEAN
      /\ \A id \in DOMAIN writes[t] : writes[t][id] \in BOOLEAN \cup {None}
  BY AddressTypes DEF WritesType
<1>2. PICK table, w : table = rows /\ w = writes[t]
  OBVIOUS
<1>3. A!Visible(t) = A!Overlay(table, w) /\ Seen(t) = A!Defaults(A!Overlay(table, w))
  BY <1>2 DEF A!Visible, Seen
<1>4. /\ \A id \in DOMAIN table : table[id] \in BOOLEAN
      /\ \A id \in DOMAIN w : w[id] \in BOOLEAN \cup {None}
  BY <1>1, <1>2
<1>5. \A id : id \in DOMAIN A!Overlay(table, w) <=>
                          \/ id \in DOMAIN w /\ w[id] # None
                          \/ id \notin DOMAIN w /\ id \in DOMAIN table
  BY <1>4, OverlayEffect, Zenon
<1>6. \A id \in DOMAIN A!Overlay(table, w) :
            A!Overlay(table, w)[id] = IF id \in DOMAIN w THEN w[id] ELSE table[id]
  BY <1>4, OverlayEffect, Zenon
<1>7. \A id \in DOMAIN A!Overlay(table, w) : A!Overlay(table, w)[id] \in BOOLEAN
  BY <1>4, OverlayEffect, Zenon
<1>8. \A id : id \in A!Defaults(A!Overlay(table, w)) <=>
                      \/ id \in DOMAIN w /\ w[id] = TRUE
                      \/ id \notin DOMAIN w /\ id \in DOMAIN table /\ table[id] = TRUE
  BY <1>4, OverlayDefaults, Zenon
<1>. QED BY <1>2, <1>3, <1>5, <1>6, <1>7, <1>8, ZenonT(30)

\* What a request sees in the next state, by the rows and its writes there.
LEMMA SeenNext ==
    ASSUME NEW t \in Requests,
           \A id \in DOMAIN rows' : rows'[id] \in BOOLEAN,
           \A id \in DOMAIN writes'[t] : writes'[t][id] \in BOOLEAN \cup {None}
    PROVE  /\ \A id : id \in DOMAIN A!Visible(t)' <=>
                          \/ id \in DOMAIN writes'[t] /\ writes'[t][id] # None
                          \/ id \notin DOMAIN writes'[t] /\ id \in DOMAIN rows'
           /\ \A id : id \in Seen(t)' <=>
                          \/ id \in DOMAIN writes'[t] /\ writes'[t][id] = TRUE
                          \/ id \notin DOMAIN writes'[t] /\ id \in DOMAIN rows' /\ rows'[id] = TRUE
<1>1. PICK table, w : table = rows' /\ w = writes'[t]
  OBVIOUS
<1>2. A!Visible(t)' = A!Overlay(table, w) /\ Seen(t)' = A!Defaults(A!Overlay(table, w))
  BY <1>1 DEF A!Visible, Seen, A!Defaults, A!Overlay
<1>3. /\ \A id \in DOMAIN table : table[id] \in BOOLEAN
      /\ \A id \in DOMAIN w : w[id] \in BOOLEAN \cup {None}
  BY <1>1
<1>4. \A id : id \in DOMAIN A!Overlay(table, w) <=>
                          \/ id \in DOMAIN w /\ w[id] # None
                          \/ id \notin DOMAIN w /\ id \in DOMAIN table
  BY <1>3, OverlayEffect, Zenon
<1>5. \A id : id \in A!Defaults(A!Overlay(table, w)) <=>
                      \/ id \in DOMAIN w /\ w[id] = TRUE
                      \/ id \notin DOMAIN w /\ id \in DOMAIN table /\ table[id] = TRUE
  BY <1>3, OverlayDefaults, Zenon
<1>. QED BY <1>1, <1>2, <1>4, <1>5, Zenon

\* A transaction that has written nothing sees the table.
LEMMA SeenClean ==
    ASSUME AddressInv, NEW t \in Requests, writes[t] = A!Empty
    PROVE  Seen(t) = A!Defaults(rows) /\ DOMAIN A!Visible(t) = DOMAIN rows
<1>1. DOMAIN A!Empty = {}
  BY DEF A!Empty
<1>2. \A id \in DOMAIN rows : rows[id] = TRUE <=> rows[id]
  BY AddressTypes, Zenon
<1>3. \A id : id \in Seen(t) <=> id \in DOMAIN rows /\ rows[id] = TRUE
  BY <1>1, SeenIs
<1>4. \A id : id \in Seen(t) <=> id \in A!Defaults(rows)
  BY <1>2, <1>3, Zenon DEF A!Defaults
<1>. QED BY <1>1, <1>4, SeenIs

\* Find keeps the invariant.
LEMMA AddressFind ==
    ASSUME AddressInv, NEW t \in Requests, A!Find(t)
    PROVE  AddressInv' /\ (AloneInv => AloneInv')
<1>0. Active(t) /\ tx[t].pc = "find" /\ rows' = rows /\ given' = given /\ unset' = unset
      /\ overlapped' = overlapped
  BY DEF A!Find, A!At, Active, A!history
<1>1. CASE tx[t].id \notin DOMAIN A!Visible(t)
  <2>1. A!Rollback(t)
    BY <1>1 DEF A!Find
  <2>. QED BY <1>0, <2>1, RollbackStep
<1>2. CASE tx[t].id \in DOMAIN A!Visible(t)
  <2>1. AskedOK(t) /\ WritesType(t) /\ tx \in [Requests -> A!Transactions] /\ DOMAIN writes = Requests
    BY AddressTypes DEF AddressInv
  <2>2. writes[t] = A!Empty /\ tx[t].op # "create" /\ tx[t].op # "none"
    BY <1>0, <2>1 DEF AskedOK
  <2>3. tx[t].op \in {"remove", "setDefault", "update"}
    BY <2>1, <2>2 DEF A!Transactions
  <2>4. PICK pc \in {"delete", "clear", "set"} :
          /\ pc = A!AfterFind(t)
          /\ pc = "delete" => tx[t].op = "remove"
          /\ pc = "clear" => tx[t].op # "remove" /\ tx[t].wanted = "yes"
          /\ pc = "set" => tx[t].op = "update" /\ tx[t].wanted # "yes"
    <3>1. CASE tx[t].op = "remove"
      BY <3>1 DEF A!AfterFind
    <3>2. CASE tx[t].op = "setDefault"
      BY <2>1, <3>2 DEF A!AfterFind, AskedOK
    <3>3. CASE tx[t].op = "update"
      BY <3>3 DEF A!AfterFind
    <3>. QED BY <2>3, <3>1, <3>2, <3>3
  <2>5. PICK was \in BOOLEAN : was = A!Visible(t)[tx[t].id]
    BY <1>2, SeenIs
  <2>6. tx' = [tx EXCEPT ![t].pc = pc, ![t].wasDefault = was] /\ writes' = writes
    BY <1>2, <2>4, <2>5 DEF A!Find
  <2>7. PICK r : r = [tx[t] EXCEPT !.pc = pc, !.wasDefault = was]
    OBVIOUS
  <2>8. /\ r \in A!Transactions /\ r.pc = pc /\ r.op = tx[t].op /\ r.wanted = tx[t].wanted
        /\ r.id = tx[t].id /\ r.wasDefault = was
    BY <2>1, <2>7, ZenonT(40) DEF A!Transactions
  <2>9. tx' = [tx EXCEPT ![t] = r]
    BY <2>6, <2>7
  <2>10. tx'[t] = r /\ tx' \in [Requests -> A!Transactions] /\ \A u \in Requests : u # t => tx'[u] = tx[u]
    BY <2>1, <2>8, <2>9
  <2>11. Reads(t)
    BY <1>0, <2>1, <2>6, <2>8, <2>10 DEF Reads, Quiet, Alone
  <2>12. AskedOK(t)'
    BY <1>0, <2>1, <2>2, <2>4, <2>6, <2>8, <2>10 DEF AskedOK
  <2>13. WritesType(t)'
    BY <1>0, <2>1, <2>2, <2>6, <2>8, <2>10 DEF WritesType
  <2>14. AddressInv'
    BY <1>0, <2>2, <2>8, <2>10, <2>11, <2>12, <2>13, ReadsStep
  <2>15. AloneOK(t)'
    <3>1. pc = "delete" => (was <=> tx[t].id \in A!Defaults(rows))
      <4>1. DOMAIN A!Empty = {}
        BY DEF A!Empty
      <4>2. tx[t].id \in DOMAIN rows /\ was = rows[tx[t].id]
        BY <1>2, <2>2, <2>5, <4>1, SeenIs
      <4>. QED BY <4>2, Zenon DEF A!Defaults
    <3>2. pc = "delete" => (tx'[t].wasDefault <=> tx'[t].id \in A!Defaults(rows'))
      BY <1>0, <2>8, <2>10, <3>1
    <3>. QED BY <2>2, <2>4, <2>6, <2>8, <2>10, <3>2 DEF AloneOK
  <2>. QED BY <1>0, <2>11, <2>14, <2>15, AloneStep DEF Reads
<1>. QED BY <1>1, <1>2

\* ClearBegin keeps the invariant.
LEMMA AddressClearBegin ==
    ASSUME AddressInv, NEW t \in Requests, A!ClearBegin(t)
    PROVE  AddressInv' /\ (AloneInv => AloneInv')
<1>0. Active(t) /\ tx[t].pc = "clear" /\ rows' = rows /\ given' = given /\ unset' = unset
      /\ overlapped' = overlapped /\ writes' = writes
  BY DEF A!ClearBegin, A!At, Active, A!history
<1>1. AskedOK(t) /\ WritesType(t) /\ tx \in [Requests -> A!Transactions] /\ DOMAIN writes = Requests
  BY AddressTypes DEF AddressInv
<1>2. PICK seen : seen = Seen(t)
  OBVIOUS
<1>3. seen \subseteq Ids
  BY <1>1, <1>2, SeenIs, AddressTypes DEF WritesType
<1>4. PICK r : r = [tx[t] EXCEPT !.pc = "clearing", !.targets = seen]
  OBVIOUS
<1>5. /\ r \in A!Transactions /\ r.pc = "clearing" /\ r.op = tx[t].op /\ r.wanted = tx[t].wanted
      /\ r.id = tx[t].id /\ r.targets = seen
  BY <1>1, <1>3, <1>4 DEF A!Transactions
<1>6. tx' = [tx EXCEPT ![t] = r]
  BY <1>2, <1>4 DEF A!ClearBegin, Seen
<1>7. tx'[t] = r /\ tx' \in [Requests -> A!Transactions] /\ \A u \in Requests : u # t => tx'[u] = tx[u]
  BY <1>1, <1>5, <1>6
<1>8. Reads(t)
  BY <1>0, <1>1, <1>5, <1>7 DEF Reads, Quiet, Alone
<1>9. AskedOK(t)'
  BY <1>0, <1>1, <1>5, <1>7 DEF AskedOK
<1>10. WritesType(t)'
  BY <1>0, <1>1, <1>5, <1>7 DEF WritesType
<1>11. AddressInv'
  BY <1>0, <1>5, <1>7, <1>8, <1>9, <1>10, ReadsStep
<1>12. Seen(t)' = Seen(t)
  BY <1>0 DEF Seen, A!Visible, A!Defaults, A!Overlay
<1>13. AloneOK(t)'
  BY <1>2, <1>5, <1>7, <1>12 DEF AloneOK
<1>. QED BY <1>0, <1>8, <1>11, <1>13, AloneStep DEF Reads

\* ClearEnd keeps the invariant.
LEMMA AddressClearEnd ==
    ASSUME AddressInv, NEW t \in Requests, A!ClearEnd(t)
    PROVE  AddressInv' /\ (AloneInv => AloneInv')
<1>0. Active(t) /\ tx[t].pc = "clearing" /\ rows' = rows /\ given' = given /\ unset' = unset
      /\ overlapped' = overlapped /\ writes' = writes /\ tx[t].targets = {}
  BY DEF A!ClearEnd, A!At, Active, A!history
<1>1. AskedOK(t) /\ WritesType(t) /\ tx \in [Requests -> A!Transactions] /\ DOMAIN writes = Requests
  BY AddressTypes DEF AddressInv
<1>2. PICK pc \in {"insert", "set"} :
         /\ A!Goes(t, pc)
         /\ pc = "insert" <=> tx[t].op = "create"
  BY DEF A!ClearEnd
<1>4. PICK r : r = [tx[t] EXCEPT !.pc = pc]
  OBVIOUS
<1>5. /\ r \in A!Transactions /\ r.pc = pc /\ r.op = tx[t].op /\ r.wanted = tx[t].wanted
      /\ r.id = tx[t].id
  BY <1>1, <1>4 DEF A!Transactions
<1>6. tx' = [tx EXCEPT ![t] = r]
  BY <1>2, <1>4 DEF A!Goes
<1>7. tx'[t] = r /\ tx' \in [Requests -> A!Transactions] /\ \A u \in Requests : u # t => tx'[u] = tx[u]
  BY <1>1, <1>5, <1>6
<1>8. Reads(t)
  BY <1>0, <1>1, <1>5, <1>7 DEF Reads, Quiet, Alone
<1>9. AskedOK(t)'
  BY <1>0, <1>1, <1>2, <1>5, <1>7 DEF AskedOK
<1>10. WritesType(t)'
  BY <1>0, <1>1, <1>5, <1>7 DEF WritesType
<1>11. AddressInv'
  BY <1>0, <1>2, <1>5, <1>7, <1>8, <1>9, <1>10, ReadsStep
<1>12. Seen(t)' = Seen(t)
  BY <1>0 DEF Seen, A!Visible, A!Defaults, A!Overlay
<1>13. AloneOK(t) => AloneOK(t)'
  <2>1. tx[t].wanted = "yes"
    BY <1>0, <1>1 DEF AskedOK
  <2>2. AloneOK(t) => Seen(t) = {}
    BY <1>0 DEF AloneOK
  <2>. QED BY <1>2, <1>5, <1>7, <1>12, <2>1, <2>2 DEF AloneOK
<1>. QED BY <1>0, <1>8, <1>11, <1>13, AloneStep DEF Reads

\* ClearRow keeps the invariant.
LEMMA AddressClearRow ==
    ASSUME AddressInv, NEW t \in Requests, A!ClearRow(t)
    PROVE  AddressInv' /\ (AloneInv => AloneInv')
<1>0. Active(t) /\ tx[t].pc = "clearing" /\ rows' = rows /\ given' = given /\ unset' = unset
      /\ overlapped' = overlapped
  BY DEF A!ClearRow, A!At, Active, A!history
<1>1. AskedOK(t) /\ WritesType(t) /\ CreatedOK(t) /\ WritesOK(t)
      /\ tx \in [Requests -> A!Transactions] /\ DOMAIN writes = Requests
  BY AddressTypes DEF AddressInv
<1>2. PICK id \in tx[t].targets :
         /\ ~A!Locked(t, id)
         /\ tx' = [tx EXCEPT ![t].targets = tx[t].targets \ {id}]
         /\ IF id \in Seen(t) THEN A!Write(t, id, FALSE) ELSE writes' = writes
  BY <1>1 DEF A!ClearRow, Seen
<1>3. PICK targets : targets = tx[t].targets \ {id}
  OBVIOUS
<1>4. PICK r : r = [tx[t] EXCEPT !.targets = targets]
  OBVIOUS
<1>5. /\ r \in A!Transactions /\ r.pc = "clearing" /\ r.op = tx[t].op /\ r.wanted = tx[t].wanted
      /\ r.id = tx[t].id /\ r.targets = targets
  BY <1>0, <1>1, <1>3, <1>4 DEF A!Transactions
<1>6. tx' = [tx EXCEPT ![t] = r]
  BY <1>2, <1>3, <1>4
<1>7. tx'[t] = r /\ tx' \in [Requests -> A!Transactions] /\ \A u \in Requests : u # t => tx'[u] = tx[u]
  BY <1>1, <1>5, <1>6
<1>8. CASE id \notin Seen(t)
  <2>1. writes' = writes
    BY <1>2, <1>8
  <2>2. Reads(t)
    BY <1>0, <1>1, <1>5, <1>7, <2>1 DEF Reads, Quiet, Alone
  <2>3. AskedOK(t)' /\ WritesType(t)'
    BY <1>0, <1>1, <1>5, <1>7, <2>1 DEF AskedOK, WritesType
  <2>4. AddressInv'
    BY <1>0, <1>5, <1>7, <2>2, <2>3, ReadsStep
  <2>5. Seen(t)' = Seen(t)
    BY <1>0, <2>1 DEF Seen, A!Visible, A!Defaults, A!Overlay
  <2>6. AloneOK(t) => AloneOK(t)'
    BY <1>0, <1>3, <1>5, <1>7, <1>8, <2>5 DEF AloneOK
  <2>. QED BY <1>0, <2>2, <2>4, <2>6, AloneStep DEF Reads
<1>9. CASE id \in Seen(t)
  <2>1. A!Write(t, id, FALSE) /\ FALSE \in BOOLEAN \cup {None}
    BY <1>2, <1>9
  <2>2. (id \in DOMAIN writes[t] \/ id \in DOMAIN rows) /\ id \in given
    BY <1>1, <1>9, SeenIs, AddressTypes DEF WritesType
  <2>3. /\ DOMAIN writes' = Requests
        /\ \A u \in Requests : u # t => writes'[u] = writes[u]
        /\ DOMAIN writes'[t] = DOMAIN writes[t] \cup {id}
        /\ writes'[t][id] = FALSE
        /\ \A x \in DOMAIN writes[t] : x # id => writes'[t][x] = writes[t][x]
        /\ DOMAIN writes'[t] \subseteq given
        /\ \A x \in DOMAIN writes'[t] : writes'[t][x] \in BOOLEAN \cup {None}
        /\ \A u \in Requests : u # t => DOMAIN writes'[t] \cap DOMAIN writes[u] = {}
    BY <1>2, <2>1, <2>2, WriteEffect
  <2>4. Quiet(t)
    BY <1>0, <1>5, <1>7, <2>3 DEF Quiet, Alone
  <2>5. AskedOK(t)' /\ WritesType(t)'
    BY <1>0, <1>1, <1>5, <1>7, <2>3 DEF AskedOK, WritesType
  <2>6. WritesOK(t)'
    BY <1>0, <1>1, <2>2, <2>3 DEF WritesOK
  <2>7. CreatedOK(t)' /\ ChosenOK(t)'
    BY <1>0, <1>1, <1>5, <1>7 DEF CreatedOK, ChosenOK
  <2>8. AddressInv'
    BY <1>5, <1>7, <2>3, <2>4, <2>5, <2>6, <2>7, QuietStep
  <2>9. \A x \in DOMAIN rows' : rows'[x] \in BOOLEAN
    BY <1>0, AddressTypes
  <2>10. ASSUME NEW x \in Seen(t)' PROVE x \in Seen(t) /\ x # id
    <3>1. \/ x \in DOMAIN writes'[t] /\ writes'[t][x] = TRUE
          \/ x \notin DOMAIN writes'[t] /\ x \in DOMAIN rows /\ rows[x] = TRUE
      BY <1>0, <2>3, <2>9, <2>10, SeenNext, Zenon
    <3>2. x # id
      BY <2>3, <3>1, Zenon
    <3>3. \/ x \in DOMAIN writes[t] /\ writes[t][x] = TRUE
          \/ x \notin DOMAIN writes[t] /\ x \in DOMAIN rows /\ rows[x] = TRUE
      BY <2>3, <3>1, <3>2, Zenon
    <3>. QED BY <3>2, <3>3, SeenIs, Zenon
  <2>11. AloneOK(t) => AloneOK(t)'
    BY <1>0, <1>3, <1>5, <1>7, <2>10 DEF AloneOK
  <2>. QED BY <1>0, <2>4, <2>8, <2>11, AloneStep
<1>. QED BY <1>8, <1>9

\* The transaction writes a row and goes on to the next statement.
LEMMA WriteAndGo ==
    ASSUME AddressInv, NEW t \in Requests, Active(t), NEW id \in given,
           NEW value \in BOOLEAN \cup {None}, NEW pc \in {"commit", "successor"},
           A!Write(t, id, value), ~A!Locked(t, id), A!Goes(t, pc),
           rows' = rows, given' = given, unset' = unset, overlapped' = overlapped,
           id \in DOMAIN rows \/ id \in DOMAIN writes[t] \/ (tx[t].op = "create" /\ tx[t].id = id),
           tx[t].pc # "commit",
           pc = "successor" => tx[t].op = "remove",
           pc = "commit" /\ tx[t].op = "create" => tx[t].id = id,
           pc = "commit" /\ tx[t].op # "remove" /\ tx[t].wanted = "yes" =>
               tx[t].id = id /\ value = TRUE
    PROVE  /\ AddressInv' /\ Quiet(t)
           /\ tx'[t].pc = pc /\ tx'[t].id = tx[t].id
           /\ \A x : x \in Seen(t)' <=> \/ x = id /\ value = TRUE
                                        \/ x # id /\ x \in Seen(t)
           /\ \A x : x \in DOMAIN A!Visible(t)' <=> \/ x = id /\ value # None
                                                    \/ x # id /\ x \in DOMAIN A!Visible(t)
<1>1. AskedOK(t) /\ WritesType(t) /\ CreatedOK(t) /\ WritesOK(t)
      /\ tx \in [Requests -> A!Transactions] /\ DOMAIN writes = Requests
  BY AddressTypes DEF AddressInv
<1>2. PICK r : r = [tx[t] EXCEPT !.pc = pc]
  OBVIOUS
<1>3. /\ r \in A!Transactions /\ r.pc = pc /\ r.op = tx[t].op /\ r.wanted = tx[t].wanted
      /\ r.id = tx[t].id
  BY <1>1, <1>2 DEF A!Transactions
<1>4. tx' = [tx EXCEPT ![t] = r]
  BY <1>2 DEF A!Goes
<1>5. tx'[t] = r /\ tx' \in [Requests -> A!Transactions] /\ \A u \in Requests : u # t => tx'[u] = tx[u]
  BY <1>1, <1>3, <1>4
<1>6. /\ DOMAIN writes' = Requests
      /\ \A u \in Requests : u # t => writes'[u] = writes[u]
      /\ DOMAIN writes'[t] = DOMAIN writes[t] \cup {id}
      /\ writes'[t][id] = value
      /\ \A x \in DOMAIN writes[t] : x # id => writes'[t][x] = writes[t][x]
      /\ DOMAIN writes'[t] \subseteq given
      /\ \A x \in DOMAIN writes'[t] : writes'[t][x] \in BOOLEAN \cup {None}
      /\ \A u \in Requests : u # t => DOMAIN writes'[t] \cap DOMAIN writes[u] = {}
  BY WriteEffect
<1>7. Quiet(t)
  BY <1>3, <1>5, <1>6 DEF Quiet, Alone
<1>8. AskedOK(t)'
  <2>1. tx[t].op # "none"
    BY <1>1 DEF AskedOK, Active
  <2>. QED BY <1>1, <1>3, <1>5, <2>1 DEF AskedOK
<1>9. WritesType(t)'
  BY <1>3, <1>5, <1>6 DEF WritesType
<1>10. WritesOK(t)'
  BY <1>1, <1>3, <1>5, <1>6 DEF WritesOK
<1>11. CreatedOK(t)' /\ ChosenOK(t)'
  BY <1>3, <1>5, <1>6 DEF CreatedOK, ChosenOK
<1>12. AddressInv'
  BY <1>3, <1>5, <1>6, <1>7, <1>8, <1>9, <1>10, <1>11, QuietStep
<1>13. \A x \in DOMAIN rows' : rows'[x] \in BOOLEAN
  BY AddressTypes
<1>14. ASSUME NEW x
       PROVE  x \in Seen(t)' <=> \/ x = id /\ value = TRUE
                                 \/ x # id /\ x \in Seen(t)
  <2>1. x \in Seen(t)' <=>
           \/ x \in DOMAIN writes'[t] /\ writes'[t][x] = TRUE
           \/ x \notin DOMAIN writes'[t] /\ x \in DOMAIN rows /\ rows[x] = TRUE
    BY <1>6, <1>13, SeenNext, Zenon
  <2>2. x \in Seen(t) <=>
           \/ x \in DOMAIN writes[t] /\ writes[t][x] = TRUE
           \/ x \notin DOMAIN writes[t] /\ x \in DOMAIN rows /\ rows[x] = TRUE
    BY SeenIs, Zenon
  <2>3. CASE x = id
    <3>1. id \in DOMAIN writes'[t] /\ writes'[t][id] = value
      BY <1>6
    <3>. QED BY <2>1, <2>3, <3>1, Zenon
  <2>4. CASE x # id
    <3>1. x \in DOMAIN writes'[t] <=> x \in DOMAIN writes[t]
      BY <1>6, <2>4
    <3>2. x \in DOMAIN writes[t] => writes'[t][x] = writes[t][x]
      BY <1>6, <2>4
    <3>. QED BY <2>1, <2>2, <2>4, <3>1, <3>2, Zenon
  <2>. QED BY <2>3, <2>4
<1>15. ASSUME NEW x
       PROVE  x \in DOMAIN A!Visible(t)' <=> \/ x = id /\ value # None
                                             \/ x # id /\ x \in DOMAIN A!Visible(t)
  <2>1. x \in DOMAIN A!Visible(t)' <=>
           \/ x \in DOMAIN writes'[t] /\ writes'[t][x] # None
           \/ x \notin DOMAIN writes'[t] /\ x \in DOMAIN rows
    BY <1>6, <1>13, SeenNext, Zenon
  <2>2. x \in DOMAIN A!Visible(t) <=>
           \/ x \in DOMAIN writes[t] /\ writes[t][x] # None
           \/ x \notin DOMAIN writes[t] /\ x \in DOMAIN rows
    BY SeenIs, Zenon
  <2>3. CASE x = id
    <3>1. id \in DOMAIN writes'[t] /\ writes'[t][id] = value
      BY <1>6
    <3>. QED BY <2>1, <2>3, <3>1, Zenon
  <2>4. CASE x # id
    <3>1. x \in DOMAIN writes'[t] <=> x \in DOMAIN writes[t]
      BY <1>6, <2>4
    <3>2. x \in DOMAIN writes[t] => writes'[t][x] = writes[t][x]
      BY <1>6, <2>4
    <3>. QED BY <2>1, <2>2, <2>4, <3>1, <3>2, Zenon
  <2>. QED BY <2>3, <2>4
<1>16. tx'[t].pc = pc /\ tx'[t].id = tx[t].id
  BY <1>3, <1>5
<1>. QED BY <1>7, <1>12, <1>14, <1>15, <1>16, Zenon

\* The row that a transaction inserts is nobody else's.
LEMMA InsertUnlocked ==
    ASSUME AddressInv, NEW t \in Requests, tx[t].op = "create",
           tx[t].pc \in {"clear", "clearing", "insert"}
    PROVE  ~A!Locked(t, tx[t].id)
<1>1. tx[t].id \notin DOMAIN rows
  BY DEF AddressInv, CreatedOK
<1>2. \A u \in Requests : u # t => tx[t].id \notin DOMAIN writes[u]
  BY <1>1 DEF AddressInv, WritesOK
<1>. QED BY <1>2 DEF A!Locked

\* Insert keeps the invariant.
LEMMA AddressInsert ==
    ASSUME AddressInv, NEW t \in Requests, A!Insert(t)
    PROVE  AddressInv' /\ (AloneInv => AloneInv')
<1>0. /\ Active(t) /\ tx[t].pc = "insert" /\ rows' = rows /\ given' = given /\ unset' = unset
      /\ overlapped' = overlapped /\ A!Goes(t, "commit")
  BY DEF A!Insert, A!At, Active, A!history
<1>1. AskedOK(t) /\ CreatedOK(t) /\ tx \in [Requests -> A!Transactions]
  BY AddressTypes DEF AddressInv
<1>2. tx[t].op = "create" /\ tx[t].id \in given /\ tx[t].id \notin DOMAIN rows
      /\ tx[t].wanted \in {"yes", "no"}
  BY <1>0, <1>1 DEF AskedOK, CreatedOK, A!Transactions
<1>3. PICK id \in given : id = tx[t].id
  BY <1>2
<1>4. PICK value \in BOOLEAN : value = (tx[t].wanted = "yes" \/ DOMAIN A!Visible(t) = {})
  OBVIOUS
<1>5. A!Write(t, id, value) /\ ~A!Locked(t, id)
  BY <1>0, <1>2, <1>3, <1>4, InsertUnlocked DEF A!Insert
<1>6. tx[t].wanted = "yes" => value = TRUE
  BY <1>4
<1>7. /\ AddressInv' /\ Quiet(t)
      /\ tx'[t].pc = "commit" /\ tx'[t].id = tx[t].id
      /\ \A x : x \in Seen(t)' <=> \/ x = id /\ value = TRUE
                                   \/ x # id /\ x \in Seen(t)
      /\ \A x : x \in DOMAIN A!Visible(t)' <=> \/ x = id /\ value # None
                                               \/ x # id /\ x \in DOMAIN A!Visible(t)
  BY <1>0, <1>2, <1>3, <1>5, <1>6, WriteAndGo
<1>8. ASSUME AloneOK(t), GoodTable(rows) PROVE AloneOK(t)'
  <2>1. CASE tx[t].wanted = "yes"
    <3>1. Seen(t) = {} /\ value = TRUE
      BY <1>0, <1>6, <1>8, <2>1 DEF AloneOK
    <3>2. \A x : x \in Seen(t)' <=> x = id
      BY <1>7, <3>1, Zenon
    <3>3. GoodTable(A!Visible(t))'
      BY <3>2 DEF GoodTable, Seen
    <3>. QED BY <1>7, <3>3 DEF AloneOK
  <2>2. CASE tx[t].wanted # "yes"
    <3>1. writes[t] = A!Empty
      BY <1>0, <1>8, <2>2 DEF AloneOK
    <3>2. Seen(t) = A!Defaults(rows) /\ DOMAIN A!Visible(t) = DOMAIN rows
      BY <3>1, SeenClean
    <3>3. value <=> DOMAIN rows = {}
      BY <1>4, <2>2, <3>2
    <3>4. CASE DOMAIN rows = {}
      <4>1. Seen(t) = {} /\ value = TRUE
        BY <3>2, <3>3, <3>4 DEF A!Defaults
      <4>2. \A x : x \in Seen(t)' <=> x = id
        BY <1>7, <4>1, Zenon
      <4>3. GoodTable(A!Visible(t))'
        BY <4>2 DEF GoodTable, Seen
      <4>. QED BY <1>7, <4>3 DEF AloneOK
    <3>5. CASE DOMAIN rows # {}
      <4>1. value = FALSE /\ id \notin Seen(t)
        BY <1>2, <1>3, <3>2, <3>3, <3>5 DEF A!Defaults
      <4>2. \A x : x \in Seen(t)' <=> x \in Seen(t)
        BY <1>7, <4>1, Zenon
      <4>3. unset' = unset
        BY <1>0
      <4>4. GoodTable(A!Visible(t))'
        BY <1>8, <3>2, <3>5, <4>2, <4>3 DEF GoodTable, Seen
      <4>. QED BY <1>7, <4>4 DEF AloneOK
    <3>. QED BY <3>4, <3>5
  <2>. QED BY <2>1, <2>2
<1>. QED BY <1>0, <1>7, <1>8, AloneStep

\* Set keeps the invariant.
LEMMA AddressSet ==
    ASSUME AddressInv, NEW t \in Requests, A!Set(t)
    PROVE  AddressInv' /\ (AloneInv => AloneInv')
<1>0. /\ Active(t) /\ tx[t].pc = "set" /\ rows' = rows /\ given' = given /\ unset' = unset
      /\ overlapped' = overlapped /\ ~A!Locked(t, tx[t].id)
  BY DEF A!Set, A!At, Active, A!history
<1>1. CASE tx[t].id \notin DOMAIN A!Visible(t)
  <2>1. A!Rollback(t)
    BY <1>1 DEF A!Set
  <2>. QED BY <1>0, <2>1, RollbackStep
<1>2. CASE tx[t].id \in DOMAIN A!Visible(t)
  <2>1. AskedOK(t) /\ WritesType(t) /\ tx \in [Requests -> A!Transactions]
    BY AddressTypes DEF AddressInv
  <2>2. tx[t].op # "create" /\ tx[t].wanted \in {"yes", "no", "same"}
    BY <1>0, <2>1 DEF AskedOK, A!Transactions
  <2>3. tx[t].id \in DOMAIN rows \/ tx[t].id \in DOMAIN writes[t]
    BY <1>2, SeenIs
  <2>4. PICK id \in given : id = tx[t].id
    BY <2>1, <2>3, AddressTypes DEF WritesType
  <2>5. PICK value \in BOOLEAN :
          value = IF tx[t].wanted = "same" THEN A!Visible(t)[id] ELSE tx[t].wanted = "yes"
    <3>1. A!Visible(t)[id] \in BOOLEAN
      BY <1>2, <2>4, SeenIs
    <3>. QED BY <3>1
  <2>6. A!Write(t, id, value) /\ A!Goes(t, "commit") /\ ~A!Locked(t, id)
    BY <1>0, <1>2, <2>4, <2>5 DEF A!Set
  <2>7. tx[t].wanted = "yes" => value = TRUE
    BY <2>5
  <2>8. /\ AddressInv' /\ Quiet(t)
        /\ tx'[t].pc = "commit" /\ tx'[t].id = tx[t].id
        /\ \A x : x \in Seen(t)' <=> \/ x = id /\ value = TRUE
                                     \/ x # id /\ x \in Seen(t)
        /\ \A x : x \in DOMAIN A!Visible(t)' <=> \/ x = id /\ value # None
                                                 \/ x # id /\ x \in DOMAIN A!Visible(t)
    BY <1>0, <2>2, <2>3, <2>4, <2>6, <2>7, WriteAndGo
  <2>9. ASSUME AloneOK(t), GoodTable(rows) PROVE AloneOK(t)'
    <3>1. CASE tx[t].wanted = "yes"
      <4>1. Seen(t) = {} /\ value = TRUE
        BY <1>0, <2>7, <2>9, <3>1 DEF AloneOK
      <4>2. \A x : x \in Seen(t)' <=> x = id
        BY <2>8, <4>1, Zenon
      <4>3. GoodTable(A!Visible(t))'
        BY <4>2 DEF GoodTable, Seen
      <4>. QED BY <2>8, <4>3 DEF AloneOK
    <3>2. CASE tx[t].wanted # "yes"
      <4>1. writes[t] = A!Empty /\ unset' = unset
        BY <1>0, <2>9, <3>2 DEF AloneOK
      <4>2. Seen(t) = A!Defaults(rows) /\ DOMAIN A!Visible(t) = DOMAIN rows
        BY <4>1, SeenClean
      <4>3. CASE tx[t].wanted = "no"
        <5>1. tx[t].op = "update"
          BY <1>0, <2>1, <2>2, <4>3 DEF AskedOK, A!Transactions
        <5>2. unset /\ value = FALSE
          BY <2>1, <2>5, <4>3, <5>1 DEF AskedOK
        <5>3. \A x \in Seen(t)' : x \in Seen(t)
          BY <2>8, <5>2, Zenon
        <5>4. GoodTable(A!Visible(t))'
          BY <2>9, <4>1, <4>2, <5>2, <5>3 DEF GoodTable, Seen
        <5>. QED BY <2>8, <5>4 DEF AloneOK
      <4>4. CASE tx[t].wanted = "same"
        <5>1. value = TRUE <=> id \in Seen(t)
          <6>1. value = A!Visible(t)[id]
            BY <2>5, <4>4
          <6>2. A!Visible(t)[id] = TRUE <=> A!Visible(t)[id]
            BY <6>1, Zenon
          <6>3. id \in Seen(t) <=> A!Visible(t)[id]
            BY <1>2, <2>4, Zenon DEF Seen, A!Defaults
          <6>. QED BY <6>1, <6>2, <6>3, Zenon
        <5>2. \A x : x \in Seen(t)' <=> x \in Seen(t)
          BY <2>8, <5>1, Zenon
        <5>3. None \notin BOOLEAN /\ id \in DOMAIN rows
          BY <1>2, <2>4, <4>2, AccountsConstants DEF A!AddressConstants
        <5>4. GoodTable(A!Visible(t))'
          BY <2>9, <4>1, <4>2, <5>2, <5>3 DEF GoodTable, Seen
        <5>. QED BY <2>8, <5>4 DEF AloneOK
      <4>. QED BY <2>2, <3>2, <4>3, <4>4
    <3>. QED BY <3>1, <3>2
  <2>. QED BY <1>0, <2>8, <2>9, AloneStep
<1>. QED BY <1>1, <1>2

\* Delete keeps the invariant.
LEMMA AddressDelete ==
    ASSUME AddressInv, NEW t \in Requests, A!Delete(t)
    PROVE  AddressInv' /\ (AloneInv => AloneInv')
<1>0. /\ Active(t) /\ tx[t].pc = "delete" /\ rows' = rows /\ given' = given /\ unset' = unset
      /\ overlapped' = overlapped /\ ~A!Locked(t, tx[t].id)
  BY DEF A!Delete, A!At, Active, A!history
<1>1. CASE tx[t].id \notin DOMAIN A!Visible(t)
  <2>1. A!Rollback(t)
    BY <1>1 DEF A!Delete
  <2>. QED BY <1>0, <2>1, RollbackStep
<1>2. CASE tx[t].id \in DOMAIN A!Visible(t)
  <2>1. AskedOK(t) /\ WritesType(t) /\ tx \in [Requests -> A!Transactions]
    BY AddressTypes DEF AddressInv
  <2>2. tx[t].op = "remove" /\ writes[t] = A!Empty
    BY <1>0, <2>1 DEF AskedOK
  <2>3. Seen(t) = A!Defaults(rows) /\ DOMAIN A!Visible(t) = DOMAIN rows
    BY <2>2, SeenClean
  <2>4. PICK id \in given : id = tx[t].id /\ id \in DOMAIN rows
    BY <1>2, <2>3, AddressTypes
  <2>5. PICK pc \in {"commit", "successor"} :
          pc = IF tx[t].wasDefault THEN "successor" ELSE "commit"
    OBVIOUS
  <2>6. A!Write(t, id, None) /\ A!Goes(t, pc) /\ ~A!Locked(t, id) /\ None \in BOOLEAN \cup {None}
    BY <1>0, <1>2, <2>4, <2>5 DEF A!Delete
  <2>7. /\ AddressInv' /\ Quiet(t)
        /\ tx'[t].pc = pc /\ tx'[t].id = tx[t].id
        /\ \A x : x \in Seen(t)' <=> \/ x = id /\ None = TRUE
                                     \/ x # id /\ x \in Seen(t)
        /\ \A x : x \in DOMAIN A!Visible(t)' <=> \/ x = id /\ None # None
                                                 \/ x # id /\ x \in DOMAIN A!Visible(t)
    BY <1>0, <2>2, <2>4, <2>6, WriteAndGo
  <2>8. None # TRUE
    BY AccountsConstants DEF A!AddressConstants
  <2>9. \A x : x \in Seen(t)' <=> x # id /\ x \in A!Defaults(rows)
    BY <2>3, <2>7, <2>8, Zenon
  <2>10. \A x : x \in DOMAIN A!Visible(t)' <=> x # id /\ x \in DOMAIN rows
    BY <2>3, <2>7, Zenon
  <2>11. ASSUME AloneOK(t), GoodTable(rows) PROVE AloneOK(t)'
    <3>1. tx[t].wasDefault <=> id \in A!Defaults(rows)
      BY <1>0, <2>4, <2>11 DEF AloneOK
    <3>2. CASE tx[t].wasDefault
      <4>1. Seen(t)' = {}
        BY <2>9, <2>11, <3>1, <3>2 DEF GoodTable
      <4>. QED BY <2>5, <2>7, <3>2, <4>1 DEF AloneOK
    <3>3. CASE ~tx[t].wasDefault
      <4>1. \A x : x \in Seen(t)' <=> x \in A!Defaults(rows)
        BY <2>9, <3>1, <3>3, Zenon
      <4>2. unset' = unset
        BY <1>0
      <4>3. GoodTable(A!Visible(t))'
        BY <2>10, <2>11, <4>1, <4>2 DEF GoodTable, Seen
      <4>. QED BY <2>5, <2>7, <3>3, <4>3 DEF AloneOK
    <3>. QED BY <3>2, <3>3
  <2>. QED BY <1>0, <2>7, <2>11, AloneStep
<1>. QED BY <1>1, <1>2

\* FindSuccessor keeps the invariant.
LEMMA AddressFindSuccessor ==
    ASSUME AddressInv, NEW t \in Requests, A!FindSuccessor(t)
    PROVE  AddressInv' /\ (AloneInv => AloneInv')
<1>0. /\ Active(t) /\ tx[t].pc = "successor" /\ rows' = rows /\ given' = given /\ unset' = unset
      /\ overlapped' = overlapped /\ writes' = writes
  BY DEF A!FindSuccessor, A!At, Active, A!history
<1>1. AskedOK(t) /\ WritesType(t) /\ WritesOK(t) /\ tx \in [Requests -> A!Transactions] /\ DOMAIN writes = Requests
  BY AddressTypes DEF AddressInv
<1>2. tx[t].op = "remove" /\ tx[t].wanted = "yes"
  BY <1>0, <1>1 DEF AskedOK
<1>3. PICK pc \in {"commit", "set"}, id \in Ids \cup {None} :
         /\ tx' = [tx EXCEPT ![t].pc = pc, ![t].id = id]
         /\ pc = "commit" => DOMAIN A!Visible(t) = {}
  <2>1. CASE DOMAIN A!Visible(t) = {}
    <3>1. tx' = [tx EXCEPT ![t].pc = "commit"] /\ tx[t].id \in Ids \cup {None}
      BY <1>1, <2>1 DEF A!FindSuccessor, A!Goes, A!Transactions
    <3>2. tx' = [tx EXCEPT ![t].pc = "commit", ![t].id = tx[t].id]
      <4>1. [tx[t] EXCEPT !.pc = "commit"] = [tx[t] EXCEPT !.pc = "commit", !.id = tx[t].id]
        BY <1>1 DEF A!Transactions
      <4>. QED BY <1>1, <3>1, <4>1
    <3>. QED BY <2>1, <3>1, <3>2
  <2>2. CASE DOMAIN A!Visible(t) # {}
    <3>1. PICK id \in DOMAIN A!Visible(t) : tx' = [tx EXCEPT ![t].pc = "set", ![t].id = id]
      BY <2>2 DEF A!FindSuccessor
    <3>2. id \in Ids
      BY <1>1, SeenIs, AddressTypes DEF WritesType
    <3>. QED BY <3>1, <3>2
  <2>. QED BY <2>1, <2>2
<1>4. PICK r : r = [tx[t] EXCEPT !.pc = pc, !.id = id]
  OBVIOUS
<1>5. /\ r \in A!Transactions /\ r.pc = pc /\ r.op = tx[t].op /\ r.wanted = tx[t].wanted
      /\ r.id = id
  BY <1>1, <1>4, ZenonT(40) DEF A!Transactions
<1>6. tx' = [tx EXCEPT ![t] = r]
  BY <1>3, <1>4
<1>7. tx'[t] = r /\ tx' \in [Requests -> A!Transactions] /\ \A u \in Requests : u # t => tx'[u] = tx[u]
  BY <1>1, <1>5, <1>6
<1>8. Quiet(t)
  BY <1>0, <1>1, <1>5, <1>7 DEF Quiet, Alone
<1>9. AskedOK(t)' /\ WritesType(t)' /\ CreatedOK(t)' /\ ChosenOK(t)'
  BY <1>0, <1>1, <1>2, <1>5, <1>7 DEF AskedOK, WritesType, CreatedOK, ChosenOK
<1>10. WritesOK(t)'
  BY <1>0, <1>1, <1>2 DEF WritesOK
<1>11. \A u \in Requests : u # t => DOMAIN writes'[t] \cap DOMAIN writes[u] = {}
  BY <1>0, AddressTypes
<1>12. AddressInv'
  BY <1>2, <1>8, <1>9, <1>10, <1>11, QuietStep
<1>13. Seen(t)' = Seen(t) /\ A!Visible(t)' = A!Visible(t)
  BY <1>0 DEF Seen, A!Visible, A!Defaults, A!Overlay
<1>14. ASSUME AloneOK(t) PROVE AloneOK(t)'
  <2>1. Seen(t)' = {}
    BY <1>0, <1>13, <1>14 DEF AloneOK
  <2>2. pc = "commit" => GoodTable(A!Visible(t))'
    BY <1>3, <1>13, <2>1 DEF GoodTable, Seen
  <2>. QED BY <1>2, <1>5, <1>7, <2>1, <2>2 DEF AloneOK
<1>. QED BY <1>0, <1>8, <1>12, <1>14, AloneStep

\* Abort keeps the invariant.
LEMMA AddressAbort ==
    ASSUME AddressInv, NEW t \in Requests, A!Abort(t)
    PROVE  AddressInv' /\ (AloneInv => AloneInv')
<1>1. tx[t].pc \in {"clearing", "set", "delete"} /\ A!Rollback(t) /\ UNCHANGED <<rows, given, unset, overlapped>>
  BY DEF A!Abort, A!At, A!history
<1>. QED BY <1>1, RollbackStep DEF Active

\* What a transaction has written becomes what everybody sees.
LEMMA CommitEffect ==
    ASSUME AddressInv, NEW t \in Requests, A!Commit(t)
    PROVE  /\ tx[t].pc = "commit" /\ Alone(t) /\ tx'[t].pc = "done" /\ writes'[t] = A!Empty
           /\ tx'[t].op = tx[t].op /\ tx'[t].wanted = tx[t].wanted /\ tx'[t].id = tx[t].id
           /\ rows' = A!Visible(t) /\ given' = given /\ unset' = unset /\ overlapped' = overlapped
<1>1. tx[t].pc = "commit" /\ tx' = [tx EXCEPT ![t].pc = "done"] /\ rows' = A!Visible(t)
      /\ writes' = [writes EXCEPT ![t] = A!Empty]
      /\ given' = given /\ unset' = unset /\ overlapped' = overlapped
  BY DEF A!Commit, A!At, A!Goes, A!history
<1>2. tx \in [Requests -> A!Transactions] /\ DOMAIN writes = Requests
  BY AddressTypes
<1>3. tx' \in [Requests -> A!Transactions]
  BY <1>1, <1>2 DEF A!Transactions
<1>4. /\ tx'[t].pc = "done" /\ tx'[t].op = tx[t].op /\ tx'[t].wanted = tx[t].wanted
      /\ tx'[t].id = tx[t].id /\ \A u \in Requests : u # t => tx'[u] = tx[u]
  BY <1>1, <1>2 DEF A!Transactions
<1>5. DOMAIN writes' = Requests /\ writes'[t] = A!Empty
      /\ \A u \in Requests : u # t => writes'[u] = writes[u]
  BY <1>1, <1>2
<1>. QED BY <1>1, <1>3, <1>4, <1>5 DEF Alone

\* Commit keeps the invariant.
LEMMA AddressCommit ==
    ASSUME AddressInv, NEW t \in Requests, A!Commit(t)
    PROVE  AddressInv' /\ (AloneInv => AloneInv')
<1>0. /\ tx[t].pc = "commit" /\ Alone(t) /\ tx'[t].pc = "done" /\ writes'[t] = A!Empty
      /\ tx'[t].op = tx[t].op /\ tx'[t].wanted = tx[t].wanted /\ tx'[t].id = tx[t].id
      /\ rows' = A!Visible(t) /\ given' = given /\ unset' = unset /\ overlapped' = overlapped
  BY CommitEffect
<1>1. DOMAIN A!Empty = {}
  BY DEF A!Empty
<1>2. \A x : x \in DOMAIN rows' <=>
               \/ x \in DOMAIN writes[t] /\ writes[t][x] # None
               \/ x \notin DOMAIN writes[t] /\ x \in DOMAIN rows
  BY <1>0, SeenIs
<1>3. \A x \in DOMAIN rows' : rows'[x] \in BOOLEAN
  BY <1>0, SeenIs
<1>4. DOMAIN rows' \subseteq given
  BY <1>2, AddressTypes DEF WritesType
<1>5. AskedOK(t)' /\ CreatedOK(t)' /\ WritesOK(t)' /\ ChosenOK(t)' /\ WritesType(t)'
  <2>1. AskedOK(t)
    BY DEF AddressInv
  <2>. QED BY <1>0, <1>1, <2>1 DEF AskedOK, CreatedOK, WritesOK, ChosenOK, WritesType
<1>6. ASSUME NEW u \in Requests, u # t
      PROVE  AskedOK(u)' /\ CreatedOK(u)' /\ WritesOK(u)' /\ ChosenOK(u)' /\ WritesType(u)'
  <2>0. AskedOK(u) /\ CreatedOK(u) /\ WritesOK(u) /\ ChosenOK(u) /\ WritesType(u) /\ WritesOK(t)
    BY AddressTypes DEF AddressInv
  <2>1. tx'[u] = tx[u] /\ writes'[u] = writes[u]
    BY <1>0, <1>6 DEF Alone
  <2>2. AskedOK(u)' /\ ChosenOK(u)' /\ WritesType(u)'
    BY <1>0, <2>0, <2>1 DEF AskedOK, ChosenOK, WritesType
  <2>3. CreatedOK(u)'
    <3>. SUFFICES ASSUME tx[u].op = "create", tx[u].pc \in {"clear", "clearing", "insert"}
                  PROVE  tx[u].id \notin DOMAIN rows'
      BY <2>1 DEF CreatedOK
    <3>1. tx[u].id \notin DOMAIN rows
      BY <2>0 DEF CreatedOK
    <3>2. tx[u].id \notin DOMAIN writes[t]
      BY <1>6, <2>0, <3>1 DEF WritesOK, AddressInv
    <3>. QED BY <1>2, <3>1, <3>2
  <2>4. WritesOK(u)'
    <3>. SUFFICES ASSUME NEW x \in DOMAIN writes[u]
                  PROVE  x \in DOMAIN rows' \/ (tx[u].op = "create" /\ tx[u].id = x /\ tx[u].pc = "commit")
      BY <2>1 DEF WritesOK
    <3>1. x \notin DOMAIN writes[t]
      BY <1>6, AddressTypes
    <3>. QED BY <1>2, <2>0, <3>1 DEF WritesOK
  <2>. QED BY <2>2, <2>3, <2>4
<1>7. \A u, v \in Requests : u # v => DOMAIN writes'[u] \cap DOMAIN writes'[v] = {}
  BY <1>0, <1>1, AddressTypes DEF Alone
<1>8. \A u, v \in Requests :
         tx'[u].op = "create" /\ tx'[v].op = "create" /\ tx'[u].id = tx'[v].id => u = v
  BY <1>0 DEF Alone, AddressInv
<1>9. AddressInv'
  <2>1. \A u \in Requests : AskedOK(u)' /\ CreatedOK(u)' /\ WritesOK(u)' /\ ChosenOK(u)' /\ WritesType(u)'
    BY <1>5, <1>6
  <2>2. A!TypeOK'
    BY <1>0, <1>3, <1>4, <1>7, <2>1, AddressTypes DEF A!TypeOK, Alone, WritesType, A!Transactions
  <2>. QED BY <1>8, <2>1, <2>2 DEF AddressInv
<1>10. ASSUME AloneInv, ~overlapped PROVE AloneInv'
  <2>1. Active(t) /\ AloneOK(t)
    BY <1>0, <1>10 DEF Active, AloneInv
  <2>2. GoodTable(rows)'
    BY <1>0, <2>1 DEF GoodTable, AloneOK
  <2>3. \A u \in Requests : ~Active(u)'
    BY <1>0, <1>10, <2>1 DEF AloneInv, Alone, Active
  <2>4. \A u \in Requests : AloneOK(u)'
    BY <2>3 DEF Active, AloneOK
  <2>. QED BY <2>2, <2>3, <2>4 DEF AloneInv
<1>11. overlapped => AloneInv'
  BY <1>0 DEF AloneInv
<1>. QED BY <1>9, <1>10, <1>11

\* Begin keeps the invariant.
LEMMA AddressBegin ==
    ASSUME AddressInv, NEW t \in Requests, A!Begin(t)
    PROVE  AddressInv' /\ (AloneInv => AloneInv')
<1>0. /\ tx[t].pc = "new" /\ rows' = rows /\ writes' = writes
      /\ overlapped' = (overlapped \/ \E u \in Requests : Active(u))
  BY DEF A!Begin, A!At, Active
<1>1. WritesType(t) /\ tx \in [Requests -> A!Transactions] /\ DOMAIN writes = Requests
  BY AddressTypes
<1>2. writes[t] = A!Empty /\ DOMAIN A!Empty = {}
  BY <1>0, <1>1 DEF WritesType, A!Empty
<1>3. PICK op \in {"create", "update", "remove", "setDefault"}, id \in Ids,
           wanted \in {"yes", "no", "same"}, pc \in {"find", "clear", "insert"} :
        /\ tx' = [tx EXCEPT ![t] = A!Asks(op, id, wanted, pc)]
        /\ op = "create" => /\ id \notin given /\ given' = given \cup {id} /\ unset' = unset
                            /\ wanted # "same" /\ pc = (IF wanted = "yes" THEN "clear" ELSE "insert")
        /\ op # "create" => id \in DOMAIN rows /\ given' = given /\ pc = "find"
        /\ op = "update" => unset' = (unset \/ wanted = "no")
        /\ op \in {"remove", "setDefault"} => wanted = "yes" /\ unset' = unset
  <2>1. CASE \E id \in Ids \ given, wanted \in {"yes", "no"} :
                /\ given' = given \cup {id}
                /\ tx' = [tx EXCEPT ![t] =
                     A!Asks("create", id, wanted, IF wanted = "yes" THEN "clear" ELSE "insert")]
                /\ unset' = unset
    BY <2>1
  <2>2. CASE \E id \in DOMAIN rows, wanted \in {"yes", "no", "same"} :
                /\ tx' = [tx EXCEPT ![t] = A!Asks("update", id, wanted, "find")]
                /\ unset' = (unset \/ wanted = "no")
                /\ given' = given
    BY <2>2, AddressTypes
  <2>3. CASE \E id \in DOMAIN rows, op \in {"remove", "setDefault"} :
                /\ tx' = [tx EXCEPT ![t] = A!Asks(op, id, "yes", "find")]
                /\ given' = given /\ unset' = unset
    BY <2>3, AddressTypes
  <2>. QED BY <2>1, <2>2, <2>3 DEF A!Begin
<1>4. PICK r : r = A!Asks(op, id, wanted, pc)
  OBVIOUS
<1>5. r \in A!Transactions /\ r.pc = pc /\ r.op = op /\ r.wanted = wanted /\ r.id = id
  BY <1>4 DEF A!Asks, A!Transactions
<1>6. tx'[t] = r /\ tx' \in [Requests -> A!Transactions] /\ \A u \in Requests : u # t => tx'[u] = tx[u]
  BY <1>1, <1>3, <1>4, <1>5
<1>7. Alone(t)
  BY <1>0, <1>1, <1>6 DEF Alone
<1>8. unset \in BOOLEAN /\ unset' \in BOOLEAN /\ (unset => unset') /\ overlapped' \in BOOLEAN
  <2>1. unset \in BOOLEAN /\ overlapped \in BOOLEAN
    BY AddressTypes
  <2>2. unset' = unset \/ unset' = (unset \/ wanted = "no")
    BY <1>3
  <2>3. unset' \in BOOLEAN /\ (unset => unset')
    BY <2>1, <2>2, Zenon
  <2>4. overlapped' \in BOOLEAN
    BY <1>0, Zenon
  <2>. QED BY <2>1, <2>3, <2>4
<1>9. given \subseteq given' /\ given' \subseteq Ids
  BY <1>3, AddressTypes
<1>10. AskedOK(t)'
  BY <1>0, <1>2, <1>3, <1>5, <1>6 DEF AskedOK
<1>11. CreatedOK(t)'
  BY <1>0, <1>3, <1>5, <1>6, AddressTypes DEF CreatedOK
<1>12. WritesOK(t)' /\ ChosenOK(t)' /\ WritesType(t)'
  BY <1>0, <1>2, <1>5, <1>6 DEF WritesOK, ChosenOK, WritesType
<1>13. tx'[t].op = "create" =>
         \A u \in Requests : u # t /\ tx[u].op = "create" => tx[u].id # tx'[t].id
  BY <1>3, <1>5, <1>6 DEF AddressInv, AskedOK
<1>14. \A u \in Requests : u # t => DOMAIN writes'[t] \cap DOMAIN writes[u] = {}
  BY <1>0, AddressTypes
<1>15. AddressInv'
  BY <1>0, <1>7, <1>8, <1>9, <1>10, <1>11, <1>12, <1>13, <1>14, AddressStep
<1>16. ASSUME AloneInv, ~overlapped' PROVE AloneInv'
  <2>1. ~overlapped /\ \A u \in Requests : ~Active(u)
    BY <1>0, <1>16
  <2>2. GoodTable(rows)'
    BY <1>0, <1>8, <1>16, <2>1 DEF AloneInv, GoodTable
  <2>3. \A u \in Requests : u # t => ~Active(u)' /\ AloneOK(u)'
    BY <1>6, <2>1 DEF Active, AloneOK
  <2>4. AloneOK(t)'
    BY <1>0, <1>2, <1>3, <1>5, <1>6 DEF AloneOK
  <2>. QED BY <2>2, <2>3, <2>4 DEF AloneInv
<1>17. overlapped' => AloneInv'
  BY DEF AloneInv
<1>. QED BY <1>15, <1>16, <1>17

\* Every step of Address keeps the invariant.
LEMMA AddressNext ==
    AddressInv /\ [A!Next]_A!vars => AddressInv' /\ (AloneInv => AloneInv')
<1>. SUFFICES ASSUME AddressInv, [A!Next]_A!vars PROVE AddressInv' /\ (AloneInv => AloneInv')
  OBVIOUS
<1>1. CASE UNCHANGED A!vars
  <2>1. UNCHANGED <<rows, given, tx, writes, unset, overlapped>>
    BY <1>1 DEF A!vars, A!history
  <2>2. A!TypeOK' /\ \A t \in Requests : AskedOK(t)' /\ CreatedOK(t)' /\ WritesOK(t)' /\ ChosenOK(t)'
    BY <2>1 DEF AddressInv, A!TypeOK, AskedOK, CreatedOK, WritesOK, ChosenOK, A!Transactions, A!Empty
  <2>3. AddressInv'
    BY <2>1, <2>2 DEF AddressInv
  <2>4. ASSUME NEW t \in Requests PROVE AloneOK(t) => AloneOK(t)'
    <3>1. Seen(t)' = Seen(t) /\ A!Visible(t)' = A!Visible(t) /\ A!Defaults(rows)' = A!Defaults(rows)
      BY <2>1 DEF Seen, A!Visible, A!Defaults, A!Overlay
    <3>2. GoodTable(A!Visible(t))' <=> GoodTable(A!Visible(t))
      BY <2>1, <3>1 DEF GoodTable, Seen
    <3>. QED BY <2>1, <3>1, <3>2 DEF AloneOK
  <2>5. GoodTable(rows) => GoodTable(rows)'
    BY <2>1 DEF GoodTable, A!Defaults
  <2>. QED BY <2>1, <2>3, <2>4, <2>5 DEF AloneInv, Active
<1>2. ASSUME NEW t \in Requests, A!Begin(t) \/ A!Statement(t) \/ A!Abort(t)
      PROVE  AddressInv' /\ (AloneInv => AloneInv')
  BY <1>2, AddressBegin, AddressAbort, AddressFind, AddressClearBegin, AddressClearRow,
     AddressClearEnd, AddressInsert, AddressSet, AddressDelete, AddressFindSuccessor,
     AddressCommit DEF A!Statement
<1>. QED BY <1>1, <1>2 DEF A!Next

-----------------------------------------------------------------------------
(***************************************************************************)
(* The three side by side: each step is a step of each part, or none.      *)
(***************************************************************************)
accounts == <<part, vars, sessionVars, addressVars>>

\* A step of MCAccounts is a step, or none, of each part.
LEMMA AccountsSteps ==
    ASSUME [AccountsNext]_accounts
    PROVE  [Next]_vars /\ [S!Next]_S!vars /\ [A!Next]_A!vars /\ part' = part
<1>1. S!vars = sessionVars
  BY DEF S!vars, sessionVars
<1>2. UNCHANGED sessionVars => UNCHANGED S!vars
  BY DEF S!vars, sessionVars
<1>3. UNCHANGED addressVars => UNCHANGED A!vars
  BY DEF A!vars, A!history, addressVars
<1>. QED BY <1>2, <1>3 DEF AccountsNext, accounts

PartOK == part \in {"login", "session", "address"}

AccountsInv ==
    /\ PartOK
    /\ TypeOK /\ LoginInv
    /\ SessionInv /\ ExchangedIsDead
    /\ AddressInv /\ AloneInv

\* The invariants of the parts hold in every reachable state.
THEOREM AccountsInvariance == AccountsSpec => []AccountsInv
<1>1. AccountsInit => AccountsInv
  BY LoginInit, SessionInit, AddressInit DEF AccountsInit, AccountsInv, PartOK
<1>2. AccountsInv /\ [AccountsNext]_accounts => AccountsInv'
  <2>. SUFFICES ASSUME AccountsInv, [AccountsNext]_accounts PROVE AccountsInv'
    OBVIOUS
  <2>1. [Next]_vars /\ [S!Next]_S!vars /\ [A!Next]_A!vars /\ part' = part
    BY AccountsSteps
  <2>2. (TypeOK /\ LoginInv)'
    BY <2>1, LoginTypeNext, LoginInvNext DEF AccountsInv
  <2>3. (SessionInv /\ ExchangedIsDead)'
    BY <2>1, SessionNext, ExchangedNext DEF AccountsInv
  <2>4. (AddressInv /\ AloneInv)'
    BY <2>1, AddressNext DEF AccountsInv
  <2>. QED BY <2>1, <2>2, <2>3, <2>4 DEF AccountsInv, PartOK
<1>. QED BY <1>1, <1>2, PTL DEF AccountsSpec, accounts

\* Every variable of the sign-in, the sessions and the addresses has its type.
THEOREM AccountsTypeCorrect == AccountsSpec => []TypesAreOK
<1>1. AccountsInv => TypesAreOK
  BY SessionInvType DEF AccountsInv, PartOK, TypesAreOK, AddressInv
<1>. QED BY <1>1, AccountsInvariance, PTL

\* A refresh token that rotateSession has exchanged is never the token of a row
\* again, so that no request can renew or end a session with it.
THEOREM ExchangedStaysDead == AccountsSpec => []ExchangedIsDead
<1>1. AccountsInv => ExchangedIsDead
  BY DEF AccountsInv
<1>. QED BY <1>1, AccountsInvariance, PTL

\* revokeSession and revokeAllSessions are final: no refresh that read the row
\* before them changes it after.
THEOREM RevokedStaysRevoked == AccountsSpec => RevokedForGood
<1>1. AccountsInv /\ [AccountsNext]_accounts => [EndedStays]_S!vars
  BY AccountsSteps, EndedNext DEF AccountsInv
<1>. QED BY <1>1, AccountsInvariance, PTL DEF AccountsSpec, accounts, RevokedForGood, S!RevokedForGood, EndedStays

\* Requests about addresses that do not overlap leave one default at most, and
\* one if the customer has addresses and has never switched the default off.
THEOREM OneDefaultAddress == AccountsSpec => []OneDefault
<1>1. ASSUME AloneInv, ~overlapped
      PROVE  /\ \A x, y \in A!Defaults(rows) : x = y
             /\ DOMAIN rows # {} /\ ~unset => A!Defaults(rows) # {}
  BY <1>1 DEF AloneInv, GoodTable
<1>2. AccountsInv => OneDefault
  BY <1>1 DEF AccountsInv, OneDefault, A!OneDefault
<1>. QED BY <1>2, AccountsInvariance, PTL

\* What a step shows of a request that makes an address the default.
ChosenStep ==
    \A t \in Requests :
        A!At(t, "commit") /\ tx'[t].pc = "done" /\ tx[t].op # "remove" /\ tx[t].wanted = "yes" =>
            tx[t].id \in A!Defaults(rows')

\* A commit makes the chosen address the default.
LEMMA ChosenNext == AddressInv /\ [A!Next]_A!vars => [ChosenStep]_A!vars
<1>. SUFFICES ASSUME AddressInv, A!Next, NEW t \in Requests,
                     tx[t].pc = "commit", tx'[t].pc = "done",
                     tx[t].op # "remove", tx[t].wanted = "yes"
              PROVE  tx[t].id \in A!Defaults(rows')
  BY DEF ChosenStep, A!At
<1>1. PICK u \in Requests : A!Begin(u) \/ A!Statement(u) \/ A!Abort(u)
  BY DEF A!Next
<1>0. tx \in [Requests -> A!Transactions] /\ tx'[t] # tx[t]
  BY AddressTypes
<1>2. u = t
  BY <1>0, <1>1 DEF A!Begin, A!Statement, A!Abort, A!Rollback, A!Goes, A!Find, A!ClearBegin, A!ClearRow,
     A!ClearEnd, A!Insert, A!Set, A!Delete, A!FindSuccessor, A!Commit
<1>3. A!Commit(t)
  BY <1>1, <1>2 DEF A!Begin, A!Statement, A!Abort, A!At, A!Find, A!ClearBegin, A!ClearRow,
     A!ClearEnd, A!Insert, A!Set, A!Delete, A!FindSuccessor
<1>4. rows' = A!Visible(t)
  BY <1>3, CommitEffect
<1>5. tx[t].id \in DOMAIN writes[t] /\ writes[t][tx[t].id] = TRUE
  BY DEF AddressInv, ChosenOK
<1>6. tx[t].id \in Seen(t)
  BY <1>5, SeenIs
<1>. QED BY <1>4, <1>6 DEF Seen

\* A request that makes an address the default finds it the default when its
\* transaction commits, whatever it overlaps.
THEOREM ChosenAddressIsDefault == AccountsSpec => ChosenIsDefault
<1>1. AccountsInv /\ [AccountsNext]_accounts => [ChosenStep]_A!vars
  BY AccountsSteps, ChosenNext DEF AccountsInv
<1>. QED BY <1>1, AccountsInvariance, PTL DEF AccountsSpec, accounts, ChosenIsDefault, A!ChosenIsDefault, ChosenStep
=============================================================================

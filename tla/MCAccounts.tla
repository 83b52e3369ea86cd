----------------------------- MODULE MCAccounts -----------------------------
(***************************************************************************)
(* What belongs to one customer's account on small instances: signing in   *)
(* with Google (Login), the sessions that follow (Session) and the saved   *)
(* addresses (Address).                                                    *)
(*                                                                         *)
(* The three share no variable and are checked side by side, one in each   *)
(* behaviour: part is chosen at the start and the others stay as they      *)
(* begin.                                                                  *)
(***************************************************************************)
EXTENDS Login, TLC

CONSTANTS
    Sessions, Devices, Tabs, Lifetime, MaxTime, MaxRequests,
    Requests, Ids

VARIABLES
    part,
    now, session, jar, page, waiting, requests, sent, accepted,
    rows, given, tx, writes, unset, overlapped

\* The devices are the browsers of one user who is signed in.
S == INSTANCE Session WITH Browsers <- Devices

A == INSTANCE Address WITH used <- given

ASSUME AccountsConstants == S!SessionConstants /\ A!AddressConstants

sessionVars == <<now, session, jar, page, waiting, requests, sent, accepted>>
addressVars == <<rows, given, tx, writes, unset, overlapped>>

AccountsInit ==
    /\ part \in {"login", "session", "address"}
    /\ Init /\ S!Init /\ A!Init

AccountsNext ==
    \/ part = "login"   /\ Next   /\ UNCHANGED <<part, sessionVars, addressVars>>
    \/ part = "session" /\ S!Next /\ UNCHANGED <<part, vars, addressVars>>
    \/ part = "address" /\ A!Next /\ UNCHANGED <<part, vars, sessionVars>>

AccountsSpec == AccountsInit /\ [][AccountsNext]_<<part, vars, sessionVars, addressVars>>

\* The flows, browsers and callbacks of a login are interchangeable; so are the
\* tabs, the addresses and the requests about them, which the configuration
\* gives the names of browsers, flows and callbacks.
Symmetry == Permutations(Flows) \cup Permutations(Browsers) \cup Permutations(Callbacks)

-----------------------------------------------------------------------------
(***************************************************************************)
(* The properties of the parts, stated in their modules.                   *)
(***************************************************************************)
\* Every variable of the part has its type.
TypesAreOK == CASE part = "login"   -> TypeOK
                [] part = "session" -> S!TypeOK
                [] part = "address" -> A!TypeOK

\* A token that has been exchanged for another is never accepted again.
ExchangedIsDead == S!ExchangedIsDead

\* A logout is final for the session it ends.
RevokedForGood == S!RevokedForGood

\* Requests that do not overlap leave a customer with one default address.
OneDefault == A!OneDefault

\* An address that a request makes the default is one when it is answered.
ChosenIsDefault == A!ChosenIsDefault
=============================================================================

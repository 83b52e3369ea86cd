--------------------------- MODULE EventDelivery ---------------------------
(***************************************************************************)
(* What the transactional outbox promises for each event, and nothing of   *)
(* how: an event that was committed is open until it is closed for good,   *)
(* as published or as given up.  Copies of it reach the broker at any time *)
(* after the commit, any number of times; it is closed as published only   *)
(* when the broker has one.                                                *)
(***************************************************************************)
CONSTANTS Events

VARIABLES delivery,   \* how far each event is
          brokerHas   \* the events the broker has received a copy of

vars == <<delivery, brokerHas>>

Init == /\ delivery = [e \in Events |-> "none"]
        /\ brokerHas = {}

\* Several events may be committed, closed or received in one step.
Moves(from, to, S) ==
    /\ \A e \in S : delivery[e] = from
    /\ delivery' = [e \in Events |-> IF e \in S THEN to ELSE delivery[e]]

Commit(S)  == Moves("none", "open", S) /\ UNCHANGED brokerHas
Receive(e) == /\ delivery[e] # "none"
              /\ brokerHas' = brokerHas \cup {e}
              /\ UNCHANGED delivery
Publish(S) == Moves("open", "published", S) /\ S \subseteq brokerHas /\ UNCHANGED brokerHas
GiveUp(S)  == Moves("open", "given up", S) /\ UNCHANGED brokerHas

Next == \/ \E e \in Events : Receive(e)
        \/ \E S \in SUBSET Events : Commit(S) \/ Publish(S) \/ GiveUp(S)

Spec == Init /\ [][Next]_vars
=============================================================================

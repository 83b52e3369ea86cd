---------------------------- MODULE AtLeastOnce ----------------------------
(***************************************************************************)
(* What the broker and the consumers together promise for a message, and   *)
(* nothing of how: from the moment it is published the broker holds it     *)
(* until a consumer has handled it or it lies in a dead-letter queue.      *)
(* Only a best-effort message may instead be dropped.                      *)
(***************************************************************************)
CONSTANTS Messages, BestEffort

VARIABLES held,      \* messages of which some copy still waits to be settled
          handled,   \* messages a consumer has applied at least once
          dead,      \* messages of which a dead-letter queue has a copy
          dropped    \* best-effort messages given up without a trace

vars == <<held, handled, dead, dropped>>

Init == held = {} /\ handled = {} /\ dead = {} /\ dropped = {}

Settled == handled \cup dead \cup dropped

Publish(m) == /\ held' = held \cup {m}
              /\ UNCHANGED <<handled, dead, dropped>>
\* A handler may finish late, when another copy has already settled the message.
Handle(m)  == /\ m \in held \cup Settled
              /\ handled' = handled \cup {m}
              /\ UNCHANGED <<held, dead, dropped>>
Bury(m)    == /\ m \in held
              /\ dead' = dead \cup {m}
              /\ UNCHANGED <<held, handled, dropped>>
Drop(m)    == /\ m \in held \cap BestEffort
              /\ dropped' = dropped \cup {m}
              /\ held' \in {held, held \ {m}}
              /\ UNCHANGED <<handled, dead>>
Release(m) == /\ m \in held \cap Settled
              /\ held' = held \ {m}
              /\ UNCHANGED <<handled, dead, dropped>>

Next == \E m \in Messages : Publish(m) \/ Handle(m) \/ Bury(m) \/ Drop(m) \/ Release(m)

Spec == Init /\ [][Next]_vars
=============================================================================

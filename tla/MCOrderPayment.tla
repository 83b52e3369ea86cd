--------------------------- MODULE MCOrderPayment ---------------------------
(***************************************************************************)
(* OrderPayment on small sets of model values.                             *)
(***************************************************************************)
EXTENDS OrderPayment, TLC

\* Invocations of one kind are interchangeable, and so are orders and refund ids.
\* Used in safety runs only.
Symmetry == Permutations(Orders) \cup Permutations(Requests)
              \cup Permutations(Handlers) \cup Permutations(Admins)
              \cup Permutations(RefundIds)
=============================================================================

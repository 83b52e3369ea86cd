------------------------------- MODULE Refund -------------------------------
(***************************************************************************)
(* Refund processing: the refund consumer's calls of processRefund, the    *)
(* reconciliation worker, the refund and payment rows they share, and the  *)
(* payment gateway.                                                        *)
(*                                                                         *)
(* A refund event is delivered at least once (module Delivery): several    *)
(* calls for one refund may overlap, with different retry counts, and the  *)
(* message is dead-lettered when the try with the highest count fails.     *)
(* Every await of the source is a step boundary here, and a call may fail  *)
(* at each of them.                                                        *)
(*                                                                         *)
(* A definition Name_Variant is Name with a plausible mistake in it.  No   *)
(* specification uses it; it is there to show that the properties notice.  *)
(***************************************************************************)
EXTENDS Naturals, FiniteSets

CONSTANTS
    Refunds,      \* rows of the table Refund, one for each payment refunded
    Keys,         \* idempotency keys; the row r has the key r
    Calls,        \* calls of processRefund that may run at the same time
    MaxRetries,   \* length of retryRoutingKeys
    MaxFaults,    \* bound: acknowledgements lost and processes that died
    None          \* no gateway refund id

ASSUME RefundConstants ==
    /\ Refunds \subseteq Keys
    /\ None \notin Keys
    /\ MaxRetries \in Nat
    /\ MaxFaults \in Nat

VARIABLES
    row,       \* row[r]: status and gatewayRefundId
    payment,   \* payment[r]: status of the payment that r refunds
    gateway,   \* gateway[k]: the gateway's refund made with idempotency key k
    copies,    \* copies[r]: retry counts of the event's copies to be settled
    dead,      \* refunds whose event reached the dead-letter queue
    call,      \* what each call of processRefund is doing
    recon,     \* what the reconciliation worker is doing
    faults     \* faults so far

vars == <<row, payment, gateway, copies, dead, call, recon, faults>>
rows == <<row, payment>>
broker == <<copies, dead, faults>>

Idle == [pc |-> "idle"]
Resting == [pc |-> "resting"]

Terminal == {"SUCCESS", "FAILED"}
Unborn == [status |-> "none", of |-> None]

(***************************************************************************)
(* Rows.  updateStatus and updateGatewayDetails are updateMany with the    *)
(* expected value in the where clause: they count the rows they changed.   *)
(***************************************************************************)
Updated(r, from) == row[r].status = from
SetStatus(r, from, to) ==
    row' = IF Updated(r, from) THEN [row EXCEPT ![r].status = to] ELSE row

updateGatewayDetails(r, id) ==
    row' = IF row[r].gatewayRefundId = None THEN [row EXCEPT ![r].gatewayRefundId = id] ELSE row

\* The wrong status in the where clause.
findProcessingRefunds_Pending ==
    {r \in Refunds : row[r].status = "PENDING" /\ row[r].gatewayRefundId # None}
findProcessingRefunds ==
    {r \in Refunds : row[r].status = "PROCESSING" /\ row[r].gatewayRefundId # None}

\* The cancellation commits the row and its outbox event; the event arrives.
Request(r) ==
    /\ row[r].status = "none"
    /\ row' = [row EXCEPT ![r].status = "PENDING"]
    /\ copies' = [copies EXCEPT ![r] = {0}]
    /\ UNCHANGED <<payment, gateway, dead, call, recon, faults>>

(***************************************************************************)
(* How a call ends.                                                        *)
(***************************************************************************)
Step(c, pc) == call' = [call EXCEPT ![c].pc = pc]

\* The consumer acknowledges, or the acknowledgement is lost and the same
\* copy is delivered again.
Return(c) ==
    /\ call' = [call EXCEPT ![c] = Idle]
    /\ UNCHANGED dead
    /\ \/ /\ copies' = [copies EXCEPT ![call[c].refund] = @ \ {call[c].count}]
          /\ UNCHANGED faults
       \/ /\ faults < MaxFaults
          /\ faults' = faults + 1
          /\ UNCHANGED copies

\* A message is retried however often it failed.
Throw_NoLimit(c) ==
    LET r == call[c].refund
        n == call[c].count
    IN  /\ call' = [call EXCEPT ![c] = Idle]
        /\ copies' = [copies EXCEPT ![r] = (@ \ {n}) \cup {n + 1}]
        /\ UNCHANGED <<dead, faults>>
\* The consumer retries or dead-letters, then acknowledges or loses that.
Throw(c) ==
    LET r == call[c].refund
        n == call[c].count
        next == IF n < MaxRetries THEN {n + 1} ELSE {}
    IN  /\ call' = [call EXCEPT ![c] = Idle]
        /\ dead' = IF n < MaxRetries THEN dead ELSE dead \cup {r}
        /\ \/ /\ copies' = [copies EXCEPT ![r] = (@ \ {n}) \cup next]
              /\ UNCHANGED faults
           \/ /\ faults < MaxFaults
              /\ faults' = faults + 1
              /\ copies' = [copies EXCEPT ![r] = @ \cup next]

(***************************************************************************)
(* processRefund.                                                          *)
(***************************************************************************)
Start(c, r) ==
    /\ call[c] = Idle
    /\ \E n \in copies[r] :
         call' = [call EXCEPT ![c] = [pc |-> "load", refund |-> r, count |-> n]]
    /\ UNCHANGED <<rows, gateway, recon, broker>>

At(c, pc) == call[c].pc = pc

Row(c) == row[call[c].refund]

Load(c) ==
    /\ At(c, "load")
    /\ UNCHANGED <<rows, gateway, recon>>
    /\ CASE Row(c).status \in Terminal    -> Return(c)
         [] Row(c).status = "PENDING"     -> Step(c, "claim") /\ UNCHANGED broker
         [] Row(c).status = "PROCESSING"  ->
              /\ call' = [call EXCEPT ![c] = [pc |-> "call", refund |-> @.refund,
                                              count |-> @.count, id |-> Row(c).gatewayRefundId]]
              /\ UNCHANGED broker

Claim(c) ==
    /\ At(c, "claim")
    /\ SetStatus(call[c].refund, "PENDING", "PROCESSING")
    /\ Step(c, IF Updated(call[c].refund, "PENDING") THEN "claimed" ELSE "outrun")
    /\ UNCHANGED <<payment, gateway, recon, broker>>

\* Both branches of the claim read the row again.  The one that won throws on
\* a row that another call has settled meanwhile.
Reload(c) ==
    /\ At(c, "claimed") \/ At(c, "outrun")
    /\ UNCHANGED <<rows, gateway, recon>>
    /\ CASE Row(c).status = "FAILED"                    -> Return(c)
         [] Row(c).status = "SUCCESS" /\ At(c, "outrun")  -> Return(c)
         [] Row(c).status = "SUCCESS" /\ At(c, "claimed") -> Throw(c)
         [] OTHER ->
              /\ call' = [call EXCEPT ![c] = [pc |-> "call", refund |-> @.refund,
                                              count |-> @.count, id |-> Row(c).gatewayRefundId]]
              /\ UNCHANGED broker

\* The gateway's answer is about refund k and its status at this moment.
Answered(c, pc, k, status) ==
    call' = [call EXCEPT ![c] = [pc |-> pc, refund |-> @.refund, count |-> @.count,
                                 id |-> k, answer |-> status]]

Fetch(c) ==
    /\ At(c, "call")
    /\ call[c].id # None
    /\ Answered(c, "settle", call[c].id, gateway[call[c].id].status)
    /\ UNCHANGED <<rows, gateway, recon, broker>>

\* What POST /payments/:id/refund does with an idempotency key: it makes one
\* refund, and answers a repeated request with the same one.
CreateAt(k, r, first) ==
    gateway' = IF gateway[k] = Unborn
               THEN [gateway EXCEPT ![k] = [status |-> first, of |-> r]]
               ELSE gateway

\* Each attempt makes up an idempotency key of its own.
CreateRefund_FreshKey(c) ==
    /\ At(c, "call")
    /\ call[c].id = None
    /\ \E k \in {x \in Keys : gateway[x] = Unborn}, first \in {"pending", "processed"} :
         /\ CreateAt(k, call[c].refund, first)
         /\ \/ Answered(c, "save", k, gateway'[k].status) /\ UNCHANGED broker
            \/ Throw(c)
    /\ UNCHANGED <<rows, recon>>
\* The request reaches the gateway; its answer arrives or is lost.
CreateRefund(c) ==
    LET k == call[c].refund IN
    /\ At(c, "call")
    /\ call[c].id = None
    /\ \E first \in {"pending", "processed"} : CreateAt(k, call[c].refund, first)
    /\ \/ Answered(c, "save", k, gateway'[k].status) /\ UNCHANGED broker
       \/ Throw(c)
    /\ UNCHANGED <<rows, recon>>

\* The id is stored only once the gateway has decided.
SaveGatewayId_WhenDecided(c) ==
    /\ At(c, "save")
    /\ IF call[c].answer = "pending" THEN UNCHANGED row
                                     ELSE updateGatewayDetails(call[c].refund, call[c].id)
    /\ Step(c, "settle")
    /\ UNCHANGED <<payment, gateway, recon, broker>>
SaveGatewayId(c) ==
    /\ At(c, "save")
    /\ updateGatewayDetails(call[c].refund, call[c].id)
    /\ Step(c, "settle")
    /\ UNCHANGED <<payment, gateway, recon, broker>>

\* The gateway's refund must belong to this row's payment.
validateGatewayRefund(r, k) == gateway[k].of = r

\* The transaction of handleGatewayRefundStatus commits only when both rows
\* were changed.
Finalizable(r) == Updated(r, "PROCESSING") /\ payment[r] = "SUCCESS"

handleGatewayRefundStatus(r, answer) ==
    CASE answer = "processed" -> /\ SetStatus(r, "PROCESSING", "SUCCESS")
                                 /\ payment' = [payment EXCEPT ![r] = "REFUNDED"]
      [] answer = "pending"   -> UNCHANGED rows
      [] answer = "failed"    -> SetStatus(r, "PROCESSING", "FAILED") /\ UNCHANGED payment

Settles(r, k, answer) ==
    validateGatewayRefund(r, k) /\ (answer = "processed" => Finalizable(r))

\* After the transaction the row is read again, and that may throw as well.
Settle(c) ==
    LET r == call[c].refund IN
    /\ At(c, "settle")
    /\ IF Settles(r, call[c].id, call[c].answer)
       THEN handleGatewayRefundStatus(r, call[c].answer) /\ (Return(c) \/ Throw(c))
       ELSE UNCHANGED rows /\ Throw(c)
    /\ UNCHANGED <<gateway, recon>>

\* An uncertain answer marks the row FAILED.
Fail_MarksFailed(c) ==
    /\ call[c] # Idle
    /\ SetStatus(call[c].refund, "PROCESSING", "FAILED")
    /\ Throw(c)
    /\ UNCHANGED <<payment, gateway, recon>>
\* The database or the gateway fails a call at any await, without an effect.
Fail(c) ==
    /\ call[c] # Idle
    /\ Throw(c)
    /\ UNCHANGED <<rows, gateway, recon>>

(***************************************************************************)
(* The reconciliation worker: one cycle after another, one refund after    *)
(* another, and a refund that fails does not stop the cycle.               *)
(***************************************************************************)
BeginCycle ==
    /\ recon = Resting
    /\ recon' = [pc |-> "cycle", todo |-> findProcessingRefunds]
    /\ UNCHANGED <<rows, gateway, call, broker>>

EndCycle ==
    /\ recon.pc = "cycle"
    /\ recon.todo = {}
    /\ recon' = Resting
    /\ UNCHANGED <<rows, gateway, call, broker>>

ReconcileFetch(r) ==
    /\ recon.pc = "cycle"
    /\ r \in recon.todo
    /\ recon' = [pc |-> "fetched", todo |-> recon.todo \ {r}, refund |-> r,
                 answer |-> gateway[row[r].gatewayRefundId].status]
    /\ UNCHANGED <<rows, gateway, call, broker>>

\* The fetch or the update fails, or finds the row settled already.
ReconcileFail(r) ==
    /\ \/ recon.pc = "cycle" /\ r \in recon.todo
       \/ recon.pc = "fetched" /\ r = recon.refund
    /\ recon' = [pc |-> "cycle", todo |-> recon.todo \ {r}]
    /\ UNCHANGED <<rows, gateway, call, broker>>

ReconcileSettle ==
    /\ recon.pc = "fetched"
    /\ Settles(recon.refund, row[recon.refund].gatewayRefundId, recon.answer)
    /\ handleGatewayRefundStatus(recon.refund, recon.answer)
    /\ recon' = [pc |-> "cycle", todo |-> recon.todo]
    /\ UNCHANGED <<gateway, call, broker>>

(***************************************************************************)
(* The gateway decides, and the process dies and starts again.             *)
(***************************************************************************)
Decide(k) ==
    /\ gateway[k].status = "pending"
    /\ \E s \in {"processed", "failed"} : gateway' = [gateway EXCEPT ![k].status = s]
    /\ UNCHANGED <<rows, call, recon, broker>>

Die ==
    /\ faults < MaxFaults
    /\ faults' = faults + 1
    /\ call' = [c \in Calls |-> Idle]
    /\ recon' = Resting
    /\ UNCHANGED <<rows, gateway, copies, dead>>

Init ==
    /\ row = [r \in Refunds |-> [status |-> "none", gatewayRefundId |-> None]]
    /\ payment = [r \in Refunds |-> "SUCCESS"]
    /\ gateway = [k \in Keys |-> Unborn]
    /\ copies = [r \in Refunds |-> {}]
    /\ dead = {}
    /\ call = [c \in Calls |-> Idle]
    /\ recon = Resting
    /\ faults = 0

ProcessRefund(c) == \/ Load(c) \/ Claim(c) \/ Reload(c) \/ Fetch(c)
                    \/ CreateRefund(c) \/ SaveGatewayId(c) \/ Settle(c) \/ Fail(c)

Reconcile == \/ BeginCycle \/ EndCycle \/ ReconcileSettle
             \/ \E r \in Refunds : ReconcileFetch(r) \/ ReconcileFail(r)

Next == \/ \E r \in Refunds : Request(r)
        \/ \E c \in Calls, r \in Refunds : Start(c, r)
        \/ \E c \in Calls : ProcessRefund(c)
        \/ Reconcile
        \/ \E k \in Keys : Decide(k)
        \/ Die

Spec == Init /\ [][Next]_vars

\* A waiting copy is delivered, a call comes to its end (well or badly), the
\* worker goes on with its cycle, the gateway decides, and it does not fail
\* the worker's fetch of one refund for ever.
FairSpec ==
    /\ Spec
    /\ \A r \in Refunds : WF_vars(\E c \in Calls : Start(c, r))
    /\ \A c \in Calls : WF_vars(ProcessRefund(c))
    /\ WF_vars(Reconcile)
    /\ SF_vars(ReconcileSettle)
    /\ \A r \in Refunds : SF_vars(ReconcileFetch(r))
    /\ \A k \in Keys : WF_vars(Decide(k))

-----------------------------------------------------------------------------
(***************************************************************************)
(* Properties.                                                             *)
(***************************************************************************)
RowStatus == {"none", "PENDING", "PROCESSING"} \cup Terminal
GatewayStatus == {"pending", "processed", "failed"}
Ids == Keys \cup {None}

CallStates ==
    {Idle}
      \cup [pc : {"load", "claim", "claimed", "outrun"}, refund : Refunds, count : 0..MaxRetries]
      \cup [pc : {"call"}, refund : Refunds, count : 0..MaxRetries, id : Ids]
      \cup [pc : {"save", "settle"}, refund : Refunds, count : 0..MaxRetries, id : Keys,
            answer : GatewayStatus]
ReconStates ==
    {Resting}
      \cup [pc : {"cycle"}, todo : SUBSET Refunds]
      \cup [pc : {"fetched"}, todo : SUBSET Refunds, refund : Refunds, answer : GatewayStatus]

\* Every variable has its type; a call never works on a gateway refund that
\* does not exist.
TypeOK ==
    /\ row \in [Refunds -> [status : RowStatus, gatewayRefundId : Ids]]
    /\ payment \in [Refunds -> {"SUCCESS", "REFUNDED"}]
    /\ gateway \in [Keys -> {Unborn} \cup [status : GatewayStatus, of : Refunds]]
    /\ copies \in [Refunds -> SUBSET (0..MaxRetries)]
    /\ dead \subseteq Refunds
    /\ call \in [Calls -> CallStates]
    /\ recon \in ReconStates
    /\ faults \in 0..MaxFaults

GatewayRefundsOf(r) == {k \in Keys : gateway[k].of = r}

\* The customer is refunded at most once for a row: the gateway has one refund
\* of it, however many calls asked for one and lost the answer.
OneGatewayRefund == \A r \in Refunds : Cardinality(GatewayRefundsOf(r)) <= 1

\* A settled row says what the gateway did, and the payment agrees with it:
\* SUCCESS exactly when the payment is REFUNDED, and then the gateway has
\* processed the refund whose id the row holds; FAILED only if that failed.
SettledTruthfully ==
    \A r \in Refunds :
        LET g == gateway[row[r].gatewayRefundId] IN
        /\ row[r].status = "SUCCESS" <=> payment[r] = "REFUNDED"
        /\ row[r].status \in Terminal =>
             /\ row[r].gatewayRefundId # None
             /\ g.status = IF row[r].status = "SUCCESS" THEN "processed" ELSE "failed"

\* An event that was acknowledged and not dead-lettered has left a row that is
\* settled, or that the reconciliation worker will find.
AcknowledgedIsReconcilable ==
    \A r \in Refunds :
        row[r].status # "none" /\ copies[r] = {} /\ r \notin dead =>
            row[r].status \in Terminal \/ r \in findProcessingRefunds

\* A requested refund is eventually settled, by the consumer or by the worker,
\* also when its event was dead-lettered, if the row has got the gateway's id.
\* A dead-lettered row without one is left alone, whatever the gateway did:
\* ReconciledWithGateway is about these.
SettledOrUnidentified ==
    \A r \in Refunds :
        row[r].status # "none" ~>
            \/ row[r].status \in Terminal
            \/ r \in dead /\ row[r].gatewayRefundId = None

\* README, "Refund Reconciliation": where the row says PROCESSING and the
\* gateway has made the refund, reconciliation brings the row back in line.
GatewayHasRefunded(r) == \E k \in GatewayRefundsOf(r) : gateway[k].status = "processed"
ReconciledWithGateway ==
    \A r \in Refunds :
        row[r].status = "PROCESSING" /\ GatewayHasRefunded(r) ~> row[r].status = "SUCCESS"
=============================================================================

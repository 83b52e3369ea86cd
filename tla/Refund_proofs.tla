---------------------------- MODULE Refund_proofs ----------------------------
(***************************************************************************)
(* Proofs about Refund, for any number of refunds, overlapping calls,      *)
(* retries and faults.                                                     *)
(*                                                                         *)
(* The argument: the idempotency key of a refund is its own, so the        *)
(* gateway's refund of the row r is the one with the key r, whoever asks   *)
(* for it.  A call that is past the claim has a row in PROCESSING or       *)
(* settled; one that is to settle it holds an answer that was the truth    *)
(* when it was given, and a decided answer stays true.                     *)
(***************************************************************************)
EXTENDS Refund, FiniteSetTheorems, TLAPS

\* The row was claimed.
Active(r) == row[r].status \in {"PROCESSING"} \cup Terminal

\* The gateway has the row's refund, and an answer that is not "pending" says
\* what has become of it.
Says(r, answer) ==
    gateway[r] # Unborn /\ (answer # "pending" => gateway[r].status = answer)

GatewayOK == \A k \in Keys : gateway[k] # Unborn => gateway[k].of = k

RowOK(r) ==
    /\ row[r].gatewayRefundId \in {None, r}
    /\ row[r].gatewayRefundId = r => gateway[r] # Unborn /\ Active(r)
    /\ row[r].status = "SUCCESS" <=> payment[r] = "REFUNDED"
    /\ row[r].status = "SUCCESS" =>
         row[r].gatewayRefundId = r /\ gateway[r].status = "processed"
    /\ row[r].status = "FAILED" =>
         row[r].gatewayRefundId = r /\ gateway[r].status = "failed"

CopiesOK(r) ==
    /\ copies[r] # {} => row[r].status # "none"
    /\ row[r].status # "none" /\ copies[r] = {} /\ r \notin dead =>
         Active(r) /\ row[r].gatewayRefundId = r

CallOK(c) ==
    LET r == call[c].refund IN
    /\ call[c].pc # "idle" => row[r].status # "none"
    /\ call[c].pc \in {"claimed", "outrun", "call", "save", "settle"} => Active(r)
    /\ call[c].pc = "call" => call[c].id = None
                              \/ (call[c].id = r /\ row[r].gatewayRefundId = r)
    /\ call[c].pc \in {"save", "settle"} => call[c].id = r /\ Says(r, call[c].answer)
    /\ call[c].pc = "settle" => row[r].gatewayRefundId = r

ReconOK ==
    /\ recon.pc \in {"cycle", "fetched"} =>
         \A r \in recon.todo : row[r].gatewayRefundId = r
    /\ recon.pc = "fetched" => /\ row[recon.refund].gatewayRefundId = recon.refund
                               /\ Says(recon.refund, recon.answer)

\* The inductive invariant.
RefundInv ==
    /\ GatewayOK
    /\ \A r \in Refunds : RowOK(r) /\ CopiesOK(r)
    /\ \A c \in Calls : CallOK(c)
    /\ ReconOK

-----------------------------------------------------------------------------
\* What a call is doing is one of the records of CallStates, told apart by its
\* pc; so is what the worker is doing.
LEMMA CallStateOf ==
    ASSUME TypeOK, NEW c \in Calls
    PROVE  /\ call[c].pc \in {"idle", "load", "claim", "claimed", "outrun", "call", "save", "settle"}
           /\ call[c] # Idle => call[c].pc # "idle"
           /\ call[c].pc = "idle" => call[c] = Idle
           /\ call[c].pc # "idle" => call[c].refund \in Refunds /\ call[c].count \in 0..MaxRetries
           /\ call[c].pc \in {"load", "claim", "claimed", "outrun"} =>
                call[c] \in [pc : {"load", "claim", "claimed", "outrun"}, refund : Refunds,
                             count : 0..MaxRetries]
           /\ call[c].pc = "call" => call[c].id \in Ids
           /\ call[c].pc \in {"save", "settle"} =>
                call[c] \in [pc : {"save", "settle"}, refund : Refunds, count : 0..MaxRetries,
                             id : Keys, answer : GatewayStatus]
BY DEF TypeOK, CallStates, Idle

LEMMA ReconStateOf ==
    ASSUME TypeOK
    PROVE  /\ recon.pc \in {"resting", "cycle", "fetched"}
           /\ recon.pc = "cycle" => recon.todo \subseteq Refunds
           /\ recon.pc = "fetched" => /\ recon.todo \subseteq Refunds /\ recon.refund \in Refunds
                                      /\ recon.answer \in GatewayStatus
BY DEF TypeOK, ReconStates, Resting

LEMMA NoneIsNoRefund == \A r \in Refunds : r # None /\ r \in Keys
BY RefundConstants

\* A refund that the gateway has made has a status.
LEMMA BornHasStatus ==
    ASSUME TypeOK, NEW k \in Keys, gateway[k] # Unborn
    PROVE  gateway[k].status \in GatewayStatus /\ gateway[k].of \in Refunds
BY DEF TypeOK

LEMMA RefundInit == Init => TypeOK /\ RefundInv
<1>. SUFFICES ASSUME Init PROVE TypeOK /\ RefundInv
  OBVIOUS
<1>1. \A r \in Refunds : row[r].status = "none" /\ row[r].gatewayRefundId = None
                         /\ payment[r] = "SUCCESS" /\ copies[r] = {}
  BY DEF Init
<1>2. \A c \in Calls : call[c].pc = "idle"
  BY DEF Init, Idle
<1>3. recon.pc = "resting"
  BY DEF Init, Resting
<1>4. row \in [Refunds -> [status : RowStatus, gatewayRefundId : Ids]]
  BY DEF Init, RowStatus, Ids
<1>5. TypeOK
  BY <1>4, RefundConstants DEF Init, TypeOK, CallStates, ReconStates
<1>6. GatewayOK
  BY DEF Init, GatewayOK
<1>7. \A r \in Refunds : RowOK(r) /\ CopiesOK(r)
  BY <1>1, NoneIsNoRefund DEF RowOK, CopiesOK
<1>8. \A c \in Calls : CallOK(c)
  BY <1>2 DEF CallOK
<1>9. ReconOK
  BY <1>3 DEF ReconOK
<1>. QED BY <1>5, <1>6, <1>7, <1>8, <1>9 DEF RefundInv

-----------------------------------------------------------------------------
\* Rows and gateway refunds only ever go forward.
Forward ==
    /\ \A r \in Refunds : /\ row[r].status # "none" => row'[r].status # "none"
                          /\ Active(r) => row'[r].status \in {"PROCESSING"} \cup Terminal
                          /\ row[r].gatewayRefundId = r => row'[r].gatewayRefundId = r
                          /\ gateway[r] # Unborn =>
                               /\ gateway'[r] # Unborn
                               /\ gateway[r].status # "pending" => gateway'[r].status = gateway[r].status

\* What was true of a call or of the worker stays true.
LEMMA OthersStayOK ==
    ASSUME TypeOK, RefundInv, Forward
    PROVE  /\ \A c \in Calls : call'[c] = call[c] \/ call'[c] = Idle => CallOK(c)'
           /\ recon' = recon \/ recon' = Resting => ReconOK'
<1>1. ASSUME NEW c \in Calls, call'[c] = call[c] PROVE CallOK(c)'
  <2>1. CASE call[c].pc = "idle"
    BY <1>1, <2>1 DEF CallOK
  <2>2. CASE call[c].pc # "idle"
    <3>1. call[c].refund \in Refunds
      BY <2>2, CallStateOf
    <3>2. CallOK(c)
      BY DEF RefundInv
    <3>. QED BY <1>1, <3>1, <3>2 DEF CallOK, Forward, Says, Active
  <2>. QED BY <2>1, <2>2
<1>2. ASSUME NEW c \in Calls, call'[c] = Idle PROVE CallOK(c)'
  BY <1>2 DEF CallOK, Idle
<1>3. ASSUME recon' = recon PROVE ReconOK'
  BY <1>3, ReconStateOf DEF RefundInv, ReconOK, Forward, Says
<1>4. ASSUME recon' = Resting PROVE ReconOK'
  BY <1>4 DEF ReconOK, Resting
<1>. QED BY <1>1, <1>2, <1>3, <1>4

\* A step that leaves rows and gateway alone keeps what is said of them.
LEMMA RowsStayOK ==
    ASSUME RefundInv, UNCHANGED <<rows, gateway>>
    PROVE  Forward /\ GatewayOK' /\ \A r \in Refunds : RowOK(r)'
BY DEF rows, RefundInv, GatewayOK, RowOK, Forward, Active

\* How a call ends for the broker.
LEMMA ReturnEffect ==
    ASSUME TypeOK, NEW c \in Calls, call[c].pc # "idle", Return(c)
    PROVE  /\ call' = [call EXCEPT ![c] = Idle]
           /\ dead' = dead
           /\ copies' \in [Refunds -> SUBSET (0..MaxRetries)]
           /\ faults' \in 0..MaxFaults
           /\ \A r \in Refunds : /\ r # call[c].refund => copies'[r] = copies[r]
                                 /\ copies'[r] \subseteq copies[r]
<1>1. call[c].refund \in Refunds
  BY CallStateOf
<1>2. faults' \in 0..MaxFaults
  BY RefundConstants DEF Return, TypeOK
<1>. QED BY <1>1, <1>2 DEF Return, TypeOK

LEMMA ThrowEffect ==
    ASSUME TypeOK, NEW c \in Calls, call[c].pc # "idle", Throw(c)
    PROVE  /\ call' = [call EXCEPT ![c] = Idle]
           /\ dead' \subseteq Refunds /\ dead \subseteq dead'
           /\ copies' \in [Refunds -> SUBSET (0..MaxRetries)]
           /\ faults' \in 0..MaxFaults
           /\ \A r \in Refunds : r # call[c].refund => copies'[r] = copies[r]
           /\ call[c].refund \in dead' \/ copies'[call[c].refund] # {}
<1>. DEFINE r == call[c].refund
            n == call[c].count
            next == IF n < MaxRetries THEN {n + 1} ELSE {}
<1>1. r \in Refunds /\ n \in 0..MaxRetries
  BY CallStateOf
<1>2. next \subseteq 0..MaxRetries /\ (n < MaxRetries => next # {})
  BY <1>1, RefundConstants
<1>3. faults' \in 0..MaxFaults
  BY RefundConstants DEF Throw, TypeOK
<1>4. /\ call' = [call EXCEPT ![c] = Idle]
      /\ dead' = IF n < MaxRetries THEN dead ELSE dead \cup {r}
      /\ \/ copies' = [copies EXCEPT ![r] = (@ \ {n}) \cup next]
         \/ copies' = [copies EXCEPT ![r] = @ \cup next]
  BY DEF Throw
<1>. HIDE DEF r, next
<1>5. copies' \in [Refunds -> SUBSET (0..MaxRetries)] /\ next \subseteq copies'[r]
      /\ \A s \in Refunds : s # r => copies'[s] = copies[s]
  BY <1>1, <1>2, <1>4, ZenonT(40) DEF TypeOK
<1>6. dead' \subseteq Refunds /\ dead \subseteq dead' /\ (r \in dead' \/ copies'[r] # {})
  BY <1>1, <1>2, <1>4, <1>5 DEF TypeOK
<1>. QED BY <1>3, <1>4, <1>5, <1>6 DEF r

-----------------------------------------------------------------------------
\* What is said of the copies stays true: when the broker is left alone, when a
\* call returns with a row that is settled or will be found, and when it throws.
NoNewRow == \A r \in Refunds : row[r].status = "none" => row'[r].status = "none"

LEMMA BrokerStaysOK ==
    ASSUME RefundInv, Forward, NoNewRow, UNCHANGED broker
    PROVE  \A r \in Refunds : CopiesOK(r)'
BY DEF broker, RefundInv, CopiesOK, Forward, NoNewRow, Active

LEMMA ReturnStaysOK ==
    ASSUME TypeOK, RefundInv, Forward, NoNewRow, NEW c \in Calls, call[c].pc # "idle", Return(c),
           NEW r \in Refunds, r = call[c].refund,
           row'[r].status \in {"PROCESSING"} \cup Terminal, row'[r].gatewayRefundId = r
    PROVE  \A s \in Refunds : CopiesOK(s)'
<1>1. /\ dead' = dead
      /\ \A s \in Refunds : /\ s # r => copies'[s] = copies[s]
                            /\ copies'[s] \subseteq copies[s]
  BY ReturnEffect
<1>2. CopiesOK(r)'
  BY DEF CopiesOK, Active, Terminal
<1>3. \A s \in Refunds \ {r} : CopiesOK(s)'
  BY <1>1 DEF RefundInv, CopiesOK, Forward, NoNewRow, Active
<1>. QED BY <1>2, <1>3

LEMMA ThrowStaysOK ==
    ASSUME TypeOK, RefundInv, Forward, NoNewRow, NEW c \in Calls, call[c].pc # "idle", Throw(c)
    PROVE  \A r \in Refunds : CopiesOK(r)'
<1>1. PICK r \in Refunds : r = call[c].refund
  BY CallStateOf
<1>2. /\ dead \subseteq dead'
      /\ \A s \in Refunds : s # r => copies'[s] = copies[s]
      /\ r \in dead' \/ copies'[r] # {}
  BY <1>1, ThrowEffect
<1>3. row[r].status # "none"
  BY <1>1 DEF RefundInv, CallOK
<1>4. CopiesOK(r)'
  BY <1>2, <1>3 DEF CopiesOK, Forward
<1>5. \A s \in Refunds \ {r} : CopiesOK(s)'
  BY <1>2 DEF RefundInv, CopiesOK, Forward, NoNewRow, Active
<1>. QED BY <1>4, <1>5

\* Only the call c does something.
LEMMA CallStays ==
    ASSUME TypeOK, NEW c \in Calls, NEW v \in CallStates, call' = [call EXCEPT ![c] = v]
    PROVE  /\ call' \in [Calls -> CallStates] /\ call'[c] = v
           /\ \A d \in Calls \ {c} : call'[d] = call[d]
<1>. HIDE DEF CallStates
<1>. QED BY DEF TypeOK

LEMMA IdleIsState == Idle \in CallStates
BY DEF Idle, CallStates

\* A call that ends and has changed no row.
LEMMA EndKeeps ==
    ASSUME TypeOK, RefundInv, NEW c \in Calls, call[c].pc # "idle", UNCHANGED <<rows, gateway, recon>>,
           \/ Throw(c)
           \/ /\ Return(c) /\ Active(call[c].refund)
              /\ row[call[c].refund].gatewayRefundId = call[c].refund
    PROVE  TypeOK' /\ RefundInv'
<1>1. Forward /\ GatewayOK' /\ (\A r \in Refunds : RowOK(r)') /\ NoNewRow
  BY RowsStayOK DEF NoNewRow, rows
<1>2. /\ call' = [call EXCEPT ![c] = Idle]
      /\ dead' \subseteq Refunds /\ copies' \in [Refunds -> SUBSET (0..MaxRetries)]
      /\ faults' \in 0..MaxFaults
  BY ReturnEffect, ThrowEffect DEF TypeOK
<1>3. /\ call' \in [Calls -> CallStates] /\ call'[c] = Idle
      /\ \A d \in Calls \ {c} : call'[d] = call[d]
  BY <1>2, CallStays, IdleIsState
<1>4. TypeOK'
  BY <1>2, <1>3 DEF TypeOK, rows
<1>5. \A r \in Refunds : CopiesOK(r)'
  <2>1. CASE Throw(c)
    BY <1>1, <2>1, ThrowStaysOK
  <2>2. CASE Return(c) /\ Active(call[c].refund) /\ row[call[c].refund].gatewayRefundId = call[c].refund
    <3>1. PICK r \in Refunds : r = call[c].refund
      BY CallStateOf
    <3>2. row'[r].status \in {"PROCESSING"} \cup Terminal /\ row'[r].gatewayRefundId = r
      BY <2>2, <3>1 DEF Active, rows
    <3>. QED BY <1>1, <2>2, <3>1, <3>2, ReturnStaysOK
  <2>. QED BY <2>1, <2>2
<1>6. (\A d \in Calls : CallOK(d)') /\ ReconOK'
  BY <1>1, <1>3, OthersStayOK
<1>. QED BY <1>1, <1>4, <1>5, <1>6 DEF RefundInv

\* A call that goes on and changes no row.
LEMMA WorkKeeps ==
    ASSUME TypeOK, RefundInv, NEW c \in Calls, UNCHANGED <<rows, gateway, recon, broker>>,
           NEW v \in CallStates, call' = [call EXCEPT ![c] = v], CallOK(c)'
    PROVE  TypeOK' /\ RefundInv'
<1>1. Forward /\ GatewayOK' /\ (\A r \in Refunds : RowOK(r)') /\ NoNewRow
  BY RowsStayOK DEF NoNewRow, rows
<1>2. call' \in [Calls -> CallStates] /\ \A d \in Calls \ {c} : call'[d] = call[d]
  BY CallStays
<1>3. TypeOK'
  BY <1>2 DEF TypeOK, rows, broker
<1>4. (\A d \in Calls : CallOK(d)') /\ ReconOK'
  BY <1>1, <1>2, OthersStayOK
<1>. QED BY <1>1, <1>3, <1>4, BrokerStaysOK DEF RefundInv

LEMMA StartKeeps ==
    ASSUME TypeOK, RefundInv, NEW c \in Calls, NEW r \in Refunds, Start(c, r)
    PROVE  TypeOK' /\ RefundInv'
<1>1. PICK n \in copies[r] : call' = [call EXCEPT ![c] = [pc |-> "load", refund |-> r, count |-> n]]
  BY DEF Start
<1>. DEFINE v == [pc |-> "load", refund |-> r, count |-> n]
<1>2. v \in CallStates
  BY DEF CallStates, TypeOK
<1>3. v.pc = "load" /\ v.refund = r
  OBVIOUS
<1>4. call' = [call EXCEPT ![c] = v]
  BY <1>1
<1>. HIDE DEF v
<1>5. call'[c] = v
  BY <1>2, <1>4, CallStays
<1>6. row'[r].status # "none"
  BY DEF Start, rows, RefundInv, CopiesOK
<1>7. CallOK(c)'
  BY <1>3, <1>5, <1>6 DEF CallOK
<1>. QED BY <1>2, <1>4, <1>7, WorkKeeps DEF Start

\* The two steps of the claim keep the call's refund and count.
LEMMA ClaimStep ==
    ASSUME TypeOK, NEW c \in Calls, call[c].pc \in {"load", "claim"},
           NEW p \in {"claim", "claimed", "outrun"}, Step(c, p)
    PROVE  LET v == [call[c] EXCEPT !.pc = p] IN
           /\ v \in CallStates /\ call' = [call EXCEPT ![c] = v]
           /\ v.pc = p /\ v.refund = call[c].refund
<1>1. call[c] \in [pc : {"load", "claim", "claimed", "outrun"}, refund : Refunds, count : 0..MaxRetries]
  BY CallStateOf
<1>2. /\ [call[c] EXCEPT !.pc = p]
           \in [pc : {"load", "claim", "claimed", "outrun"}, refund : Refunds, count : 0..MaxRetries]
      /\ [call[c] EXCEPT !.pc = p].pc = p /\ [call[c] EXCEPT !.pc = p].refund = call[c].refund
  BY <1>1
<1>3. [call[c] EXCEPT !.pc = p] \in CallStates
  BY <1>2 DEF CallStates
<1>4. call' = [call EXCEPT ![c] = [call[c] EXCEPT !.pc = p]]
  BY DEF Step
<1>. QED BY <1>2, <1>3, <1>4

\* Asking the gateway about a row that was claimed.
LEMMA CallGatewayKeeps ==
    ASSUME TypeOK, RefundInv, NEW c \in Calls, UNCHANGED <<rows, gateway, recon, broker>>,
           NEW r \in Refunds, r = call[c].refund, call[c].pc # "idle", Active(r),
           call' = [call EXCEPT ![c] = [pc |-> "call", refund |-> r, count |-> call[c].count,
                                        id |-> row[r].gatewayRefundId]]
    PROVE  TypeOK' /\ RefundInv'
<1>. DEFINE v == [pc |-> "call", refund |-> r, count |-> call[c].count,
                  id |-> row[r].gatewayRefundId]
<1>1. call[c].count \in 0..MaxRetries /\ row[r].gatewayRefundId \in Ids
  BY CallStateOf DEF TypeOK
<1>2. v \in CallStates
  BY <1>1 DEF CallStates
<1>3. v.pc = "call" /\ v.refund = r /\ v.id = row[r].gatewayRefundId
  OBVIOUS
<1>4. call' = [call EXCEPT ![c] = v]
  OBVIOUS
<1>. HIDE DEF v
<1>5. call'[c] = v
  BY <1>2, <1>4, CallStays
<1>6. row'[r] = row[r] /\ row[r].gatewayRefundId \in {None, r} /\ row[r].status # "none"
  BY DEF rows, RefundInv, RowOK, Active, Terminal
<1>7. row'[r].status \in {"PROCESSING"} \cup Terminal
  BY <1>6 DEF Active
<1>8. CallOK(c)'
  BY <1>3, <1>5, <1>6, <1>7 DEF CallOK, Active
<1>. QED BY <1>2, <1>4, <1>8, WorkKeeps

LEMMA LoadKeeps ==
    ASSUME TypeOK, RefundInv, NEW c \in Calls, Load(c)
    PROVE  TypeOK' /\ RefundInv'
<1>1. PICK r \in Refunds : r = call[c].refund
  BY CallStateOf DEF Load, At
<1>2. call[c].pc = "load" /\ row[r].status # "none" /\ UNCHANGED <<rows, gateway, recon>>
  BY <1>1 DEF Load, At, RefundInv, CallOK
<1>3. row[r].status \in {"PENDING", "PROCESSING"} \cup Terminal
  BY <1>2 DEF TypeOK, RowStatus
<1>4. CASE row[r].status \in Terminal
  <2>1. Active(r) /\ row[r].gatewayRefundId = r
    BY <1>4 DEF Active, RefundInv, RowOK, Terminal
  <2>2. Return(c)
    BY <1>1, <1>4 DEF Load, Row, Terminal
  <2>. QED BY <1>1, <1>2, <2>1, <2>2, EndKeeps
<1>5. CASE row[r].status = "PENDING"
  <2>1. Step(c, "claim") /\ UNCHANGED broker
    BY <1>1, <1>5 DEF Load, Row, Terminal
  <2>. DEFINE v == [call[c] EXCEPT !.pc = "claim"]
  <2>2. v \in CallStates /\ call' = [call EXCEPT ![c] = v] /\ v.pc = "claim" /\ v.refund = r
    BY <1>1, <1>2, <2>1, ClaimStep
  <2>. HIDE DEF v
  <2>3. call'[c] = v
    BY <2>2, CallStays
  <2>4. CallOK(c)'
    BY <1>2, <2>2, <2>3 DEF CallOK, rows
  <2>. QED BY <1>2, <2>1, <2>2, <2>4, WorkKeeps
<1>6. CASE row[r].status = "PROCESSING"
  <2>1. /\ call' = [call EXCEPT ![c] = [pc |-> "call", refund |-> r, count |-> call[c].count,
                                        id |-> row[r].gatewayRefundId]]
        /\ UNCHANGED broker
    BY <1>1, <1>6 DEF Load, Row, Terminal
  <2>. QED BY <1>1, <1>2, <1>6, <2>1, CallGatewayKeeps DEF Active
<1>. QED BY <1>3, <1>4, <1>5, <1>6

LEMMA ReloadKeeps ==
    ASSUME TypeOK, RefundInv, NEW c \in Calls, Reload(c)
    PROVE  TypeOK' /\ RefundInv'
<1>1. PICK r \in Refunds : r = call[c].refund
  BY CallStateOf DEF Reload, At
<1>2. call[c].pc \in {"claimed", "outrun"} /\ Active(r) /\ UNCHANGED <<rows, gateway, recon>>
  BY <1>1 DEF Reload, At, RefundInv, CallOK
<1>3. CASE row[r].status \in Terminal
  <2>1. row[r].gatewayRefundId = r
    BY <1>3 DEF RefundInv, RowOK, Terminal
  <2>2. Return(c) \/ Throw(c)
    BY <1>1, <1>2, <1>3 DEF Reload, Row, Terminal, At
  <2>. QED BY <1>1, <1>2, <2>1, <2>2, EndKeeps
<1>4. CASE row[r].status = "PROCESSING"
  <2>1. /\ call' = [call EXCEPT ![c] = [pc |-> "call", refund |-> r, count |-> call[c].count,
                                        id |-> row[r].gatewayRefundId]]
        /\ UNCHANGED broker
    BY <1>1, <1>4 DEF Reload, Row
  <2>. QED BY <1>1, <1>2, <2>1, CallGatewayKeeps
<1>. QED BY <1>2, <1>3, <1>4 DEF Active

LEMMA FetchKeeps ==
    ASSUME TypeOK, RefundInv, NEW c \in Calls, Fetch(c)
    PROVE  TypeOK' /\ RefundInv'
<1>1. PICK r \in Refunds : r = call[c].refund
  BY CallStateOf DEF Fetch, At
<1>2. /\ call[c].pc = "call" /\ call[c].id = r /\ Active(r) /\ row[r].gatewayRefundId = r
      /\ row[r].status # "none" /\ gateway[r] # Unborn
      /\ UNCHANGED <<rows, gateway, recon, broker>>
  BY <1>1 DEF Fetch, At, RefundInv, CallOK, RowOK
<1>. DEFINE v == [pc |-> "settle", refund |-> r, count |-> call[c].count, id |-> r,
                  answer |-> gateway[r].status]
<1>3. gateway[r].status \in GatewayStatus /\ call[c].count \in 0..MaxRetries
  BY <1>2, BornHasStatus, NoneIsNoRefund, CallStateOf
<1>4. v \in CallStates
  BY <1>3, NoneIsNoRefund DEF CallStates
<1>5. v.pc = "settle" /\ v.refund = r /\ v.id = r /\ v.answer = gateway[r].status
  OBVIOUS
<1>6. call' = [call EXCEPT ![c] = v]
  BY <1>1, <1>2 DEF Fetch, Answered
<1>. HIDE DEF v
<1>7. call'[c] = v
  BY <1>4, <1>6, CallStays
<1>8. row'[r].status \in {"PROCESSING"} \cup Terminal /\ row'[r].gatewayRefundId = r
      /\ row'[r].status # "none" /\ gateway' = gateway
  BY <1>2 DEF Active, rows
<1>9. CallOK(c)'
  BY <1>2, <1>5, <1>7, <1>8 DEF CallOK, Active, Says
<1>. QED BY <1>2, <1>4, <1>6, <1>9, WorkKeeps

-----------------------------------------------------------------------------
\* A step of the call c that changes rows or the gateway: what has to be shown
\* of it.
LEMMA StepKeeps ==
    ASSUME TypeOK, RefundInv, Forward, NEW c \in Calls,
           GatewayOK', \A r \in Refunds : RowOK(r)' /\ CopiesOK(r)',
           \A d \in Calls \ {c} : call'[d] = call[d], call'[c] = Idle \/ CallOK(c)',
           recon' = recon
    PROVE  RefundInv'
BY OthersStayOK DEF RefundInv

LEMMA ClaimKeeps ==
    ASSUME TypeOK, RefundInv, NEW c \in Calls, Claim(c)
    PROVE  TypeOK' /\ RefundInv'
<1>1. PICK r \in Refunds : r = call[c].refund
  BY CallStateOf DEF Claim, At
<1>2. /\ call[c].pc = "claim" /\ row[r].status # "none"
      /\ UNCHANGED <<payment, gateway, recon, broker>>
  BY <1>1 DEF Claim, At, RefundInv, CallOK
<1>. DEFINE p == IF row[r].status = "PENDING" THEN "claimed" ELSE "outrun"
            v == [call[c] EXCEPT !.pc = p]
<1>3. p \in {"claimed", "outrun"}
  OBVIOUS
<1>4. v \in CallStates /\ call' = [call EXCEPT ![c] = v] /\ v.pc = p /\ v.refund = r
  <2>1. Step(c, p)
    BY <1>1 DEF Claim, Updated
  <2>. HIDE DEF p
  <2>. QED BY <1>1, <1>2, <1>3, <2>1, ClaimStep
<1>. HIDE DEF p, v
<1>5. /\ \A s \in Refunds : /\ s # r => row'[s] = row[s]
                            /\ row'[s].gatewayRefundId = row[s].gatewayRefundId
      /\ row[r].status = "PENDING" => row'[r].status = "PROCESSING"
      /\ row[r].status # "PENDING" => row'[r] = row[r]
      /\ row' \in [Refunds -> [status : RowStatus, gatewayRefundId : Ids]]
  BY <1>1 DEF Claim, SetStatus, Updated, TypeOK, RowStatus
<1>6. row[r].status \in {"PENDING", "PROCESSING"} \cup Terminal
  BY <1>2 DEF TypeOK, RowStatus
<1>7. row'[r].status \in {"PROCESSING"} \cup Terminal /\ row'[r].status # "none"
  BY <1>5, <1>6 DEF Terminal
<1>8. Forward /\ NoNewRow
  BY <1>2, <1>5, <1>7 DEF Forward, NoNewRow, Active
<1>9. \A s \in Refunds : RowOK(s)'
  BY <1>2, <1>5, <1>7 DEF RefundInv, RowOK, Active, Terminal
<1>10. call' \in [Calls -> CallStates] /\ call'[c] = v /\ \A d \in Calls \ {c} : call'[d] = call[d]
  BY <1>4, CallStays
<1>11. CallOK(c)'
  BY <1>3, <1>4, <1>7, <1>10 DEF CallOK, Active
<1>12. TypeOK'
  BY <1>2, <1>5, <1>10 DEF TypeOK, broker
<1>13. GatewayOK'
  BY <1>2 DEF RefundInv, GatewayOK
<1>. QED BY <1>2, <1>8, <1>9, <1>10, <1>11, <1>12, <1>13, BrokerStaysOK, StepKeeps

\* The gateway answers, or the answer is lost.
LEMMA CreateRefundKeeps ==
    ASSUME TypeOK, RefundInv, NEW c \in Calls, CreateRefund(c)
    PROVE  TypeOK' /\ RefundInv'
<1>1. PICK r \in Refunds : r = call[c].refund
  BY CallStateOf DEF CreateRefund, At
<1>2. call[c].pc = "call" /\ Active(r) /\ row[r].status # "none" /\ UNCHANGED <<rows, recon>>
  BY <1>1 DEF CreateRefund, At, RefundInv, CallOK
<1>3. PICK first \in {"pending", "processed"} : CreateAt(r, r, first)
  BY <1>1 DEF CreateRefund
<1>4. r \in Keys /\ r # None
  BY NoneIsNoRefund
<1>5. /\ \A k \in Keys : k # r => gateway'[k] = gateway[k]
      /\ gateway[r] # Unborn => gateway'[r] = gateway[r]
      /\ gateway[r] = Unborn => gateway'[r] = [status |-> first, of |-> r]
      /\ gateway' \in [Keys -> {Unborn} \cup [status : GatewayStatus, of : Refunds]]
  <2>1. CASE gateway[r] = Unborn
    <3>1. gateway' = [gateway EXCEPT ![r] = [status |-> first, of |-> r]]
      BY <1>3, <2>1 DEF CreateAt
    <3>2. [status |-> first, of |-> r] \in [status : GatewayStatus, of : Refunds]
      BY DEF GatewayStatus
    <3>. HIDE DEF Unborn
    <3>. QED BY <1>4, <2>1, <3>1, <3>2 DEF TypeOK
  <2>2. CASE gateway[r] # Unborn
    BY <1>3, <2>2 DEF CreateAt, TypeOK
  <2>. QED BY <2>1, <2>2
<1>6. [status |-> first, of |-> r] # Unborn /\ [status |-> first, of |-> r].of = r
  BY <1>4 DEF Unborn
<1>7. gateway'[r] # Unborn /\ gateway'[r].of = r /\ gateway'[r].status \in GatewayStatus
  <2>1. gateway[r] # Unborn => gateway[r].of = r
    BY <1>4 DEF RefundInv, GatewayOK
  <2>2. gateway'[r] # Unborn /\ gateway'[r].of = r
    BY <1>5, <1>6, <2>1
  <2>. HIDE DEF Unborn
  <2>. QED BY <1>4, <1>5, <2>2
<1>8. GatewayOK'
  BY <1>5, <1>7 DEF RefundInv, GatewayOK
<1>9. row' = row /\ payment' = payment
  BY <1>2 DEF rows
<1>10. \A s \in Refunds : gateway[s] # Unborn => gateway'[s] = gateway[s]
  BY <1>5, NoneIsNoRefund
<1>11. Forward /\ NoNewRow
  BY <1>9, <1>10 DEF Forward, NoNewRow, Active
<1>12. \A s \in Refunds : RowOK(s)'
  BY <1>9, <1>10 DEF RefundInv, RowOK, Active
<1>13. CASE Throw(c)
  <2>1. /\ call' = [call EXCEPT ![c] = Idle]
        /\ dead' \subseteq Refunds /\ copies' \in [Refunds -> SUBSET (0..MaxRetries)]
        /\ faults' \in 0..MaxFaults
    BY <1>2, <1>13, ThrowEffect
  <2>2. /\ call' \in [Calls -> CallStates] /\ call'[c] = Idle
        /\ \A d \in Calls \ {c} : call'[d] = call[d]
    BY <2>1, CallStays, IdleIsState
  <2>3. TypeOK'
    BY <1>2, <1>5, <1>9, <2>1, <2>2 DEF TypeOK
  <2>4. \A s \in Refunds : CopiesOK(s)'
    BY <1>2, <1>11, <1>13, ThrowStaysOK
  <2>. QED BY <1>2, <1>8, <1>11, <1>12, <2>2, <2>3, <2>4, StepKeeps
<1>14. CASE Answered(c, "save", r, gateway'[r].status) /\ UNCHANGED broker
  <2>. DEFINE v == [pc |-> "save", refund |-> r, count |-> call[c].count, id |-> r,
                    answer |-> gateway'[r].status]
  <2>1. call[c].count \in 0..MaxRetries
    BY <1>2, CallStateOf
  <2>2. v \in CallStates
    BY <1>4, <1>7, <2>1 DEF CallStates
  <2>3. v.pc = "save" /\ v.refund = r /\ v.id = r /\ v.answer = gateway'[r].status
    OBVIOUS
  <2>4. call' = [call EXCEPT ![c] = v]
    BY <1>1, <1>14 DEF Answered
  <2>. HIDE DEF v
  <2>5. call' \in [Calls -> CallStates] /\ call'[c] = v
        /\ \A d \in Calls \ {c} : call'[d] = call[d]
    BY <2>2, <2>4, CallStays
  <2>6. CallOK(c)'
    BY <1>2, <1>7, <1>9, <2>3, <2>5 DEF CallOK, Active, Says
  <2>7. TypeOK'
    BY <1>2, <1>5, <1>9, <1>14, <2>5 DEF TypeOK, broker
  <2>. QED BY <1>2, <1>8, <1>11, <1>12, <1>14, <2>5, <2>6, <2>7, BrokerStaysOK, StepKeeps
<1>. QED BY <1>1, <1>13, <1>14 DEF CreateRefund

LEMMA SaveKeeps ==
    ASSUME TypeOK, RefundInv, NEW c \in Calls, SaveGatewayId(c)
    PROVE  TypeOK' /\ RefundInv'
<1>1. PICK r \in Refunds : r = call[c].refund
  BY CallStateOf DEF SaveGatewayId, At
<1>2. /\ call[c].pc = "save" /\ call[c].id = r /\ Says(r, call[c].answer) /\ Active(r)
      /\ row[r].status # "none"
      /\ UNCHANGED <<payment, gateway, recon, broker>>
  BY <1>1 DEF SaveGatewayId, At, RefundInv, CallOK
<1>3. /\ \A s \in Refunds : s # r => row'[s] = row[s]
      /\ row'[r].status = row[r].status /\ row'[r].gatewayRefundId = r
      /\ row' \in [Refunds -> [status : RowStatus, gatewayRefundId : Ids]]
  <2>1. row[r].gatewayRefundId \in {None, r} /\ r # None /\ r \in Ids
    BY NoneIsNoRefund DEF RefundInv, RowOK, Ids
  <2>2. row' = IF row[r].gatewayRefundId = None
               THEN [row EXCEPT ![r].gatewayRefundId = r] ELSE row
    BY <1>1, <1>2 DEF SaveGatewayId, updateGatewayDetails
  <2>3. row \in [Refunds -> [status : RowStatus, gatewayRefundId : Ids]]
    BY DEF TypeOK
  <2>. HIDE DEF Ids, RowStatus
  <2>. QED BY <2>1, <2>2, <2>3
<1>4. Forward /\ NoNewRow
  BY <1>2, <1>3 DEF Forward, NoNewRow, Active
<1>5. \A s \in Refunds : RowOK(s)'
  <2>1. \A s \in Refunds \ {r} : RowOK(s)'
    BY <1>2, <1>3 DEF RefundInv, RowOK, Active
  <2>2. RowOK(r)'
    BY <1>2, <1>3 DEF RefundInv, RowOK, Active, Says
  <2>. QED BY <2>1, <2>2
<1>. DEFINE v == [call[c] EXCEPT !.pc = "settle"]
<1>6. call[c] \in [pc : {"save", "settle"}, refund : Refunds, count : 0..MaxRetries,
                   id : Keys, answer : GatewayStatus]
  BY <1>2, CallStateOf
<1>7. /\ v \in [pc : {"save", "settle"}, refund : Refunds, count : 0..MaxRetries,
                id : Keys, answer : GatewayStatus]
      /\ v.pc = "settle" /\ v.refund = call[c].refund /\ v.id = call[c].id
      /\ v.answer = call[c].answer
  BY <1>6
<1>8. v \in CallStates /\ call' = [call EXCEPT ![c] = v]
  BY <1>7 DEF CallStates, SaveGatewayId, Step
<1>. HIDE DEF v
<1>9. call' \in [Calls -> CallStates] /\ call'[c] = v
      /\ \A d \in Calls \ {c} : call'[d] = call[d]
  BY <1>8, CallStays
<1>10. CallOK(c)'
  BY <1>1, <1>2, <1>3, <1>7, <1>9 DEF CallOK, Active, Says
<1>11. TypeOK'
  BY <1>2, <1>3, <1>9 DEF TypeOK, broker
<1>12. GatewayOK'
  BY <1>2 DEF RefundInv, GatewayOK
<1>. QED BY <1>2, <1>4, <1>5, <1>9, <1>10, <1>11, <1>12, BrokerStaysOK, StepKeeps

\* Settling a row with an answer of the gateway, by a call or by the worker.
LEMMA HandleEffect ==
    ASSUME TypeOK, RefundInv, NEW r \in Refunds, NEW a \in GatewayStatus,
           Says(r, a), row[r].gatewayRefundId = r, Settles(r, r, a),
           handleGatewayRefundStatus(r, a), UNCHANGED gateway
    PROVE  /\ Forward /\ NoNewRow /\ GatewayOK' /\ \A s \in Refunds : RowOK(s)'
           /\ row' \in [Refunds -> [status : RowStatus, gatewayRefundId : Ids]]
           /\ payment' \in [Refunds -> {"SUCCESS", "REFUNDED"}]
           /\ row'[r].status \in {"PROCESSING"} \cup Terminal /\ row'[r].gatewayRefundId = r
<1>1. /\ row \in [Refunds -> [status : RowStatus, gatewayRefundId : Ids]]
      /\ payment \in [Refunds -> {"SUCCESS", "REFUNDED"}]
  BY DEF TypeOK
<1>2. /\ row[r].status \in {"PROCESSING"} \cup Terminal
      /\ payment[r] = "REFUNDED" <=> row[r].status = "SUCCESS"
  BY DEF RefundInv, RowOK, Active
<1>3. \/ UNCHANGED <<row, payment>>
      \/ /\ a = "processed" /\ gateway[r].status = "processed" /\ row[r].status = "PROCESSING"
         /\ row' = [row EXCEPT ![r].status = "SUCCESS"]
         /\ payment' = [payment EXCEPT ![r] = "REFUNDED"]
      \/ /\ a = "failed" /\ gateway[r].status = "failed" /\ row[r].status = "PROCESSING"
         /\ row' = [row EXCEPT ![r].status = "FAILED"]
         /\ payment' = payment
  BY DEF handleGatewayRefundStatus, SetStatus, Updated, Settles, Finalizable, Says, rows,
         GatewayStatus
<1>4. GatewayOK'
  BY DEF RefundInv, GatewayOK
<1>5. CASE UNCHANGED <<row, payment>>
  <2>1. UNCHANGED <<rows, gateway>>
    BY <1>5 DEF rows
  <2>. QED BY <1>1, <1>2, <1>4, <1>5, <2>1, RowsStayOK DEF NoNewRow
<1>6. ASSUME NEW t \in Terminal, row[r].status = "PROCESSING",
             row' = [row EXCEPT ![r].status = t],
             \/ t = "SUCCESS" /\ payment' = [payment EXCEPT ![r] = "REFUNDED"]
                              /\ gateway[r].status = "processed"
             \/ t = "FAILED" /\ payment' = payment /\ gateway[r].status = "failed"
      PROVE  /\ Forward /\ NoNewRow /\ \A s \in Refunds : RowOK(s)'
             /\ row' \in [Refunds -> [status : RowStatus, gatewayRefundId : Ids]]
             /\ payment' \in [Refunds -> {"SUCCESS", "REFUNDED"}]
             /\ row'[r].status \in {"PROCESSING"} \cup Terminal /\ row'[r].gatewayRefundId = r
  <2>1. /\ \A s \in Refunds : s # r => row'[s] = row[s] /\ payment'[s] = payment[s]
        /\ row'[r].status = t /\ row'[r].gatewayRefundId = r
        /\ row' \in [Refunds -> [status : RowStatus, gatewayRefundId : Ids]]
        /\ payment' \in [Refunds -> {"SUCCESS", "REFUNDED"}]
    BY <1>1, <1>6 DEF RowStatus
  <2>2. Forward /\ NoNewRow
    BY <1>6, <2>1 DEF Forward, NoNewRow, Active, Terminal
  <2>3. \A s \in Refunds \ {r} : RowOK(s)'
    BY <2>1 DEF RefundInv, RowOK, Active
  <2>4. RowOK(r)'
    <3>1. payment'[r] = "REFUNDED" <=> t = "SUCCESS"
      BY <1>1, <1>2, <1>6
    <3>. QED BY <1>6, <2>1, <3>1 DEF RowOK, Active, Terminal, Says
  <2>. QED BY <2>1, <2>2, <2>3, <2>4
<1>7. "SUCCESS" \in Terminal /\ "FAILED" \in Terminal
  BY DEF Terminal
<1>. QED BY <1>3, <1>4, <1>5, <1>6, <1>7

LEMMA SettleKeeps ==
    ASSUME TypeOK, RefundInv, NEW c \in Calls, Settle(c)
    PROVE  TypeOK' /\ RefundInv'
<1>1. PICK r \in Refunds : r = call[c].refund
  BY CallStateOf DEF Settle, At
<1>2. /\ call[c].pc = "settle" /\ call[c].id = r /\ Says(r, call[c].answer)
      /\ row[r].gatewayRefundId = r /\ call[c].answer \in GatewayStatus
      /\ UNCHANGED <<gateway, recon>>
  BY <1>1, CallStateOf DEF Settle, At, RefundInv, CallOK
<1>3. CASE Settles(r, r, call[c].answer)
  <2>1. handleGatewayRefundStatus(r, call[c].answer) /\ (Return(c) \/ Throw(c))
    BY <1>1, <1>2, <1>3 DEF Settle
  <2>2. /\ Forward /\ NoNewRow /\ GatewayOK' /\ \A s \in Refunds : RowOK(s)'
        /\ row' \in [Refunds -> [status : RowStatus, gatewayRefundId : Ids]]
        /\ payment' \in [Refunds -> {"SUCCESS", "REFUNDED"}]
        /\ row'[r].status \in {"PROCESSING"} \cup Terminal /\ row'[r].gatewayRefundId = r
    BY <1>2, <1>3, <2>1, HandleEffect
  <2>3. \A s \in Refunds : CopiesOK(s)'
    BY <1>1, <1>2, <2>1, <2>2, ReturnStaysOK, ThrowStaysOK
  <2>4. /\ call' = [call EXCEPT ![c] = Idle] /\ dead' \subseteq Refunds
        /\ copies' \in [Refunds -> SUBSET (0..MaxRetries)] /\ faults' \in 0..MaxFaults
    BY <1>2, <2>1, ReturnEffect, ThrowEffect DEF TypeOK
  <2>5. call' \in [Calls -> CallStates] /\ call'[c] = Idle
        /\ \A d \in Calls \ {c} : call'[d] = call[d]
    BY <2>4, CallStays, IdleIsState
  <2>6. TypeOK'
    BY <1>2, <2>2, <2>4, <2>5 DEF TypeOK
  <2>. QED BY <1>2, <2>2, <2>3, <2>5, <2>6, StepKeeps
<1>4. CASE ~Settles(r, r, call[c].answer)
  <2>1. UNCHANGED rows /\ Throw(c)
    BY <1>1, <1>2, <1>4 DEF Settle
  <2>. QED BY <1>2, <2>1, EndKeeps
<1>. QED BY <1>3, <1>4

LEMMA FailKeeps ==
    ASSUME TypeOK, RefundInv, NEW c \in Calls, Fail(c)
    PROVE  TypeOK' /\ RefundInv'
BY CallStateOf, EndKeeps DEF Fail

-----------------------------------------------------------------------------
\* The cancellation commits the row and its event.
LEMMA RequestKeeps ==
    ASSUME TypeOK, RefundInv, NEW r \in Refunds, Request(r)
    PROVE  TypeOK' /\ RefundInv'
<1>1. /\ row[r].status = "none" /\ UNCHANGED <<payment, gateway, dead, call, recon, faults>>
      /\ \A s \in Refunds : s # r => row'[s] = row[s] /\ copies'[s] = copies[s]
      /\ row'[r].status = "PENDING" /\ row'[r].gatewayRefundId = row[r].gatewayRefundId
      /\ row' \in [Refunds -> [status : RowStatus, gatewayRefundId : Ids]]
      /\ copies' \in [Refunds -> SUBSET (0..MaxRetries)] /\ copies'[r] # {}
  BY RefundConstants DEF Request, TypeOK, RowStatus
<1>2. row[r].gatewayRefundId = None /\ payment[r] # "REFUNDED"
  BY <1>1 DEF RefundInv, RowOK, Active, Terminal
<1>3. Forward
  BY <1>1, <1>2, NoneIsNoRefund DEF Forward, Active, Terminal
<1>4. \A s \in Refunds \ {r} : RowOK(s)' /\ CopiesOK(s)'
  BY <1>1 DEF RefundInv, RowOK, CopiesOK, Active
<1>5. RowOK(r)' /\ CopiesOK(r)'
  BY <1>1, <1>2, NoneIsNoRefund DEF RowOK, CopiesOK
<1>6. (\A c \in Calls : CallOK(c)') /\ ReconOK'
  BY <1>1, <1>3, OthersStayOK
<1>7. GatewayOK'
  BY <1>1 DEF RefundInv, GatewayOK
<1>8. TypeOK'
  BY <1>1 DEF TypeOK
<1>. QED BY <1>4, <1>5, <1>6, <1>7, <1>8 DEF RefundInv

\* A step of the worker, or of the whole process, that changes no row.
LEMMA ReconKeeps ==
    ASSUME TypeOK, RefundInv, UNCHANGED <<rows, gateway, copies, dead>>, faults' \in 0..MaxFaults,
           \A c \in Calls : call'[c] = call[c] \/ call'[c] = Idle, call' \in [Calls -> CallStates],
           recon' \in ReconStates, ReconOK'
    PROVE  TypeOK' /\ RefundInv'
<1>1. Forward /\ GatewayOK' /\ (\A r \in Refunds : RowOK(r)') /\ NoNewRow
  BY RowsStayOK DEF NoNewRow, rows
<1>2. \A r \in Refunds : CopiesOK(r)'
  BY DEF rows, RefundInv, CopiesOK, Active
<1>3. \A c \in Calls : CallOK(c)'
  BY <1>1, OthersStayOK
<1>4. TypeOK'
  BY DEF TypeOK, rows
<1>. QED BY <1>1, <1>2, <1>3, <1>4 DEF RefundInv

LEMMA CycleKeeps ==
    ASSUME TypeOK, RefundInv, BeginCycle \/ EndCycle
    PROVE  TypeOK' /\ RefundInv'
<1>1. UNCHANGED <<rows, gateway, call, broker>>
  BY DEF BeginCycle, EndCycle
<1>2. recon' \in ReconStates /\ ReconOK'
  <2>1. CASE BeginCycle
    <3>1. recon' = [pc |-> "cycle", todo |-> findProcessingRefunds]
      BY <2>1 DEF BeginCycle
    <3>2. /\ findProcessingRefunds \subseteq Refunds
          /\ \A r \in findProcessingRefunds : row'[r].gatewayRefundId = r
      BY <1>1 DEF findProcessingRefunds, rows, RefundInv, RowOK
    <3>. HIDE DEF findProcessingRefunds
    <3>3. recon'.pc = "cycle" /\ recon'.todo = findProcessingRefunds
      BY <3>1
    <3>. QED BY <3>1, <3>2, <3>3 DEF ReconStates, ReconOK
  <2>2. CASE EndCycle
    BY <2>2 DEF EndCycle, ReconStates, ReconOK, Resting
  <2>. QED BY <2>1, <2>2
<1>. QED BY <1>1, <1>2, ReconKeeps DEF broker, TypeOK

LEMMA ReconcileFetchKeeps ==
    ASSUME TypeOK, RefundInv, NEW r \in Refunds, ReconcileFetch(r)
    PROVE  TypeOK' /\ RefundInv'
<1>. DEFINE v == [pc |-> "fetched", todo |-> recon.todo \ {r}, refund |-> r,
                  answer |-> gateway[r].status]
<1>1. /\ UNCHANGED <<rows, gateway, call, broker>>
      /\ recon.pc = "cycle" /\ r \in recon.todo /\ recon.todo \subseteq Refunds
      /\ \A s \in recon.todo : row[s].gatewayRefundId = s
  BY ReconStateOf DEF ReconcileFetch, RefundInv, ReconOK
<1>2. recon' = v
  BY <1>1 DEF ReconcileFetch
<1>3. gateway[r] # Unborn /\ gateway[r].status \in GatewayStatus
  BY <1>1, BornHasStatus, NoneIsNoRefund DEF RefundInv, RowOK
<1>4. v \in ReconStates
  BY <1>1, <1>3 DEF ReconStates
<1>5. v.pc = "fetched" /\ v.todo = recon.todo \ {r} /\ v.refund = r /\ v.answer = gateway[r].status
  OBVIOUS
<1>. HIDE DEF v
<1>6. row' = row /\ gateway' = gateway
  BY <1>1 DEF rows
<1>7. ReconOK'
  BY <1>1, <1>2, <1>3, <1>5, <1>6 DEF ReconOK, Says
<1>. QED BY <1>1, <1>2, <1>4, <1>7, ReconKeeps DEF broker, TypeOK

LEMMA ReconcileFailKeeps ==
    ASSUME TypeOK, RefundInv, NEW r \in Refunds, ReconcileFail(r)
    PROVE  TypeOK' /\ RefundInv'
<1>. DEFINE v == [pc |-> "cycle", todo |-> recon.todo \ {r}]
<1>1. /\ UNCHANGED <<rows, gateway, call, broker>> /\ recon' = v
      /\ recon.todo \subseteq Refunds
      /\ \A s \in recon.todo : row[s].gatewayRefundId = s
  BY ReconStateOf DEF ReconcileFail, RefundInv, ReconOK
<1>2. v \in ReconStates
  BY <1>1 DEF ReconStates
<1>3. v.pc = "cycle" /\ v.todo = recon.todo \ {r}
  OBVIOUS
<1>. HIDE DEF v
<1>4. ReconOK'
  BY <1>1, <1>3 DEF ReconOK, rows
<1>. QED BY <1>1, <1>2, <1>4, ReconKeeps DEF broker, TypeOK

LEMMA ReconcileSettleKeeps ==
    ASSUME TypeOK, RefundInv, ReconcileSettle
    PROVE  TypeOK' /\ RefundInv'
<1>1. PICK r \in Refunds : r = recon.refund
  BY ReconStateOf DEF ReconcileSettle
<1>2. /\ recon.answer \in GatewayStatus /\ Says(r, recon.answer)
      /\ row[r].gatewayRefundId = r /\ Settles(r, r, recon.answer)
      /\ handleGatewayRefundStatus(r, recon.answer) /\ UNCHANGED <<gateway, call, broker>>
      /\ recon.todo \subseteq Refunds /\ \A s \in recon.todo : row[s].gatewayRefundId = s
  BY <1>1, ReconStateOf DEF ReconcileSettle, RefundInv, ReconOK
<1>3. /\ Forward /\ NoNewRow /\ GatewayOK' /\ \A s \in Refunds : RowOK(s)'
      /\ row' \in [Refunds -> [status : RowStatus, gatewayRefundId : Ids]]
      /\ payment' \in [Refunds -> {"SUCCESS", "REFUNDED"}]
  BY <1>2, HandleEffect
<1>. DEFINE v == [pc |-> "cycle", todo |-> recon.todo]
<1>4. recon' = v /\ v \in ReconStates
  BY <1>2 DEF ReconcileSettle, ReconStates
<1>5. v.pc = "cycle" /\ v.todo = recon.todo
  OBVIOUS
<1>. HIDE DEF v
<1>6. ReconOK'
  BY <1>2, <1>3, <1>4, <1>5 DEF ReconOK, Forward
<1>7. \A c \in Calls : CallOK(c)'
  BY <1>2, <1>3, OthersStayOK
<1>8. TypeOK'
  BY <1>2, <1>3, <1>4 DEF TypeOK, broker
<1>. QED BY <1>2, <1>3, <1>6, <1>7, <1>8, BrokerStaysOK DEF RefundInv

LEMMA DecideKeeps ==
    ASSUME TypeOK, RefundInv, NEW k \in Keys, Decide(k)
    PROVE  TypeOK' /\ RefundInv'
<1>1. PICK t \in {"processed", "failed"} : gateway' = [gateway EXCEPT ![k].status = t]
  BY DEF Decide
<1>2. gateway[k].status = "pending" /\ UNCHANGED <<rows, call, recon, broker>>
  BY DEF Decide
<1>3. gateway[k] # Unborn /\ gateway[k] \in [status : GatewayStatus, of : Refunds]
  BY <1>2 DEF Unborn, TypeOK
<1>4. /\ gateway'[k] \in [status : GatewayStatus, of : Refunds]
      /\ gateway'[k].of = gateway[k].of /\ gateway'[k].status = t
      /\ \A j \in Keys : j # k => gateway'[j] = gateway[j]
      /\ gateway' \in [Keys -> {Unborn} \cup [status : GatewayStatus, of : Refunds]]
  BY <1>1, <1>3 DEF TypeOK, GatewayStatus
<1>5. gateway'[k] # Unborn
  BY <1>4 DEF Unborn
<1>6. row' = row /\ payment' = payment
  BY <1>2 DEF rows
<1>7. \A r \in Refunds : gateway[r] # Unborn =>
         /\ gateway'[r] # Unborn
         /\ gateway[r].status # "pending" => gateway'[r].status = gateway[r].status
  BY <1>2, <1>4, <1>5, NoneIsNoRefund
<1>8. Forward /\ NoNewRow
  BY <1>6, <1>7 DEF Forward, NoNewRow, Active
<1>9. \A r \in Refunds : RowOK(r)'
  BY <1>6, <1>7 DEF RefundInv, RowOK, Active
<1>10. GatewayOK'
  BY <1>3, <1>4 DEF RefundInv, GatewayOK
<1>11. (\A c \in Calls : CallOK(c)') /\ ReconOK'
  BY <1>2, <1>8, OthersStayOK
<1>12. TypeOK'
  BY <1>2, <1>4, <1>6 DEF TypeOK, broker
<1>. QED BY <1>2, <1>8, <1>9, <1>10, <1>11, <1>12, BrokerStaysOK DEF RefundInv

LEMMA DieKeeps ==
    ASSUME TypeOK, RefundInv, Die
    PROVE  TypeOK' /\ RefundInv'
<1>1. /\ UNCHANGED <<rows, gateway, copies, dead>> /\ recon' = Resting
      /\ faults' \in 0..MaxFaults
      /\ \A c \in Calls : call'[c] = Idle
  BY RefundConstants DEF Die, TypeOK
<1>2. call' \in [Calls -> CallStates]
  BY IdleIsState DEF Die
<1>3. recon' \in ReconStates /\ ReconOK'
  BY <1>1 DEF ReconStates, ReconOK, Resting
<1>. QED BY <1>1, <1>2, <1>3, ReconKeeps

-----------------------------------------------------------------------------
LEMMA RefundNext == TypeOK /\ RefundInv /\ [Next]_vars => (TypeOK /\ RefundInv)'
<1>. SUFFICES ASSUME TypeOK, RefundInv, [Next]_vars PROVE TypeOK' /\ RefundInv'
  OBVIOUS
<1>1. ASSUME NEW c \in Calls, ProcessRefund(c) PROVE TypeOK' /\ RefundInv'
  BY <1>1, LoadKeeps, ClaimKeeps, ReloadKeeps, FetchKeeps, CreateRefundKeeps, SaveKeeps,
     SettleKeeps, FailKeeps DEF ProcessRefund
<1>2. CASE Reconcile
  BY <1>2, CycleKeeps, ReconcileSettleKeeps, ReconcileFetchKeeps, ReconcileFailKeeps DEF Reconcile
<1>3. CASE UNCHANGED vars
  <2>1. UNCHANGED <<rows, gateway, copies, dead, call, recon, faults>>
    BY <1>3 DEF vars, rows
  <2>2. Forward
    BY <2>1, RowsStayOK
  <2>3. ReconOK'
    BY <2>1, <2>2, OthersStayOK
  <2>. QED BY <2>1, <2>3, ReconKeeps DEF TypeOK
<1>. QED BY <1>1, <1>2, <1>3, RequestKeeps, StartKeeps, DecideKeeps, DieKeeps DEF Next

\* The types and the invariant hold in every reachable state.
THEOREM RefundInvariance == Spec => [](TypeOK /\ RefundInv)
<1>1. Init => TypeOK /\ RefundInv
  BY RefundInit
<1>2. (TypeOK /\ RefundInv) /\ [Next]_vars => (TypeOK /\ RefundInv)'
  BY RefundNext
<1>. QED BY <1>1, <1>2, PTL DEF Spec

\* The customer is refunded at most once for a row: the gateway has one refund
\* of it, whatever calls overlap, answers are lost and processes die.
THEOREM RefundedOnce == Spec => []OneGatewayRefund
<1>1. TypeOK /\ RefundInv => OneGatewayRefund
  <2>. SUFFICES ASSUME TypeOK, RefundInv, NEW r \in Refunds
                PROVE  Cardinality(GatewayRefundsOf(r)) <= 1
    BY DEF OneGatewayRefund
  <2>1. GatewayRefundsOf(r) \subseteq {r}
    <3>1. ASSUME NEW k \in Keys, gateway[k].of = r PROVE k = r
      <4>1. gateway[k] # Unborn
        BY <3>1, NoneIsNoRefund DEF Unborn
      <4>. QED BY <3>1, <4>1 DEF RefundInv, GatewayOK
    <3>. QED BY <3>1 DEF GatewayRefundsOf
  <2>2. GatewayRefundsOf(r) = {} \/ GatewayRefundsOf(r) = {r}
    BY <2>1
  <2>. QED BY <2>2, FS_EmptySet, FS_Singleton
<1>. QED BY <1>1, RefundInvariance, PTL

\* A settled row says what the gateway did, and the payment agrees with it.
THEOREM RowsTellTheTruth == Spec => []SettledTruthfully
<1>1. RefundInv => SettledTruthfully
  <2>. SUFFICES ASSUME RefundInv, NEW r \in Refunds
                PROVE  /\ row[r].status = "SUCCESS" <=> payment[r] = "REFUNDED"
                       /\ row[r].status \in Terminal =>
                            /\ row[r].gatewayRefundId # None
                            /\ gateway[row[r].gatewayRefundId].status =
                                 IF row[r].status = "SUCCESS" THEN "processed" ELSE "failed"
    BY DEF SettledTruthfully
  <2>. QED BY NoneIsNoRefund DEF RefundInv, RowOK, Terminal
<1>. QED BY <1>1, RefundInvariance, PTL

\* A refund event that was acknowledged and not dead-lettered is settled, or the
\* reconciliation worker will find its row.
THEOREM NothingAcknowledgedIsLost == Spec => []AcknowledgedIsReconcilable
<1>1. RefundInv => AcknowledgedIsReconcilable
  BY NoneIsNoRefund
     DEF RefundInv, CopiesOK, Active, AcknowledgedIsReconcilable, findProcessingRefunds
<1>. QED BY <1>1, RefundInvariance, PTL

\* Every variable keeps its type.
THEOREM RefundTypeCorrect == Spec => []TypeOK
BY RefundInvariance, PTL
=============================================================================

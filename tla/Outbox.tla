------------------------------- MODULE Outbox -------------------------------
(***************************************************************************)
(* The transactional outbox: rows written in business transactions and     *)
(* published to RabbitMQ by the outbox worker of every running process     *)
(* (outbox.worker.ts, outbox.publisher.ts, outbox.repository.ts).          *)
(*                                                                         *)
(* One step is one database statement or one call of the broker.  Workers  *)
(* of different processes interleave between them, and a worker may be     *)
(* slow at any point or die there.  Time is abstracted to two facts about  *)
(* a row that time makes true: its availableAt has passed (due), and its   *)
(* last update is older than PROCESSING_TIMEOUT_MS (stale).                *)
(*                                                                         *)
(* A definition Name_Variant is Name with a mistake in it.  Nothing here   *)
(* uses it: it is what a property is tried against, see README.md.         *)
(***************************************************************************)
EXTENDS Naturals, FiniteSets

CONSTANTS NumEvents,            \* outbox rows, numbered as they are created
          Workers,              \* processes that run an outbox worker
          MAX_OUTBOX_ATTEMPTS,  \* 5 in the code
          BATCH_SIZE,           \* 10 in the code
          NULL

\* The constants are as the module expects them.
OutboxConstants ==
    /\ NumEvents \in Nat
    /\ MAX_OUTBOX_ATTEMPTS \in Nat \ {0}
    /\ BATCH_SIZE \in Nat \ {0}
    /\ NULL \notin 1..NumEvents

Events == 1..NumEvents

VARIABLES status,    \* OutboxEvent.status, "NONE": no row yet
          attempts,  \* OutboxEvent.attempts
          due,       \* OutboxEvent.availableAt <= now
          stale,     \* OutboxEvent.updatedAt < now - PROCESSING_TIMEOUT_MS
          sent,      \* external: the attempts whose message the broker has
          worker     \* the worker loops

row == <<status, attempts, due, stale>>
vars == <<row, sent, worker>>

OutboxEventStatus == {"NONE", "PENDING", "PROCESSING", "PUBLISHED", "FAILED"}

\* claimed[e] is the attempts column of event e as this worker's claim returned
\* it, 0 for an event that is not or no longer in the batch.
WorkerLoop == [pc: {"idle", "requeue", "expire", "claim", "publish", "mark", "fail"},
               claimed: [Events -> 0..MAX_OUTBOX_ATTEMPTS],
               event: Events \cup {NULL}]

NoneClaimed == [e \in Events |-> 0]
IdleWorker  == [pc |-> "idle", claimed |-> NoneClaimed, event |-> NULL]

TypeOK ==
    /\ status \in [Events -> OutboxEventStatus]
    /\ attempts \in [Events -> 0..MAX_OUTBOX_ATTEMPTS]
    /\ due \in [Events -> BOOLEAN]
    /\ stale \in [Events -> BOOLEAN]
    /\ sent \in [Events -> SUBSET (1..MAX_OUTBOX_ATTEMPTS)]
    /\ worker \in [Workers -> WorkerLoop]

Init ==
    /\ status = [e \in Events |-> "NONE"]
    /\ attempts = [e \in Events |-> 0]
    /\ due = [e \in Events |-> TRUE]
    /\ stale = [e \in Events |-> FALSE]
    /\ sent = [e \in Events |-> {}]
    /\ worker = [w \in Workers |-> IdleWorker]

-----------------------------------------------------------------------------
(* Rows                                                                    *)

\* createEvent commits with its business transaction.
CreateEvent(e) ==
    /\ status[e] = "NONE"
    /\ \A f \in Events : f < e => status[f] # "NONE"
    /\ status' = [status EXCEPT ![e] = "PENDING"]
    /\ UNCHANGED <<attempts, due, stale, sent, worker>>

\* The retry delay of markFailed passes; PROCESSING_TIMEOUT_MS passes.
BecomeDue(e) ==
    /\ ~due[e]
    /\ due' = [due EXCEPT ![e] = TRUE]
    /\ UNCHANGED <<status, attempts, stale, sent, worker>>
BecomeStale(e) ==
    /\ status[e] = "PROCESSING" /\ ~stale[e]
    /\ stale' = [stale EXCEPT ![e] = TRUE]
    /\ UNCHANGED <<status, attempts, due, sent, worker>>

AttemptsLeft(e) == attempts[e] < MAX_OUTBOX_ATTEMPTS

\* One UPDATE statement that sets the status of the rows in S, and so updatedAt.
SetStatus(S, s) ==
    /\ status' = [e \in Events |-> IF e \in S THEN s ELSE status[e]]
    /\ stale' = [e \in Events |-> stale[e] /\ e \notin S]

Proceed(w, pc) == worker' = [worker EXCEPT ![w].pc = pc]

-----------------------------------------------------------------------------
(* publishOutboxEvents: the housekeeping and the claim                     *)

RequeueFailed(w) ==
    /\ worker[w].pc = "idle"
    /\ SetStatus({e \in Events : status[e] = "FAILED" /\ AttemptsLeft(e) /\ due[e]},
                 "PENDING")
    /\ Proceed(w, "requeue")
    /\ UNCHANGED <<attempts, due, sent>>

\* requeueStaleProcessingEvents, first statement: attempts are left.
RequeueStale_AnyAttempts(w) ==
    /\ worker[w].pc = "requeue"
    /\ SetStatus({e \in Events : status[e] = "PROCESSING" /\ stale[e]}, "PENDING")
    /\ Proceed(w, "expire")
    /\ UNCHANGED <<attempts, due, sent>>
RequeueStale_AttemptsReset(w) ==
    LET S == {e \in Events : status[e] = "PROCESSING" /\ AttemptsLeft(e) /\ stale[e]} IN
    /\ worker[w].pc = "requeue"
    /\ SetStatus(S, "PENDING")
    /\ attempts' = [e \in Events |-> IF e \in S THEN 0 ELSE attempts[e]]
    /\ Proceed(w, "expire")
    /\ UNCHANGED <<due, sent>>
RequeueStale(w) ==
    /\ worker[w].pc = "requeue"
    /\ SetStatus({e \in Events : status[e] = "PROCESSING" /\ AttemptsLeft(e) /\ stale[e]},
                 "PENDING")
    /\ Proceed(w, "expire")
    /\ UNCHANGED <<attempts, due, sent>>

\* Second statement: none are left, the event is given up.
ExpireStale_Skipped(w) ==
    /\ worker[w].pc = "expire"
    /\ Proceed(w, "claim")
    /\ UNCHANGED <<row, sent>>
ExpireStale(w) ==
    /\ worker[w].pc = "expire"
    /\ SetStatus({e \in Events : status[e] = "PROCESSING" /\ ~AttemptsLeft(e) /\ stale[e]},
                 "FAILED")
    /\ Proceed(w, "claim")
    /\ UNCHANGED <<attempts, due, sent>>

\* claimPendingEvents: the oldest rows that are pending, at most BATCH_SIZE of
\* them.  FOR UPDATE SKIP LOCKED makes concurrent claims take different rows, so
\* claims are one step each.
Claim(w) ==
    LET ready == {e \in Events : status[e] = "PENDING" /\ due[e] /\ AttemptsLeft(e)} IN
    /\ worker[w].pc = "claim"
    /\ \E S \in SUBSET ready :
         /\ \A e \in S, f \in ready \ S : e < f
         /\ Cardinality(S) = IF Cardinality(ready) < BATCH_SIZE
                             THEN Cardinality(ready) ELSE BATCH_SIZE
         /\ SetStatus(S, "PROCESSING")
         /\ attempts' = [e \in Events |-> IF e \in S THEN attempts[e] + 1 ELSE attempts[e]]
         /\ worker' = [worker EXCEPT ![w] =
               [pc |-> IF S = {} THEN "idle" ELSE "publish",
                claimed |-> [e \in Events |-> IF e \in S THEN attempts[e] + 1 ELSE 0],
                event |-> NULL]]
    /\ UNCHANGED <<due, sent>>

-----------------------------------------------------------------------------
(* publishOutboxEvents: the loop over the batch                            *)

\* channel.publish and waitForConfirms: confirmed; or an error, and then the
\* broker may have the message all the same.
Publish_NotConfirmed(w, e) ==
    /\ worker[w].pc = "publish" /\ worker[w].claimed[e] # 0
    /\ \/ sent' = [sent EXCEPT ![e] = @ \cup {worker[w].claimed[e]}]
       \/ UNCHANGED sent
    /\ worker' = [worker EXCEPT ![w].pc = "mark", ![w].event = e]
    /\ UNCHANGED row
Publish(w, e) ==
    /\ worker[w].pc = "publish"
    /\ worker[w].claimed[e] # 0
    /\ \E result \in {"confirmed", "failed", "confirmLost"} :
         /\ sent' = IF result = "failed" THEN sent
                    ELSE [sent EXCEPT ![e] = @ \cup {worker[w].claimed[e]}]
         /\ worker' = [worker EXCEPT ![w].event = e,
               ![w].pc = IF result = "confirmed" THEN "mark" ELSE "fail"]
    /\ UNCHANGED row

\* On to the next event of the batch, or the cycle is over.
EventDone(w) ==
    LET e == worker[w].event IN
    worker' = [worker EXCEPT ![w] =
        [pc |-> IF \E f \in Events \ {e} : worker[w].claimed[f] # 0
                THEN "publish" ELSE "idle",
         claimed |-> [worker[w].claimed EXCEPT ![e] = 0],
         event |-> NULL]]

\* The rows of {e} that an UPDATE ... WHERE status = 'PROCESSING' hits.
IfProcessing_AnyStatus(e) == {e}
IfProcessing(e) == {f \in {e} : status[f] = "PROCESSING"}

\* markPublished.  It may throw, before or after it took effect, and the throw is
\* caught like a failed publish.
MarkPublished(w) ==
    /\ worker[w].pc = "mark"
    /\ \/ SetStatus(IfProcessing(worker[w].event), "PUBLISHED") /\ EventDone(w)
       \/ SetStatus(IfProcessing(worker[w].event), "PUBLISHED") /\ Proceed(w, "fail")
       \/ UNCHANGED <<status, stale>> /\ Proceed(w, "fail")
    /\ UNCHANGED <<attempts, due, sent>>

\* The catch block: give up after the last attempt, else try again later.
MarkPermanentlyFailed_NewStatus(w) ==
    /\ worker[w].pc = "fail"
    /\ worker[w].claimed[worker[w].event] >= MAX_OUTBOX_ATTEMPTS
    /\ SetStatus(IfProcessing(worker[w].event), "PERMANENTLY_FAILED")
    /\ EventDone(w)
    /\ UNCHANGED <<attempts, due, sent>>
MarkPermanentlyFailed(w) ==
    /\ worker[w].pc = "fail"
    /\ worker[w].claimed[worker[w].event] >= MAX_OUTBOX_ATTEMPTS
    /\ SetStatus(IfProcessing(worker[w].event), "FAILED")
    /\ EventDone(w)
    /\ UNCHANGED <<attempts, due, sent>>

MarkFailed(w) ==
    LET e == worker[w].event IN
    /\ worker[w].pc = "fail"
    /\ worker[w].claimed[e] < MAX_OUTBOX_ATTEMPTS
    /\ SetStatus(IfProcessing(e), "FAILED")
    /\ due' = [f \in Events |-> due[f] /\ f \notin IfProcessing(e)]
    /\ EventDone(w)
    /\ UNCHANGED <<attempts, sent>>

\* The process dies, or a statement outside the inner try throws: the cycle ends
\* and what it claimed stays PROCESSING.
Abandon(w) ==
    /\ worker[w].pc # "idle"
    /\ worker' = [worker EXCEPT ![w] = IdleWorker]
    /\ UNCHANGED <<row, sent>>

-----------------------------------------------------------------------------
WorkerStep(w) ==
    \/ RequeueFailed(w)
    \/ RequeueStale(w)
    \/ ExpireStale(w)
    \/ Claim(w)
    \/ \E e \in Events : Publish(w, e)
    \/ MarkPublished(w)
    \/ MarkPermanentlyFailed(w)
    \/ MarkFailed(w)

RowStep(e) == CreateEvent(e) \/ BecomeDue(e) \/ BecomeStale(e)

Next == \/ \E e \in Events : RowStep(e)
        \/ \E w \in Workers : WorkerStep(w) \/ Abandon(w)

Spec == Init /\ [][Next]_vars

-----------------------------------------------------------------------------
(* Safety                                                                  *)

\* A pending event can be claimed: no path leads back to PENDING with no attempt
\* left, where claimPendingEvents would pass the row over for ever.
PendingIsClaimable ==
    \A e \in Events : status[e] = "PENDING" => AttemptsLeft(e)

\* Rows carry no owner, but the attempts column is one: no two workers, however
\* slow, ever work on the same attempt of an event.
ClaimsAreExclusive ==
    \A v, w \in Workers, e \in Events :
        worker[v].claimed[e] = worker[w].claimed[e] /\ worker[v].claimed[e] # 0
            => v = w

GivenUp(e) == status[e] = "FAILED" /\ ~AttemptsLeft(e)

\* How far an event is, seen from outside, and which events the broker has.
Delivery == [e \in Events |-> CASE status[e] = "NONE"      -> "none"
                                [] status[e] = "PUBLISHED" -> "published"
                                [] GivenUp(e)              -> "given up"
                                [] OTHER                   -> "open"]
BrokerHas == {e \in Events : sent[e] # {}}

Promise == INSTANCE EventDelivery WITH delivery <- Delivery, brokerHas <- BrokerHas

\* The outbox keeps the promise of EventDelivery: a slow or dead worker, a late mark
\* or a lost confirm never reopens an event and never closes one as published that
\* the broker has no copy of.
KeepsPromise == Promise!Spec

-----------------------------------------------------------------------------
(* The inductive invariant behind the safety properties                    *)

\* A batch holds attempts of existing rows, none above the row's; the event in hand
\* is one of the batch, and one about to be marked published was sent.
WorkerInv ==
    \A w \in Workers :
        /\ \A e \in Events :
              /\ worker[w].claimed[e] <= attempts[e]
              /\ worker[w].claimed[e] # 0 => status[e] # "NONE"
        /\ worker[w].pc \in {"mark", "fail"} =>
              worker[w].event \in Events /\ worker[w].claimed[worker[w].event] # 0
        /\ worker[w].pc = "mark" => sent[worker[w].event] # {}

RowInv ==
    \A e \in Events :
        /\ status[e] = "NONE" => attempts[e] = 0 /\ sent[e] = {}
        /\ status[e] = "PUBLISHED" => sent[e] # {}

IInv == WorkerInv /\ RowInv /\ PendingIsClaimable /\ ClaimsAreExclusive

-----------------------------------------------------------------------------
(* What the README says that the code does not do                          *)

\* "The event remains available until it can be published": an event the broker
\* has no copy of is never given up.
EventRemainsAvailable == \A e \in Events : sent[e] = {} => ~GivenUp(e)

-----------------------------------------------------------------------------
(* Liveness                                                                *)

\* Time passes, and the cycles of each worker go on: a worker may die any number
\* of times, but not before the same statement of every cycle for ever, so that
\* again and again a cycle gets as far as its claim.  As some WorkerStep(w) is
\* always enabled, that is WF of WorkerStep(w) with SF of RequeueStale(w),
\* ExpireStale(w) and Claim(w).
Fairness ==
    /\ \A w \in Workers : []<><<Claim(w)>>_vars
    /\ \A e \in Events : WF_vars(BecomeDue(e)) /\ WF_vars(BecomeStale(e))
FairSpec == Spec /\ Fairness

\* Every committed event is published or, after the last attempt, given up; none is
\* left behind in PENDING, PROCESSING or a FAILED that could be retried.
EveryEventSettles ==
    \A e \in Events : status[e] # "NONE" ~> (status[e] = "PUBLISHED" \/ GivenUp(e))
=============================================================================

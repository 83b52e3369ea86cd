---------------------------- MODULE Outbox_proofs ----------------------------
(***************************************************************************)
(* Proofs about Outbox, in the system its runs check (MCEvents): its       *)
(* invariant, and that it implements EventDelivery, for any number of      *)
(* events, workers and attempts.                                           *)
(***************************************************************************)
EXTENDS MCEvents, TLAPS

\* The type invariant holds at first and is kept by every step.
LEMMA TypeInit ==
    ASSUME O!OutboxConstants
    PROVE  O!Init => O!TypeOK
BY DEF O!OutboxConstants, O!Init, O!TypeOK, O!OutboxEventStatus, O!WorkerLoop, O!IdleWorker,
       O!NoneClaimed

\* Going on to the next event of the batch keeps the type of the loops.
LEMMA EventDoneType ==
    ASSUME O!OutboxConstants, O!TypeOK, NEW w \in Workers, O!EventDone(w)
    PROVE  worker' \in [Workers -> O!WorkerLoop]
<1>. DEFINE e == worker[w].event
            c == [worker[w].claimed EXCEPT ![e] = 0]
            p == IF \E f \in O!Events \ {e} : worker[w].claimed[f] # 0
                 THEN "publish" ELSE "idle"
<1>1. worker[w].claimed \in [O!Events -> 0..MAX_OUTBOX_ATTEMPTS]
  BY DEF O!TypeOK, O!WorkerLoop
<1>2. c \in [O!Events -> 0..MAX_OUTBOX_ATTEMPTS]
  <2>1. 0 \in 0..MAX_OUTBOX_ATTEMPTS
    BY DEF O!OutboxConstants
  <2>. HIDE DEF e
  <2>. QED BY <1>1, <2>1
<1>3. p \in {"idle", "publish"}
  OBVIOUS
<1>4. worker' = [worker EXCEPT ![w] = [pc |-> p, claimed |-> c, event |-> NULL]]
  BY DEF O!EventDone
<1>. HIDE DEF c, p
<1>5. [pc |-> p, claimed |-> c, event |-> NULL] \in O!WorkerLoop
  BY <1>2, <1>3 DEF O!WorkerLoop
<1>. QED BY <1>4, <1>5 DEF O!TypeOK

\* So does moving the program counter.
LEMMA ProceedType ==
    ASSUME O!TypeOK, NEW w \in Workers,
           NEW p \in {"idle", "requeue", "expire", "claim", "publish", "mark", "fail"},
           O!Proceed(w, p)
    PROVE  worker' \in [Workers -> O!WorkerLoop]
BY DEF O!TypeOK, O!WorkerLoop, O!Proceed

\* And a status update keeps the type of the rows.
LEMMA SetStatusType ==
    ASSUME O!TypeOK, NEW S, NEW s \in O!OutboxEventStatus, O!SetStatus(S, s)
    PROVE  status' \in [O!Events -> O!OutboxEventStatus] /\ stale' \in [O!Events -> BOOLEAN]
BY DEF O!TypeOK, O!SetStatus

LEMMA TypeNext ==
    ASSUME O!OutboxConstants, O!TypeOK, [O!Next]_(O!vars)
    PROVE  O!TypeOK'
<1>. USE DEF O!OutboxConstants, O!TypeOK, O!OutboxEventStatus, O!WorkerLoop
<1>1. ASSUME NEW e \in O!Events, O!CreateEvent(e) PROVE O!TypeOK'
  BY <1>1 DEF O!CreateEvent
<1>2. ASSUME NEW e \in O!Events, O!BecomeDue(e) PROVE O!TypeOK'
  BY <1>2 DEF O!BecomeDue
<1>3. ASSUME NEW e \in O!Events, O!BecomeStale(e) PROVE O!TypeOK'
  BY <1>3 DEF O!BecomeStale
<1>4. ASSUME NEW w \in Workers, O!RequeueFailed(w) PROVE O!TypeOK'
  BY <1>4 DEF O!RequeueFailed, O!SetStatus, O!Proceed
<1>5. ASSUME NEW w \in Workers, O!RequeueStale(w) PROVE O!TypeOK'
  BY <1>5 DEF O!RequeueStale, O!SetStatus, O!Proceed
<1>6. ASSUME NEW w \in Workers, O!ExpireStale(w) PROVE O!TypeOK'
  BY <1>6 DEF O!ExpireStale, O!SetStatus, O!Proceed
<1>7. ASSUME NEW w \in Workers, O!Claim(w) PROVE O!TypeOK'
  <2>1. PICK S \in SUBSET {e \in O!Events : status[e] = "PENDING" /\ due[e] /\ O!AttemptsLeft(e)} :
           /\ O!SetStatus(S, "PROCESSING")
           /\ attempts' = [e \in O!Events |-> IF e \in S THEN attempts[e] + 1 ELSE attempts[e]]
           /\ worker' = [worker EXCEPT ![w] =
                 [pc |-> IF S = {} THEN "idle" ELSE "publish",
                  claimed |-> [e \in O!Events |-> IF e \in S THEN attempts[e] + 1 ELSE 0],
                  event |-> NULL]]
    BY <1>7 DEF O!Claim
  <2>2. \A e \in S : attempts[e] + 1 \in 0..MAX_OUTBOX_ATTEMPTS
    BY DEF O!AttemptsLeft
  <2>3. attempts' \in [O!Events -> 0..MAX_OUTBOX_ATTEMPTS]
    BY <2>1, <2>2
  <2>4. [e \in O!Events |-> IF e \in S THEN attempts[e] + 1 ELSE 0]
           \in [O!Events -> 0..MAX_OUTBOX_ATTEMPTS]
    BY <2>2
  <2>5. worker' \in [Workers -> O!WorkerLoop]
    BY <2>1, <2>4
  <2>6. status' \in [O!Events -> O!OutboxEventStatus] /\ stale' \in [O!Events -> BOOLEAN]
    BY <2>1 DEF O!SetStatus
  <2>. QED BY <1>7, <2>3, <2>5, <2>6 DEF O!Claim
<1>8. ASSUME NEW w \in Workers, NEW e \in O!Events, O!Publish(w, e) PROVE O!TypeOK'
  <2>1. worker[w].claimed[e] \in 1..MAX_OUTBOX_ATTEMPTS
    BY <1>8 DEF O!Publish
  <2>2. sent' \in [O!Events -> SUBSET (1..MAX_OUTBOX_ATTEMPTS)]
    BY <1>8, <2>1 DEF O!Publish
  <2>3. PICK p \in {"mark", "fail"} :
           worker' = [worker EXCEPT ![w].event = e, ![w].pc = p]
    BY <1>8 DEF O!Publish
  <2>4. worker' \in [Workers -> O!WorkerLoop]
    BY <2>3, ZenonT(40)
  <2>. QED BY <1>8, <2>2, <2>4 DEF O!Publish, O!row
<1>9. ASSUME NEW w \in Workers, O!MarkPublished(w) PROVE O!TypeOK'
  <2>1. worker' \in [Workers -> O!WorkerLoop]
    BY <1>9, EventDoneType, ProceedType DEF O!MarkPublished
  <2>2. status' \in [O!Events -> O!OutboxEventStatus] /\ stale' \in [O!Events -> BOOLEAN]
    <3>1. CASE O!SetStatus(O!IfProcessing(worker[w].event), "PUBLISHED")
      BY <3>1, SetStatusType DEF O!OutboxEventStatus
    <3>2. CASE UNCHANGED <<status, stale>>
      BY <3>2
    <3>. QED BY <1>9, <3>1, <3>2 DEF O!MarkPublished
  <2>. QED BY <1>9, <2>1, <2>2 DEF O!MarkPublished
<1>10. ASSUME NEW w \in Workers, O!MarkPermanentlyFailed(w) PROVE O!TypeOK'
  BY <1>10, EventDoneType, SetStatusType DEF O!MarkPermanentlyFailed
<1>11. ASSUME NEW w \in Workers, O!MarkFailed(w) PROVE O!TypeOK'
  BY <1>11, EventDoneType, SetStatusType DEF O!MarkFailed
<1>12. ASSUME NEW w \in Workers, O!Abandon(w) PROVE O!TypeOK'
  BY <1>12 DEF O!Abandon, O!row, O!IdleWorker, O!NoneClaimed
<1>13. CASE UNCHANGED O!vars
  BY <1>13 DEF O!vars, O!row
<1>. QED
  BY <1>1, <1>2, <1>3, <1>4, <1>5, <1>6, <1>7, <1>8, <1>9, <1>10, <1>11, <1>12, <1>13
     DEF O!Next, O!RowStep, O!WorkerStep

-----------------------------------------------------------------------------
\* Every kind of step, for the proofs that go through all of them.
LEMMA StepCases ==
    ASSUME [O!Next]_(O!vars)
    PROVE  \/ \E e \in O!Events : O!CreateEvent(e) \/ O!BecomeDue(e) \/ O!BecomeStale(e)
           \/ \E w \in Workers :
                 \/ O!RequeueFailed(w) \/ O!RequeueStale(w) \/ O!ExpireStale(w)
                 \/ O!Claim(w)
                 \/ \E e \in O!Events : O!Publish(w, e)
                 \/ O!MarkPublished(w) \/ O!MarkPermanentlyFailed(w) \/ O!MarkFailed(w)
                 \/ O!Abandon(w)
           \/ UNCHANGED O!vars
BY DEF O!Next, O!RowStep, O!WorkerStep

\* What a claim does, without the choice of the batch.
LEMMA ClaimEffect ==
    ASSUME NEW w \in Workers, O!Claim(w)
    PROVE  \E S \in SUBSET O!Events :
             /\ \A e \in S : status[e] = "PENDING" /\ O!AttemptsLeft(e)
             /\ O!SetStatus(S, "PROCESSING")
             /\ attempts' = [e \in O!Events |-> IF e \in S THEN attempts[e] + 1 ELSE attempts[e]]
             /\ worker' = [worker EXCEPT ![w] =
                   [pc |-> IF S = {} THEN "idle" ELSE "publish",
                    claimed |-> [e \in O!Events |-> IF e \in S THEN attempts[e] + 1 ELSE 0],
                    event |-> NULL]]
             /\ UNCHANGED <<due, sent>>
BY DEF O!Claim

\* Attempts never go down, and only a claim raises them.
LEMMA AttemptsGrow ==
    ASSUME O!TypeOK, [O!Next]_(O!vars)
    PROVE  \A e \in O!Events : attempts[e] <= attempts'[e]
<1>1. ASSUME NEW w \in Workers, O!Claim(w)
      PROVE  \A e \in O!Events : attempts[e] <= attempts'[e]
  BY <1>1, ClaimEffect DEF O!TypeOK
<1>2. CASE UNCHANGED attempts
  BY <1>2 DEF O!TypeOK
<1>. QED
  BY <1>1, <1>2, StepCases
     DEF O!vars, O!row, O!CreateEvent, O!BecomeDue, O!BecomeStale, O!RequeueFailed, O!RequeueStale,
         O!ExpireStale, O!Publish, O!MarkPublished, O!MarkPermanentlyFailed, O!MarkFailed, O!Abandon

\* A row that exists stays, and no copy is taken back.
LEMMA RowsAndCopiesStay ==
    ASSUME O!TypeOK, [O!Next]_(O!vars), NEW e \in O!Events
    PROVE  /\ status[e] # "NONE" => status'[e] # "NONE"
           /\ sent[e] \subseteq sent'[e]
<1>1. ASSUME NEW w \in Workers, O!Claim(w)
      PROVE  (status[e] # "NONE" => status'[e] # "NONE") /\ sent[e] \subseteq sent'[e]
  BY <1>1, ClaimEffect DEF O!TypeOK, O!SetStatus
<1>2. ASSUME NEW w \in Workers, NEW f \in O!Events, O!Publish(w, f)
      PROVE  (status[e] # "NONE" => status'[e] # "NONE") /\ sent[e] \subseteq sent'[e]
  BY <1>2 DEF O!TypeOK, O!Publish, O!row
<1>3. ASSUME NEW w \in Workers,
             O!RequeueFailed(w) \/ O!RequeueStale(w) \/ O!ExpireStale(w)
               \/ O!MarkPermanentlyFailed(w) \/ O!MarkFailed(w)
      PROVE  (status[e] # "NONE" => status'[e] # "NONE") /\ sent[e] \subseteq sent'[e]
  BY <1>3 DEF O!TypeOK, O!SetStatus, O!RequeueFailed, O!RequeueStale, O!ExpireStale,
              O!MarkPermanentlyFailed, O!MarkFailed
<1>4. ASSUME NEW w \in Workers, O!MarkPublished(w)
      PROVE  (status[e] # "NONE" => status'[e] # "NONE") /\ sent[e] \subseteq sent'[e]
  BY <1>4 DEF O!TypeOK, O!SetStatus, O!MarkPublished
<1>5. ASSUME NEW f \in O!Events, O!CreateEvent(f) \/ O!BecomeDue(f) \/ O!BecomeStale(f)
      PROVE  (status[e] # "NONE" => status'[e] # "NONE") /\ sent[e] \subseteq sent'[e]
  BY <1>5 DEF O!TypeOK, O!CreateEvent, O!BecomeDue, O!BecomeStale
<1>6. ASSUME UNCHANGED <<O!row, sent>>
      PROVE  (status[e] # "NONE" => status'[e] # "NONE") /\ sent[e] \subseteq sent'[e]
  BY <1>6 DEF O!row
<1>. QED
  BY <1>1, <1>2, <1>3, <1>4, <1>5, <1>6, StepCases DEF O!vars, O!Abandon

-----------------------------------------------------------------------------
\* A row that does not exist was never claimed or sent; a published one was sent.
LEMMA RowInvNext ==
    ASSUME O!TypeOK, O!IInv, [O!Next]_(O!vars)
    PROVE  O!RowInv'
<1>. SUFFICES ASSUME NEW e \in O!Events
     PROVE  /\ status'[e] = "NONE" => attempts'[e] = 0 /\ sent'[e] = {}
            /\ status'[e] = "PUBLISHED" => sent'[e] # {}
  BY DEF O!RowInv
<1>. DEFINE Goal == /\ status'[e] = "NONE" => attempts'[e] = 0 /\ sent'[e] = {}
                    /\ status'[e] = "PUBLISHED" => sent'[e] # {}
<1>. USE DEF O!IInv, O!RowInv, O!TypeOK
<1>1. ASSUME NEW f \in O!Events, O!CreateEvent(f) \/ O!BecomeDue(f) \/ O!BecomeStale(f) PROVE Goal
  BY <1>1 DEF O!CreateEvent, O!BecomeDue, O!BecomeStale
<1>2. ASSUME NEW w \in Workers,
             O!RequeueFailed(w) \/ O!RequeueStale(w) \/ O!ExpireStale(w)
      PROVE  Goal
  BY <1>2 DEF O!RequeueFailed, O!RequeueStale, O!ExpireStale, O!SetStatus
<1>3. ASSUME NEW w \in Workers, O!Claim(w) PROVE Goal
  BY <1>3, ClaimEffect DEF O!SetStatus
<1>4. ASSUME NEW w \in Workers, NEW f \in O!Events, O!Publish(w, f) PROVE Goal
  <2>1. status[f] # "NONE"
    BY <1>4 DEF O!Publish, O!WorkerInv
  <2>. QED BY <1>4, <2>1, RowsAndCopiesStay DEF O!Publish, O!row
<1>5. ASSUME NEW w \in Workers, O!MarkPublished(w) PROVE Goal
  <2>1. worker[w].event \in O!Events /\ sent[worker[w].event] # {}
    BY <1>5 DEF O!MarkPublished, O!WorkerInv
  <2>. QED BY <1>5, <2>1 DEF O!MarkPublished, O!SetStatus, O!IfProcessing
<1>6. ASSUME NEW w \in Workers, O!MarkPermanentlyFailed(w) \/ O!MarkFailed(w) PROVE Goal
  BY <1>6 DEF O!MarkPermanentlyFailed, O!MarkFailed, O!SetStatus, O!IfProcessing
<1>7. CASE UNCHANGED <<O!row, sent>>
  BY <1>7 DEF O!row
<1>. QED
  BY <1>1, <1>2, <1>3, <1>4, <1>5, <1>6, <1>7, StepCases DEF O!vars, O!Abandon

\* Only the two requeues and the commit make a row PENDING, all with attempts left.
LEMMA PendingNext ==
    ASSUME O!OutboxConstants, O!TypeOK, O!IInv, [O!Next]_(O!vars)
    PROVE  O!PendingIsClaimable'
<1>. SUFFICES ASSUME NEW e \in O!Events, status'[e] = "PENDING"
     PROVE  attempts'[e] < MAX_OUTBOX_ATTEMPTS
  BY DEF O!PendingIsClaimable, O!AttemptsLeft
<1>. DEFINE Goal == attempts'[e] < MAX_OUTBOX_ATTEMPTS
<1>. USE DEF O!OutboxConstants, O!IInv, O!RowInv, O!PendingIsClaimable, O!AttemptsLeft, O!TypeOK
<1>1. ASSUME NEW f \in O!Events, O!CreateEvent(f) \/ O!BecomeDue(f) \/ O!BecomeStale(f) PROVE Goal
  BY <1>1 DEF O!CreateEvent, O!BecomeDue, O!BecomeStale
<1>2. ASSUME NEW w \in Workers,
             O!RequeueFailed(w) \/ O!RequeueStale(w) \/ O!ExpireStale(w)
      PROVE  Goal
  BY <1>2 DEF O!RequeueFailed, O!RequeueStale, O!ExpireStale, O!SetStatus
<1>3. ASSUME NEW w \in Workers, O!Claim(w) PROVE Goal
  BY <1>3, ClaimEffect DEF O!SetStatus
<1>4. ASSUME NEW w \in Workers, O!MarkPublished(w) \/ O!MarkPermanentlyFailed(w) \/ O!MarkFailed(w)
      PROVE  Goal
  BY <1>4 DEF O!MarkPublished, O!MarkPermanentlyFailed, O!MarkFailed, O!SetStatus
<1>5. CASE UNCHANGED O!row
  BY <1>5 DEF O!row
<1>. QED
  BY <1>1, <1>2, <1>3, <1>4, <1>5, StepCases DEF O!vars, O!Abandon, O!Publish

-----------------------------------------------------------------------------
\* A batch only loses events, except through a claim, which takes a new attempt.
LEMMA BatchChanges ==
    ASSUME O!TypeOK, [O!Next]_(O!vars), NEW v \in Workers, NEW e \in O!Events
    PROVE  \/ worker'[v].claimed[e] \in {0, worker[v].claimed[e]}
           \/ /\ O!Claim(v)
              /\ status'[e] # "NONE"
              /\ worker'[v].claimed[e] = attempts[e] + 1
              /\ attempts'[e] = attempts[e] + 1
<1>. DEFINE Kept == worker'[v].claimed[e] \in {0, worker[v].claimed[e]}
<1>. USE DEF O!TypeOK, O!WorkerLoop
<1>1. ASSUME NEW w \in Workers,
             O!RequeueFailed(w) \/ O!RequeueStale(w) \/ O!ExpireStale(w)
      PROVE  Kept
  BY <1>1 DEF O!RequeueFailed, O!RequeueStale, O!ExpireStale, O!Proceed
<1>2. ASSUME NEW w \in Workers, O!Claim(w), w # v PROVE Kept
  BY <1>2, ClaimEffect
<1>3. ASSUME O!Claim(v), ~Kept
      PROVE  /\ status'[e] # "NONE"
             /\ worker'[v].claimed[e] = attempts[e] + 1
             /\ attempts'[e] = attempts[e] + 1
  <2>1. PICK S \in SUBSET O!Events :
           /\ O!SetStatus(S, "PROCESSING")
           /\ attempts' = [f \in O!Events |-> IF f \in S THEN attempts[f] + 1 ELSE attempts[f]]
           /\ worker' = [worker EXCEPT ![v] =
                 [pc |-> IF S = {} THEN "idle" ELSE "publish",
                  claimed |-> [f \in O!Events |-> IF f \in S THEN attempts[f] + 1 ELSE 0],
                  event |-> NULL]]
    BY <1>3, ClaimEffect, ZenonT(40)
  <2>2. worker'[v].claimed = [f \in O!Events |-> IF f \in S THEN attempts[f] + 1 ELSE 0]
    BY <2>1
  <2>3. e \in S
    BY <1>3, <2>2
  <2>. QED BY <2>1, <2>2, <2>3 DEF O!SetStatus
<1>4. ASSUME NEW w \in Workers, NEW f \in O!Events, O!Publish(w, f) PROVE Kept
  BY <1>4 DEF O!Publish
<1>5. ASSUME NEW w \in Workers, O!EventDone(w) PROVE Kept
  <2>1. CASE w = v
    BY <1>5, <2>1 DEF O!EventDone
  <2>2. CASE w # v
    BY <1>5, <2>2 DEF O!EventDone
  <2>. QED BY <2>1, <2>2
<1>6. ASSUME NEW w \in Workers, O!Proceed(w, "fail") PROVE Kept
  BY <1>6 DEF O!Proceed
<1>7. ASSUME NEW w \in Workers, O!Abandon(w) PROVE Kept
  BY <1>7 DEF O!Abandon, O!IdleWorker, O!NoneClaimed
<1>8. CASE UNCHANGED worker
  BY <1>8
<1>. QED
  BY <1>1, <1>2, <1>3, <1>4, <1>5, <1>6, <1>7, <1>8, StepCases
     DEF O!vars, O!CreateEvent, O!BecomeDue, O!BecomeStale, O!MarkPublished,
         O!MarkPermanentlyFailed, O!MarkFailed

\* A new attempt is above every attempt in any batch, so it is nobody else's.
LEMMA ExclusiveNext ==
    ASSUME O!TypeOK, O!IInv, [O!Next]_(O!vars)
    PROVE  O!ClaimsAreExclusive'
<1>. SUFFICES ASSUME NEW v \in Workers, NEW w \in Workers, NEW e \in O!Events,
                     worker'[v].claimed[e] = worker'[w].claimed[e],
                     worker'[v].claimed[e] # 0, v # w
              PROVE  FALSE
  BY DEF O!ClaimsAreExclusive
<1>. USE DEF O!IInv, O!WorkerInv, O!ClaimsAreExclusive, O!TypeOK, O!WorkerLoop
<1>1. ASSUME NEW x \in Workers, NEW y \in Workers, x # y, O!Claim(x),
             worker'[x].claimed[e] = attempts[e] + 1,
             worker'[x].claimed[e] = worker'[y].claimed[e]
      PROVE  FALSE
  <2>1. worker'[y] = worker[y]
    BY <1>1, ClaimEffect
  <2>2. worker[y].claimed[e] <= attempts[e]
    OBVIOUS
  <2>. QED BY <1>1, <2>1, <2>2
<1>2. CASE /\ worker'[v].claimed[e] \in {0, worker[v].claimed[e]}
           /\ worker'[w].claimed[e] \in {0, worker[w].claimed[e]}
  BY <1>2
<1>. QED BY <1>1, <1>2, BatchChanges

\* The event a loop has in hand is one it claimed; about to be marked, it was sent.
LEMMA InHandNext ==
    ASSUME O!TypeOK, O!IInv, [O!Next]_(O!vars), NEW v \in Workers
    PROVE  /\ worker'[v].pc \in {"mark", "fail"} =>
                 worker'[v].event \in O!Events /\ worker'[v].claimed[worker'[v].event] # 0
           /\ worker'[v].pc = "mark" => sent'[worker'[v].event] # {}
<1>. DEFINE Goal ==
        /\ worker'[v].pc \in {"mark", "fail"} =>
              worker'[v].event \in O!Events /\ worker'[v].claimed[worker'[v].event] # 0
        /\ worker'[v].pc = "mark" => sent'[worker'[v].event] # {}
<1>. USE DEF O!TypeOK, O!WorkerLoop
<1>0. /\ worker[v].pc \in {"mark", "fail"} =>
            worker[v].event \in O!Events /\ worker[v].claimed[worker[v].event] # 0
      /\ worker[v].pc = "mark" => sent'[worker[v].event] # {}
  <2>1. worker[v].pc \in {"mark", "fail"} =>
           worker[v].event \in O!Events /\ worker[v].claimed[worker[v].event] # 0
    BY DEF O!IInv, O!WorkerInv
  <2>2. worker[v].pc = "mark" => sent[worker[v].event] # {}
    BY DEF O!IInv, O!WorkerInv
  <2>3. worker[v].pc = "mark" => sent[worker[v].event] \subseteq sent'[worker[v].event]
    BY <2>1, RowsAndCopiesStay
  <2>. QED BY <2>1, <2>2, <2>3
<1>1. CASE worker'[v] = worker[v]
  BY <1>0, <1>1
<1>2. CASE worker'[v].pc \notin {"mark", "fail"}
  BY <1>2
<1>3. ASSUME NEW w \in Workers, NEW f \in O!Events, O!Publish(w, f) PROVE Goal
  <2>1. CASE w # v
    BY <1>1, <1>3, <2>1 DEF O!Publish
  <2>2. CASE w = v
    BY <1>3, <2>2 DEF O!Publish
  <2>. QED BY <2>1, <2>2
<1>4. ASSUME NEW w \in Workers, O!MarkPublished(w) PROVE Goal
  <2>1. CASE w # v
    BY <1>1, <1>4, <2>1 DEF O!MarkPublished, O!EventDone, O!Proceed
  <2>2. CASE w = v /\ O!EventDone(v)
    BY <1>2, <2>2 DEF O!EventDone
  <2>3. CASE w = v /\ O!Proceed(v, "fail")
    BY <1>0, <1>4, <2>3 DEF O!MarkPublished, O!Proceed
  <2>. QED BY <1>4, <2>1, <2>2, <2>3 DEF O!MarkPublished
<1>5. ASSUME NEW w \in Workers, O!MarkPermanentlyFailed(w) \/ O!MarkFailed(w) PROVE Goal
  <2>1. O!EventDone(w)
    BY <1>5 DEF O!MarkPermanentlyFailed, O!MarkFailed
  <2>2. CASE w # v
    BY <1>1, <2>1, <2>2 DEF O!EventDone
  <2>3. CASE w = v
    BY <1>2, <2>1, <2>3 DEF O!EventDone
  <2>. QED BY <2>2, <2>3
<1>6. ASSUME NEW w \in Workers, O!Claim(w) PROVE Goal
  <2>1. CASE w # v
    BY <1>1, <1>6, <2>1, ClaimEffect
  <2>2. CASE w = v
    <3>1. PICK p \in {"idle", "publish"} : \E c :
             worker' = [worker EXCEPT ![v] = [pc |-> p, claimed |-> c, event |-> NULL]]
      BY <1>6, <2>2 DEF O!Claim
    <3>. QED BY <1>2, <3>1
  <2>. QED BY <2>1, <2>2
<1>7. ASSUME NEW w \in Workers,
             O!RequeueFailed(w) \/ O!RequeueStale(w) \/ O!ExpireStale(w) \/ O!Abandon(w)
      PROVE  Goal
  BY <1>1, <1>2, <1>7 DEF O!RequeueFailed, O!RequeueStale, O!ExpireStale, O!Abandon,
                             O!Proceed, O!IdleWorker
<1>. QED
  BY <1>1, <1>3, <1>4, <1>5, <1>6, <1>7, StepCases
     DEF O!vars, O!CreateEvent, O!BecomeDue, O!BecomeStale

LEMMA WorkerInvNext ==
    ASSUME O!OutboxConstants, O!TypeOK, O!TypeOK', O!IInv, [O!Next]_(O!vars)
    PROVE  O!WorkerInv'
<1>. SUFFICES ASSUME NEW w \in Workers, NEW e \in O!Events
     PROVE  /\ worker'[w].claimed[e] <= attempts'[e]
            /\ worker'[w].claimed[e] # 0 => status'[e] # "NONE"
  BY InHandNext DEF O!WorkerInv
<1>1. worker[w].claimed[e] <= attempts[e] /\ (worker[w].claimed[e] # 0 => status[e] # "NONE")
  BY DEF O!IInv, O!WorkerInv
<1>2. attempts[e] \in Nat /\ attempts'[e] \in Nat /\ worker[w].claimed[e] \in Nat
  BY DEF O!OutboxConstants, O!TypeOK, O!WorkerLoop
<1>. QED BY <1>1, <1>2, BatchChanges, AttemptsGrow, RowsAndCopiesStay

-----------------------------------------------------------------------------
LEMMA InvInit ==
    ASSUME O!OutboxConstants
    PROVE  O!Init => O!IInv
BY DEF O!OutboxConstants, O!Init, O!IInv, O!WorkerInv, O!RowInv, O!PendingIsClaimable,
       O!ClaimsAreExclusive,
       O!AttemptsLeft, O!IdleWorker, O!NoneClaimed

\* The system does nothing to the outbox but the outbox's own steps.
LEMMA OutboxStep ==
    ASSUME [EventsNext]_<<part, outbox, messaging>>
    PROVE  [O!Next]_(O!vars)
BY DEF EventsNext, outbox, O!vars, O!row

\* TypeOK and the inductive invariant of the outbox hold in every reachable state.
THEOREM Invariance == EventsSpec => [](O!TypeOK /\ O!IInv)
<1>1. EventsInit => O!TypeOK /\ O!IInv
  BY EventsConstants, TypeInit, InvInit DEF EventsInit
<1>2. (O!TypeOK /\ O!IInv) /\ [EventsNext]_<<part, outbox, messaging>> => (O!TypeOK /\ O!IInv)'
  BY EventsConstants, OutboxStep, TypeNext, RowInvNext, PendingNext, ExclusiveNext, WorkerInvNext
     DEF O!IInv
<1>. QED BY <1>1, <1>2, PTL DEF EventsSpec

\* Every variable of the outbox keeps its type.
THEOREM TypeCorrect == EventsSpec => []O!TypeOK
BY Invariance, PTL

\* A pending event always has an attempt left, so claimPendingEvents can take it.
THEOREM PendingCanBeClaimed == EventsSpec => []PendingIsClaimable
<1>1. O!IInv => PendingIsClaimable
  BY DEF O!IInv, PendingIsClaimable
<1>. QED BY <1>1, Invariance, PTL

\* No two workers work on the same attempt of an event.
THEOREM ClaimsExclude == EventsSpec => []ClaimsAreExclusive
<1>1. O!IInv => ClaimsAreExclusive
  BY DEF O!IInv, ClaimsAreExclusive
<1>. QED BY <1>1, Invariance, PTL

-----------------------------------------------------------------------------
(* Outbox implements EventDelivery.                                        *)

LEMMA PromiseInit == O!Init => O!Promise!Init
BY DEF O!Init, O!Promise!Init, O!Delivery, O!BrokerHas, O!GivenUp

\* A step that changes no row's standing and no copy is a stutter.
LEMMA Stutter ==
    ASSUME \A e \in O!Events : O!Delivery'[e] = O!Delivery[e], UNCHANGED sent
    PROVE  UNCHANGED O!Promise!vars
<1>1. O!Delivery' = O!Delivery
  BY DEF O!Delivery
<1>2. O!BrokerHas' = O!BrokerHas
  BY DEF O!BrokerHas
<1>. QED BY <1>1, <1>2 DEF O!Promise!vars

\* A step that moves the rows in S and no other is one of EventDelivery's moves.
LEMMA Moved ==
    ASSUME NEW S \in SUBSET O!Events, NEW from, NEW to,
           \A e \in S : O!Delivery[e] = from /\ O!Delivery'[e] = to,
           \A e \in O!Events \ S : O!Delivery'[e] = O!Delivery[e],
           UNCHANGED sent
    PROVE  O!Promise!Moves(from, to, S) /\ UNCHANGED O!BrokerHas
<1>1. O!Delivery' = [e \in O!Events |-> IF e \in S THEN to ELSE O!Delivery[e]]
  BY DEF O!Delivery
<1>2. O!BrokerHas' = O!BrokerHas
  BY DEF O!BrokerHas
<1>. QED BY <1>1, <1>2 DEF O!Promise!Moves

\* The commit of a row is Commit; the broker's receipt of a message is Receive.
LEMMA CreateIsCommit ==
    ASSUME O!TypeOK, NEW e \in O!Events, O!CreateEvent(e)
    PROVE  O!Promise!Commit({e})
<1>1. /\ \A f \in {e} : O!Delivery[f] = "none" /\ O!Delivery'[f] = "open"
      /\ \A f \in O!Events \ {e} : O!Delivery'[f] = O!Delivery[f]
  BY DEF O!CreateEvent, O!Delivery, O!GivenUp, O!AttemptsLeft, O!TypeOK
<1>. QED BY <1>1, Moved DEF O!CreateEvent, O!Promise!Commit

LEMMA PublishIsReceive ==
    ASSUME O!TypeOK, O!IInv, NEW w \in Workers, NEW e \in O!Events, O!Publish(w, e)
    PROVE  O!Promise!Receive(e) \/ UNCHANGED O!Promise!vars
<1>1. O!Delivery' = O!Delivery
  BY DEF O!Publish, O!row, O!Delivery, O!GivenUp, O!AttemptsLeft
<1>2. CASE UNCHANGED sent
  BY <1>1, <1>2, Stutter
<1>3. CASE sent' = [sent EXCEPT ![e] = @ \cup {worker[w].claimed[e]}]
  <2>1. O!BrokerHas' = O!BrokerHas \cup {e}
    BY <1>3 DEF O!BrokerHas, O!TypeOK
  <2>2. O!Delivery[e] # "none"
    BY DEF O!Delivery, O!Publish, O!IInv, O!WorkerInv
  <2>. QED BY <1>1, <2>1, <2>2 DEF O!Promise!Receive
<1>. QED BY <1>2, <1>3 DEF O!Publish

\* A mark closes the event in hand if it is still being processed.
LEMMA MarkIsPublish ==
    ASSUME O!TypeOK, O!IInv, NEW w \in Workers, O!MarkPublished(w)
    PROVE  (\E S \in SUBSET O!Events : O!Promise!Publish(S)) \/ UNCHANGED O!Promise!vars
<1>. DEFINE S == O!IfProcessing(worker[w].event)
<1>1. S \in SUBSET O!Events /\ S \subseteq O!BrokerHas
  BY DEF O!MarkPublished, O!IfProcessing, O!IInv, O!WorkerInv, O!BrokerHas
<1>2. CASE UNCHANGED status
  <2>1. \A e \in O!Events : O!Delivery'[e] = O!Delivery[e]
    BY <1>2 DEF O!MarkPublished, O!Delivery, O!GivenUp, O!AttemptsLeft
  <2>. QED BY <2>1, Stutter DEF O!MarkPublished
<1>3. CASE O!SetStatus(S, "PUBLISHED")
  <2>1. /\ \A e \in S : O!Delivery[e] = "open" /\ O!Delivery'[e] = "published"
        /\ \A e \in O!Events \ S : O!Delivery'[e] = O!Delivery[e]
    BY <1>1, <1>3 DEF O!MarkPublished, O!SetStatus, O!IfProcessing, O!Delivery, O!GivenUp,
                      O!AttemptsLeft
  <2>2. O!Promise!Moves("open", "published", S) /\ UNCHANGED O!BrokerHas
    BY <1>1, <2>1, Moved DEF O!MarkPublished
  <2>. QED BY <1>1, <2>2 DEF O!Promise!Publish
<1>. QED BY <1>2, <1>3 DEF O!MarkPublished

\* FAILED without an attempt left is the end of an event, with one left it is not.
LEMMA FailureIsGiveUp ==
    ASSUME O!TypeOK, O!IInv, NEW w \in Workers,
           O!ExpireStale(w) \/ O!MarkPermanentlyFailed(w) \/ O!MarkFailed(w)
    PROVE  \E S \in SUBSET O!Events : O!Promise!GiveUp(S)
<1>. DEFINE S == {e \in O!Events : status[e] = "PROCESSING" /\ status'[e] = "FAILED"
                                  /\ ~O!AttemptsLeft(e)}
<1>1. UNCHANGED <<attempts, sent>>
  BY DEF O!ExpireStale, O!MarkPermanentlyFailed, O!MarkFailed
<1>2. \A e \in O!Events : status'[e] = status[e]
                          \/ (status[e] = "PROCESSING" /\ status'[e] = "FAILED")
  BY DEF O!ExpireStale, O!MarkPermanentlyFailed, O!MarkFailed, O!SetStatus, O!IfProcessing
<1>3. /\ \A e \in S : O!Delivery[e] = "open" /\ O!Delivery'[e] = "given up"
      /\ \A e \in O!Events \ S : O!Delivery'[e] = O!Delivery[e]
  BY <1>1, <1>2 DEF O!Delivery, O!GivenUp, O!AttemptsLeft
<1>4. O!Promise!Moves("open", "given up", S) /\ UNCHANGED O!BrokerHas
  <2>1. S \in SUBSET O!Events /\ UNCHANGED sent
    BY <1>1
  <2>. HIDE DEF S
  <2>. QED BY <1>3, <2>1, Moved
<1>. QED BY <1>4 DEF O!Promise!GiveUp

\* Claims and requeues keep every event open that they touch.
LEMMA StaysOpen ==
    ASSUME O!TypeOK, O!IInv, NEW w \in Workers,
           O!RequeueFailed(w) \/ O!RequeueStale(w) \/ O!Claim(w)
    PROVE  UNCHANGED O!Promise!vars
<1>1. CASE O!RequeueFailed(w) \/ O!RequeueStale(w)
  <2>1. \A e \in O!Events : O!Delivery'[e] = O!Delivery[e]
    BY <1>1, ZenonT(40) DEF O!RequeueFailed, O!RequeueStale, O!SetStatus, O!Delivery,
                          O!GivenUp, O!AttemptsLeft
  <2>. QED BY <1>1, <2>1, Stutter DEF O!RequeueFailed, O!RequeueStale
<1>2. CASE O!Claim(w)
  <2>1. \A e \in O!Events : O!Delivery'[e] = O!Delivery[e]
    <3>1. PICK S \in SUBSET O!Events :
             /\ \A e \in S : status[e] = "PENDING"
             /\ O!SetStatus(S, "PROCESSING")
             /\ attempts' = [e \in O!Events |-> IF e \in S THEN attempts[e] + 1 ELSE attempts[e]]
      BY <1>2, ClaimEffect
    <3>2. SUFFICES ASSUME NEW e \in O!Events PROVE O!Delivery'[e] = O!Delivery[e]
      OBVIOUS
    <3>3. CASE e \in S
      BY <3>1, <3>3 DEF O!SetStatus, O!Delivery, O!GivenUp
    <3>4. CASE e \notin S
      <4>1. status'[e] = status[e] /\ attempts'[e] = attempts[e]
        BY <3>1, <3>4 DEF O!SetStatus
      <4>. QED BY <4>1 DEF O!Delivery, O!GivenUp, O!AttemptsLeft
    <3>. QED BY <3>3, <3>4
  <2>. QED BY <1>2, <2>1, Stutter DEF O!Claim
<1>. QED BY <1>1, <1>2

LEMMA PromiseNext ==
    ASSUME O!TypeOK, O!IInv, [O!Next]_(O!vars)
    PROVE  [O!Promise!Next]_(O!Promise!vars)
<1>1. ASSUME NEW e \in O!Events, O!BecomeDue(e) \/ O!BecomeStale(e)
      PROVE  UNCHANGED O!Promise!vars
  BY <1>1, Stutter DEF O!BecomeDue, O!BecomeStale, O!Delivery, O!GivenUp, O!AttemptsLeft
<1>2. ASSUME NEW w \in Workers, O!Abandon(w) PROVE UNCHANGED O!Promise!vars
  BY <1>2, Stutter DEF O!Abandon, O!row, O!Delivery, O!GivenUp, O!AttemptsLeft
<1>3. CASE UNCHANGED O!vars
  BY <1>3, Stutter DEF O!vars, O!row, O!Delivery, O!GivenUp, O!AttemptsLeft
<1>4. ASSUME NEW e \in O!Events, O!CreateEvent(e) PROVE O!Promise!Next
  BY <1>4, CreateIsCommit DEF O!Promise!Next
<1>. QED
  BY <1>1, <1>2, <1>3, <1>4, PublishIsReceive, MarkIsPublish, FailureIsGiveUp,
     StaysOpen, StepCases DEF O!Promise!Next

\* The outbox keeps its promise: what was committed is closed once, as published only
\* when the broker has it, or given up, and is never reopened.
THEOREM OutboxKeepsPromise == EventsSpec => KeepsPromise
<1>. DEFINE Kept == part = "outbox" => O!Promise!Next \/ UNCHANGED O!Promise!vars
<1>1. EventsInit => O!Promise!Init
  BY PromiseInit DEF EventsInit
<1>2. (O!TypeOK /\ O!IInv) /\ [EventsNext]_<<part, outbox, messaging>> => [Kept]_outbox
  BY OutboxStep, PromiseNext
<1>. HIDE DEF Kept
<1>3. EventsSpec => O!Promise!Init /\ [][Kept]_outbox
  BY <1>1, <1>2, Invariance, PTL DEF EventsSpec
<1>. QED BY <1>3 DEF KeepsPromise, Kept
=============================================================================

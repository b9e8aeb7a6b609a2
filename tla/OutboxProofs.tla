---------------------------- MODULE OutboxProofs ----------------------------
(***************************************************************************)
(* What the notification outbox guarantees for any number of workers,      *)
(* items, channels and addresses, and for any number of crashes and of     *)
(* failed statements.                                                      *)
(***************************************************************************)
EXTENDS Outbox, WellFoundedInduction, TLAPS

USE OutboxAssumption

-----------------------------------------------------------------------------
(* Facts about the operators *)

\* The item a worker takes in hand is one of its batch.
LEMMA SmallestOfBatch ==
  ASSUME NEW batch \in SUBSET Items, batch # {}
  PROVE  (CHOOSE j \in batch : \A k \in batch : j <= k) \in batch
<1> DEFINE Less == {ss \in Nat \X Nat : ss[1] < ss[2]}
<1>1. IsWellFoundedOn(Less, Nat)
  BY NatLessThanWellFounded, Zenon DEF OpToRel
<1>a. \A x, y \in Nat : x < y => <<x, y>> \in Less
  OBVIOUS
<1> HIDE DEF Less
<1>2. PICK j \in batch : \A k \in batch : <<k, j>> \notin Less
  BY <1>1, WFMin, batch \subseteq Nat DEF OutboxAssumption
<1>3. ASSUME NEW k \in batch PROVE j <= k
  <2>1. j \in Nat /\ k \in Nat
    BY DEF OutboxAssumption
  <2>2. ~ (k < j)
    BY <1>a, <1>2, <2>1
  <2> QED
    BY <2>1, <2>2
<1> QED
  BY <1>3

\* The statements of the worker keep the type of a row.
LEMMA RecoveredType ==
  ASSUME NEW r \in Row
  PROVE  Recovered(r) \in Row
BY DEF Recovered, Row, EndedStatuses

LEMMA CompletedType ==
  ASSUME NEW r \in Row, NEW status \in EndedStatuses
  PROVE  Completed(r, status) \in Row
BY DEF Completed, Row

LEMMA RetriedOrFailedType ==
  ASSUME NEW r \in Row, NEW attempt, NEW delivered \in Confirmed
  PROVE  RetriedOrFailed(r, attempt, delivered) \in Row
BY DEF RetriedOrFailed, Row, EndedStatuses

LEMMA SummaryType == \A outcomes : Summary(outcomes) \in EndedStatuses
BY DEF Summary, EndedStatuses, SkippedStatuses

LEMMA NoRowType == NoRow \in Row
BY DEF NoRow, NoneConfirmed, Confirmed, Row, OutboxAssumption

LEMMA IdleWorkerType == IdleWorker \in Worker
BY NoRowType DEF IdleWorker, NoneConfirmed, Confirmed, Worker

\* A worker that takes the next item of its batch keeps its type.
LEMMA WithNextOfType ==
  ASSUME NEW batch \in SUBSET Items, NEW seen \in [Items -> Row]
  PROVE  WithNextOf(batch, seen) \in Worker
<1>1. CASE batch = {}
  BY <1>1, IdleWorkerType DEF WithNextOf
<1>2. CASE batch # {}
  <2> DEFINE i == CHOOSE j \in batch : \A k \in batch : j <= k
  <2>1. i \in Items
    BY <1>2, SmallestOfBatch
  <2>2. seen[i].delivered \in Confirmed
    BY <2>1 DEF Row
  <2>3. WithNextOf(batch, seen) =
          [pc |-> "deliver", batch |-> batch, seen |-> seen, item |-> i, channel |-> 1,
           delivered |-> seen[i].delivered, outcomes |-> {}, failed |-> FALSE]
    BY <1>2 DEF WithNextOf
  <2> HIDE DEF i
  <2> QED
    BY <2>1, <2>2, <2>3 DEF Worker
<1> QED
  BY <1>1, <1>2

LEMMA NextItemType ==
  ASSUME NEW me \in Worker
  PROVE  NextItem(me) \in Worker
<1>1. /\ me.batch \ {me.item} \in SUBSET Items
      /\ [me.seen EXCEPT ![me.item] = NoRow] \in [Items -> Row]
  BY NoRowType DEF Worker
<1> QED
  BY <1>1, WithNextOfType DEF NextItem

\* What a worker remembers has its type, wherever it is in its loop.
LEMMA WorkerFields ==
  ASSUME NEW me \in Worker
  PROVE  /\ me.delivered \in Confirmed
         /\ me.outcomes \in SUBSET Outcomes
         /\ me.failed \in BOOLEAN
         /\ \A pc \in {"claim", "retry"} : [me EXCEPT !.pc = pc] \in Worker
BY DEF Worker

LEMMA StepType ==
  ASSUME NEW me \in Worker, NEW delivered \in Confirmed, NEW outcomes \in SUBSET Outcomes,
         NEW failed \in BOOLEAN
  PROVE  Step(me, delivered, outcomes, failed) \in Worker
<1>1. me.channel \in Nat /\ me.channel + 1 \in Nat
  BY DEF Worker
<1>2. PICK pc \in {"deliver", "retry", "finish"} :
        Step(me, delivered, outcomes, failed) =
          [me EXCEPT !.delivered = delivered, !.outcomes = outcomes, !.failed = failed,
                     !.channel = @ + 1, !.pc = pc]
  <2>1. CASE me.channel # ChannelCount[me.item]
    BY <2>1, Zenon DEF Step
  <2>2. CASE me.channel = ChannelCount[me.item] /\ failed
    BY <2>2, Zenon DEF Step
  <2>3. CASE me.channel = ChannelCount[me.item] /\ ~failed
    BY <2>3, Zenon DEF Step
  <2> QED
    BY <2>1, <2>2, <2>3
<1> QED
  BY <1>1, <1>2 DEF Worker

LEMMA OwedType ==
  ASSUME NEW left \in [Items -> Confirmed], NEW i, NEW c, NEW refused \in SUBSET Recipients
  PROVE  [left EXCEPT ![i][c] = refused] \in [Items -> Confirmed]
BY DEF Confirmed

-----------------------------------------------------------------------------
(* Type correctness *)

LEMMA OutboxTypeInit == Init => TypeOK
BY NoRowType, IdleWorkerType DEF Init, TypeOK, NoneConfirmed, Confirmed, OutboxAssumption

LEMMA TypeEnqueue ==
  ASSUME TypeOK, NEW i \in Items, Enqueue(i)
  PROVE  TypeOK'
<1>1. ASSUME NEW r \in Row PROVE [r EXCEPT !.status = "PENDING", !.due = TRUE] \in Row
  BY DEF Row
<1>2. row' \in [Items -> Row]
  BY <1>1 DEF TypeOK, Enqueue
<1> QED
  BY <1>2 DEF TypeOK, Enqueue

LEMMA TypeClock ==
  ASSUME TypeOK, Clock
  PROVE  TypeOK'
<1> USE DEF TypeOK
<1>a. ASSUME NEW r \in Row
      PROVE  [r EXCEPT !.due = TRUE] \in Row /\ [r EXCEPT !.stale = TRUE] \in Row
  BY DEF Row
<1>1. ASSUME NEW i \in Items, BecomeDue(i) PROVE TypeOK'
  BY <1>a, <1>1 DEF BecomeDue
<1>2. ASSUME NEW i \in Items, LeaseExpires(i) PROVE TypeOK'
  BY <1>a, <1>2 DEF LeaseExpires
<1> QED
  BY <1>1, <1>2 DEF Clock

LEMMA TypeRecover ==
  ASSUME TypeOK, NEW w \in Workers, Recover(w)
  PROVE  TypeOK'
<1>1. row' \in [Items -> Row]
  BY RecoveredType DEF TypeOK, Recover
<1>2. [worker[w] EXCEPT !.pc = "claim"] \in Worker
  BY WorkerFields DEF TypeOK
<1>3. worker' \in [Workers -> Worker]
  BY <1>2 DEF TypeOK, Recover
<1> QED
  BY <1>1, <1>3 DEF TypeOK, Recover

LEMMA TypeClaim ==
  ASSUME TypeOK, NEW w \in Workers, Claim(w)
  PROVE  TypeOK'
<1>1. PICK batch \in SUBSET Claimable :
        /\ row' = [i \in Items |->
                     IF i \in batch
                     THEN [row[i] EXCEPT !.status = "PROCESSING", !.attempts = @ + 1,
                                         !.stale = FALSE]
                     ELSE row[i]]
        /\ worker' = [worker EXCEPT ![w] =
                        WithNextOf(batch, [i \in Items |-> IF i \in batch THEN row'[i]
                                                                         ELSE NoRow])]
  BY DEF Claim
<1>2. ASSUME NEW i \in batch
      PROVE  [row[i] EXCEPT !.status = "PROCESSING", !.attempts = @ + 1, !.stale = FALSE]
               \in Row
  <2>1. i \in Items /\ row[i] \in Row /\ row[i].attempts < MaxAttempts
    BY DEF Claimable, TypeOK
  <2>2. row[i].attempts + 1 \in 0..MaxAttempts
    BY <2>1 DEF Row, OutboxAssumption
  <2> QED
    BY <2>1, <2>2 DEF Row
<1>3. row' \in [Items -> Row]
  BY <1>1, <1>2 DEF TypeOK
<1>4. [i \in Items |-> IF i \in batch THEN row'[i] ELSE NoRow] \in [Items -> Row]
  BY <1>3, NoRowType
<1>5. batch \in SUBSET Items
  BY DEF Claimable
<1>6. worker' \in [Workers -> Worker]
  BY <1>1, <1>4, <1>5, WithNextOfType DEF TypeOK
<1> QED
  BY <1>3, <1>6 DEF TypeOK, Claim

LEMMA TypeSkip ==
  ASSUME TypeOK, NEW w \in Workers, SkipDisabled(w) \/ SkipNoRecipient(w)
  PROVE  TypeOK'
<1> DEFINE me == worker[w]
<1>1. me \in Worker
  BY DEF TypeOK
<1>2. PICK outcome \in Outcomes :
        worker' = [worker EXCEPT ![w] =
          Step(me, me.delivered, me.outcomes \cup {outcome}, me.failed)]
  BY DEF SkipDisabled, SkipNoRecipient, Outcomes
<1>3. Step(me, me.delivered, me.outcomes \cup {outcome}, me.failed) \in Worker
  <2>1. me.outcomes \cup {outcome} \in SUBSET Outcomes
    BY <1>1, WorkerFields
  <2> QED
    BY <1>1, <2>1, StepType, WorkerFields
<1>4. worker' \in [Workers -> Worker]
  BY <1>2, <1>3 DEF TypeOK
<1>5. owed' \in [Items -> Confirmed]
  <2>1. owed' = [owed EXCEPT ![me.item][me.channel] = {}]
    BY DEF SkipDisabled, SkipNoRecipient
  <2> QED
    BY <2>1, OwedType DEF TypeOK
<1> QED
  BY <1>4, <1>5 DEF TypeOK, SkipDisabled, SkipNoRecipient

LEMMA TypeReject ==
  ASSUME TypeOK, NEW w \in Workers, Reject(w)
  PROVE  TypeOK'
<1>1. [worker[w] EXCEPT !.pc = "retry"] \in Worker
  BY WorkerFields DEF TypeOK
<1>2. worker' \in [Workers -> Worker]
  BY <1>1 DEF TypeOK, Reject
<1> QED
  BY <1>2 DEF TypeOK, Reject

LEMMA TypeMail ==
  ASSUME TypeOK, NEW w \in Workers, NEW to \in SUBSET Recipients, NEW ok \in SUBSET to,
         Mail(w, to, ok)
  PROVE  TypeOK'
<1> DEFINE me == worker[w]
           all == ToMail(me, to) \subseteq ok
           outcomes == IF all THEN me.outcomes \cup {"SENT"} ELSE me.outcomes
           delivered == [me.delivered EXCEPT ![me.channel] = @ \cup ok]
<1>1. me \in Worker
  BY DEF TypeOK
<1>2. outcomes \in SUBSET Outcomes /\ (me.failed \/ ~all) \in BOOLEAN
  BY <1>1 DEF Worker, Outcomes
<1>3. delivered \in Confirmed
  BY <1>1 DEF Worker, Confirmed
<1>4. worker' \in [Workers -> Worker]
  <2>1. worker' = [worker EXCEPT ![w] = Step(me, delivered, outcomes, me.failed \/ ~all)]
    BY Zenon DEF Mail
  <2> HIDE DEF delivered, outcomes, all
  <2>2. Step(me, delivered, outcomes, me.failed \/ ~all) \in Worker
    BY <1>1, <1>2, <1>3, StepType
  <2> QED
    BY <2>1, <2>2 DEF TypeOK
<1>5. sent' \in [Items -> [Channels -> [Recipients -> Nat]]]
  <2> DEFINE old == sent[me.item][me.channel]
             new == [r \in Recipients |-> IF r \in ok THEN old[r] + 1 ELSE old[r]]
  <2>1. ASSUME me.item \in Items, me.channel \in Channels PROVE new \in [Recipients -> Nat]
    <3>1. sent[me.item] \in [Channels -> [Recipients -> Nat]]
      BY <2>1 DEF TypeOK
    <3>2. old \in [Recipients -> Nat]
      BY <2>1, <3>1
    <3> HIDE DEF old
    <3> QED
      BY <3>2
  <2>2. sent' = [sent EXCEPT ![me.item][me.channel] = new]
    BY DEF Mail
  <2> HIDE DEF old, new
  <2> QED
    BY <2>1, <2>2 DEF TypeOK
<1>6. owed' \in [Items -> Confirmed]
  <2>1. owed' = [owed EXCEPT ![me.item][me.channel] = ToMail(me, to) \ ok]
    BY DEF Mail
  <2>2. ToMail(me, to) \ ok \in SUBSET Recipients
    BY DEF ToMail
  <2> QED
    BY <2>1, <2>2, OwedType DEF TypeOK
<1> QED
  BY <1>4, <1>5, <1>6 DEF TypeOK, Mail

LEMMA TypeChannelFails ==
  ASSUME TypeOK, NEW w \in Workers, ChannelFails(w)
  PROVE  TypeOK'
<1>1. worker[w] \in Worker
  BY DEF TypeOK
<1>2. Step(worker[w], worker[w].delivered, worker[w].outcomes, TRUE) \in Worker
  BY <1>1, StepType, WorkerFields
<1>3. worker' \in [Workers -> Worker]
  BY <1>2 DEF TypeOK, ChannelFails
<1>4. faults' \in 0..MaxFaults
  BY DEF TypeOK, ChannelFails, OutboxAssumption
<1> QED
  BY <1>3, <1>4 DEF TypeOK, ChannelFails

LEMMA TypeComplete ==
  ASSUME TypeOK, NEW w \in Workers, Complete(w)
  PROVE  TypeOK'
<1> DEFINE me == worker[w]
<1>1. me \in Worker
  BY DEF TypeOK
<1>2. row' \in [Items -> Row]
  <2>1. me.item \in Items => Completed(row[me.item], Summary(me.outcomes)) \in Row
    BY CompletedType, SummaryType DEF TypeOK
  <2> QED
    BY <2>1 DEF TypeOK, Complete
<1>3. worker' \in [Workers -> Worker]
  BY <1>1, NextItemType DEF TypeOK, Complete
<1> QED
  BY <1>2, <1>3 DEF TypeOK, Complete

LEMMA TypeRetryOrFail ==
  ASSUME TypeOK, NEW w \in Workers, RetryOrFail(w)
  PROVE  TypeOK'
<1> DEFINE me == worker[w]
           attempt == Attempt(me)
           delivered == IF me.failed THEN me.delivered ELSE row[me.item].delivered
<1>1. me \in Worker
  BY DEF TypeOK
<1>2. row' \in [Items -> Row]
  <2>1. row' = [row EXCEPT ![me.item] = RetriedOrFailed(row[me.item], attempt, delivered)]
    BY DEF RetryOrFail
  <2>2. me.item \in Items => delivered \in Confirmed
    BY <1>1 DEF TypeOK, Row, Worker
  <2> HIDE DEF attempt, delivered
  <2>3. me.item \in Items => RetriedOrFailed(row[me.item], attempt, delivered) \in Row
    BY <2>2, RetriedOrFailedType DEF TypeOK
  <2> QED
    BY <2>1, <2>3 DEF TypeOK
<1>3. worker' \in [Workers -> Worker]
  BY <1>1, NextItemType DEF TypeOK, RetryOrFail
<1> QED
  BY <1>2, <1>3 DEF TypeOK, RetryOrFail

LEMMA TypeInterrupted ==
  ASSUME TypeOK, NEW w \in Workers, CompleteFails(w) \/ IterationFails(w) \/ Crash(w)
  PROVE  TypeOK'
<1>1. worker' \in [Workers -> Worker]
  <2>1. [worker[w] EXCEPT !.pc = "retry"] \in Worker
    BY WorkerFields DEF TypeOK
  <2> QED
    BY <2>1, IdleWorkerType DEF TypeOK, CompleteFails, IterationFails, Crash
<1> QED
  BY <1>1 DEF TypeOK, CompleteFails, IterationFails, Crash, OutboxAssumption

LEMMA OutboxTypeInductive == TypeOK /\ [Next]_vars => TypeOK'
<1> SUFFICES ASSUME TypeOK, [Next]_vars PROVE TypeOK'
  OBVIOUS
<1>1. ASSUME NEW i \in Items, Enqueue(i) PROVE TypeOK'
  BY <1>1, TypeEnqueue
<1>2. CASE Clock
  BY <1>2, TypeClock
<1>3. ASSUME NEW w \in Workers, WorkerStep(w) PROVE TypeOK'
  BY <1>3, TypeRecover, TypeClaim, TypeReject, TypeSkip, TypeMail, TypeComplete, TypeRetryOrFail
     DEF WorkerStep, Deliver
<1>4. ASSUME NEW w \in Workers, ChannelFails(w) PROVE TypeOK'
  BY <1>4, TypeChannelFails
<1>5. ASSUME NEW w \in Workers, CompleteFails(w) \/ IterationFails(w) \/ Crash(w) PROVE TypeOK'
  BY <1>5, TypeInterrupted
<1>6. CASE UNCHANGED vars
  BY <1>6 DEF TypeOK, vars
<1> QED
  BY <1>1, <1>2, <1>3, <1>4, <1>5, <1>6 DEF Next

\* The table and the memory of the workers keep their types for any number of
\* workers and faults: no item gets more than NOTIFICATION_MAX_ATTEMPTS attempts.
THEOREM OutboxTypeCorrect == Spec => []TypeOK
BY OutboxTypeInit, OutboxTypeInductive, PTL DEF Spec

-----------------------------------------------------------------------------
(* The trace of an ended item *)

\* The statements that end, retry or recover an item look at its status first.
LEMMA EndedUntouched ==
  ASSUME NEW r, r.status \in EndedStatuses, NEW status, NEW attempt, NEW delivered
  PROVE  /\ Recovered(r) = r
         /\ Completed(r, status) = r
         /\ RetriedOrFailed(r, attempt, delivered) = r
BY DEF EndedStatuses, SkippedStatuses, Recovered, Completed, RetriedOrFailed

LEMMA EndedKept ==
  ASSUME TypeOK, [Next]_vars, NEW i \in Items, row[i].status \in EndedStatuses
  PROVE  row'[i] = row[i]
<1>1. row[i].status \notin {"NONE", "PENDING", "PROCESSING"}
  BY DEF EndedStatuses, SkippedStatuses
<1>2. ASSUME NEW j \in Items, Enqueue(j) \/ BecomeDue(j) \/ LeaseExpires(j)
      PROVE  row'[i] = row[i]
  BY <1>1, <1>2 DEF Enqueue, BecomeDue, LeaseExpires, TypeOK
<1>3. ASSUME NEW w \in Workers, Recover(w) PROVE row'[i] = row[i]
  BY <1>3, EndedUntouched DEF Recover
<1>4. ASSUME NEW w \in Workers, Claim(w) PROVE row'[i] = row[i]
  BY <1>1, <1>4 DEF Claim, Claimable
<1>5. ASSUME NEW w \in Workers, Complete(w) PROVE row'[i] = row[i]
  BY <1>5, EndedUntouched DEF Complete, TypeOK
<1>6. ASSUME NEW w \in Workers, RetryOrFail(w) PROVE row'[i] = row[i]
  <2> DEFINE me == worker[w]
             attempt == Attempt(me)
             delivered == IF me.failed THEN me.delivered ELSE row[me.item].delivered
  <2>1. row' = [row EXCEPT ![me.item] = RetriedOrFailed(row[me.item], attempt, delivered)]
    BY <1>6 DEF RetryOrFail
  <2> HIDE DEF attempt, delivered
  <2>2. RetriedOrFailed(row[i], attempt, delivered) = row[i]
    BY EndedUntouched
  <2> QED
    BY <2>1, <2>2 DEF TypeOK
<1>7. ASSUME NEW w \in Workers,
             \/ Deliver(w)
             \/ ChannelFails(w) \/ CompleteFails(w) \/ IterationFails(w) \/ Crash(w)
      PROVE  row'[i] = row[i]
  BY <1>7 DEF Deliver, Reject, SkipDisabled, SkipNoRecipient, Mail, ChannelFails, CompleteFails,
              IterationFails, Crash
<1>8. CASE UNCHANGED vars
  BY <1>8 DEF vars
<1> QED
  BY <1>2, <1>3, <1>4, <1>5, <1>6, <1>7, <1>8 DEF Next, Clock, WorkerStep

\* However many workers share the table and whatever lease was taken over, an
\* ended item is never written again.
THEOREM EndedFinal == Spec => EndedIsFinal
<1>1. TypeOK /\ [Next]_vars =>
        [\A i \in Items : row[i].status \in EndedStatuses => row'[i] = row[i]]_vars
  BY EndedKept
<1> QED
  BY <1>1, OutboxTypeCorrect, PTL DEF Spec, EndedIsFinal

-----------------------------------------------------------------------------
(* What is recorded as delivered *)

\* Given what was sent, all that a map of confirmations claims for item i was
\* accepted by the relay.
Accepted(out, i, delivered) ==
  \A c \in Channels : \A r \in delivered[c] : out[i][c][r] > 0

\* So was what a worker remembers of the rows it claimed, and of the item in
\* its hands.
WorkerAccepted(out, me) ==
  /\ \A i \in Items : Accepted(out, i, me.seen[i].delivered)
  /\ me.item \in Items => Accepted(out, me.item, me.delivered)

AcceptedInv ==
  /\ \A i \in Items : Accepted(sent, i, row[i].delivered)
  /\ \A w \in Workers : WorkerAccepted(sent, worker[w])

LEMMA NoneAccepted == \A out, i : Accepted(out, i, NoneConfirmed)
BY DEF Accepted, NoneConfirmed

LEMMA IdleAccepted == \A out : WorkerAccepted(out, IdleWorker)
BY NoneAccepted DEF WorkerAccepted, IdleWorker, NoRow, OutboxAssumption

LEMMA WithNextOfAccepted ==
  ASSUME NEW out, NEW batch \in SUBSET Items, NEW seen \in [Items -> Row],
         \A i \in Items : Accepted(out, i, seen[i].delivered)
  PROVE  WorkerAccepted(out, WithNextOf(batch, seen))
<1>1. CASE batch = {}
  BY <1>1, IdleAccepted DEF WithNextOf
<1>2. CASE batch # {}
  <2> DEFINE i == CHOOSE j \in batch : \A k \in batch : j <= k
  <2>1. i \in Items
    BY <1>2, SmallestOfBatch
  <2>2. WithNextOf(batch, seen) =
          [pc |-> "deliver", batch |-> batch, seen |-> seen, item |-> i, channel |-> 1,
           delivered |-> seen[i].delivered, outcomes |-> {}, failed |-> FALSE]
    BY <1>2 DEF WithNextOf
  <2> HIDE DEF i
  <2> QED
    BY <2>1, <2>2 DEF WorkerAccepted
<1> QED
  BY <1>1, <1>2

LEMMA NextItemAccepted ==
  ASSUME NEW out, NEW me \in Worker, WorkerAccepted(out, me)
  PROVE  WorkerAccepted(out, NextItem(me))
<1> DEFINE seen == [me.seen EXCEPT ![me.item] = NoRow]
<1>1. me.batch \ {me.item} \in SUBSET Items /\ seen \in [Items -> Row]
  BY NoRowType DEF Worker
<1>2. ASSUME NEW i \in Items PROVE Accepted(out, i, seen[i].delivered)
  <2>1. seen[i] = IF i = me.item THEN NoRow ELSE me.seen[i]
    BY DEF Worker
  <2> QED
    BY <2>1, NoneAccepted DEF WorkerAccepted, NoRow
<1> HIDE DEF seen
<1>3. WorkerAccepted(out, WithNextOf(me.batch \ {me.item}, seen))
  BY <1>1, <1>2, WithNextOfAccepted
<1> QED
  BY <1>3 DEF NextItem, seen

LEMMA StepAccepted ==
  ASSUME NEW out, NEW me \in Worker, WorkerAccepted(out, me),
         NEW delivered, me.item \in Items => Accepted(out, me.item, delivered),
         NEW outcomes, NEW failed
  PROVE  WorkerAccepted(out, Step(me, delivered, outcomes, failed))
<1> DEFINE next == Step(me, delivered, outcomes, failed)
<1>1. next.seen = me.seen /\ next.item = me.item /\ next.delivered = delivered
  BY DEF Step, Worker
<1> HIDE DEF next
<1>2. WorkerAccepted(out, next)
  BY <1>1 DEF WorkerAccepted
<1> QED
  BY <1>2 DEF next

\* Messages are never taken back.
Sent == [Items -> [Channels -> [Recipients -> Nat]]]

Grows(out, more) ==
  \A i \in Items, c \in Channels, r \in Recipients : out[i][c][r] <= more[i][c][r]

LEMMA AcceptedGrows ==
  ASSUME NEW out \in Sent, NEW more \in Sent, Grows(out, more),
         NEW i \in Items, NEW delivered \in Confirmed, Accepted(out, i, delivered)
  PROVE  Accepted(more, i, delivered)
<1>1. ASSUME NEW c \in Channels, NEW r \in delivered[c]
      PROVE  more[i][c][r] > 0
  <2>1. r \in Recipients
    BY <1>1 DEF Confirmed
  <2>2. out[i] \in [Channels -> [Recipients -> Nat]] /\ more[i] \in [Channels -> [Recipients -> Nat]]
    BY DEF Sent
  <2>3. out[i][c] \in [Recipients -> Nat] /\ more[i][c] \in [Recipients -> Nat]
    BY <1>1, <2>2
  <2>4. out[i][c][r] \in Nat /\ more[i][c][r] \in Nat
    BY <2>1, <2>3
  <2>5. out[i][c][r] > 0 /\ out[i][c][r] <= more[i][c][r]
    BY <1>1, <2>1 DEF Accepted, Grows
  <2> QED
    BY <2>4, <2>5
<1> QED
  BY <1>1 DEF Accepted

LEMMA WorkerAcceptedGrows ==
  ASSUME NEW out \in Sent, NEW more \in Sent, Grows(out, more),
         NEW me \in Worker, WorkerAccepted(out, me)
  PROVE  WorkerAccepted(more, me)
<1>1. me.delivered \in Confirmed /\ \A i \in Items : me.seen[i].delivered \in Confirmed
  BY DEF Worker, Row
<1> QED
  BY <1>1, AcceptedGrows DEF WorkerAccepted

\* Confirmations are written by the retry of an attempt only.
LEMMA SameConfirmations ==
  ASSUME NEW r \in Row, NEW status, NEW attempt, NEW delivered, NEW n
  PROVE  /\ [r EXCEPT !.status = "PENDING", !.due = TRUE].delivered = r.delivered
         /\ [r EXCEPT !.due = TRUE].delivered = r.delivered
         /\ [r EXCEPT !.stale = TRUE].delivered = r.delivered
         /\ [r EXCEPT !.status = "PROCESSING", !.attempts = n, !.stale = FALSE].delivered
              = r.delivered
         /\ Recovered(r).delivered = r.delivered
         /\ Completed(r, status).delivered = r.delivered
         /\ RetriedOrFailed(r, attempt, delivered).delivered \in {r.delivered, delivered}
BY DEF Row, Recovered, Completed, RetriedOrFailed

\* Mailing adds messages, and all the addresses it confirms were accepted.
LEMMA MailAccepted ==
  ASSUME TypeOK, AcceptedInv, NEW w \in Workers, NEW to \in SUBSET Recipients,
         NEW ok \in SUBSET to, Mail(w, to, ok)
  PROVE  AcceptedInv'
<1> DEFINE me == worker[w]
           all == ToMail(me, to) \subseteq ok
           outcomes == IF all THEN me.outcomes \cup {"SENT"} ELSE me.outcomes
           delivered == [me.delivered EXCEPT ![me.channel] = @ \cup ok]
           old == sent[me.item][me.channel]
           new == [r \in Recipients |-> IF r \in ok THEN old[r] + 1 ELSE old[r]]
<1>1. sent \in Sent /\ sent' \in Sent
  BY TypeMail DEF Sent, TypeOK
<1>2. sent' = [sent EXCEPT ![me.item][me.channel] = new]
  BY DEF Mail
<1>3. ASSUME me.item \in Items, me.channel \in Channels
      PROVE  \A r \in Recipients : old[r] \in Nat /\ (r \in ok => old[r] + 1 > 0)
  <2>1. sent[me.item] \in [Channels -> [Recipients -> Nat]]
    BY <1>1, <1>3 DEF Sent
  <2>2. old \in [Recipients -> Nat]
    BY <1>3, <2>1
  <2> HIDE DEF old
  <2> QED
    BY <2>2
<1>4. ASSUME NEW i \in Items, NEW c \in Channels
      PROVE  sent'[i][c] = IF i = me.item /\ c = me.channel THEN new ELSE sent[i][c]
  <2>1. sent[i] \in [Channels -> [Recipients -> Nat]]
    BY <1>1 DEF Sent
  <2> HIDE DEF new
  <2> QED
    BY <1>1, <1>2, <2>1 DEF Sent
<1>5. Grows(sent, sent')
  <2>1. ASSUME NEW i \in Items, NEW c \in Channels, NEW r \in Recipients
        PROVE  sent[i][c][r] <= sent'[i][c][r]
    <3>1. sent[i] \in [Channels -> [Recipients -> Nat]]
      BY <1>1 DEF Sent
    <3>2. sent[i][c] \in [Recipients -> Nat]
      BY <3>1
    <3>3. sent[i][c][r] \in Nat
      BY <3>2
    <3>4. CASE i = me.item /\ c = me.channel
      <4>1. sent'[i][c] = new /\ old = sent[i][c]
        BY <1>4, <3>4
      <4> HIDE DEF old
      <4>2. sent'[i][c][r] = IF r \in ok THEN old[r] + 1 ELSE old[r]
        BY <4>1
      <4> QED
        BY <3>3, <4>1, <4>2
    <3>5. CASE ~(i = me.item /\ c = me.channel)
      <4>1. sent'[i][c][r] = sent[i][c][r]
        BY <1>4, <3>5
      <4> QED
        BY <3>3, <4>1
    <3> QED
      BY <3>4, <3>5
  <2> QED
    BY <2>1 DEF Grows
<1>6. \A i \in Items : Accepted(sent', i, row'[i].delivered)
  <2>1. row' = row /\ \A i \in Items : row[i].delivered \in Confirmed
    BY DEF Mail, TypeOK, Row
  <2> QED
    BY <1>1, <1>5, <2>1, AcceptedGrows DEF AcceptedInv
<1>7. \A v \in Workers : WorkerAccepted(sent', worker[v])
  BY <1>1, <1>5, WorkerAcceptedGrows DEF AcceptedInv, TypeOK
<1>8. ASSUME me.item \in Items PROVE Accepted(sent', me.item, delivered)
  <2>1. ASSUME NEW c \in Channels, NEW r \in delivered[c]
        PROVE  sent'[me.item][c][r] > 0
    <3>1. delivered[c] = IF c = me.channel THEN me.delivered[c] \cup ok ELSE me.delivered[c]
      BY DEF TypeOK, Worker, Confirmed
    <3>2. CASE r \in me.delivered[c]
      BY <1>7, <1>8, <3>2 DEF WorkerAccepted, Accepted
    <3>3. CASE c = me.channel /\ r \in ok
      <4>1. sent'[me.item][c] = new /\ r \in Recipients
        BY <1>4, <1>8, <3>3
      <4>2. sent'[me.item][c][r] = old[r] + 1
        BY <3>3, <4>1
      <4> QED
        BY <1>3, <1>8, <3>3, <4>1, <4>2
    <3> HIDE DEF delivered
    <3> QED
      BY <2>1, <3>1, <3>2, <3>3
  <2> HIDE DEF delivered
  <2> QED
    BY <2>1 DEF Accepted
<1>9. worker' = [worker EXCEPT ![w] = Step(me, delivered, outcomes, me.failed \/ ~all)]
  BY Zenon DEF Mail
<1>10. WorkerAccepted(sent', Step(me, delivered, outcomes, me.failed \/ ~all))
  <2>1. me \in Worker /\ WorkerAccepted(sent', me)
    BY <1>7 DEF TypeOK
  <2> HIDE DEF delivered, outcomes, all, me
  <2> QED
    BY <1>8, <2>1, StepAccepted
<1> HIDE DEF delivered, outcomes, all
<1>11. \A v \in Workers : WorkerAccepted(sent', worker'[v])
  BY <1>7, <1>9, <1>10 DEF TypeOK
<1> QED
  BY <1>6, <1>11 DEF AcceptedInv

LEMMA SkipAccepted ==
  ASSUME TypeOK, AcceptedInv, NEW w \in Workers,
         SkipDisabled(w) \/ SkipNoRecipient(w) \/ ChannelFails(w)
  PROVE  AcceptedInv'
<1> DEFINE me == worker[w]
<1>1. PICK outcomes, failed :
        worker' = [worker EXCEPT ![w] = Step(me, me.delivered, outcomes, failed)]
  BY DEF SkipDisabled, SkipNoRecipient, ChannelFails
<1>2. WorkerAccepted(sent, Step(me, me.delivered, outcomes, failed))
  BY StepAccepted DEF AcceptedInv, TypeOK, WorkerAccepted
<1> HIDE DEF me
<1>3. \A v \in Workers : WorkerAccepted(sent, worker'[v])
  BY <1>1, <1>2 DEF AcceptedInv, TypeOK
<1>4. row' = row /\ sent' = sent
  BY DEF SkipDisabled, SkipNoRecipient, ChannelFails
<1> QED
  BY <1>3, <1>4 DEF AcceptedInv

LEMMA RecoverAccepted ==
  ASSUME TypeOK, AcceptedInv, NEW w \in Workers, Recover(w)
  PROVE  AcceptedInv'
<1>1. \A i \in Items : row'[i].delivered = row[i].delivered
  BY SameConfirmations DEF Recover, TypeOK
<1>2. WorkerAccepted(sent, [worker[w] EXCEPT !.pc = "claim"])
  BY DEF AcceptedInv, WorkerAccepted, TypeOK, Worker
<1>3. \A v \in Workers : WorkerAccepted(sent, worker'[v])
  BY <1>2 DEF Recover, AcceptedInv, TypeOK
<1> QED
  BY <1>1, <1>3 DEF AcceptedInv, Recover

LEMMA ClaimAccepted ==
  ASSUME TypeOK, AcceptedInv, NEW w \in Workers, Claim(w)
  PROVE  AcceptedInv'
<1>1. PICK batch \in SUBSET Claimable :
        /\ row' = [i \in Items |->
                     IF i \in batch
                     THEN [row[i] EXCEPT !.status = "PROCESSING", !.attempts = @ + 1,
                                         !.stale = FALSE]
                     ELSE row[i]]
        /\ worker' = [worker EXCEPT ![w] =
                        WithNextOf(batch, [i \in Items |-> IF i \in batch THEN row'[i]
                                                                         ELSE NoRow])]
  BY DEF Claim
<1> DEFINE seen == [i \in Items |-> IF i \in batch THEN row'[i] ELSE NoRow]
<1>2. \A i \in Items : row'[i].delivered = row[i].delivered
  BY <1>1, SameConfirmations DEF TypeOK
<1>3. seen \in [Items -> Row]
  BY TypeClaim, NoRowType DEF TypeOK
<1>4. \A i \in Items : Accepted(sent, i, seen[i].delivered)
  BY <1>2, NoneAccepted DEF AcceptedInv, NoRow
<1>5. worker' = [worker EXCEPT ![w] = WithNextOf(batch, seen)]
  BY <1>1
<1> HIDE DEF seen
<1>6. WorkerAccepted(sent, WithNextOf(batch, seen))
  BY <1>3, <1>4, WithNextOfAccepted DEF Claimable
<1>7. \A v \in Workers : WorkerAccepted(sent, worker'[v])
  BY <1>5, <1>6 DEF AcceptedInv, TypeOK
<1> QED
  BY <1>2, <1>7 DEF AcceptedInv, Claim

LEMMA EndAccepted ==
  ASSUME TypeOK, AcceptedInv, NEW w \in Workers, Complete(w) \/ RetryOrFail(w)
  PROVE  AcceptedInv'
<1> DEFINE me == worker[w]
<1>1. me \in Worker /\ WorkerAccepted(sent, me)
  BY DEF AcceptedInv, TypeOK
<1>2. ASSUME NEW i \in Items
      PROVE  \/ row'[i].delivered = row[i].delivered
             \/ i = me.item /\ row'[i].delivered = me.delivered
  <2>1. CASE Complete(w)
    <3>1. row' = [row EXCEPT ![me.item] = Completed(row[me.item], Summary(me.outcomes))]
      BY <2>1 DEF Complete
    <3> HIDE DEF me
    <3>2. row[i] \in Row
      BY DEF TypeOK
    <3>3. row'[i] = row[i] \/ row'[i] = Completed(row[i], Summary(me.outcomes))
      BY <3>1 DEF TypeOK
    <3> QED
      BY <3>2, <3>3, SameConfirmations
  <2>2. CASE RetryOrFail(w)
    <3> DEFINE attempt == Attempt(me)
               delivered == IF me.failed THEN me.delivered ELSE row[me.item].delivered
    <3>1. row' = [row EXCEPT ![me.item] = RetriedOrFailed(row[me.item], attempt, delivered)]
      BY <2>2 DEF RetryOrFail
    <3>2. delivered \in {me.delivered, row[me.item].delivered}
      OBVIOUS
    <3> HIDE DEF attempt, delivered, me
    <3>3. row[i] \in Row
      BY DEF TypeOK
    <3>4. \/ row'[i] = row[i]
          \/ i = me.item /\ row'[i] = RetriedOrFailed(row[i], attempt, delivered)
      BY <3>1 DEF TypeOK
    <3>5. RetriedOrFailed(row[i], attempt, delivered).delivered
            \in {row[i].delivered, delivered}
      BY <3>3, SameConfirmations
    <3> QED
      BY <3>2, <3>4, <3>5
  <2> QED
    BY <2>1, <2>2
<1>3. \A i \in Items : Accepted(sent, i, row'[i].delivered)
  BY <1>1, <1>2 DEF AcceptedInv, WorkerAccepted
<1>4. worker' = [worker EXCEPT ![w] = NextItem(me)] /\ sent' = sent
  BY DEF Complete, RetryOrFail
<1> HIDE DEF me
<1>5. \A v \in Workers : WorkerAccepted(sent, worker'[v])
  BY <1>1, <1>4, NextItemAccepted DEF AcceptedInv, TypeOK
<1> QED
  BY <1>3, <1>4, <1>5 DEF AcceptedInv

LEMMA InterruptedAccepted ==
  ASSUME TypeOK, AcceptedInv, NEW w \in Workers,
         Reject(w) \/ CompleteFails(w) \/ IterationFails(w) \/ Crash(w)
  PROVE  AcceptedInv'
<1>1. WorkerAccepted(sent, [worker[w] EXCEPT !.pc = "retry"])
  BY DEF AcceptedInv, WorkerAccepted, TypeOK, Worker
<1>2. \A v \in Workers : WorkerAccepted(sent, worker'[v])
  <2>1. \/ worker' = [worker EXCEPT ![w] = IdleWorker]
        \/ worker' = [worker EXCEPT ![w] = [worker[w] EXCEPT !.pc = "retry"]]
    BY DEF Reject, CompleteFails, IterationFails, Crash
  <2>2. ASSUME NEW v \in Workers
        PROVE  \/ worker'[v] = worker[v]
               \/ worker'[v] = IdleWorker
               \/ worker'[v] = [worker[w] EXCEPT !.pc = "retry"]
    BY <2>1 DEF TypeOK
  <2>3. \A v \in Workers : WorkerAccepted(sent, worker[v])
    BY DEF AcceptedInv
  <2> QED
    BY <1>1, <2>2, <2>3, IdleAccepted
<1> QED
  BY <1>2 DEF AcceptedInv, Reject, CompleteFails, IterationFails, Crash

LEMMA TableAccepted ==
  ASSUME TypeOK, AcceptedInv, NEW i \in Items, Enqueue(i) \/ BecomeDue(i) \/ LeaseExpires(i)
  PROVE  AcceptedInv'
<1>1. \A j \in Items : row'[j].delivered = row[j].delivered
  <2>1. ASSUME NEW j \in Items PROVE row'[j].delivered = row[j].delivered
    <3>1. row[j] \in Row
      BY DEF TypeOK
    <3>2. \/ row'[j] = row[j]
          \/ row'[j] = [row[j] EXCEPT !.status = "PENDING", !.due = TRUE]
          \/ row'[j] = [row[j] EXCEPT !.due = TRUE]
          \/ row'[j] = [row[j] EXCEPT !.stale = TRUE]
      BY DEF Enqueue, BecomeDue, LeaseExpires, TypeOK
    <3> QED
      BY <3>1, <3>2 DEF Row
  <2> QED
    BY <2>1
<1> QED
  BY <1>1 DEF AcceptedInv, Enqueue, BecomeDue, LeaseExpires

LEMMA AcceptedInductive == TypeOK /\ AcceptedInv /\ [Next]_vars => AcceptedInv'
<1> SUFFICES ASSUME TypeOK, AcceptedInv, [Next]_vars PROVE AcceptedInv'
  OBVIOUS
<1>1. CASE UNCHANGED vars
  BY <1>1 DEF AcceptedInv, vars
<1>2. ASSUME NEW w \in Workers, WorkerStep(w) PROVE AcceptedInv'
  BY <1>2, RecoverAccepted, ClaimAccepted, InterruptedAccepted, SkipAccepted,
     MailAccepted, EndAccepted
     DEF WorkerStep, Deliver
<1> QED
  BY <1>1, <1>2, TableAccepted, SkipAccepted, InterruptedAccepted DEF Next, Clock

LEMMA AcceptedInit == Init => AcceptedInv
BY NoneAccepted, IdleAccepted DEF Init, AcceptedInv, NoRow

\* What the table records as delivered was accepted by the relay, although the
\* workers overwrite each other's confirmations when leases expire.
THEOREM DeliveredAccepted == Spec => []DeliveredWasAccepted
<1>1. AcceptedInv => DeliveredWasAccepted
  BY DEF AcceptedInv, Accepted, DeliveredWasAccepted
<1> QED
  BY <1>1, AcceptedInit, AcceptedInductive, OutboxTypeCorrect, PTL DEF Spec

-----------------------------------------------------------------------------
(* One worker.  The backend runs a single one, and what follows is only true *)
(* of it: with two, a lease that expires lets both mail the same item.       *)

Busy == {"deliver", "finish", "retry"}

\* Where a worker is agrees with what it holds; a channel that is not run yet
\* knows the confirmations of the claimed row.
InPlace(me) ==
  /\ me.pc \notin Busy => me.batch = {}
  /\ me.pc \in Busy => me.item \in me.batch
  /\ me.pc = "deliver" =>
       /\ me.channel \in 1..ChannelCount[me.item]
       /\ \A c \in Channels : c >= me.channel => me.delivered[c] = me.seen[me.item].delivered[c]
  /\ me.pc = "finish" => ~me.failed /\ me.channel > ChannelCount[me.item]

\* The rows of its batch are still as it claimed them.
Held(rows, me) ==
  \A i \in me.batch :
    /\ rows[i].status = "PROCESSING"
    /\ me.seen[i].attempts = rows[i].attempts
    /\ me.seen[i].delivered = rows[i].delivered

HandInv(w) == InPlace(worker[w]) /\ Held(row, worker[w])

\* The confirmations that the next attempt on item i, of row r, excludes: those
\* in hand, but for the ones that a failed completion forgets, or those of the
\* row; an ended item is not attempted again.
Known(r, me, i) ==
  IF me.pc \in Busy /\ me.item = i
  THEN IF me.pc = "retry" /\ ~me.failed THEN NoneConfirmed ELSE me.delivered
  ELSE IF r.status \in EndedStatuses THEN [c \in Channels |-> Recipients] ELSE r.delivered

Lost == crashes + faults

\* Each message was accepted once for each interruption, and once more if it is
\* known.
RepeatInv(w) ==
  \A i \in Items, c \in Channels, r \in Recipients :
    sent[i][c][r] <= Lost + (IF r \in Known(row[i], worker[w], i)[c] THEN 1 ELSE 0)

\* While no channel of the attempt failed, none of those that were run owes.
OwedInv(w) ==
  /\ CompletedOwesNothing
  /\ \A i \in Items, c \in Channels : c > ChannelCount[i] => owed[i][c] = {}
  /\ worker[w].pc \in {"deliver", "finish"} /\ ~worker[w].failed =>
       \A c \in Channels : c < worker[w].channel => owed[worker[w].item][c] = {}

\* A row that is enqueued was never attempted, one that waits has an attempt
\* left, and one whose source is coherent fails at the last.
AttemptsInv ==
  \A i \in Items :
    /\ row[i].status = "NONE" => row[i].attempts = 0
    /\ row[i].status = "PENDING" => row[i].attempts < MaxAttempts
    /\ row[i].status = "FAILED" => row[i].attempts = MaxAttempts \/ i \in Incoherent

\* Each attempt on an incoherent item was interrupted, but for the one in hand
\* or that ended it, and nothing is mailed of it.
RejectInv(w) ==
  \A i \in Incoherent :
    /\ row[i].attempts <=
         Lost + (IF i \in worker[w].batch \/ row[i].status \in EndedStatuses THEN 1 ELSE 0)
    /\ \A c \in Channels, r \in Recipients : sent[i][c][r] = 0

OneInv(w) == HandInv(w) /\ AttemptsInv /\ RejectInv(w) /\ OwedInv(w) /\ RepeatInv(w)

\* The channels of an item are numbered from 1.
LEMMA ChannelNumbers ==
  /\ Channels \subseteq Nat \ {0}
  /\ \A i \in Items : 1..ChannelCount[i] \subseteq Channels /\ ChannelCount[i] \in Nat \ {0}
<1>1. \A i \in Items : ChannelCount[i] \in Nat \ {0}
  BY OutboxAssumption
<1>2. ASSUME NEW c \in Channels PROVE c \in Nat \ {0}
  <2>1. PICK i \in Items : c \in 1..ChannelCount[i]
    BY DEF Channels
  <2> QED
    BY <1>1, <2>1
<1>3. \A i \in Items : 1..ChannelCount[i] \subseteq Channels
  BY Zenon DEF Channels
<1> QED
  BY <1>1, <1>2, <1>3

\* Taking the next item starts it from its claimed row.
LEMMA WithNextOfShape ==
  ASSUME NEW batch \in SUBSET Items, NEW seen \in [Items -> Row], NEW me,
         me = WithNextOf(batch, seen)
  PROVE  /\ InPlace(me)
         /\ me.batch = batch
         /\ me.pc \in {"idle", "deliver"}
         /\ me.pc = "deliver" => /\ me.seen = seen /\ me.item \in batch /\ me.channel = 1
                                 /\ me.delivered = seen[me.item].delivered
<1>1. CASE batch = {}
  BY <1>1 DEF WithNextOf, IdleWorker, InPlace, Busy
<1>2. CASE batch # {}
  <2> DEFINE i == CHOOSE j \in batch : \A k \in batch : j <= k
  <2>1. i \in batch
    BY <1>2, SmallestOfBatch
  <2>2. me =
          [pc |-> "deliver", batch |-> batch, seen |-> seen, item |-> i, channel |-> 1,
           delivered |-> seen[i].delivered, outcomes |-> {}, failed |-> FALSE]
    BY <1>2 DEF WithNextOf
  <2> HIDE DEF i
  <2> QED
    BY <2>1, <2>2, ChannelNumbers DEF InPlace, Busy
<1> QED
  BY <1>1, <1>2

\* Running a channel changes what was delivered, and moves to the next one.
LEMMA StepShape ==
  ASSUME NEW me \in Worker, me.pc = "deliver", InPlace(me),
         NEW delivered, NEW outcomes, NEW failed \in BOOLEAN, NEW next,
         next = Step(me, delivered, outcomes, failed),
         \A c \in Channels : c > me.channel => delivered[c] = me.delivered[c]
  PROVE  /\ next.batch = me.batch /\ next.seen = me.seen /\ next.item = me.item
         /\ next.delivered = delivered /\ next.failed = failed
         /\ next.channel = me.channel + 1
         /\ next.pc \in Busy /\ (next.pc = "retry" => failed)
         /\ InPlace(next)
<1>1. me.item \in Items /\ me.channel \in 1..ChannelCount[me.item] /\ me.item \in me.batch
  BY DEF InPlace, Worker, Busy
<1>2. /\ next.batch = me.batch /\ next.seen = me.seen /\ next.item = me.item
      /\ next.delivered = delivered /\ next.failed = failed
      /\ next.channel = me.channel + 1
  BY DEF Step, Worker
<1>3. next.pc = IF me.channel # ChannelCount[me.item] THEN "deliver"
                ELSE IF failed THEN "retry" ELSE "finish"
  BY DEF Step, Worker
<1>4. ChannelCount[me.item] \in Nat /\ Channels \subseteq Nat
  BY <1>1, ChannelNumbers
<1>5. ASSUME next.pc = "deliver", NEW c \in Channels, c >= next.channel
      PROVE  next.delivered[c] = next.seen[next.item].delivered[c]
  <2>1. c > me.channel /\ c >= me.channel
    BY <1>1, <1>2, <1>4, <1>5
  <2> QED
    BY <1>2, <2>1 DEF InPlace
<1>6. next.pc = "deliver" => next.channel \in 1..ChannelCount[next.item]
  BY <1>1, <1>2, <1>3, <1>4
<1>7. next.pc = "finish" => ~next.failed /\ next.channel > ChannelCount[next.item]
  BY <1>1, <1>2, <1>3, <1>4
<1>8. next.pc \in Busy /\ (next.pc = "retry" => failed)
  BY <1>3 DEF Busy
<1>9. InPlace(next)
  BY <1>1, <1>2, <1>5, <1>6, <1>7, <1>8 DEF InPlace
<1> QED
  BY <1>2, <1>8, <1>9

\* The counters are numbers.
LEMMA Counts ==
  ASSUME TypeOK
  PROVE  /\ Lost \in Nat
         /\ \A i \in Items, c \in Channels, r \in Recipients : sent[i][c][r] \in Nat
<1>1. ASSUME NEW i \in Items, NEW c \in Channels, NEW r \in Recipients
      PROVE  sent[i][c][r] \in Nat
  <2>1. sent[i] \in [Channels -> [Recipients -> Nat]]
    BY DEF TypeOK
  <2>2. sent[i][c] \in [Recipients -> Nat]
    BY <2>1
  <2> QED
    BY <2>2
<1>2. Lost \in Nat
  BY DEF TypeOK, Lost
<1> QED
  BY <1>1, <1>2

\* What bounds the messages is kept by a step that sends nothing and forgets no
\* confirmation, and by any interruption.
LEMMA NothingForgotten ==
  ASSUME TypeOK, NEW w \in Workers, RepeatInv(w), sent' = sent, Lost' = Lost,
         \A i \in Items, c \in Channels :
           Known(row[i], worker[w], i)[c] \subseteq Known(row'[i], worker'[w], i)[c]
  PROVE  RepeatInv(w)'
<1>1. ASSUME NEW i \in Items, NEW c \in Channels, NEW r \in Recipients
      PROVE  sent[i][c][r] <= Lost + (IF r \in Known(row'[i], worker'[w], i)[c] THEN 1 ELSE 0)
  <2>1. sent[i][c][r] \in Nat /\ Lost \in Nat
    BY Counts
  <2>2. sent[i][c][r] <= Lost + (IF r \in Known(row[i], worker[w], i)[c] THEN 1 ELSE 0)
    BY DEF RepeatInv
  <2>3. Known(row[i], worker[w], i)[c] \subseteq Known(row'[i], worker'[w], i)[c]
    OBVIOUS
  <2> QED
    BY <2>1, <2>2, <2>3
<1> QED
  BY <1>1 DEF RepeatInv

LEMMA OneMoreInterruption ==
  ASSUME TypeOK, NEW w \in Workers, RepeatInv(w), sent' = sent, Lost' = Lost + 1
  PROVE  RepeatInv(w)'
<1>1. ASSUME NEW i \in Items, NEW c \in Channels, NEW r \in Recipients
      PROVE  sent[i][c][r] <= Lost + 1 + (IF r \in Known(row'[i], worker'[w], i)[c] THEN 1 ELSE 0)
  <2>1. sent[i][c][r] \in Nat /\ Lost \in Nat
    BY Counts
  <2>2. sent[i][c][r] <= Lost + (IF r \in Known(row[i], worker[w], i)[c] THEN 1 ELSE 0)
    BY DEF RepeatInv
  <2> QED
    BY <2>1, <2>2
<1> QED
  BY <1>1 DEF RepeatInv

\* The same two steps keep what bounds the attempts on an incoherent item, when
\* they claim nothing and only drop from the batch what they end.
LEMMA SameAttempts ==
  ASSUME TypeOK, TypeOK', NEW w \in Workers, RejectInv(w), Lost' = Lost,
         \A i \in Incoherent :
           /\ row'[i].attempts = row[i].attempts /\ sent'[i] = sent[i]
           /\ i \in worker[w].batch => i \in worker'[w].batch \/ row'[i].status \in EndedStatuses
           /\ row[i].status \in EndedStatuses => row'[i].status \in EndedStatuses
  PROVE  RejectInv(w)'
<1>1. ASSUME NEW i \in Incoherent
      PROVE  row'[i].attempts <= Lost +
               (IF i \in worker'[w].batch \/ row'[i].status \in EndedStatuses THEN 1 ELSE 0)
  <2>1. row[i].attempts \in Nat /\ Lost \in Nat
    <3>1. row[i] \in Row
      BY DEF TypeOK
    <3> QED
      BY <3>1, Counts DEF Row
  <2>2. row[i].attempts <= Lost +
          (IF i \in worker[w].batch \/ row[i].status \in EndedStatuses THEN 1 ELSE 0)
    BY DEF RejectInv
  <2>3. \/ row'[i].attempts <= Lost
        \/ /\ row'[i].attempts <= Lost + 1
           /\ i \in worker'[w].batch \/ row'[i].status \in EndedStatuses
    BY <2>1, <2>2
  <2> QED
    BY <2>1, <2>3
<1> QED
  BY <1>1 DEF RejectInv

LEMMA InterruptedAttempts ==
  ASSUME TypeOK, NEW w \in Workers, RejectInv(w), Lost' = Lost + 1,
         \A i \in Incoherent : row'[i].attempts = row[i].attempts /\ sent'[i] = sent[i]
  PROVE  RejectInv(w)'
<1>1. ASSUME NEW i \in Incoherent
      PROVE  row'[i].attempts <= Lost + 1 +
               (IF i \in worker'[w].batch \/ row'[i].status \in EndedStatuses THEN 1 ELSE 0)
  <2>1. row[i].attempts \in Nat /\ Lost \in Nat
    <3>1. row[i] \in Row
      BY DEF TypeOK
    <3> QED
      BY <3>1, Counts DEF Row
  <2>2. row[i].attempts <= Lost +
          (IF i \in worker[w].batch \/ row[i].status \in EndedStatuses THEN 1 ELSE 0)
    BY DEF RejectInv
  <2>3. row'[i].attempts <= Lost + 1
    BY <2>1, <2>2
  <2> QED
    BY <2>1, <2>3
<1> QED
  BY <1>1 DEF RejectInv

\* The actions keep the invariant.
LEMMA TableOne ==
  ASSUME TypeOK, TypeOK', NEW w \in Workers, OneInv(w),
         NEW i \in Items, Enqueue(i) \/ BecomeDue(i) \/ LeaseExpires(i)
  PROVE  OneInv(w)'
<1>1. ASSUME NEW j \in Items
      PROVE  /\ row'[j].attempts = row[j].attempts
             /\ row'[j].delivered = row[j].delivered
             /\ \/ row'[j].status = row[j].status
                \/ row[j].status = "NONE" /\ row'[j].status = "PENDING"
  <2>1. row[j] \in Row
    BY DEF TypeOK
  <2>2. \/ row'[j] = row[j]
        \/ row[j].status = "NONE" /\ row'[j] = [row[j] EXCEPT !.status = "PENDING", !.due = TRUE]
        \/ row'[j] = [row[j] EXCEPT !.due = TRUE]
        \/ row'[j] = [row[j] EXCEPT !.stale = TRUE]
    BY DEF Enqueue, BecomeDue, LeaseExpires, TypeOK
  <2> QED
    BY <2>1, <2>2 DEF Row
<1>2. worker' = worker /\ sent' = sent /\ owed' = owed /\ crashes' = crashes /\ faults' = faults
  BY DEF Enqueue, BecomeDue, LeaseExpires
<1>3. HandInv(w)'
  <2>1. worker[w].batch \subseteq Items
    BY DEF TypeOK, Worker
  <2> QED
    BY <1>1, <1>2, <2>1 DEF OneInv, HandInv, Held
<1>4. AttemptsInv'
  <2>1. 0 < MaxAttempts
    OBVIOUS
  <2>2. ASSUME NEW j \in Items
        PROVE  /\ row'[j].status = "PENDING" => row'[j].attempts < MaxAttempts
               /\ row'[j].status = "FAILED" => row'[j].attempts = MaxAttempts \/ j \in Incoherent
               /\ row'[j].status = "NONE" => row'[j].attempts = 0
    BY <1>1, <2>1, <2>2 DEF OneInv, AttemptsInv
  <2> QED
    BY <2>2 DEF AttemptsInv
<1>5. OwedInv(w)'
  BY <1>1, <1>2 DEF OneInv, OwedInv, CompletedOwesNothing
<1>6. RepeatInv(w)'
  <2>1. ASSUME NEW j \in Items
        PROVE  Known(row'[j], worker'[w], j) = Known(row[j], worker[w], j)
    BY <1>1, <1>2 DEF Known, EndedStatuses, SkippedStatuses
  <2>2. Lost' = Lost
    BY <1>2 DEF Lost
  <2> QED
    BY <1>2, <2>1, <2>2, NothingForgotten DEF OneInv
<1>7. RejectInv(w)'
  <2>1. \A j \in Incoherent : row[j].status \in EndedStatuses => row'[j].status \in EndedStatuses
    BY <1>1 DEF EndedStatuses, SkippedStatuses
  <2> QED
    BY <1>1, <1>2, <2>1, SameAttempts DEF OneInv, Lost
<1> QED
  BY <1>3, <1>4, <1>5, <1>6, <1>7 DEF OneInv

LEMMA RecoverOne ==
  ASSUME TypeOK, TypeOK', NEW w \in Workers, OneInv(w), Recover(w)
  PROVE  OneInv(w)'
<1>1. /\ worker[w] \in Worker /\ worker[w].pc = "idle" /\ worker[w].batch = {}
      /\ worker'[w] = [worker[w] EXCEPT !.pc = "claim"]
  BY DEF OneInv, HandInv, InPlace, Busy, Recover, TypeOK
<1>2. worker'[w].pc = "claim" /\ worker'[w].batch = {}
  BY <1>1 DEF Worker
<1>3. HandInv(w)'
  BY <1>2 DEF HandInv, InPlace, Held, Busy
<1>4. ASSUME NEW i \in Items
      PROVE  /\ row[i] \in Row /\ row'[i] = Recovered(row[i])
             /\ row'[i].attempts = row[i].attempts
             /\ row'[i].delivered = row[i].delivered
             /\ \/ row'[i].status = row[i].status
                \/ row'[i].status = "PENDING" /\ row[i].attempts < MaxAttempts
                     /\ row[i].status = "PROCESSING"
                \/ row'[i].status = "FAILED" /\ row[i].attempts = MaxAttempts
  <2>1. row[i] \in Row /\ row'[i] = Recovered(row[i])
    BY DEF Recover, TypeOK
  <2>2. row[i].attempts \in 0..MaxAttempts
    BY <2>1 DEF Row
  <2> QED
    BY <2>1, <2>2 DEF Recovered, Row
<1>5. AttemptsInv'
  BY <1>4 DEF OneInv, AttemptsInv
<1>6. OwedInv(w)'
  BY <1>2, <1>4 DEF OneInv, OwedInv, CompletedOwesNothing, Recover
<1>7. RepeatInv(w)'
  <2>1. ASSUME NEW i \in Items, NEW c \in Channels
        PROVE  Known(row[i], worker[w], i)[c] \subseteq Known(row'[i], worker'[w], i)[c]
    <3>1. row[i].delivered[c] \subseteq Recipients
      BY <1>4 DEF Row, Confirmed
    <3> QED
      BY <1>1, <1>2, <1>4, <3>1 DEF Known, Busy, EndedStatuses, SkippedStatuses
  <2>2. sent' = sent /\ Lost' = Lost
    BY DEF Recover, Lost
  <2> QED
    BY <2>1, <2>2, NothingForgotten DEF OneInv
<1>8. RejectInv(w)'
  <2>1. \A i \in Incoherent :
          row[i].status \in EndedStatuses => row'[i].status \in EndedStatuses
    BY <1>4, EndedUntouched
  <2>2. sent' = sent /\ Lost' = Lost
    BY DEF Recover, Lost
  <2> QED
    BY <1>1, <1>4, <2>1, <2>2, SameAttempts DEF OneInv
<1> QED
  BY <1>3, <1>5, <1>6, <1>7, <1>8 DEF OneInv

LEMMA ClaimOne ==
  ASSUME TypeOK, TypeOK', NEW w \in Workers, OneInv(w), Claim(w)
  PROVE  OneInv(w)'
<1>1. PICK batch \in SUBSET Claimable :
        /\ row' = [i \in Items |->
                     IF i \in batch
                     THEN [row[i] EXCEPT !.status = "PROCESSING", !.attempts = @ + 1,
                                         !.stale = FALSE]
                     ELSE row[i]]
        /\ worker' = [worker EXCEPT ![w] =
                        WithNextOf(batch, [i \in Items |-> IF i \in batch THEN row'[i]
                                                                         ELSE NoRow])]
  BY DEF Claim
<1> DEFINE seen == [i \in Items |-> IF i \in batch THEN row'[i] ELSE NoRow]
<1>2. seen \in [Items -> Row]
  BY NoRowType DEF TypeOK
<1>3. worker'[w] = WithNextOf(batch, seen)
  BY <1>1 DEF TypeOK
<1>4. /\ worker[w].pc = "claim"
      /\ sent' = sent /\ owed' = owed /\ crashes' = crashes /\ faults' = faults
  BY DEF Claim
<1>5. \A i \in batch : seen[i] = row'[i] /\ i \in Items /\ row[i].status = "PENDING"
  BY DEF Claimable
<1> HIDE DEF seen
<1>6. batch \in SUBSET Items
  BY <1>5
<1>7. /\ InPlace(worker'[w])
      /\ worker'[w].batch = batch
      /\ worker'[w].pc \in {"idle", "deliver"}
      /\ worker'[w].pc = "deliver" =>
           /\ worker'[w].seen = seen /\ worker'[w].item \in batch /\ worker'[w].channel = 1
           /\ worker'[w].delivered = seen[worker'[w].item].delivered
  BY <1>2, <1>3, <1>6, WithNextOfShape
<1>8. ASSUME NEW i \in Items
      PROVE  /\ row'[i].delivered = row[i].delivered
             /\ i \in batch => row'[i].status = "PROCESSING" /\ row[i].status = "PENDING"
             /\ i \notin batch => row'[i] = row[i]
  <2>1. row[i] \in Row
    BY DEF TypeOK
  <2> QED
    BY <1>1, <1>5, <2>1 DEF Row
<1>9. HandInv(w)'
  <2>1. CASE worker'[w].pc = "idle"
    BY <1>7, <2>1 DEF HandInv, Held, InPlace, Busy
  <2>2. CASE worker'[w].pc = "deliver"
    <3>1. ASSUME NEW i \in worker'[w].batch
          PROVE  /\ row'[i].status = "PROCESSING"
                 /\ worker'[w].seen[i].attempts = row'[i].attempts
                 /\ worker'[w].seen[i].delivered = row'[i].delivered
      BY <1>5, <1>6, <1>7, <1>8, <2>2, <3>1
    <3>2. Held(row', worker'[w])
      BY <3>1 DEF Held
    <3> QED
      BY <1>7, <3>2 DEF HandInv
  <2> QED
    BY <1>7, <2>1, <2>2
<1>10. AttemptsInv'
  BY <1>8 DEF OneInv, AttemptsInv
<1>11. OwedInv(w)'
  <2>1. CompletedOwesNothing'
    BY <1>4, <1>8 DEF OneInv, OwedInv, CompletedOwesNothing
  <2>2. \A i \in Items, c \in Channels : c > ChannelCount[i] => owed'[i][c] = {}
    BY <1>4 DEF OneInv, OwedInv
  <2>3. worker'[w].pc = "deliver" => \A c \in Channels : ~(c < worker'[w].channel)
    BY <1>7, ChannelNumbers
  <2> QED
    BY <1>7, <2>1, <2>2, <2>3 DEF OwedInv
<1>12. RepeatInv(w)'
  <2>1. ASSUME NEW i \in Items
        PROVE  Known(row'[i], worker'[w], i) = Known(row[i], worker[w], i)
    <3>1. CASE i \in batch
      <4>1. Known(row[i], worker[w], i) = row[i].delivered
        BY <1>4, <1>8, <3>1 DEF Known, Busy, EndedStatuses, SkippedStatuses
      <4>2. worker'[w].pc = "deliver" /\ worker'[w].item = i
              => worker'[w].delivered = row'[i].delivered
        BY <1>5, <1>7, <3>1
      <4>3. Known(row'[i], worker'[w], i) = row'[i].delivered
        BY <1>7, <1>8, <3>1, <4>2 DEF Known, Busy, EndedStatuses, SkippedStatuses
      <4> QED
        BY <1>8, <4>1, <4>3
    <3>2. CASE i \notin batch
      BY <1>4, <1>7, <1>8, <3>2 DEF Known, Busy
    <3> QED
      BY <3>1, <3>2
  <2>2. Lost' = Lost
    BY <1>4 DEF Lost
  <2> QED
    BY <1>4, <2>1, <2>2, NothingForgotten DEF OneInv
<1>13. RejectInv(w)'
  <2>1. ASSUME NEW i \in Incoherent
        PROVE  row'[i].attempts <= Lost +
                 (IF i \in worker'[w].batch \/ row'[i].status \in EndedStatuses THEN 1 ELSE 0)
    <3>1. row[i] \in Row /\ row[i].attempts \in Nat /\ Lost \in Nat /\ i \in Items
      BY Counts DEF TypeOK, Row
    <3>2. i \notin worker[w].batch
      BY <1>4 DEF OneInv, HandInv, InPlace, Busy
    <3>3. row[i].attempts <= Lost + (IF row[i].status \in EndedStatuses THEN 1 ELSE 0)
      BY <3>2 DEF OneInv, RejectInv
    <3>4. CASE i \in batch
      <4>1. row[i].status \notin EndedStatuses
        BY <1>5, <3>4 DEF EndedStatuses, SkippedStatuses
      <4>2. row'[i].attempts = row[i].attempts + 1
        BY <1>1, <3>1, <3>4 DEF Row
      <4>3. i \in worker'[w].batch
        BY <1>7, <3>4
      <4> QED
        BY <3>1, <3>3, <4>1, <4>2, <4>3
    <3>5. CASE i \notin batch
      <4>1. row'[i] = row[i]
        BY <1>8, <3>1, <3>5
      <4> QED
        BY <3>1, <3>3, <4>1
    <3> QED
      BY <3>4, <3>5
  <2>2. Lost' = Lost /\ \A i \in Incoherent, c \in Channels, r \in Recipients : sent'[i][c][r] = 0
    BY <1>4 DEF OneInv, RejectInv, Lost
  <2> QED
    BY <2>1, <2>2 DEF RejectInv
<1> QED
  BY <1>9, <1>10, <1>11, <1>12, <1>13 DEF OneInv

\* Nothing is mailed of the item: what is known of the others is the same.
LEMMA RejectOne ==
  ASSUME TypeOK, TypeOK', NEW w \in Workers, OneInv(w), Reject(w)
  PROVE  OneInv(w)'
<1>1. /\ worker[w] \in Worker /\ worker[w].pc = "deliver" /\ worker[w].item \in Incoherent
      /\ row' = row /\ sent' = sent /\ owed' = owed /\ crashes' = crashes /\ faults' = faults
      /\ worker'[w] = [worker[w] EXCEPT !.pc = "retry"]
  BY DEF TypeOK, Reject
<1>2. /\ worker'[w].pc = "retry" /\ worker'[w].batch = worker[w].batch
      /\ worker'[w].item = worker[w].item /\ worker'[w].seen = worker[w].seen
  BY <1>1 DEF Worker
<1>3. HandInv(w)'
  BY <1>1, <1>2 DEF OneInv, HandInv, InPlace, Held, Busy
<1>4. AttemptsInv' /\ OwedInv(w)'
  BY <1>1, <1>2 DEF OneInv, AttemptsInv, OwedInv, CompletedOwesNothing
<1>5. Lost' = Lost /\ Lost \in Nat
  BY <1>1, Counts DEF Lost
<1>6. RejectInv(w)'
  BY <1>1, <1>2, <1>5, SameAttempts DEF OneInv
<1>7. RepeatInv(w)'
  <2>1. ASSUME NEW i \in Items, NEW c \in Channels, NEW r \in Recipients
        PROVE  sent'[i][c][r] <= Lost' + (IF r \in Known(row'[i], worker'[w], i)[c] THEN 1 ELSE 0)
    <3>1. CASE i = worker[w].item
      <4>1. sent'[i][c][r] = 0
        BY <1>1, <3>1 DEF OneInv, RejectInv
      <4> QED
        BY <1>5, <4>1
    <3>2. CASE i # worker[w].item
      <4>1. Known(row'[i], worker'[w], i) = Known(row[i], worker[w], i)
        BY <1>1, <1>2, <3>2 DEF Known
      <4> QED
        BY <1>1, <1>5, <4>1 DEF OneInv, RepeatInv
    <3> QED
      BY <3>1, <3>2
  <2> QED
    BY <2>1 DEF RepeatInv
<1> QED
  BY <1>3, <1>4, <1>6, <1>7 DEF OneInv

\* A channel of the attempt was run: what is left of it is owed, and counts as
\* a failure.
LEMMA RunOne ==
  ASSUME TypeOK, TypeOK', NEW w \in Workers, OneInv(w), worker[w].pc = "deliver",
         NEW delivered, NEW outcomes, NEW failed \in BOOLEAN, NEW left \in SUBSET Recipients,
         \A c \in Channels : c > worker[w].channel => delivered[c] = worker[w].delivered[c],
         ~failed => ~worker[w].failed /\ left = {},
         worker' = [worker EXCEPT ![w] = Step(worker[w], delivered, outcomes, failed)],
         owed' = [owed EXCEPT ![worker[w].item][worker[w].channel] = left],
         row' = row
  PROVE  HandInv(w)' /\ AttemptsInv' /\ OwedInv(w)' /\ worker'[w].batch = worker[w].batch
<1> DEFINE me == worker[w]
           next == Step(me, delivered, outcomes, failed)
<1>1. me \in Worker /\ InPlace(me) /\ Held(row, me) /\ worker'[w] = next
  BY DEF TypeOK, OneInv, HandInv
<1>2. /\ me.item \in me.batch /\ me.item \in Items /\ me.channel \in Channels
      /\ me.channel \in 1..ChannelCount[me.item] /\ me.channel \in Nat
  BY <1>1, ChannelNumbers DEF InPlace, Busy, Worker
<1>3. /\ next.batch = me.batch /\ next.seen = me.seen /\ next.item = me.item
      /\ next.failed = failed
      /\ next.channel = me.channel + 1
      /\ InPlace(next)
  BY <1>1, StepShape
<1> HIDE DEF next
<1>4. HandInv(w)'
  BY <1>1, <1>3 DEF HandInv, Held
<1>5. AttemptsInv'
  BY DEF OneInv, AttemptsInv
<1>6. ASSUME NEW i \in Items, NEW c \in Channels
      PROVE  owed'[i][c] = IF i = me.item /\ c = me.channel THEN left ELSE owed[i][c]
  <2>1. owed[i] \in [Channels -> SUBSET Recipients]
    BY DEF TypeOK, Confirmed
  <2> QED
    BY <2>1 DEF TypeOK
<1>7. OwedInv(w)'
  <2>1. row[me.item].status # "COMPLETED"
    BY <1>1, <1>2 DEF Held
  <2>2. CompletedOwesNothing'
    BY <1>6, <2>1 DEF OneInv, OwedInv, CompletedOwesNothing
  <2>3. ASSUME NEW i \in Items, NEW c \in Channels, c > ChannelCount[i]
        PROVE  owed'[i][c] = {}
    <3>1. ChannelCount[i] \in Nat /\ c \in Nat
      BY ChannelNumbers
    <3>2. ~(i = me.item /\ c = me.channel)
      BY <1>2, <2>3, <3>1
    <3> QED
      BY <1>6, <2>3, <3>2 DEF OneInv, OwedInv
  <2>4. ASSUME ~failed, NEW c \in Channels, c < me.channel + 1
        PROVE  owed'[me.item][c] = {}
    <3>1. c \in Nat /\ (c < me.channel \/ c = me.channel)
      BY <1>2, <2>4, ChannelNumbers
    <3>2. c < me.channel => owed[me.item][c] = {}
      BY <2>4 DEF OneInv, OwedInv
    <3> QED
      BY <1>2, <1>6, <2>4, <3>1, <3>2
  <2> QED
    BY <1>1, <1>3, <2>2, <2>3, <2>4 DEF OwedInv
<1> QED
  BY <1>1, <1>3, <1>4, <1>5, <1>7

LEMMA SkipOne ==
  ASSUME TypeOK, TypeOK', NEW w \in Workers, OneInv(w),
         SkipDisabled(w) \/ SkipNoRecipient(w) \/ ChannelFails(w)
  PROVE  OneInv(w)'
<1> DEFINE me == worker[w]
<1>1. PICK outcomes \in SUBSET Outcomes, failed \in BOOLEAN, left \in SUBSET Recipients :
        /\ worker' = [worker EXCEPT ![w] = Step(me, me.delivered, outcomes, failed)]
        /\ owed' = [owed EXCEPT ![me.item][me.channel] = left]
        /\ ~failed => ~me.failed /\ left = {}
  <2>1. /\ me.failed \in BOOLEAN
        /\ me.outcomes \in SUBSET Outcomes
        /\ me.outcomes \cup {"SKIPPED_DISABLED"} \in SUBSET Outcomes
        /\ me.outcomes \cup {"SKIPPED_NO_RECIPIENT"} \in SUBSET Outcomes
    BY DEF TypeOK, Worker, Outcomes
  <2>2. CASE SkipDisabled(w) \/ SkipNoRecipient(w)
    <3>1. PICK outcomes \in SUBSET Outcomes :
            /\ worker' = [worker EXCEPT ![w] = Step(me, me.delivered, outcomes, me.failed)]
            /\ owed' = [owed EXCEPT ![me.item][me.channel] = {}]
      <4>1. CASE SkipDisabled(w)
        BY <2>1, <4>1, Zenon DEF SkipDisabled
      <4>2. CASE SkipNoRecipient(w)
        BY <2>1, <4>2, Zenon DEF SkipNoRecipient
      <4> QED
        BY <2>2, <4>1, <4>2, Zenon
    <3> USE <2>1, <3>1
    <3> HIDE DEF me
    <3> WITNESS outcomes \in SUBSET Outcomes, me.failed \in BOOLEAN, {} \in SUBSET Recipients
    <3> QED
      OBVIOUS
  <2>3. CASE ChannelFails(w)
    <3>1. me.item \in Items /\ me.channel \in Channels
      BY <2>3, ChannelNumbers DEF ChannelFails, OneInv, HandInv, InPlace, Busy, TypeOK, Worker
    <3>2. owed[me.item] \in [Channels -> SUBSET Recipients]
      BY <3>1 DEF TypeOK, Confirmed
    <3>3. owed[me.item][me.channel] \in SUBSET Recipients
      BY <3>1, <3>2
    <3>4. owed = [owed EXCEPT ![me.item][me.channel] = owed[me.item][me.channel]]
      BY <3>1, <3>2 DEF TypeOK
    <3>5. /\ worker' = [worker EXCEPT ![w] = Step(me, me.delivered, me.outcomes, TRUE)]
          /\ owed' = owed
      BY <2>3 DEF ChannelFails
    <3> HIDE DEF me
    <3> QED
      BY <2>1, <3>3, <3>4, <3>5
  <2> QED
    BY <2>2, <2>3
<1>2. me.pc = "deliver" /\ row' = row /\ sent' = sent
  BY DEF SkipDisabled, SkipNoRecipient, ChannelFails
<1>3. HandInv(w)' /\ AttemptsInv' /\ OwedInv(w)' /\ worker'[w].batch = me.batch
  BY <1>1, <1>2, RunOne
<1>9. Lost' = Lost \/ Lost' = Lost + 1
  <2>1. crashes \in Nat /\ faults \in Nat
    BY DEF TypeOK
  <2>2. crashes' = crashes /\ (faults' = faults \/ faults' = faults + 1)
    BY DEF SkipDisabled, SkipNoRecipient, ChannelFails
  <2> QED
    BY <2>1, <2>2 DEF Lost
<1>4. RepeatInv(w)'
  <2>1. me \in Worker /\ InPlace(me) /\ worker'[w] = Step(me, me.delivered, outcomes, failed)
    BY <1>1 DEF TypeOK, OneInv, HandInv
  <2>2. /\ worker'[w].item = me.item /\ worker'[w].delivered = me.delivered
        /\ worker'[w].failed = failed /\ worker'[w].pc \in Busy
        /\ worker'[w].pc = "retry" => failed
    BY <1>2, <2>1, StepShape
  <2>3. \A i \in Items : Known(row'[i], worker'[w], i) = Known(row[i], worker[w], i)
    BY <1>2, <2>2 DEF Known, Busy
  <2> QED
    BY <1>2, <1>9, <2>3, NothingForgotten, OneMoreInterruption DEF OneInv
<1>5. RejectInv(w)'
  BY <1>2, <1>3, <1>9, SameAttempts, InterruptedAttempts DEF OneInv
<1> QED
  BY <1>3, <1>4, <1>5 DEF OneInv

LEMMA MailOne ==
  ASSUME TypeOK, TypeOK', NEW w \in Workers, OneInv(w), NEW to \in SUBSET Recipients,
         NEW ok \in SUBSET to, Mail(w, to, ok)
  PROVE  OneInv(w)'
<1> DEFINE me == worker[w]
           all == ToMail(me, to) \subseteq ok
           outcomes == IF all THEN me.outcomes \cup {"SENT"} ELSE me.outcomes
           failed == me.failed \/ ~all
           delivered == [me.delivered EXCEPT ![me.channel] = @ \cup ok]
           left == ToMail(me, to) \ ok
<1>1. /\ me \in Worker /\ InPlace(me) /\ me.pc = "deliver"
      /\ me.item \in Items /\ me.channel \in Channels /\ me.channel \in Nat
      /\ me.delivered \in [Channels -> SUBSET Recipients]
  BY ChannelNumbers DEF Mail, TypeOK, Worker, OneInv, HandInv, InPlace, Busy, Confirmed
<1>2. ok \in SUBSET Recipients /\ ok \cap me.delivered[me.channel] = {}
  <2>1. me.delivered[me.channel] = me.seen[me.item].delivered[me.channel]
    BY <1>1 DEF InPlace
  <2> QED
    BY <2>1 DEF Mail, ToMail
<1>3. /\ worker' = [worker EXCEPT ![w] = Step(me, delivered, outcomes, failed)]
      /\ owed' = [owed EXCEPT ![me.item][me.channel] = left]
      /\ row' = row
  BY Zenon DEF Mail
<1>4. /\ failed \in BOOLEAN /\ left \in SUBSET Recipients
      /\ ~failed => ~me.failed /\ left = {}
  BY <1>1 DEF Worker, ToMail
<1>5. \A c \in Channels :
        delivered[c] = IF c = me.channel THEN me.delivered[c] \cup ok ELSE me.delivered[c]
  BY <1>1
<1>6. \A c \in Channels : c > me.channel => delivered[c] = me.delivered[c]
  BY <1>1, <1>5, ChannelNumbers
<1> HIDE DEF outcomes, failed, delivered, left, all
<1>7. HandInv(w)' /\ AttemptsInv' /\ OwedInv(w)' /\ worker'[w].batch = me.batch
  BY <1>1, <1>3, <1>4, <1>6, RunOne
<1>8. /\ worker'[w].item = me.item /\ worker'[w].delivered = delivered
      /\ worker'[w].failed = failed /\ worker'[w].pc \in Busy
      /\ worker'[w].pc = "retry" => failed
  <2>1. worker'[w] = Step(me, delivered, outcomes, failed)
    BY <1>3 DEF TypeOK
  <2> QED
    BY <1>1, <1>4, <1>6, <2>1, StepShape
<1>9. ASSUME NEW i \in Items, NEW c \in Channels, NEW r \in Recipients
      PROVE  sent'[i][c][r] <= Lost + (IF r \in Known(row'[i], worker'[w], i)[c] THEN 1 ELSE 0)
  <2>1. sent[i][c][r] \in Nat /\ Lost \in Nat
    BY Counts
  <2>2. sent[i][c][r] <= Lost + (IF r \in Known(row[i], worker[w], i)[c] THEN 1 ELSE 0)
    BY DEF OneInv, RepeatInv
  <2>3. sent'[i][c][r] = IF i = me.item /\ c = me.channel /\ r \in ok
                         THEN sent[i][c][r] + 1 ELSE sent[i][c][r]
    <3> DEFINE new == [q \in Recipients |-> IF q \in ok THEN sent[me.item][me.channel][q] + 1
                                             ELSE sent[me.item][me.channel][q]]
    <3>1. sent' = [sent EXCEPT ![me.item][me.channel] = new]
      BY DEF Mail
    <3>2. new[r] = IF r \in ok THEN sent[me.item][me.channel][r] + 1
                   ELSE sent[me.item][me.channel][r]
      OBVIOUS
    <3>3. sent[i] \in [Channels -> [Recipients -> Nat]]
      BY DEF TypeOK
    <3> HIDE DEF new
    <3>4. sent'[i][c] = IF i = me.item /\ c = me.channel THEN new ELSE sent[i][c]
      BY <3>1, <3>3 DEF TypeOK
    <3> QED
      BY <3>2, <3>4
  <2>4. i = me.item => /\ Known(row[i], worker[w], i) = me.delivered
                       /\ Known(row'[i], worker'[w], i) = delivered
    BY <1>1, <1>8 DEF Known, Busy
  <2>5. i # me.item => Known(row'[i], worker'[w], i) = Known(row[i], worker[w], i)
    BY <1>3, <1>8 DEF Known
  <2>6. CASE i = me.item /\ c = me.channel /\ r \in ok
    <3>1. r \notin Known(row[i], worker[w], i)[c] /\ r \in Known(row'[i], worker'[w], i)[c]
      BY <1>2, <1>5, <2>4, <2>6
    <3> QED
      BY <2>1, <2>2, <2>3, <2>6, <3>1
  <2>7. CASE ~(i = me.item /\ c = me.channel /\ r \in ok)
    <3>1. r \in Known(row[i], worker[w], i)[c] => r \in Known(row'[i], worker'[w], i)[c]
      BY <1>5, <2>4, <2>5
    <3> QED
      BY <2>1, <2>2, <2>3, <2>7, <3>1
  <2> QED
    BY <2>6, <2>7
<1>10. RepeatInv(w)'
  <2>1. Lost' = Lost
    BY DEF Mail, Lost
  <2> QED
    BY <1>9, <2>1 DEF RepeatInv
<1>11. RejectInv(w)'
  <2>1. \A i \in Incoherent : sent'[i] = sent[i]
    BY DEF Mail, TypeOK
  <2>2. Lost' = Lost
    BY DEF Mail, Lost
  <2> QED
    BY <1>3, <1>7, <2>1, <2>2, SameAttempts DEF OneInv
<1> QED
  BY <1>7, <1>10, <1>11 DEF OneInv

\* The item in hand is ended or retried: the rest of the batch is as it was.
LEMMA NextItemOne ==
  ASSUME TypeOK, NEW w \in Workers, HandInv(w), worker[w].pc \in {"finish", "retry"},
         worker' = [worker EXCEPT ![w] = NextItem(worker[w])],
         NEW new \in Row, row' = [row EXCEPT ![worker[w].item] = new]
  PROVE  /\ HandInv(w)'
         /\ worker'[w].batch = worker[w].batch \ {worker[w].item}
         /\ worker'[w].pc \in {"idle", "deliver"}
         /\ worker'[w].pc = "deliver" =>
              /\ worker'[w].item \in worker[w].batch \ {worker[w].item}
              /\ worker'[w].channel = 1
              /\ worker'[w].delivered = row[worker'[w].item].delivered
         /\ worker[w].item \in Items /\ row[worker[w].item].status = "PROCESSING"
         /\ row'[worker[w].item] = new
         /\ worker[w].seen[worker[w].item].attempts = row[worker[w].item].attempts
         /\ \A i \in Items : i # worker[w].item => row'[i] = row[i]
<1> DEFINE me == worker[w]
           batch == me.batch \ {me.item}
           seen == [me.seen EXCEPT ![me.item] = NoRow]
<1>1. /\ me \in Worker /\ Held(row, me) /\ me.item \in me.batch /\ me.batch \subseteq Items
      /\ me.item \in Items /\ me.seen \in [Items -> Row]
  BY DEF TypeOK, HandInv, InPlace, Busy, Worker
<1>2. batch \in SUBSET Items /\ seen \in [Items -> Row]
  BY <1>1, NoRowType
<1>3. worker'[w] = WithNextOf(batch, seen)
  BY DEF TypeOK, NextItem
<1>4. \A i \in batch : seen[i] = me.seen[i] /\ row'[i] = row[i]
  BY <1>1 DEF TypeOK
<1> HIDE DEF seen
<1>5. /\ InPlace(worker'[w])
      /\ worker'[w].batch = batch
      /\ worker'[w].pc \in {"idle", "deliver"}
      /\ worker'[w].pc = "deliver" =>
           /\ worker'[w].seen = seen /\ worker'[w].item \in batch /\ worker'[w].channel = 1
           /\ worker'[w].delivered = seen[worker'[w].item].delivered
  BY <1>2, <1>3, WithNextOfShape
<1>6. \A i \in batch : /\ row'[i].status = "PROCESSING"
                       /\ seen[i].attempts = row'[i].attempts
                       /\ seen[i].delivered = row'[i].delivered
  BY <1>1, <1>4 DEF Held
<1>7. worker'[w].pc = "idle" => batch = {}
  BY <1>5 DEF InPlace, Busy
<1> HIDE DEF batch
<1>8. Held(row', worker'[w])
  BY <1>5, <1>6, <1>7 DEF Held
<1>9. HandInv(w)'
  BY <1>5, <1>8 DEF HandInv
<1>10. \A i \in Items : row'[i] = IF i = me.item THEN new ELSE row[i]
  BY <1>1 DEF TypeOK
<1>11. row[me.item].status = "PROCESSING" /\ me.seen[me.item].attempts = row[me.item].attempts
  BY <1>1 DEF Held
<1>12. ASSUME worker'[w].pc = "deliver"
       PROVE  /\ worker'[w].item \in batch /\ worker'[w].channel = 1
              /\ worker'[w].delivered = row[worker'[w].item].delivered
  BY <1>4, <1>5, <1>6, <1>12
<1>13. row'[me.item] = new /\ \A i \in Items : i # me.item => row'[i] = row[i]
  BY <1>1, <1>10
<1> QED
  BY <1>1, <1>5, <1>9, <1>11, <1>12, <1>13 DEF batch

\* The next item of the batch is known to be delivered where its row says so.
LEMMA KnownNext ==
  ASSUME NEW me, NEW next, NEW r, NEW i, me.pc \in {"finish", "retry"}, me.item # i,
         next.pc \in {"idle", "deliver"},
         next.pc = "deliver" /\ next.item = i => /\ next.delivered = r.delivered
                                                /\ r.status = "PROCESSING"
  PROVE  Known(r, next, i) = Known(r, me, i)
BY DEF Known, Busy, EndedStatuses, SkippedStatuses

LEMMA CompleteOne ==
  ASSUME TypeOK, TypeOK', NEW w \in Workers, OneInv(w), Complete(w)
  PROVE  OneInv(w)'
<1> DEFINE me == worker[w]
           item == me.item
           new == Completed(row[item], Summary(me.outcomes))
<1>1. /\ me \in Worker /\ InPlace(me) /\ Held(row, me)
      /\ me.pc = "finish" /\ item \in Items /\ item \in me.batch
  BY DEF Complete, TypeOK, OneInv, HandInv, InPlace, Busy, Worker
<1>2. row[item] \in Row /\ new \in Row
  BY <1>1, CompletedType, SummaryType DEF TypeOK
<1>3. /\ row' = [row EXCEPT ![item] = new]
      /\ worker' = [worker EXCEPT ![w] = NextItem(me)]
      /\ sent' = sent /\ owed' = owed /\ crashes' = crashes /\ faults' = faults
  BY DEF Complete
<1>4. new.status \in EndedStatuses
  BY <1>1, <1>2, SummaryType DEF Completed, Held, Row
<1> HIDE DEF new
<1>5. /\ HandInv(w)'
      /\ worker'[w].batch = me.batch \ {item}
      /\ worker'[w].pc \in {"idle", "deliver"}
      /\ worker'[w].pc = "deliver" =>
           /\ worker'[w].item \in me.batch \ {item}
           /\ worker'[w].channel = 1
           /\ worker'[w].delivered = row[worker'[w].item].delivered
      /\ row'[item] = new
      /\ \A i \in Items : i # item => row'[i] = row[i]
  BY <1>1, <1>2, <1>3, NextItemOne DEF OneInv
<1>6. AttemptsInv'
  <2>1. new.attempts = row[item].attempts /\ new.status \notin {"PENDING", "FAILED", "NONE"}
    BY <1>1, <1>2 DEF new, Completed, Held, Row, Summary
  <2> QED
    BY <1>5, <2>1 DEF OneInv, AttemptsInv
<1>7. OwedInv(w)'
  <2>1. ASSUME NEW c \in Channels PROVE owed[item][c] = {}
    <3>1. c \in Nat /\ ChannelCount[item] \in Nat /\ me.channel \in Nat
      BY <1>1, ChannelNumbers DEF Worker
    <3>2. ~me.failed /\ me.channel > ChannelCount[item]
      BY <1>1 DEF InPlace
    <3>3. c < me.channel \/ c > ChannelCount[item]
      BY <3>1, <3>2
    <3> QED
      BY <1>1, <3>2, <3>3 DEF OneInv, OwedInv
  <2>2. CompletedOwesNothing'
    BY <1>3, <1>5, <2>1 DEF OneInv, OwedInv, CompletedOwesNothing
  <2>3. worker'[w].pc = "deliver" => \A c \in Channels : ~(c < worker'[w].channel)
    BY <1>5, ChannelNumbers
  <2> QED
    BY <1>3, <1>5, <2>2, <2>3 DEF OneInv, OwedInv
<1>8. RepeatInv(w)'
  <2>1. ASSUME NEW i \in Items, NEW c \in Channels
        PROVE  Known(row[i], worker[w], i)[c] \subseteq Known(row'[i], worker'[w], i)[c]
    <3>1. CASE i = item
      <4>1. Known(row'[i], worker'[w], i) = [d \in Channels |-> Recipients]
        BY <1>4, <1>5, <3>1 DEF Known, Busy
      <4>2. Known(row[i], worker[w], i) = me.delivered
        BY <1>1, <3>1 DEF Known, Busy
      <4> QED
        BY <1>1, <4>1, <4>2 DEF Worker, Confirmed
    <3>2. CASE i # item
      <4>1. worker'[w].pc = "deliver" /\ worker'[w].item = i
              => worker'[w].delivered = row[i].delivered /\ row[i].status = "PROCESSING"
        BY <1>1, <1>5 DEF Held
      <4>2. Known(row[i], worker'[w], i) = Known(row[i], worker[w], i)
        BY <1>1, <1>5, <3>2, <4>1, KnownNext
      <4> QED
        BY <1>5, <3>2, <4>2
    <3> QED
      BY <3>1, <3>2
  <2>2. Lost' = Lost
    BY <1>3 DEF Lost
  <2> QED
    BY <1>3, <2>1, <2>2, NothingForgotten DEF OneInv
<1>9. RejectInv(w)'
  <2>1. new.attempts = row[item].attempts
    BY <1>1, <1>2 DEF new, Completed, Row
  <2>2. Lost' = Lost
    BY <1>3 DEF Lost
  <2> QED
    BY <1>3, <1>4, <1>5, <2>1, <2>2, SameAttempts DEF OneInv
<1> QED
  BY <1>5, <1>6, <1>7, <1>8, <1>9 DEF OneInv

\* The item is abandoned at its last attempt or when the error is permanent, and
\* waits for another otherwise.
LEMMA RetriedOrFailedShape ==
  ASSUME NEW r \in Row, r.status = "PROCESSING", NEW delivered,
         NEW attempt \in {r.attempts, MaxAttempts}
  PROVE  LET new == RetriedOrFailed(r, attempt, delivered)
         IN /\ new.attempts = r.attempts
            /\ new.delivered = delivered
            /\ \/ new.status = "PENDING" /\ r.attempts < MaxAttempts /\ attempt # MaxAttempts
               \/ new.status = "FAILED" /\ attempt = MaxAttempts
<1>1. r.attempts \in Nat /\ r.attempts <= MaxAttempts /\ MaxAttempts \in Nat
  BY DEF Row
<1>2. CASE attempt >= MaxAttempts
  BY <1>1, <1>2 DEF RetriedOrFailed, Row
<1>3. CASE ~(attempt >= MaxAttempts)
  BY <1>1, <1>3 DEF RetriedOrFailed, Row
<1> QED
  BY <1>1, <1>2, <1>3

LEMMA RetryOrFailOne ==
  ASSUME TypeOK, TypeOK', NEW w \in Workers, OneInv(w), RetryOrFail(w)
  PROVE  OneInv(w)'
<1> DEFINE me == worker[w]
           item == me.item
           attempt == Attempt(me)
           delivered == IF me.failed THEN me.delivered ELSE row[item].delivered
           new == RetriedOrFailed(row[item], attempt, delivered)
<1>1. /\ me \in Worker /\ InPlace(me) /\ Held(row, me)
      /\ me.pc = "retry" /\ item \in Items /\ item \in me.batch
  BY DEF RetryOrFail, TypeOK, OneInv, HandInv, InPlace, Busy, Worker
<1>2. row[item] \in Row /\ delivered \in Confirmed
  BY <1>1 DEF TypeOK, Row, Worker
<1>3. /\ row' = [row EXCEPT ![item] = new]
      /\ worker' = [worker EXCEPT ![w] = NextItem(me)]
      /\ sent' = sent /\ owed' = owed /\ crashes' = crashes /\ faults' = faults
  BY DEF RetryOrFail
<1>4. /\ attempt = IF item \in Incoherent THEN MaxAttempts ELSE row[item].attempts
      /\ row[item].status = "PROCESSING"
  BY <1>1, <1>2 DEF Attempt, Held
<1>5. me.failed => delivered = me.delivered
  OBVIOUS
<1> HIDE DEF attempt, delivered
<1>6. /\ new \in Row
      /\ new.attempts = row[item].attempts /\ new.delivered = delivered
      /\ \/ /\ new.status = "PENDING" /\ row[item].attempts < MaxAttempts
            /\ item \notin Incoherent
         \/ new.status = "FAILED" /\ (row[item].attempts = MaxAttempts \/ item \in Incoherent)
  <2>1. new \in Row
    BY <1>2, RetriedOrFailedType
  <2> QED
    BY <1>2, <1>4, <2>1, RetriedOrFailedShape
<1> HIDE DEF new
<1>7. /\ HandInv(w)'
      /\ worker'[w].batch = me.batch \ {item}
      /\ worker'[w].pc \in {"idle", "deliver"}
      /\ worker'[w].pc = "deliver" =>
           /\ worker'[w].item \in me.batch \ {item}
           /\ worker'[w].channel = 1
           /\ worker'[w].delivered = row[worker'[w].item].delivered
      /\ row'[item] = new
      /\ \A i \in Items : i # item => row'[i] = row[i]
  BY <1>1, <1>3, <1>6, NextItemOne DEF OneInv
<1>8. AttemptsInv'
  BY <1>6, <1>7 DEF OneInv, AttemptsInv
<1>9. OwedInv(w)'
  <2>1. CompletedOwesNothing'
    BY <1>3, <1>6, <1>7 DEF OneInv, OwedInv, CompletedOwesNothing
  <2>2. worker'[w].pc = "deliver" => \A c \in Channels : ~(c < worker'[w].channel)
    BY <1>7, ChannelNumbers
  <2> QED
    BY <1>3, <1>7, <2>1, <2>2 DEF OneInv, OwedInv
<1>10. RepeatInv(w)'
  <2>1. ASSUME NEW i \in Items, NEW c \in Channels
        PROVE  Known(row[i], worker[w], i)[c] \subseteq Known(row'[i], worker'[w], i)[c]
    <3>1. CASE i = item
      <4>1. \/ Known(row'[i], worker'[w], i) = [d \in Channels |-> Recipients]
            \/ Known(row'[i], worker'[w], i) = delivered
        BY <1>6, <1>7, <3>1 DEF Known, Busy
      <4>2. Known(row[i], worker[w], i) = IF me.failed THEN me.delivered ELSE NoneConfirmed
        BY <1>1, <3>1 DEF Known, Busy
      <4>3. Known(row[i], worker[w], i)[c] \subseteq delivered[c]
        BY <1>5, <4>2 DEF NoneConfirmed
      <4> QED
        BY <1>2, <4>1, <4>3 DEF Confirmed
    <3>2. CASE i # item
      <4>1. worker'[w].pc = "deliver" /\ worker'[w].item = i
              => worker'[w].delivered = row[i].delivered /\ row[i].status = "PROCESSING"
        BY <1>1, <1>7 DEF Held
      <4>2. Known(row[i], worker'[w], i) = Known(row[i], worker[w], i)
        BY <1>1, <1>7, <3>2, <4>1, KnownNext
      <4> QED
        BY <1>7, <3>2, <4>2
    <3> QED
      BY <3>1, <3>2
  <2>2. Lost' = Lost
    BY <1>3 DEF Lost
  <2> QED
    BY <1>3, <2>1, <2>2, NothingForgotten DEF OneInv
<1>11. RejectInv(w)'
  <2>1. item \in Incoherent => row'[item].status \in EndedStatuses
    BY <1>6, <1>7 DEF EndedStatuses
  <2>2. row[item].status \notin EndedStatuses
    BY <1>4 DEF EndedStatuses, SkippedStatuses
  <2>3. Lost' = Lost
    BY <1>3 DEF Lost
  <2> QED
    BY <1>3, <1>6, <1>7, <2>1, <2>2, <2>3, SameAttempts DEF OneInv
<1> QED
  BY <1>7, <1>8, <1>9, <1>10, <1>11 DEF OneInv

LEMMA InterruptedOne ==
  ASSUME TypeOK, TypeOK', NEW w \in Workers, OneInv(w),
         CompleteFails(w) \/ IterationFails(w) \/ Crash(w)
  PROVE  OneInv(w)'
<1>1. /\ worker[w] \in Worker
      /\ row' = row /\ sent' = sent /\ owed' = owed
  BY DEF TypeOK, CompleteFails, IterationFails, Crash
<1>2. \/ worker'[w] = IdleWorker
      \/ worker[w].pc = "finish" /\ worker'[w] = [worker[w] EXCEPT !.pc = "retry"]
  BY DEF CompleteFails, IterationFails, Crash, TypeOK
<1>3. HandInv(w)' /\ worker'[w].pc \in {"idle", "retry"}
  <2>1. CASE worker'[w] = IdleWorker
    BY <2>1 DEF HandInv, InPlace, Held, Busy, IdleWorker
  <2>2. CASE worker[w].pc = "finish" /\ worker'[w] = [worker[w] EXCEPT !.pc = "retry"]
    <3>1. /\ worker'[w].pc = "retry" /\ worker'[w].batch = worker[w].batch
          /\ worker'[w].item = worker[w].item /\ worker'[w].seen = worker[w].seen
      BY <1>1, <2>2 DEF Worker
    <3> QED
      BY <1>1, <2>2, <3>1 DEF OneInv, HandInv, InPlace, Held, Busy
  <2> QED
    BY <1>2, <2>1, <2>2
<1>4. AttemptsInv'
  BY <1>1 DEF OneInv, AttemptsInv
<1>5. OwedInv(w)'
  BY <1>1, <1>3 DEF OneInv, OwedInv, CompletedOwesNothing
<1>6. Lost' = Lost + 1
  <2>1. crashes \in Nat /\ faults \in Nat
    BY DEF TypeOK
  <2>2. \/ crashes' = crashes /\ faults' = faults + 1
        \/ crashes' = crashes + 1 /\ faults' = faults
    BY DEF CompleteFails, IterationFails, Crash
  <2> QED
    BY <2>1, <2>2 DEF Lost
<1>7. RepeatInv(w)'
  BY <1>1, <1>6, OneMoreInterruption DEF OneInv
<1>8. RejectInv(w)'
  BY <1>1, <1>6, InterruptedAttempts DEF OneInv
<1> QED
  BY <1>3, <1>4, <1>5, <1>7, <1>8 DEF OneInv

LEMMA OneInit == ASSUME NEW w \in Workers, Init PROVE OneInv(w)
<1>1. worker[w] = IdleWorker /\ IdleWorker.pc = "idle" /\ IdleWorker.batch = {}
  BY DEF Init, IdleWorker
<1>2. HandInv(w)
  BY <1>1 DEF HandInv, InPlace, Held, Busy
<1>3. AttemptsInv
  BY DEF Init, NoRow, AttemptsInv
<1>4. OwedInv(w)
  BY <1>1 DEF Init, NoneConfirmed, OwedInv, CompletedOwesNothing
<1>5. RepeatInv(w)
  <2>1. \A i \in Items, c \in Channels, r \in Recipients : sent[i][c][r] = 0
    BY DEF Init
  <2> QED
    BY <2>1 DEF RepeatInv, Init, Lost
<1>6. RejectInv(w)
  BY DEF Init, NoRow, RejectInv, Lost
<1> QED
  BY <1>2, <1>3, <1>4, <1>5, <1>6 DEF OneInv

LEMMA OneInductive ==
  ASSUME NEW w, Workers = {w}, TypeOK, OneInv(w), [Next]_vars
  PROVE  OneInv(w)'
<1>1. TypeOK' /\ w \in Workers
  BY OutboxTypeInductive
<1>2. ASSUME NEW i \in Items, Enqueue(i) \/ BecomeDue(i) \/ LeaseExpires(i)
      PROVE  OneInv(w)'
  BY <1>1, <1>2, TableOne
<1>3. CASE WorkerStep(w)
  BY <1>1, <1>3, RecoverOne, ClaimOne, RejectOne, SkipOne, MailOne, CompleteOne, RetryOrFailOne
     DEF WorkerStep, Deliver
<1>4. CASE ChannelFails(w)
  BY <1>1, <1>4, SkipOne
<1>5. CASE CompleteFails(w) \/ IterationFails(w) \/ Crash(w)
  BY <1>1, <1>5, InterruptedOne
<1>6. CASE UNCHANGED vars
  BY <1>6 DEF vars, OneInv, HandInv, AttemptsInv, RejectInv, OwedInv,
              CompletedOwesNothing, RepeatInv, Lost
<1>7. \A v \in Workers : v = w
  OBVIOUS
<1> QED
  BY <1>2, <1>3, <1>4, <1>5, <1>6, <1>7 DEF Next, Clock

LEMMA OneWorker ==
  ASSUME NEW w, Workers = {w}
  PROVE  Spec => []OneInv(w)
<1>1. Init => OneInv(w)
  BY OneInit
<1>2. TypeOK /\ OneInv(w) /\ [Next]_vars => OneInv(w)'
  BY OneInductive
<1> QED
  BY <1>1, <1>2, OutboxTypeCorrect, PTL DEF Spec

\* With the one worker that the backend runs, an address is mailed again for a
\* channel only once per interruption of an attempt.
THEOREM RepeatedForInterruptions ==
  ASSUME NEW w, Workers = {w}
  PROVE  Spec => []RepeatedOnlyIfInterrupted
<1>1. TypeOK /\ OneInv(w) => RepeatedOnlyIfInterrupted
  <2> SUFFICES ASSUME TypeOK, OneInv(w), NEW i \in Items, NEW c \in Channels,
                      NEW r \in Recipients
               PROVE  sent[i][c][r] <= 1 + crashes + faults
    BY DEF RepeatedOnlyIfInterrupted
  <2>1. sent[i][c][r] \in Nat /\ crashes \in Nat /\ faults \in Nat
    BY Counts DEF TypeOK
  <2>2. sent[i][c][r] <= Lost + (IF r \in Known(row[i], worker[w], i)[c] THEN 1 ELSE 0)
    BY DEF OneInv, RepeatInv
  <2> QED
    BY <2>1, <2>2 DEF Lost
<1> QED
  BY <1>1, OneWorker, OutboxTypeCorrect, PTL

\* With the one worker that the backend runs, an item fails when its attempts
\* are exhausted or its source is incoherent, never waits for an attempt that the
\* claim refuses, and an incoherent one has no second attempt but for those that
\* were interrupted.
THEOREM FailedWhenExhausted ==
  ASSUME NEW w, Workers = {w}
  PROVE  Spec => []AbandonedWhenExhausted
<1>1. TypeOK /\ OneInv(w) => AbandonedWhenExhausted
  <2> SUFFICES ASSUME TypeOK, OneInv(w) PROVE AbandonedWhenExhausted
    OBVIOUS
  <2>1. ASSUME NEW i \in Incoherent PROVE row[i].attempts <= 1 + crashes + faults
    <3>1. row[i].attempts \in Nat /\ crashes \in Nat /\ faults \in Nat
      BY DEF TypeOK, Row
    <3>2. row[i].attempts <=
            Lost + (IF i \in worker[w].batch \/ row[i].status \in EndedStatuses THEN 1 ELSE 0)
      BY DEF OneInv, RejectInv
    <3> QED
      BY <3>1, <3>2 DEF Lost
  <2> QED
    BY <2>1 DEF OneInv, AttemptsInv, AbandonedWhenExhausted
<1> QED
  BY <1>1, OneWorker, OutboxTypeCorrect, PTL

\* With the one worker that the backend runs, the last attempt on a completed
\* item refused nobody, on any of its channels.
THEOREM CompletedOnlyWhenServed ==
  ASSUME NEW w, Workers = {w}
  PROVE  Spec => []CompletedOwesNothing
<1>1. OneInv(w) => CompletedOwesNothing
  BY DEF OneInv, OwedInv
<1> QED
  BY <1>1, OneWorker, PTL
=============================================================================

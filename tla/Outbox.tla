------------------------------- MODULE Outbox -------------------------------
(***************************************************************************)
(* The notification outbox of Sentinel's backend (modules/notifications):  *)
(* rows enqueued by the business transactions, and the workers that claim  *)
(* them in batches, mail each channel of an item to its recipients, and    *)
(* complete, retry or abandon it.                                          *)
(*                                                                         *)
(* Every SQL statement of the worker is one action, and so is the mailing  *)
(* of one channel; a worker may stop between any two of them.  Whether a   *)
(* channel is enabled and whom it addresses is decided by tables that      *)
(* change at any time, so Deliver takes any answer.                        *)
(***************************************************************************)
EXTENDS Naturals, FiniteSets

CONSTANTS
  Items,        \* identities a notification_outbox row may take
  Workers,      \* processes running the worker: one per backend replica
  Recipients,   \* mail addresses
  ChannelCount, \* [Items -> 1..]: number of channels of the item's event
  Incoherent,   \* items whose source is missing, or an event nobody is told of
  BatchSize,    \* NOTIFICATION_BATCH_SIZE
  MaxAttempts,  \* NOTIFICATION_MAX_ATTEMPTS
  MaxCrashes,   \* bound: brutal stops of a worker
  MaxFaults,    \* bound: statements of a worker that the database fails
  Nobody        \* no item in hand

ASSUME OutboxAssumption ==
  /\ Items \subseteq Nat
  /\ ChannelCount \in [Items -> Nat \ {0}]
  /\ Incoherent \subseteq Items
  /\ BatchSize \in Nat \ {0}
  /\ MaxAttempts \in Nat \ {0}
  /\ MaxCrashes \in Nat
  /\ MaxFaults \in Nat
  /\ Nobody \notin Items

VARIABLES
  row,     \* [Items -> row]: table notification_outbox
  worker,  \* [Workers -> state]: what each worker holds in memory
  sent,    \* how often the mail relay accepted each message (history)
  owed,    \* addresses resolved and refused by the last attempt (history)
  crashes, \* brutal stops so far
  faults   \* failed statements so far

vars == <<row, worker, sent, owed, crashes, faults>>

Channels == UNION {1..ChannelCount[i] : i \in Items}
Confirmed == [Channels -> SUBSET Recipients]
NoneConfirmed == [c \in Channels |-> {}]

Outcomes == {"SENT", "SKIPPED_DISABLED", "SKIPPED_NO_RECIPIENT"}
SkippedStatuses == {"SKIPPED_DISABLED", "SKIPPED_NO_RECIPIENT"}
EndedStatuses == {"COMPLETED", "FAILED"} \cup SkippedStatuses

Row ==
  [status : {"NONE", "PENDING", "PROCESSING"} \cup EndedStatuses,
   attempts : 0..MaxAttempts,  \* attempt_count
   due : BOOLEAN,              \* available_at <= NOW()
   stale : BOOLEAN,            \* locked_at older than the lease
   delivered : Confirmed]      \* delivered_recipients

Worker ==
  [pc : {"idle", "claim", "deliver", "finish", "retry"},
   batch : SUBSET Items,       \* claimed items not finished yet
   seen : [Items -> Row],      \* the claimed rows, as the claim returned them
   item : Items \cup {Nobody},
   channel : Nat,              \* channel to run next
   delivered : Confirmed,      \* ChannelRunner.delivered
   outcomes : SUBSET Outcomes, \* ChannelRunner.outcomes
   failed : BOOLEAN]           \* ChannelRunner.firstFailure is set

\* The table and the memory of the workers keep their types; in particular no
\* item is ever attempted more than NOTIFICATION_MAX_ATTEMPTS times.
TypeOK ==
  /\ row \in [Items -> Row]
  /\ worker \in [Workers -> Worker]
  /\ sent \in [Items -> [Channels -> [Recipients -> Nat]]]
  /\ owed \in [Items -> Confirmed]
  /\ crashes \in 0..MaxCrashes
  /\ faults \in 0..MaxFaults

NoRow == [status |-> "NONE", attempts |-> 0, due |-> FALSE, stale |-> FALSE,
          delivered |-> NoneConfirmed]

IdleWorker ==
  [pc |-> "idle", batch |-> {}, seen |-> [i \in Items |-> NoRow], item |-> Nobody,
   channel |-> 1, delivered |-> NoneConfirmed, outcomes |-> {}, failed |-> FALSE]

Init ==
  /\ row = [i \in Items |-> NoRow]
  /\ worker = [w \in Workers |-> IdleWorker]
  /\ sent = [i \in Items |-> [c \in Channels |-> [r \in Recipients |-> 0]]]
  /\ owed = [i \in Items |-> NoneConfirmed]
  /\ crashes = 0
  /\ faults = 0

-----------------------------------------------------------------------------
(* The table *)

\* enqueueIncidentNotification, in the transaction of the event
Enqueue(i) ==
  /\ row[i].status = "NONE"
  /\ row' = [row EXCEPT ![i].status = "PENDING", ![i].due = TRUE]
  /\ UNCHANGED <<worker, sent, owed, crashes, faults>>

\* The delay before the next attempt elapses.
BecomeDue(i) ==
  /\ row[i].status = "PENDING"
  /\ ~row[i].due
  /\ row' = [row EXCEPT ![i].due = TRUE]
  /\ UNCHANGED <<worker, sent, owed, crashes, faults>>

\* An item has been claimed for five minutes.
LeaseExpires(i) ==
  /\ row[i].status = "PROCESSING"
  /\ ~row[i].stale
  /\ row' = [row EXCEPT ![i].stale = TRUE]
  /\ UNCHANGED <<worker, sent, owed, crashes, faults>>

Claimable == {i \in Items : /\ row[i].status = "PENDING"
                            /\ row[i].due
                            /\ row[i].attempts < MaxAttempts}

\* Mutant of Recovered: the leases that were abandoned are not looked for.
RecoveredNever(r) == r

\* Mutant of Recovered: a lease left by the last attempt is granted another one.
RecoveredPending(r) ==
  IF r.status = "PROCESSING" /\ r.stale
  THEN [r EXCEPT !.status = "PENDING", !.due = TRUE, !.stale = FALSE]
  ELSE r

\* recoverStaleNotificationOutboxItems, on one row
Recovered(r) ==
  IF r.status = "PROCESSING" /\ r.stale
  THEN [r EXCEPT !.status = IF r.attempts >= MaxAttempts THEN "FAILED" ELSE "PENDING",
                 !.due = TRUE, !.stale = FALSE]
  ELSE r

\* completeNotificationOutboxItem, on its row
Completed(r, status) ==
  IF r.status = "PROCESSING" THEN [r EXCEPT !.status = status, !.stale = FALSE] ELSE r

\* Mutant of RetriedOrFailed: what the attempt delivered is not recorded.
RetriedForgetting(r, attempt, delivered) ==
  IF r.status = "PROCESSING"
  THEN [r EXCEPT !.status = IF attempt >= MaxAttempts THEN "FAILED" ELSE "PENDING",
                 !.due = IF attempt >= MaxAttempts THEN @ ELSE FALSE,
                 !.stale = FALSE]
  ELSE r

\* retryOrFailNotificationOutboxItem, on its row; the attempt is the worker's
RetriedOrFailed(r, attempt, delivered) ==
  IF r.status = "PROCESSING"
  THEN [r EXCEPT !.status = IF attempt >= MaxAttempts THEN "FAILED" ELSE "PENDING",
                 !.due = IF attempt >= MaxAttempts THEN @ ELSE FALSE,
                 !.stale = FALSE,
                 !.delivered = delivered]
  ELSE r

-----------------------------------------------------------------------------
(* A worker *)

\* First statement of a cycle: the leases that a stopped worker left.
Recover(w) ==
  /\ worker[w].pc = "idle"
  /\ row' = [i \in Items |-> Recovered(row[i])]
  /\ worker' = [worker EXCEPT ![w].pc = "claim"]
  /\ UNCHANGED <<sent, owed, crashes, faults>>

\* The worker with the smallest item of its batch in hand, or idle without one.
WithNextOf(batch, seen) ==
  IF batch = {} THEN IdleWorker
  ELSE LET i == CHOOSE j \in batch : \A k \in batch : j <= k
       IN [pc |-> "deliver", batch |-> batch, seen |-> seen, item |-> i, channel |-> 1,
           delivered |-> seen[i].delivered, outcomes |-> {}, failed |-> FALSE]

\* claimNotificationOutboxItems: as many of the due items as the batch holds.
Claim(w) ==
  /\ worker[w].pc = "claim"
  /\ \E batch \in SUBSET Claimable :
       /\ batch = Claimable \/ Cardinality(batch) = BatchSize
       /\ Cardinality(batch) <= BatchSize
       /\ row' = [i \in Items |->
                    IF i \in batch
                    THEN [row[i] EXCEPT !.status = "PROCESSING", !.attempts = @ + 1,
                                        !.stale = FALSE]
                    ELSE row[i]]
       /\ worker' = [worker EXCEPT ![w] =
                       WithNextOf(batch, [i \in Items |-> IF i \in batch THEN row'[i]
                                                                        ELSE NoRow])]
  /\ UNCHANGED <<sent, owed, crashes, faults>>

\* Mutant of Step: a channel that was served hides the failure of another one.
StepUnlessServed(me, delivered, outcomes, failed) ==
  LET last == me.channel = ChannelCount[me.item]
  IN [me EXCEPT !.delivered = delivered, !.outcomes = outcomes, !.failed = failed,
                !.channel = @ + 1,
                !.pc = IF ~last THEN "deliver"
                       ELSE IF failed /\ "SENT" \notin outcomes THEN "retry" ELSE "finish"]

\* What the runner holds after a channel; the failure of an item is reported
\* when all its channels were tried.
Step(me, delivered, outcomes, failed) ==
  LET last == me.channel = ChannelCount[me.item]
  IN [me EXCEPT !.delivered = delivered, !.outcomes = outcomes, !.failed = failed,
                !.channel = @ + 1,
                !.pc = IF ~last THEN "deliver" ELSE IF failed THEN "retry" ELSE "finish"]

\* The source of the item is missing or is not one to notify: no channel is
\* tried, and the error is permanent.
Reject(w) ==
  /\ worker[w].pc = "deliver" /\ worker[w].item \in Incoherent
  /\ worker' = [worker EXCEPT ![w].pc = "retry"]
  /\ UNCHANGED <<row, sent, owed, crashes, faults>>

\* The channel is disabled, or no mail relay is configured.
SkipDisabled(w) ==
  LET me == worker[w]
  IN /\ me.pc = "deliver" /\ me.item \notin Incoherent
     /\ worker' = [worker EXCEPT ![w] =
          Step(me, me.delivered, me.outcomes \cup {"SKIPPED_DISABLED"}, me.failed)]
     /\ owed' = [owed EXCEPT ![me.item][me.channel] = {}]
     /\ UNCHANGED <<row, sent, crashes, faults>>

\* Nobody is to be told.
SkipNoRecipient(w) ==
  LET me == worker[w]
  IN /\ me.pc = "deliver" /\ me.item \notin Incoherent
     /\ worker' = [worker EXCEPT ![w] =
          Step(me, me.delivered, me.outcomes \cup {"SKIPPED_NO_RECIPIENT"}, me.failed)]
     /\ owed' = [owed EXCEPT ![me.item][me.channel] = {}]
     /\ UNCHANGED <<row, sent, crashes, faults>>

\* Mutant of ToMail: an earlier attempt's confirmations are not excluded.
ToMailAll(me, to) == to

\* Addresses that the claimed row does not know to be served.
ToMail(me, to) == to \ me.seen[me.item].delivered[me.channel]

\* Mutant of Mail: the refused addresses are recorded with the accepted ones.
MailConfirmingAll(w, to, ok) ==
  LET me == worker[w]
      all == ToMail(me, to) \subseteq ok
      outcomes == IF all THEN me.outcomes \cup {"SENT"} ELSE me.outcomes
  IN /\ me.pc = "deliver" /\ me.item \notin Incoherent
     /\ to # {}
     /\ ok \subseteq ToMail(me, to)
     /\ worker' = [worker EXCEPT ![w] =
          Step(me, [me.delivered EXCEPT ![me.channel] = @ \cup ToMail(me, to)], outcomes,
               me.failed \/ ~all)]
     /\ sent' = [sent EXCEPT ![me.item][me.channel] =
                   [r \in Recipients |-> IF r \in ok THEN @[r] + 1 ELSE @[r]]]
     /\ owed' = [owed EXCEPT ![me.item][me.channel] = ToMail(me, to) \ ok]
     /\ UNCHANGED <<row, crashes, faults>>

\* sendMail: one message per address not served by an earlier attempt, all
\* tried; ok are the addresses the relay accepts.
Mail(w, to, ok) ==
  LET me == worker[w]
      all == ToMail(me, to) \subseteq ok
      outcomes == IF all THEN me.outcomes \cup {"SENT"} ELSE me.outcomes
  IN /\ me.pc = "deliver" /\ me.item \notin Incoherent
     /\ to # {}
     /\ ok \subseteq ToMail(me, to)
     /\ worker' = [worker EXCEPT ![w] =
          Step(me, [me.delivered EXCEPT ![me.channel] = @ \cup ok], outcomes,
               me.failed \/ ~all)]
     /\ sent' = [sent EXCEPT ![me.item][me.channel] =
                   [r \in Recipients |-> IF r \in ok THEN @[r] + 1 ELSE @[r]]]
     /\ owed' = [owed EXCEPT ![me.item][me.channel] = ToMail(me, to) \ ok]
     /\ UNCHANGED <<row, crashes, faults>>

\* The channel cannot read its preference or its recipients.
ChannelFails(w) ==
  LET me == worker[w]
  IN /\ me.pc = "deliver" /\ me.item \notin Incoherent
     /\ faults < MaxFaults
     /\ faults' = faults + 1
     /\ worker' = [worker EXCEPT ![w] = Step(me, me.delivered, me.outcomes, TRUE)]
     /\ UNCHANGED <<row, sent, owed, crashes>>

\* summarizeDeliveryOutcomes
Summary(outcomes) ==
  IF "SENT" \in outcomes THEN "COMPLETED"
  ELSE IF outcomes \subseteq {"SKIPPED_DISABLED"} THEN "SKIPPED_DISABLED"
  ELSE "SKIPPED_NO_RECIPIENT"

NextItem(me) == WithNextOf(me.batch \ {me.item}, [me.seen EXCEPT ![me.item] = NoRow])

Complete(w) ==
  LET me == worker[w]
  IN /\ me.pc = "finish"
     /\ row' = [row EXCEPT ![me.item] = Completed(@, Summary(me.outcomes))]
     /\ worker' = [worker EXCEPT ![w] = NextItem(me)]
     /\ UNCHANGED <<sent, owed, crashes, faults>>

\* The completion raises: the handler of delivery errors retries the item, and
\* this error carries no confirmation.
CompleteFails(w) ==
  /\ worker[w].pc = "finish"
  /\ faults < MaxFaults
  /\ faults' = faults + 1
  /\ worker' = [worker EXCEPT ![w].pc = "retry"]
  /\ UNCHANGED <<row, sent, owed, crashes>>

\* Mutant of Attempt: a permanent error is one like the others.
AttemptAlways(me) == me.seen[me.item].attempts

\* The attempt a failure counts as: the last one when the error is permanent.
Attempt(me) == IF me.item \in Incoherent THEN MaxAttempts ELSE me.seen[me.item].attempts

RetryOrFail(w) ==
  LET me == worker[w]
      delivered == IF me.failed THEN me.delivered ELSE row[me.item].delivered
  IN /\ me.pc = "retry"
     /\ row' = [row EXCEPT ![me.item] = RetriedOrFailed(@, Attempt(me), delivered)]
     /\ worker' = [worker EXCEPT ![w] = NextItem(me)]
     /\ UNCHANGED <<sent, owed, crashes, faults>>

\* A statement outside the handler raises: the rest of the cycle is dropped.
IterationFails(w) ==
  /\ worker[w].pc \in {"idle", "claim", "retry"}
  /\ faults < MaxFaults
  /\ faults' = faults + 1
  /\ worker' = [worker EXCEPT ![w] = IdleWorker]
  /\ UNCHANGED <<row, sent, owed, crashes>>

\* The process dies and is started again: its memory is lost, the table stays.
Crash(w) ==
  /\ worker[w].pc # "idle"
  /\ crashes < MaxCrashes
  /\ crashes' = crashes + 1
  /\ worker' = [worker EXCEPT ![w] = IdleWorker]
  /\ UNCHANGED <<row, sent, owed, faults>>

-----------------------------------------------------------------------------
(* Specification *)

Deliver(w) ==
  \/ Reject(w)
  \/ SkipDisabled(w)
  \/ SkipNoRecipient(w)
  \/ \E to \in SUBSET Recipients : \E ok \in SUBSET to : Mail(w, to, ok)

WorkerStep(w) ==
  \/ Recover(w)
  \/ Claim(w)
  \/ Deliver(w)
  \/ Complete(w)
  \/ RetryOrFail(w)

Clock == \E i \in Items : BecomeDue(i) \/ LeaseExpires(i)

Next ==
  \/ \E i \in Items : Enqueue(i)
  \/ Clock
  \/ \E w \in Workers :
       \/ WorkerStep(w)
       \/ ChannelFails(w) \/ CompleteFails(w) \/ IterationFails(w)
       \/ Crash(w)

Spec == Init /\ [][Next]_vars

\* The loop of a worker always schedules its next cycle, a statement or a mail
\* ends (timeouts included), and time passes.
Fairness ==
  /\ \A w \in Workers : WF_vars(WorkerStep(w))
  /\ \A i \in Items : WF_vars(BecomeDue(i)) /\ WF_vars(LeaseExpires(i))

FairSpec == Spec /\ Fairness
-----------------------------------------------------------------------------
(* Properties *)

\* DR-13: an address whose message the relay accepted is not mailed again for
\* the same channel, but for one repetition each time an attempt is interrupted
\* before its confirmations are stored.
RepeatedOnlyIfInterrupted ==
  \A i \in Items, c \in Channels, r \in Recipients :
    sent[i][c][r] <= 1 + crashes + faults

\* An item is given up when its attempts are exhausted or its source is
\* incoherent, and only then: no item waits for an attempt it will never be
\* granted, and an incoherent one is given up at its first attempt, but for those
\* that were interrupted.
AbandonedWhenExhausted ==
  \A i \in Items :
    /\ row[i].status = "PENDING" => row[i].attempts < MaxAttempts
    /\ row[i].status = "FAILED" => row[i].attempts = MaxAttempts \/ i \in Incoherent
    /\ i \in Incoherent => row[i].attempts <= 1 + crashes + faults

\* OUT-04: a channel that failed is not hidden by one that was served; an item
\* is completed when its last attempt left nobody out, on any of its channels.
CompletedOwesNothing ==
  \A i \in Items, c \in Channels :
    row[i].status = "COMPLETED" => owed[i][c] = {}

\* What the table records as delivered was accepted by the relay, whoever
\* recorded it.
DeliveredWasAccepted ==
  \A i \in Items, c \in Channels :
    \A r \in row[i].delivered[c] : sent[i][c][r] > 0

\* The trace of an ended item is final: a worker that is late, or whose lease
\* was taken over, does not rewrite it.
EndedIsFinal ==
  [][\A i \in Items : row[i].status \in EndedStatuses => row'[i] = row[i]]_vars

\* Every notification enqueued is eventually sent, skipped or abandoned, in
\* spite of crashes, database faults and refused mails.
EventuallyEnded ==
  \A i \in Items : row[i].status # "NONE" ~> row[i].status \in EndedStatuses

\* docs/technique.md, 10: confirmed addresses are not mailed again by a later
\* attempt; only a brutal stop may repeat one.
RepeatedOnlyAfterCrash ==
  crashes = 0 =>
    \A i \in Items, c \in Channels, r \in Recipients : sent[i][c][r] <= 1
=============================================================================

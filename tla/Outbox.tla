------------------------------- MODULE Outbox -------------------------------
(***************************************************************************)
(* domains/outbox and the dispatcher of apps/worker: events written with   *)
(* the transactions of the use cases are claimed in batches by concurrent  *)
(* dispatchers, handed to a handler that queues an email, and settled. A   *)
(* dispatcher may crash anywhere; the rows it leaves behind are taken back *)
(* once their claim looks stale, which a slow dispatcher also does to      *)
(* itself.                                                                 *)
(***************************************************************************)
EXTENDS Integers, FiniteSets

CONSTANTS
  Events,      \* outbox rows, in creation order
  Dispatchers, \* dispatch jobs running at the same time, in any process
  BatchSize,   \* OUTBOX_BATCH_SIZE
  MaxAttempts, \* OUTBOX_MAX_ATTEMPTS
  CountCap,    \* bound at which the counters stop counting
  Forgetful,   \* whether the email queue forgets finished jobs
  NoEvent

ASSUME OutboxAssumption ==
  /\ Events \subseteq Nat
  /\ IsFiniteSet(Events) /\ IsFiniteSet(Dispatchers)
  /\ BatchSize \in Nat \ {0} /\ MaxAttempts \in Nat \ {0}
  /\ CountCap \in Nat
  /\ MaxAttempts < CountCap /\ Cardinality(Dispatchers) <= CountCap
  /\ Forgetful \in BOOLEAN
  /\ NoEvent \notin Events

VARIABLES
  status,   \* outbox_events.status, "absent" before the row is written
  attempts, \* outbox_events.attempts
  due,      \* whether next_retry_at has passed
  stale,    \* whether updated_at is older than OUTBOX_STALE_THRESHOLD_MS
  resets,   \* how often resetStaleOutboxEvents has reported the row
  job,      \* whether the email queue holds a job with the id of the event
  jobs,     \* how many email jobs were ever made for the event
  at,       \* where a dispatcher is
  held,     \* the attempt under which it holds an event, 0 if it does not
  doing     \* the event whose handler it runs

rowVars == <<status, attempts, due, stale, resets>>
queueVars == <<job, jobs>>
dispatcherVars == <<at, held, doing>>
vars == <<rowVars, queueVars, dispatcherVars>>

\* A counter, which stops counting where no guard can tell any more.
Up(n) == IF n < CountCap THEN n + 1 ELSE n

TypeOK ==
  /\ status \in [Events -> {"absent", "pending", "processing", "completed", "failed"}]
  /\ attempts \in [Events -> 0..CountCap]
  /\ due \in [Events -> BOOLEAN]
  /\ stale \in [Events -> BOOLEAN]
  /\ resets \in [Events -> 0..CountCap]
  /\ job \in [Events -> BOOLEAN]
  /\ jobs \in [Events -> 0..CountCap]
  /\ at \in [Dispatchers -> {"idle", "claim", "loop", "sent", "thrown"}]
  /\ held \in [Dispatchers -> [Events -> 0..CountCap]]
  /\ doing \in [Dispatchers -> Events \cup {NoEvent}]

Init ==
  /\ status = [e \in Events |-> "absent"]
  /\ attempts = [e \in Events |-> 0]
  /\ due = [e \in Events |-> TRUE]
  /\ stale = [e \in Events |-> FALSE]
  /\ resets = [e \in Events |-> 0]
  /\ job = [e \in Events |-> FALSE]
  /\ jobs = [e \in Events |-> 0]
  /\ at = [d \in Dispatchers |-> "idle"]
  /\ held = [d \in Dispatchers |-> [e \in Events |-> 0]]
  /\ doing = [d \in Dispatchers |-> NoEvent]

-----------------------------------------------------------------------------
\* With the transaction of the use case: payment.succeeded, refund.succeeded
\* or order.shipped.
InsertOutboxEvent(e) ==
  /\ status[e] = "absent"
  /\ status' = [status EXCEPT ![e] = "pending"]
  /\ UNCHANGED <<attempts, due, stale, resets, queueVars, dispatcherVars>>

\* A dispatch begins by taking back every row whose claim is stale, whoever
\* holds it; attempts stay as they are.
ResetStaleOutboxEvents(d) ==
  LET back == {e \in Events : status[e] = "processing" /\ stale[e]} IN
  /\ at[d] = "idle"
  /\ status' = [e \in Events |-> IF e \in back THEN "pending" ELSE status[e]]
  /\ due' = [e \in Events |-> e \in back \/ due[e]]
  /\ resets' = [e \in Events |-> IF e \in back THEN Up(resets[e]) ELSE resets[e]]
  /\ at' = [at EXCEPT ![d] = "claim"]
  /\ UNCHANGED <<attempts, stale, queueVars, held, doing>>

\* Fault: rows in processing are claimed again.
ClaimableTwice == {e \in Events : status[e] \in {"pending", "processing"} /\ due[e]}

Claimable == {e \in Events : status[e] = "pending" /\ due[e]}

\* One UPDATE ... WHERE id IN (SELECT ... FOR UPDATE SKIP LOCKED): the oldest
\* claimable rows, and every claim is a new attempt.
ClaimOutboxBatch(d) ==
  LET all == Claimable
      batch == {e \in all : Cardinality({f \in all : f < e}) < BatchSize}
  IN
  /\ at[d] = "claim"
  /\ status' = [e \in Events |-> IF e \in batch THEN "processing" ELSE status[e]]
  /\ attempts' = [e \in Events |-> IF e \in batch THEN Up(attempts[e]) ELSE attempts[e]]
  /\ stale' = [e \in Events |-> e \notin batch /\ stale[e]]
  /\ held' = [held EXCEPT ![d] =
                [e \in Events |-> IF e \in batch THEN Up(attempts[e]) ELSE 0]]
  /\ at' = [at EXCEPT ![d] = IF batch = {} THEN "idle" ELSE "loop"]
  /\ UNCHANGED <<due, resets, queueVars, doing>>

\* Fault: the job is added without an id of its own.
EnqueueAgain(e) ==
  /\ job' = [job EXCEPT ![e] = TRUE]
  /\ jobs' = [jobs EXCEPT ![e] = Up(@)]

\* emailQueue.add with the job id of the event: ignored if the queue has it.
Enqueue(e) ==
  IF job[e] THEN UNCHANGED queueVars
            ELSE /\ job' = [job EXCEPT ![e] = TRUE]
                 /\ jobs' = [jobs EXCEPT ![e] = Up(@)]

\* The handler queues the email, or throws: before the queue took the job
\* (no handler, a broken payload, Redis away) or after it did.
Handle(d, e) ==
  /\ at[d] = "loop" /\ held[d][e] > 0
  /\ doing' = [doing EXCEPT ![d] = e]
  /\ \/ Enqueue(e) /\ at' = [at EXCEPT ![d] = "sent"]
     \/ Enqueue(e) /\ at' = [at EXCEPT ![d] = "thrown"]
     \/ UNCHANGED queueVars /\ at' = [at EXCEPT ![d] = "thrown"]
  /\ UNCHANGED <<rowVars, held>>

\* On to the next event of the batch, or back to waiting.
NextInBatch(d) ==
  LET e == doing[d] IN
  /\ held' = [held EXCEPT ![d][e] = 0]
  /\ doing' = [doing EXCEPT ![d] = NoEvent]
  /\ at' = [at EXCEPT ![d] = IF \E f \in Events \ {e} : held[d][f] > 0
                             THEN "loop" ELSE "idle"]

\* Fault: the row is settled whatever became of it.
SettleAnyway(e, to) == status' = [status EXCEPT ![e] = to]

\* Settled only if the row is still (or again) in processing.
Settle(e, to) ==
  status' = IF status[e] = "processing" THEN [status EXCEPT ![e] = to] ELSE status

CompleteOutboxEvent(d) ==
  LET e == doing[d] IN
  /\ at[d] = "sent"
  /\ Settle(e, "completed")
  /\ NextInBatch(d)
  /\ UNCHANGED <<attempts, due, stale, resets, queueVars>>

\* The update throws inside the try: the catch treats the event as failed.
CompleteThrows(d) ==
  /\ at[d] = "sent"
  /\ at' = [at EXCEPT ![d] = "thrown"]
  /\ UNCHANGED <<rowVars, queueVars, held, doing>>

\* Fault: an event is retried for ever.
NeverDeadLettered(n) == FALSE

DeadLettered(n) == n >= MaxAttempts

\* Back to pending with a delay, or to the dead letters, by the attempt under
\* which this dispatcher claimed the event.
FailOutboxEvent(d) ==
  LET e == doing[d] IN
  /\ at[d] = "thrown"
  /\ Settle(e, IF DeadLettered(held[d][e]) THEN "failed" ELSE "pending")
  /\ due' = [due EXCEPT ![e] = IF status[e] = "processing"
                               THEN DeadLettered(held[d][e]) ELSE @]
  /\ NextInBatch(d)
  /\ UNCHANGED <<attempts, stale, resets, queueVars>>

\* The process dies, or an update outside the try throws: the rest of the
\* batch stays in processing.
Crash(d) ==
  /\ at[d] # "idle"
  /\ at' = [at EXCEPT ![d] = "idle"]
  /\ held' = [held EXCEPT ![d] = [e \in Events |-> 0]]
  /\ doing' = [doing EXCEPT ![d] = NoEvent]
  /\ UNCHANGED <<rowVars, queueVars>>

\* Time passes: the delay before a retry, the threshold of a claim.
BackoffElapses(e) ==
  /\ status[e] = "pending" /\ ~due[e]
  /\ due' = [due EXCEPT ![e] = TRUE]
  /\ UNCHANGED <<status, attempts, stale, resets, queueVars, dispatcherVars>>

ClaimGrowsStale(e) ==
  /\ status[e] = "processing" /\ ~stale[e]
  /\ stale' = [stale EXCEPT ![e] = TRUE]
  /\ UNCHANGED <<status, attempts, due, resets, queueVars, dispatcherVars>>

\* removeOnComplete: the queue forgets a finished job, and its id.
JobForgotten(e) ==
  /\ Forgetful /\ job[e]
  /\ job' = [job EXCEPT ![e] = FALSE]
  /\ UNCHANGED <<jobs, rowVars, dispatcherVars>>

-----------------------------------------------------------------------------
DispatcherStep(d) ==
  \/ ResetStaleOutboxEvents(d) \/ ClaimOutboxBatch(d)
  \/ \E e \in Events : Handle(d, e)
  \/ CompleteOutboxEvent(d) \/ CompleteThrows(d) \/ FailOutboxEvent(d)
  \/ Crash(d)

EventStep(e) ==
  \/ InsertOutboxEvent(e) \/ BackoffElapses(e) \/ ClaimGrowsStale(e)
  \/ JobForgotten(e)

Next ==
  \/ \E d \in Dispatchers : DispatcherStep(d)
  \/ \E e \in Events : EventStep(e)

Spec == Init /\ [][Next]_vars

\* Dispatches keep starting and going on (or crash), time passes, and a claim
\* is not overtaken by its threshold or a crash every single time: a handler
\* takes milliseconds of the five minutes.
Fresh(e) == status[e] = "processing" /\ ~stale[e]

FairSpec ==
  /\ Spec
  /\ \A e \in Events : WF_vars(BackoffElapses(e)) /\ WF_vars(ClaimGrowsStale(e))
  /\ \A d \in Dispatchers :
       /\ WF_vars(DispatcherStep(d)) /\ SF_vars(ClaimOutboxBatch(d))
       /\ \A e \in Events :
            /\ SF_vars(Fresh(e) /\ Handle(d, e))
            /\ SF_vars(doing[d] = e /\ Fresh(e)
                       /\ (CompleteOutboxEvent(d) \/ FailOutboxEvent(d)))

-----------------------------------------------------------------------------
(* What holds *)

Holders(e) == {d \in Dispatchers : held[d][e] > 0}

\* "Replicas do not claim twice" (claimOutboxBatch): an event has one holder
\* more than the claims that were taken back at most, however late completes
\* and fails of earlier holders land on the row of a later one.
OneHolderPerClaim ==
  \A e \in Events :
    Cardinality(Holders(e)) + (IF status[e] = "pending" THEN 1 ELSE 0)
      <= 1 + resets[e]

\* An event goes to the dead letters only after all of its attempts.
DeadLetterHasNoAttemptLeft ==
  \A e \in Events : status[e] = "failed" => attempts[e] >= MaxAttempts

\* While the queue remembers its jobs, at-least-once dispatch queues the email
\* of an event once (jobId in usecases/notifications).
EmailQueuedOnce == \A e \in Events : jobs[e] <= 1

\* What a row is to the use case that wrote it.
OutcomeOf(s) ==
  CASE s = "absent" -> "none"
    [] s \in {"pending", "processing"} -> "accepted"
    [] s = "completed" -> "delivered"
    [] s = "failed" -> "dead"
Outcome == [e \in Events |-> OutcomeOf(status[e])]
Sent == [e \in Events |-> jobs[e] > 0]

\* The outbox keeps the promise of EventDelivery.
Delivery == INSTANCE EventDelivery WITH outcome <- Outcome, sent <- Sent

DeliversEvents == Delivery!Spec

\* No event is left behind in pending, nor in processing by a crash.
EventSettles ==
  \A e \in Events : status[e] = "pending" ~> status[e] \in {"completed", "failed"}

-----------------------------------------------------------------------------
(* What comments say, and the code does not keep *)

\* resetStaleOutboxEvents: an event whose dispatchers keep crashing ends in
\* the dead letters by its attempts.
AttemptsAreLimited == \A e \in Events : attempts[e] <= MaxAttempts
=============================================================================

---------------------------- MODULE OutboxProofs ----------------------------
(***************************************************************************)
(* What TLAPS proves of Outbox, for every set of events and dispatchers    *)
(* and every batch size, number of attempts and counter bound: types, that *)
(* a claim has one holder, that an event is given up only after all of its *)
(* attempts, that its email is queued once while the queue remembers, and  *)
(* that the outbox implements EventDelivery.                               *)
(***************************************************************************)
EXTENDS Outbox, FiniteSetTheorems, TLAPS

\* A counter stays within its bound, and never goes back.
LEMMA UpBounded ==
  ASSUME NEW n \in 0..CountCap
  PROVE  Up(n) \in 0..CountCap /\ n <= Up(n) /\ Up(n) <= n + 1 /\ 0 < Up(n)
BY OutboxAssumption DEF Up

\* TypeOK alone is not inductive: a handler settles the event it runs, which
\* must be one that its dispatcher holds, and whose row is there.
HoldsWhatItDoes ==
  /\ \A d \in Dispatchers : at[d] \in {"sent", "thrown"} =>
       doing[d] \in Events /\ held[d][doing[d]] > 0
  /\ \A d \in Dispatchers, e \in Events : held[d][e] > 0 => status[e] # "absent"

TypeInv == TypeOK /\ HoldsWhatItDoes

\* Settling keeps the rows well typed, and loses none.
LEMMA SettleTyped ==
  ASSUME TypeOK, NEW e, NEW to \in {"pending", "completed", "failed"}, Settle(e, to)
  PROVE  /\ status' \in [Events -> {"absent", "pending", "processing", "completed", "failed"}]
         /\ \A f \in Events : status[f] # "absent" => status'[f] # "absent"
<1>1. CASE status[e] = "processing"
  <2>1. status' = [status EXCEPT ![e] = to]
    BY <1>1 DEF Settle
  <2>2. QED
    BY <2>1 DEF TypeOK
<1>2. CASE status[e] # "processing"
  BY <1>2 DEF TypeOK, Settle
<1>3. QED
  BY <1>1, <1>2

\* Queueing an email keeps the queue well typed.
LEMMA EnqueueTyped ==
  ASSUME TypeOK, NEW e \in Events, Enqueue(e)
  PROVE  /\ job' \in [Events -> BOOLEAN]
         /\ jobs' \in [Events -> 0..CountCap]
<1>1. Up(jobs[e]) \in 0..CountCap
  BY UpBounded DEF TypeOK
<1>2. CASE job[e]
  BY <1>2 DEF TypeOK, Enqueue, queueVars
<1>3. CASE ~job[e]
  BY <1>1, <1>3 DEF TypeOK, Enqueue
<1>4. QED
  BY <1>2, <1>3

\* Going on in the batch gives the event up.
LEMMA NextTyped ==
  ASSUME TypeOK, NEW d \in Dispatchers, doing[d] \in Events, NextInBatch(d)
  PROVE  /\ held' \in [Dispatchers -> [Events -> 0..CountCap]]
         /\ doing' \in [Dispatchers -> Events \cup {NoEvent}]
         /\ at' \in [Dispatchers -> {"idle", "claim", "loop", "sent", "thrown"}]
         /\ at'[d] \in {"loop", "idle"}
         /\ \A c \in Dispatchers \ {d} :
              at'[c] = at[c] /\ doing'[c] = doing[c] /\ held'[c] = held[c]
         /\ \A f \in Events : held'[d][f] = IF f = doing[d] THEN 0 ELSE held[d][f]
<1>1. 0 \in 0..CountCap
  BY OutboxAssumption
<1>2. QED
  BY <1>1 DEF TypeOK, NextInBatch

\* The inductive step of type correctness.
LEMMA TypeInvStep == TypeInv /\ [Next]_vars => TypeInv'
<1> SUFFICES ASSUME TypeInv, [Next]_vars PROVE TypeOK' /\ HoldsWhatItDoes'
  BY DEF TypeInv
<1> TypeOK /\ HoldsWhatItDoes
  BY DEF TypeInv
<1> DEFINE Goal == TypeOK' /\ HoldsWhatItDoes'
<1> USE OutboxAssumption DEF rowVars, queueVars, dispatcherVars
<1>1. ASSUME NEW d \in Dispatchers, DispatcherStep(d) PROVE Goal
  <2>1. CASE ResetStaleOutboxEvents(d)
    BY <2>1, UpBounded DEF ResetStaleOutboxEvents, TypeOK, HoldsWhatItDoes
  <2>2. CASE ClaimOutboxBatch(d)
    <3>1. TypeOK'
      BY <2>2, UpBounded DEF ClaimOutboxBatch, TypeOK
    <3>2. HoldsWhatItDoes'
      BY <2>2 DEF ClaimOutboxBatch, TypeOK, HoldsWhatItDoes, Claimable
    <3>3. QED
      BY <3>1, <3>2
  <2>3. ASSUME NEW e \in Events, Handle(d, e) PROVE Goal
    <3>1. TypeOK'
      BY <2>3, EnqueueTyped DEF Handle, TypeOK
    <3>2. HoldsWhatItDoes'
      BY <2>3 DEF Handle, TypeOK, HoldsWhatItDoes
    <3>3. QED
      BY <3>1, <3>2
  <2>4. CASE CompleteOutboxEvent(d)
    <3>1. doing[d] \in Events
      BY <2>4 DEF CompleteOutboxEvent, HoldsWhatItDoes
    <3>2. Settle(doing[d], "completed") /\ NextInBatch(d)
          /\ UNCHANGED <<attempts, due, stale, resets, queueVars>>
      BY <2>4 DEF CompleteOutboxEvent
    <3>3. TypeOK'
      BY <3>1, <3>2, NextTyped, SettleTyped DEF TypeOK
    <3>4. HoldsWhatItDoes'
      BY <3>1, <3>2, NextTyped, SettleTyped DEF HoldsWhatItDoes
    <3>5. QED
      BY <3>3, <3>4
  <2>5. CASE CompleteThrows(d)
    BY <2>5 DEF CompleteThrows, TypeOK, HoldsWhatItDoes
  <2>6. CASE FailOutboxEvent(d)
    <3>1. doing[d] \in Events
      BY <2>6 DEF FailOutboxEvent, HoldsWhatItDoes
    <3>2. PICK to \in {"pending", "completed", "failed"} : Settle(doing[d], to)
      BY <2>6 DEF FailOutboxEvent
    <3>3. NextInBatch(d) /\ UNCHANGED <<attempts, stale, resets, queueVars>>
      BY <2>6 DEF FailOutboxEvent
    <3>4. due' \in [Events -> BOOLEAN]
      <4> DEFINE b == DeadLettered(held[d][doing[d]])
      <4>1. b \in BOOLEAN
        BY DEF DeadLettered
      <4>2. due' = [due EXCEPT ![doing[d]] = IF status[doing[d]] = "processing" THEN b ELSE @]
        BY <2>6 DEF FailOutboxEvent
      <4> HIDE DEF b
      <4>3. QED
        BY <3>1, <4>1, <4>2, Zenon DEF TypeOK
    <3>5. TypeOK'
      BY <3>1, <3>2, <3>3, <3>4, NextTyped, SettleTyped DEF TypeOK
    <3>6. HoldsWhatItDoes'
      BY <3>1, <3>2, <3>3, NextTyped, SettleTyped DEF HoldsWhatItDoes
    <3>7. QED
      BY <3>5, <3>6
  <2>7. CASE Crash(d)
    BY <2>7 DEF Crash, TypeOK, HoldsWhatItDoes
  <2>8. QED
    BY <1>1, <2>1, <2>2, <2>3, <2>4, <2>5, <2>6, <2>7 DEF DispatcherStep
<1>2. ASSUME NEW e \in Events, EventStep(e) PROVE Goal
  BY <1>2 DEF EventStep, InsertOutboxEvent, BackoffElapses, ClaimGrowsStale, JobForgotten,
     TypeOK, HoldsWhatItDoes
<1>3. CASE UNCHANGED vars
  BY <1>3 DEF vars, TypeOK, HoldsWhatItDoes
<1>4. QED
  BY <1>1, <1>2, <1>3 DEF Next

\* Nothing is written, queued or held at first.
LEMMA TypeInvInit == Init => TypeInv
BY OutboxAssumption DEF Init, TypeInv, TypeOK, HoldsWhatItDoes

\* Rows, queue and dispatchers stay well formed whatever interleaves or crashes.
THEOREM OutboxTyped == Spec => []TypeOK
<1>1. TypeInv => TypeOK
  BY DEF TypeInv
<1>2. QED
  BY <1>1, TypeInvInit, TypeInvStep, PTL DEF Spec

-----------------------------------------------------------------------------
(* The email of an event *)

\* EmailQueuedOnce alone is not inductive: the queue ignores a job it holds,
\* so what was queued must still be held.
QueueRemembers == \A e \in Events : jobs[e] <= 1 /\ (job[e] \/ jobs[e] = 0)

\* As long as the queue remembers its jobs, at-least-once dispatch, slow
\* dispatchers and retries queue the email of an event at most once.
THEOREM QueuedOnce == ASSUME ~Forgetful PROVE Spec => []EmailQueuedOnce
<1>1. Init => QueueRemembers
  BY DEF Init, QueueRemembers
<1>2. TypeInv /\ QueueRemembers /\ [Next]_vars => QueueRemembers'
  <2> SUFFICES ASSUME TypeInv, QueueRemembers, [Next]_vars PROVE QueueRemembers'
    OBVIOUS
  <2> TypeOK
    BY DEF TypeInv
  <2>1. UNCHANGED queueVars => QueueRemembers'
    BY DEF queueVars, QueueRemembers
  <2>2. ASSUME NEW e \in Events, Enqueue(e) PROVE QueueRemembers'
    <3>1. CASE job[e]
      BY <2>2, <3>1, <2>1 DEF Enqueue
    <3>2. CASE ~job[e]
      <4>1. Up(jobs[e]) = 1
        BY <3>2, OutboxAssumption DEF QueueRemembers, Up
      <4>2. QED
        BY <2>2, <3>2, <4>1 DEF Enqueue, QueueRemembers, TypeOK
    <3>3. QED
      BY <3>1, <3>2
  <2>3. ASSUME NEW d \in Dispatchers, DispatcherStep(d) PROVE QueueRemembers'
    BY <2>3, <2>1, <2>2 DEF DispatcherStep, ResetStaleOutboxEvents, ClaimOutboxBatch, Handle,
       CompleteOutboxEvent, CompleteThrows, FailOutboxEvent, Crash
  <2>4. ASSUME NEW e \in Events, EventStep(e) PROVE QueueRemembers'
    BY <2>4, <2>1 DEF EventStep, InsertOutboxEvent, BackoffElapses, ClaimGrowsStale,
       JobForgotten
  <2>5. QED
    BY <2>1, <2>3, <2>4 DEF Next, vars
<1>3. QueueRemembers => EmailQueuedOnce
  BY DEF QueueRemembers, EmailQueuedOnce
<1>4. QED
  BY <1>1, <1>2, <1>3, TypeInvInit, TypeInvStep, PTL DEF Spec

-----------------------------------------------------------------------------
(* The holders of an event *)

Pending(e) == IF status[e] = "pending" THEN 1 ELSE 0

\* The dispatchers that may hold an event are finitely many.
LEMMA HoldersFinite ==
  ASSUME NEW S \in SUBSET Dispatchers
  PROVE  IsFiniteSet(S) /\ Cardinality(S) \in Nat /\ Cardinality(S) <= CountCap
<1>1. IsFiniteSet(S) /\ Cardinality(S) <= Cardinality(Dispatchers)
  BY FS_Subset, OutboxAssumption
<1>2. Cardinality(S) \in Nat /\ Cardinality(Dispatchers) \in Nat
  BY <1>1, FS_CardinalityType, OutboxAssumption
<1>3. QED
  BY <1>1, <1>2, OutboxAssumption

\* Fewer holders, one more, or one less.
LEMMA HoldersCounted ==
  ASSUME NEW S \in SUBSET Dispatchers, NEW T \in SUBSET Dispatchers, NEW d \in Dispatchers
  PROVE  /\ T \subseteq S => Cardinality(T) <= Cardinality(S)
         /\ T \subseteq S \cup {d} => Cardinality(T) <= Cardinality(S) + 1
         /\ d \in S /\ T \subseteq S \ {d} => Cardinality(T) + 1 <= Cardinality(S)
<1>1. IsFiniteSet(S) /\ Cardinality(S) \in Nat /\ Cardinality(T) \in Nat
  BY HoldersFinite
<1>2. T \subseteq S => Cardinality(T) <= Cardinality(S)
  BY <1>1, FS_Subset
<1>3. ASSUME T \subseteq S \cup {d} PROVE Cardinality(T) <= Cardinality(S) + 1
  <2>1. /\ IsFiniteSet(S \cup {d})
        /\ Cardinality(S \cup {d}) = IF d \in S THEN Cardinality(S) ELSE Cardinality(S) + 1
    BY <1>1, FS_AddElement
  <2>2. Cardinality(T) <= Cardinality(S \cup {d})
    BY <1>3, <2>1, FS_Subset
  <2>3. QED
    BY <1>1, <2>1, <2>2
<1>4. ASSUME d \in S, T \subseteq S \ {d} PROVE Cardinality(T) + 1 <= Cardinality(S)
  <2>1. IsFiniteSet(S \ {d}) /\ Cardinality(S \ {d}) = Cardinality(S) - 1
    BY <1>1, <1>4, FS_RemoveElement
  <2>2. Cardinality(T) <= Cardinality(S \ {d})
    BY <1>4, <2>1, FS_Subset
  <2>3. QED
    BY <1>1, <2>1, <2>2
<1>5. QED
  BY <1>2, <1>3, <1>4

\* A claim adds a holder and takes the row out of pending; only a stale claim
\* that was taken back, or a holder that gave it up, puts it there again.
LEMMA OneHolderStep == TypeInv /\ OneHolderPerClaim /\ [Next]_vars => OneHolderPerClaim'
<1> SUFFICES ASSUME TypeInv, OneHolderPerClaim, [Next]_vars, NEW e \in Events
             PROVE  Cardinality(Holders(e)') + Pending(e)' <= 1 + resets'[e]
  BY DEF OneHolderPerClaim, Pending
<1> TypeOK /\ HoldsWhatItDoes /\ TypeOK'
  BY TypeInvStep DEF TypeInv
<1> DEFINE S == Holders(e)  T == Holders(e)'
           Goal == Cardinality(T) + Pending(e)' <= 1 + resets'[e]
<1> S \in SUBSET Dispatchers /\ T \in SUBSET Dispatchers
  BY DEF Holders
<1> /\ Cardinality(S) \in Nat /\ Cardinality(T) \in Nat
    /\ Cardinality(S) <= CountCap /\ Cardinality(T) <= CountCap
  BY HoldersFinite
<1> /\ CountCap \in Nat /\ resets[e] \in Nat /\ resets'[e] \in Nat /\ resets[e] <= CountCap
  BY OutboxAssumption DEF TypeOK
<1>0. Cardinality(S) + Pending(e) <= 1 + resets[e]
  BY DEF OneHolderPerClaim, Pending
<1>h. \A d \in Dispatchers : /\ d \in S <=> held[d][e] > 0
                             /\ d \in T <=> held'[d][e] > 0
  BY DEF Holders
<1> HIDE DEF S, T
<1> SUFFICES Goal
  BY DEF T
<1>a. ASSUME NEW d \in Dispatchers, T \subseteq S, resets'[e] = resets[e],
             status'[e] = "pending" => status[e] = "pending"
      PROVE  Goal
  BY <1>a, <1>0, HoldersCounted DEF Pending
<1> USE DEF rowVars, dispatcherVars
<1>1. ASSUME NEW d \in Dispatchers, DispatcherStep(d) PROVE Goal
  <2>1. CASE ResetStaleOutboxEvents(d)
    <3>1. T = S
      BY <2>1, <1>h DEF ResetStaleOutboxEvents
    <3>2. CASE resets'[e] = resets[e] /\ status'[e] = status[e]
      BY <3>1, <3>2, <1>0 DEF Pending
    <3>3. CASE resets'[e] = Up(resets[e]) /\ status[e] = "processing"
      BY <3>1, <3>3, <1>0 DEF Pending, Up
    <3>4. QED
      BY <2>1, <3>2, <3>3 DEF ResetStaleOutboxEvents, TypeOK
  <2>2. CASE ClaimOutboxBatch(d)
    <3>1. \A c \in Dispatchers : c # d => held'[c] = held[c]
      BY <2>2 DEF ClaimOutboxBatch, TypeOK
    <3>2. resets'[e] = resets[e]
      BY <2>2 DEF ClaimOutboxBatch
    <3>3. CASE status[e] = "pending" /\ status'[e] = "processing"
      <4>1. T \subseteq S \cup {d}
        BY <3>1, <1>h
      <4>2. QED
        BY <3>2, <3>3, <4>1, <1>0, HoldersCounted DEF Pending
    <3>4. CASE status'[e] = status[e] /\ held'[d][e] = 0
      <4>1. T \subseteq S
        BY <3>1, <3>4, <1>h
      <4>2. QED
        BY <3>2, <3>4, <4>1, <1>a
    <3>5. QED
      BY <2>2, <3>3, <3>4 DEF ClaimOutboxBatch, Claimable, TypeOK
  <2>3. CASE CompleteThrows(d) \/ \E f \in Events : Handle(d, f)
    <3>1. UNCHANGED <<held, status, resets>>
      BY <2>3 DEF CompleteThrows, Handle
    <3>2. QED
      BY <3>1, <1>a, <1>h
  <2>4. CASE CompleteOutboxEvent(d)
    <3>1. /\ doing[d] \in Events /\ NextInBatch(d) /\ Settle(doing[d], "completed")
          /\ resets' = resets
      BY <2>4 DEF CompleteOutboxEvent, HoldsWhatItDoes
    <3>2. T \subseteq S
      BY <3>1, <1>h, NextTyped
    <3>3. status'[e] = "pending" => status[e] = "pending"
      BY <3>1 DEF Settle, TypeOK
    <3>4. QED
      BY <3>1, <3>2, <3>3, <1>a
  <2>5. CASE FailOutboxEvent(d)
    <3>1. /\ doing[d] \in Events /\ held[d][doing[d]] > 0 /\ NextInBatch(d)
          /\ resets' = resets
      BY <2>5 DEF FailOutboxEvent, HoldsWhatItDoes
    <3>2. CASE e = doing[d]
      <4>1. d \in S /\ T \subseteq S \ {d}
        BY <3>1, <3>2, <1>h, NextTyped
      <4>2. QED
        BY <3>1, <4>1, <1>0, HoldersCounted DEF Pending
    <3>3. CASE e # doing[d]
      <4>1. T \subseteq S
        BY <3>1, <1>h, NextTyped
      <4>2. status'[e] = status[e]
        BY <2>5, <3>3 DEF FailOutboxEvent, Settle, TypeOK
      <4>3. QED
        BY <3>1, <4>1, <4>2, <1>a
    <3>4. QED
      BY <3>2, <3>3
  <2>6. CASE Crash(d)
    <3>1. T \subseteq S
      BY <2>6, <1>h DEF Crash, TypeOK
    <3>2. QED
      BY <2>6, <3>1, <1>a DEF Crash
  <2>7. QED
    BY <1>1, <2>1, <2>2, <2>3, <2>4, <2>5, <2>6 DEF DispatcherStep
<1>2. ASSUME NEW f \in Events, EventStep(f) PROVE Goal
  <2>1. UNCHANGED <<held, resets>>
    BY <1>2 DEF EventStep, InsertOutboxEvent, BackoffElapses, ClaimGrowsStale, JobForgotten
  <2>2. T = S
    BY <2>1, <1>h
  <2>3. CASE status'[e] = status[e]
    BY <2>1, <2>2, <2>3, <1>0 DEF Pending
  <2>4. CASE status'[e] # status[e]
    <3>1. status[e] = "absent"
      BY <1>2, <2>4 DEF EventStep, InsertOutboxEvent, BackoffElapses, ClaimGrowsStale,
         JobForgotten, TypeOK
    <3>2. S = {}
      BY <3>1, <1>h DEF HoldsWhatItDoes
    <3>3. Cardinality(T) = 0
      BY <2>2, <3>2, FS_EmptySet
    <3>4. QED
      BY <2>1, <3>3 DEF Pending
  <2>5. QED
    BY <2>3, <2>4
<1>3. CASE UNCHANGED vars
  BY <1>3, <1>0, <1>h DEF vars, Pending
<1>4. QED
  BY <1>1, <1>2, <1>3 DEF Next

\* "Replicas do not claim twice": beyond the claims that were taken back as
\* stale, an event is held by one dispatcher at a time, and by none while it
\* waits, whatever late settlements of earlier holders do to its row.
THEOREM OneHolder == Spec => []OneHolderPerClaim
<1>1. Init => OneHolderPerClaim
  <2> SUFFICES ASSUME Init, NEW e \in Events
               PROVE  Cardinality(Holders(e)) + Pending(e) <= 1 + resets[e]
    BY DEF OneHolderPerClaim, Pending
  <2>1. Holders(e) = {}
    BY DEF Init, Holders
  <2>2. QED
    BY <2>1, FS_EmptySet DEF Init, Pending
<1>2. QED
  BY <1>1, OneHolderStep, TypeInvInit, TypeInvStep, PTL DEF Spec

-----------------------------------------------------------------------------
(* Giving up, and delivering *)

\* A dead letter was tried as often as it should: DeadLetterHasNoAttemptLeft
\* alone is not inductive, for a dispatcher counts by the attempt under which
\* it claimed the row, which the row must have counted.
AttemptsCounted ==
  /\ DeadLetterHasNoAttemptLeft
  /\ \A d \in Dispatchers, e \in Events : held[d][e] <= attempts[e]

LEMMA AttemptsStep == TypeInv /\ AttemptsCounted /\ [Next]_vars => AttemptsCounted'
<1> SUFFICES ASSUME TypeInv, AttemptsCounted, [Next]_vars PROVE AttemptsCounted'
  OBVIOUS
<1> TypeOK /\ HoldsWhatItDoes /\ MaxAttempts \in Nat
  BY OutboxAssumption DEF TypeInv
<1>a. \A n \in 0..CountCap : Up(n) \in 0..CountCap /\ n <= Up(n)
  BY UpBounded
<1>b. ASSUME UNCHANGED attempts,
             \A d \in Dispatchers, e \in Events : held'[d][e] = held[d][e] \/ held'[d][e] = 0,
             \A e \in Events : status'[e] = "failed" =>
               status[e] = "failed" \/ attempts[e] >= MaxAttempts
      PROVE  AttemptsCounted'
  BY <1>b DEF AttemptsCounted, DeadLetterHasNoAttemptLeft, TypeOK
<1> USE DEF rowVars, dispatcherVars
<1>1. ASSUME NEW d \in Dispatchers, DispatcherStep(d) PROVE AttemptsCounted'
  <2>1. CASE ResetStaleOutboxEvents(d)
    BY <2>1, <1>b DEF ResetStaleOutboxEvents, TypeOK
  <2>2. CASE ClaimOutboxBatch(d)
    <3>1. \A e \in Events : attempts[e] <= attempts'[e] /\ attempts'[e] \in Nat
      BY <2>2, <1>a DEF ClaimOutboxBatch, TypeOK
    <3>2. \A e \in Events : status'[e] = "failed" => status[e] = "failed"
      BY <2>2 DEF ClaimOutboxBatch, TypeOK
    <3>3. DeadLetterHasNoAttemptLeft'
      BY <3>1, <3>2 DEF AttemptsCounted, DeadLetterHasNoAttemptLeft, TypeOK
    <3>4. ASSUME NEW c \in Dispatchers, NEW e \in Events PROVE held'[c][e] <= attempts'[e]
      <4>1. CASE c = d
        BY <2>2, <3>1, <4>1 DEF ClaimOutboxBatch, TypeOK
      <4>2. CASE c # d
        BY <2>2, <3>1, <4>2 DEF ClaimOutboxBatch, TypeOK, AttemptsCounted
      <4>3. QED
        BY <4>1, <4>2
    <3>5. QED
      BY <3>3, <3>4 DEF AttemptsCounted
  <2>3. CASE CompleteThrows(d) \/ \E f \in Events : Handle(d, f)
    BY <2>3, <1>b DEF CompleteThrows, Handle
  <2>4. CASE CompleteOutboxEvent(d)
    <3>1. doing[d] \in Events /\ NextInBatch(d) /\ UNCHANGED attempts
      BY <2>4 DEF CompleteOutboxEvent, HoldsWhatItDoes
    <3>2. \A e \in Events : status'[e] = "failed" => status[e] = "failed"
      BY <2>4, <3>1 DEF CompleteOutboxEvent, Settle, TypeOK
    <3>3. QED
      BY <3>1, <3>2, <1>b, NextTyped
  <2>5. CASE FailOutboxEvent(d)
    <3>1. doing[d] \in Events /\ NextInBatch(d) /\ UNCHANGED attempts
      BY <2>5 DEF FailOutboxEvent, HoldsWhatItDoes
    <3>2. held[d][doing[d]] \in Nat /\ attempts[doing[d]] \in Nat
          /\ held[d][doing[d]] <= attempts[doing[d]]
      BY <3>1 DEF AttemptsCounted, TypeOK
    <3>3. \A e \in Events : status'[e] = "failed" =>
            status[e] = "failed" \/ attempts[e] >= MaxAttempts
      BY <2>5, <3>1, <3>2 DEF FailOutboxEvent, Settle, DeadLettered, TypeOK
    <3>4. QED
      BY <3>1, <3>3, <1>b, NextTyped
  <2>6. CASE Crash(d)
    BY <2>6, <1>b DEF Crash, TypeOK
  <2>7. QED
    BY <1>1, <2>1, <2>2, <2>3, <2>4, <2>5, <2>6 DEF DispatcherStep
<1>2. ASSUME NEW e \in Events, EventStep(e) PROVE AttemptsCounted'
  BY <1>2, <1>b DEF EventStep, InsertOutboxEvent, BackoffElapses, ClaimGrowsStale,
     JobForgotten, TypeOK
<1>3. CASE UNCHANGED vars
  BY <1>3, <1>b DEF vars
<1>4. QED
  BY <1>1, <1>2, <1>3 DEF Next

\* No event is given up before all of its attempts.
THEOREM AllAttemptsMade == Spec => []DeadLetterHasNoAttemptLeft
<1>1. Init => AttemptsCounted
  BY OutboxAssumption DEF Init, AttemptsCounted, DeadLetterHasNoAttemptLeft
<1>2. AttemptsCounted => DeadLetterHasNoAttemptLeft
  BY DEF AttemptsCounted
<1>3. QED
  BY <1>1, <1>2, AttemptsStep, TypeInvInit, TypeInvStep, PTL DEF Spec

\* An email was made for every job the queue holds, and for every event a
\* dispatcher is about to complete.
QueuedInv ==
  /\ \A e \in Events : job[e] => jobs[e] > 0
  /\ \A d \in Dispatchers : at[d] = "sent" => jobs[doing[d]] > 0

\* Queueing an email leaves it queued, and the others as they were.
LEMMA EnqueueMakes ==
  ASSUME TypeInv, QueuedInv, NEW e \in Events, Enqueue(e)
  PROVE  /\ jobs'[e] > 0 /\ \A f \in Events : f # e => jobs'[f] = jobs[f]
         /\ \A f \in Events : job'[f] => jobs'[f] > 0
<1>1. Up(jobs[e]) > 0
  BY UpBounded DEF TypeInv, TypeOK
<1>2. CASE job[e]
  BY <1>2 DEF Enqueue, QueuedInv, queueVars
<1>3. CASE ~job[e]
  BY <1>1, <1>3 DEF Enqueue, QueuedInv, TypeInv, TypeOK
<1>4. QED
  BY <1>2, <1>3

LEMMA QueuedStep == TypeInv /\ QueuedInv /\ [Next]_vars => QueuedInv'
<1> SUFFICES ASSUME TypeInv, QueuedInv, [Next]_vars PROVE QueuedInv'
  OBVIOUS
<1> TypeOK /\ HoldsWhatItDoes
  BY DEF TypeInv
<1> USE DEF rowVars, queueVars, dispatcherVars
<1>a. ASSUME UNCHANGED queueVars,
             \A d \in Dispatchers : at'[d] = "sent" =>
               at[d] = "sent" /\ doing'[d] = doing[d]
      PROVE  QueuedInv'
  BY <1>a DEF QueuedInv
<1>1. ASSUME NEW d \in Dispatchers, DispatcherStep(d) PROVE QueuedInv'
  <2>1. ASSUME NEW e \in Events, Handle(d, e) PROVE QueuedInv'
    <3>1. CASE Enqueue(e)
      <4>1. \A f \in Events : jobs[f] > 0 => jobs'[f] > 0
        BY <3>1, EnqueueMakes
      <4>2. \A c \in Dispatchers : at'[c] = "sent" => jobs'[doing'[c]] > 0
        BY <2>1, <3>1, <4>1, EnqueueMakes DEF Handle, QueuedInv, TypeOK, HoldsWhatItDoes
      <4>3. QED
        BY <3>1, <4>2, EnqueueMakes DEF QueuedInv
    <3>2. CASE ~Enqueue(e)
      BY <2>1, <3>2, <1>a DEF Handle, TypeOK
    <3>3. QED
      BY <3>1, <3>2
  <2>2. CASE CompleteOutboxEvent(d) \/ FailOutboxEvent(d)
    <3>1. doing[d] \in Events /\ NextInBatch(d) /\ UNCHANGED queueVars
      BY <2>2 DEF CompleteOutboxEvent, FailOutboxEvent, HoldsWhatItDoes
    <3>2. QED
      BY <3>1, <1>a, NextTyped
  <2>3. CASE ResetStaleOutboxEvents(d) \/ ClaimOutboxBatch(d) \/ CompleteThrows(d) \/ Crash(d)
    BY <2>3, <1>a DEF ResetStaleOutboxEvents, ClaimOutboxBatch, CompleteThrows, Crash, TypeOK
  <2>4. QED
    BY <1>1, <2>1, <2>2, <2>3 DEF DispatcherStep
<1>2. ASSUME NEW e \in Events, EventStep(e) PROVE QueuedInv'
  <2>1. CASE JobForgotten(e)
    BY <2>1 DEF JobForgotten, QueuedInv, TypeOK
  <2>2. CASE ~JobForgotten(e)
    BY <1>2, <2>2, <1>a DEF EventStep, InsertOutboxEvent, BackoffElapses, ClaimGrowsStale
  <2>3. QED
    BY <2>1, <2>2
<1>3. CASE UNCHANGED vars
  BY <1>3, <1>a DEF vars
<1>4. QED
  BY <1>1, <1>2, <1>3 DEF Next

\* What the statuses mean to the use case.
LEMMA OutcomeIs ==
  /\ OutcomeOf("absent") = "none" /\ OutcomeOf("pending") = "accepted"
  /\ OutcomeOf("processing") = "accepted" /\ OutcomeOf("completed") = "delivered"
  /\ OutcomeOf("failed") = "dead"
BY DEF OutcomeOf

\* Every step of the outbox is a step of EventDelivery, or none of its business.
LEMMA DeliveryStep ==
  TypeInv /\ QueuedInv /\ [Next]_vars => [Delivery!Next]_<<Outcome, Sent>>
<1> SUFFICES ASSUME TypeInv, QueuedInv, [Next]_vars
             PROVE  [Delivery!Next]_<<Outcome, Sent>>
  OBVIOUS
<1> TypeOK /\ HoldsWhatItDoes
  BY DEF TypeInv
<1> DEFINE Goal == [Delivery!Next]_<<Outcome, Sent>>
<1> USE OutcomeIs DEF rowVars, queueVars, dispatcherVars
<1>a. ASSUME \A e \in Events : OutcomeOf(status'[e]) = OutcomeOf(status[e])
      PROVE  UNCHANGED Outcome
  BY <1>a DEF Outcome
<1>b. ASSUME NEW e \in Events, NEW s, status' = [status EXCEPT ![e] = s]
      PROVE  Outcome' = [Outcome EXCEPT ![e] = OutcomeOf(s)]
  BY <1>b DEF Outcome, TypeOK
<1>c. UNCHANGED jobs => UNCHANGED Sent
  BY DEF Sent
<1>d. \A e \in Events : Outcome[e] = OutcomeOf(status[e]) /\ Sent[e] = (jobs[e] > 0)
  BY DEF Outcome, Sent
<1>1. ASSUME NEW d \in Dispatchers, DispatcherStep(d) PROVE Goal
  <2>1. CASE ResetStaleOutboxEvents(d) \/ ClaimOutboxBatch(d) \/ CompleteThrows(d) \/ Crash(d)
    <3>1. \A e \in Events : OutcomeOf(status'[e]) = OutcomeOf(status[e])
      BY <2>1 DEF ResetStaleOutboxEvents, ClaimOutboxBatch, CompleteThrows, Crash, Claimable,
         TypeOK
    <3>2. UNCHANGED jobs
      BY <2>1 DEF ResetStaleOutboxEvents, ClaimOutboxBatch, CompleteThrows, Crash
    <3>3. QED
      BY <3>1, <3>2, <1>a, <1>c
  <2>2. ASSUME NEW e \in Events, Handle(d, e) PROVE Goal
    <3>1. UNCHANGED Outcome /\ Outcome[e] # "none"
      <4>1. status[e] \in {"pending", "processing", "completed", "failed"} /\ UNCHANGED status
        BY <2>2 DEF Handle, TypeOK, HoldsWhatItDoes
      <4>2. QED
        BY <4>1, <1>a, <1>d
    <3>2. CASE Enqueue(e)
      <4>1. Sent' = [Sent EXCEPT ![e] = TRUE]
        BY <3>2, EnqueueMakes DEF Sent
      <4>2. QED
        BY <3>1, <4>1 DEF Delivery!Next, Delivery!Send
    <3>3. CASE ~Enqueue(e)
      BY <2>2, <3>1, <3>3, <1>c DEF Handle
    <3>4. QED
      BY <3>2, <3>3
  <2>3. CASE CompleteOutboxEvent(d)
    <3> DEFINE e == doing[d]
    <3>1. e \in Events /\ Sent[e] /\ UNCHANGED Sent
      BY <2>3, <1>c, <1>d DEF CompleteOutboxEvent, HoldsWhatItDoes, QueuedInv
    <3>2. CASE status[e] = "processing"
      <4>1. status' = [status EXCEPT ![e] = "completed"]
        BY <2>3, <3>2 DEF CompleteOutboxEvent, Settle
      <4>2. Outcome[e] = "accepted" /\ Outcome' = [Outcome EXCEPT ![e] = "delivered"]
        <5>1. Outcome' = [Outcome EXCEPT ![e] = OutcomeOf("completed")]
          BY <3>1, <4>1, <1>b
        <5>2. QED
          BY <3>1, <3>2, <5>1, <1>d
      <4>3. QED
        BY <3>1, <4>2 DEF Delivery!Next, Delivery!Deliver
    <3>3. CASE status[e] # "processing"
      BY <2>3, <3>1, <3>3, <1>a DEF CompleteOutboxEvent, Settle
    <3>4. QED
      BY <3>2, <3>3
  <2>4. CASE FailOutboxEvent(d)
    <3> DEFINE e == doing[d]
    <3>1. e \in Events /\ UNCHANGED Sent
      BY <2>4, <1>c DEF FailOutboxEvent, HoldsWhatItDoes
    <3>2. CASE status[e] = "processing"
      <4>1. \/ status' = [status EXCEPT ![e] = "failed"]
            \/ status' = [status EXCEPT ![e] = "pending"]
        BY <2>4, <3>2 DEF FailOutboxEvent, Settle
      <4>2. Outcome[e] = "accepted" /\ \/ Outcome' = [Outcome EXCEPT ![e] = "dead"]
                                       \/ Outcome' = [Outcome EXCEPT ![e] = "accepted"]
        BY <3>1, <3>2, <4>1, <1>b, <1>d
      <4>3. CASE Outcome' = [Outcome EXCEPT ![e] = "dead"]
        BY <3>1, <4>2, <4>3 DEF Delivery!Next, Delivery!GiveUp
      <4>4. CASE Outcome' = [Outcome EXCEPT ![e] = "accepted"]
        BY <3>1, <4>2, <4>4 DEF Outcome
      <4>5. QED
        BY <4>2, <4>3, <4>4
    <3>3. CASE status[e] # "processing"
      BY <2>4, <3>1, <3>3, <1>a DEF FailOutboxEvent, Settle
    <3>4. QED
      BY <3>2, <3>3
  <2>5. QED
    BY <1>1, <2>1, <2>2, <2>3, <2>4 DEF DispatcherStep
<1>2. ASSUME NEW e \in Events, EventStep(e) PROVE Goal
  <2>1. CASE InsertOutboxEvent(e)
    <3>1. Outcome[e] = "none" /\ Outcome' = [Outcome EXCEPT ![e] = "accepted"]
      BY <2>1, <1>b, <1>d DEF InsertOutboxEvent
    <3>2. UNCHANGED Sent
      BY <2>1, <1>c DEF InsertOutboxEvent
    <3>3. QED
      BY <3>1, <3>2 DEF Delivery!Next, Delivery!Accept
  <2>2. CASE ~InsertOutboxEvent(e)
    BY <1>2, <2>2, <1>a, <1>c DEF EventStep, BackoffElapses, ClaimGrowsStale, JobForgotten
  <2>3. QED
    BY <2>1, <2>2
<1>3. CASE UNCHANGED vars
  BY <1>3, <1>a, <1>c DEF vars
<1>4. QED
  BY <1>1, <1>2, <1>3 DEF Next

\* The outbox keeps the promise of EventDelivery: an event accepted with its
\* transaction is delivered only after its email was queued, or given up, and
\* never both, whatever dispatchers do at the same time or leave half done.
THEOREM Delivers == Spec => DeliversEvents
<1>1. Init => Delivery!Init
  <2> SUFFICES ASSUME Init PROVE Delivery!Init
    OBVIOUS
  <2>1. Outcome = [e \in Events |-> "none"]
    BY OutcomeIs DEF Init, Outcome
  <2>2. Sent = [e \in Events |-> FALSE]
    <3>1. \A e \in Events : (jobs[e] > 0) = FALSE
      BY DEF Init
    <3>2. QED
      BY <3>1, Zenon DEF Sent
  <2>3. QED
    BY <2>1, <2>2 DEF Delivery!Init
<1>2. Init => QueuedInv
  BY DEF Init, QueuedInv
<1>3. QED
  BY <1>1, <1>2, QueuedStep, DeliveryStep, TypeInvInit, TypeInvStep, PTL
     DEF Spec, DeliversEvents, Delivery!Spec
=============================================================================

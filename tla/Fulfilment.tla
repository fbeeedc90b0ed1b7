----------------------------- MODULE Fulfilment -----------------------------
(***************************************************************************)
(* Shipping an order and closing it: shipOrder with its tracking number,   *)
(* the poll that asks the carrier and completes what was delivered         *)
(* (usecases/logistics-sync), the daily job that completes what nobody     *)
(* confirmed (apps/worker/maintenanceWorker), and the customer's receipt.  *)
(*                                                                         *)
(* The poll and the daily job await between their statements, so each      *)
(* statement is a step; a statement of the database is atomic.             *)
(***************************************************************************)
EXTENDS Naturals, FiniteSets, OrderDomain

CONSTANTS
  Orders,      \* paid orders
  Numbers,     \* tracking numbers, each with its courier
  NoNumber,    \* no courier or no tracking number given
  NoOrder,     \* the order in hand of an idle poll
  Pollers,     \* workers that run the poll
  Completers,  \* workers that run the daily job
  PollLimit,   \* limit of listShippedWithTracking
  BatchSize    \* ORDER_AUTO_COMPLETE_BATCH_SIZE

ASSUME FulfilmentAssumption ==
  /\ IsFiniteSet(Orders)
  /\ NoNumber \notin Numbers
  /\ NoOrder \notin Orders
  /\ PollLimit \in Nat \ {0} /\ BatchSize \in Nat \ {0}

VARIABLES
  order,      \* orders.status
  number,     \* orders.tracking_number with orders.courier_company
  shippedAt,  \* orders.shipped_at, as the position in shipping order; 0 is NULL
  overdue,    \* whether shipped_at is beyond the auto-complete delay
  track,      \* the row of logistics_tracks
  parcel,     \* what the carrier knows of a tracking number
  closedBy,   \* which path completed the order (history)
  poll,       \* the run of the poll of each poller
  daily,      \* the run of the daily job of each completer
  shared      \* orders that were on the lists of two runs of the poll (history)

orderVars == <<order, number, shippedAt, overdue, closedBy>>
vars == <<orderVars, track, parcel, poll, daily, shared>>

Exceptional == {"rejected", "delivery_failed"}
TrackStatus == {"in_transit", "delivered"} \cup Exceptional
NoTrack == [number |-> NoNumber, status |-> "in_transit"]

NoTodo == [o \in {} |-> NoNumber]
PollIdle == [at |-> "idle", todo |-> NoTodo, order |-> NoOrder, saw |-> "in_transit"]
DailyIdle == [at |-> "idle", exclude |-> {}, candidates |-> {}]

\* What is listed and not yet looked at, with the numbers as they were listed.
Todo == UNION {[S -> Numbers] : S \in SUBSET Orders}
Poll == [at : {"idle", "query", "upsert", "complete"}, todo : Todo,
         order : Orders \cup {NoOrder}, saw : TrackStatus]

TypeOK ==
  /\ order \in [Orders -> OrderStatus]
  /\ number \in [Orders -> Numbers \cup {NoNumber}]
  /\ shippedAt \in [Orders -> 0..Cardinality(Orders)]
  /\ overdue \in [Orders -> BOOLEAN]
  /\ track \in [Orders -> [number : Numbers \cup {NoNumber}, status : TrackStatus]]
  /\ parcel \in [Numbers -> TrackStatus]
  /\ closedBy \in [Orders -> {"nobody", "customer", "delivery", "timeout"}]
  /\ poll \in [Pollers -> Poll]
  /\ daily \in [Completers -> [at : {"idle", "select", "update"},
                               exclude : SUBSET Orders, candidates : SUBSET Orders]]
  /\ shared \subseteq Orders

Init ==
  /\ order = [o \in Orders |-> "paid"]
  /\ number = [o \in Orders |-> NoNumber]
  /\ shippedAt = [o \in Orders |-> 0]
  /\ overdue = [o \in Orders |-> FALSE]
  /\ track = [o \in Orders |-> NoTrack]
  /\ parcel = [n \in Numbers |-> "in_transit"]
  /\ closedBy = [o \in Orders |-> "nobody"]
  /\ poll = [w \in Pollers |-> PollIdle]
  /\ daily = [w \in Completers |-> DailyIdle]
  /\ shared = {}

\* ORDER BY shipped_at LIMIT k.
Oldest(S, k) ==
  {o \in S : Cardinality({p \in S : shippedAt[p] < shippedAt[o]}) < k}

-----------------------------------------------------------------------------
(* Shipping *)

\* shippedAt: order.shippedAt ?? new Date().
StampShipped(o) ==
  shippedAt' = [shippedAt EXCEPT ![o] =
                  IF @ > 0 THEN @ ELSE Cardinality({p \in Orders : shippedAt[p] > 0}) + 1]

\* shipOrder on a paid order: courier and number together, or neither.
ShipOrder(o, n) ==
  /\ order[o] = "paid"
  /\ order' = [order EXCEPT ![o] = "shipped"]
  /\ number' = [number EXCEPT ![o] = n]
  /\ StampShipped(o)
  /\ UNCHANGED <<overdue, closedBy, track, parcel, poll, daily, shared>>

\* An admin's PATCH writes the status alone: no number and no shipped_at.
PatchShipped(o) ==
  /\ order[o] = "paid"
  /\ order' = [order EXCEPT ![o] = "shipped"]
  /\ UNCHANGED <<number, shippedAt, overdue, closedBy, track, parcel, poll, daily, shared>>

\* shipOrder on a shipped order adds or corrects the number, and keeps a
\* shipped_at it has; the snapshot of the old number stays until the next poll.
CorrectNumber(o, n) ==
  /\ order[o] = "shipped"
  /\ number' = [number EXCEPT ![o] = n]
  /\ StampShipped(o)
  /\ UNCHANGED <<order, overdue, closedBy, track, parcel, poll, daily, shared>>

\* A cancel or a refund elsewhere takes the order away.
MovesAway(o, s) ==
  /\ \/ s = "cancelled" /\ CanUpdate(order[o], s)
     \/ s = "refunded" /\ order[o] \in Refundable
  /\ order' = [order EXCEPT ![o] = s]
  /\ UNCHANGED <<number, shippedAt, overdue, closedBy, track, parcel, poll, daily, shared>>

\* completeOrder for the customer or an admin.
CompleteOrder(o) ==
  /\ order[o] = "shipped"
  /\ order' = [order EXCEPT ![o] = "completed"]
  /\ closedBy' = [closedBy EXCEPT ![o] = "customer"]
  /\ UNCHANGED <<number, shippedAt, overdue, track, parcel, poll, daily, shared>>

-----------------------------------------------------------------------------
(* The poll: pollAndSyncShippedOrders *)

\* Fault: an order with a failed delivery is not asked about again.
TrackableUnlessFailed == {o \in Orders :
  /\ order[o] = "shipped" /\ number[o] # NoNumber /\ shippedAt[o] > 0
  /\ track[o].status \notin Exceptional}

Trackable ==
  {o \in Orders : order[o] = "shipped" /\ number[o] # NoNumber /\ shippedAt[o] > 0}

ListShippedWithTracking(w) ==
  LET listed == Oldest(Trackable, PollLimit) IN
  /\ poll[w].at = "idle" /\ listed # {}
  /\ poll' = [poll EXCEPT ![w] = [PollIdle EXCEPT !.at = "query",
                                    !.todo = [o \in listed |-> number[o]]]]
  /\ shared' = shared \cup {o \in listed : \E v \in Pollers \ {w} : o \in DOMAIN poll[v].todo}
  /\ UNCHANGED <<orderVars, track, parcel, daily>>

\* The listed order that was shipped first.
InHand(w, o) ==
  LET todo == DOMAIN poll[w].todo IN
  o \in todo /\ \A p \in todo : shippedAt[o] <= shippedAt[p]

\* On to the next order of the list, or the run is over.
Without(todo, o) == [p \in DOMAIN todo \ {o} |-> todo[p]]
NextOrder(w, o) ==
  LET rest == Without(poll[w].todo, o) IN
  poll' = [poll EXCEPT ![w] =
             IF DOMAIN rest = {} THEN PollIdle
             ELSE [PollIdle EXCEPT !.at = "query", !.todo = rest]]

\* syncTrack, first half: the carrier answers for the number that was listed.
QueryTrack(w, o) ==
  /\ poll[w].at = "query" /\ InHand(w, o)
  /\ poll' = [poll EXCEPT ![w] = [@ EXCEPT !.at = "upsert", !.order = o,
                                    !.saw = parcel[poll[w].todo[o]]]]
  /\ UNCHANGED <<orderVars, track, parcel, daily, shared>>

ProviderError(w, o) ==
  /\ poll[w].at = "query" /\ InHand(w, o)
  /\ NextOrder(w, o)
  /\ UNCHANGED <<orderVars, track, parcel, daily, shared>>

\* Fault: the first snapshot of an order is kept.
TrackKept(w) ==
  LET o == poll[w].order IN
  track' = IF track[o] # NoTrack THEN track
           ELSE [track EXCEPT ![o] = [number |-> poll[w].todo[o], status |-> poll[w].saw]]

\* INSERT ... ON CONFLICT (order_id) DO UPDATE.
UpsertTrack(w) ==
  LET o == poll[w].order IN
  track' = [track EXCEPT ![o] = [number |-> poll[w].todo[o], status |-> poll[w].saw]]

\* syncTrack, second half, and the branch on the status of the snapshot.
SyncTrack(w) ==
  LET o == poll[w].order IN
  /\ poll[w].at = "upsert"
  /\ UpsertTrack(w)
  /\ \/ poll[w].saw = "delivered" /\ poll' = [poll EXCEPT ![w].at = "complete"]
     \/ poll[w].saw # "delivered" /\ NextOrder(w, o)
  /\ UNCHANGED <<orderVars, parcel, daily, shared>>

\* completeOrder with its compare-and-set; losing it is not an error here.
CompleteDelivered(w) ==
  LET o == poll[w].order IN
  /\ poll[w].at = "complete"
  /\ IF order[o] = "shipped"
     THEN /\ order' = [order EXCEPT ![o] = "completed"]
          /\ closedBy' = [closedBy EXCEPT ![o] = "delivery"]
     ELSE UNCHANGED <<order, closedBy>>
  /\ NextOrder(w, o)
  /\ UNCHANGED <<number, shippedAt, overdue, track, parcel, daily, shared>>

-----------------------------------------------------------------------------
(* The daily job: listExceptionOrderIds, then autoCompleteShippedOrders *)

\* Fault: every tracked order that is not delivered yet is excluded.
ExcludedUndelivered ==
  {o \in Orders : track[o] # NoTrack /\ track[o].status # "delivered"}

Excluded == {o \in Orders : track[o].status \in Exceptional}

ListExceptionOrderIds(w) ==
  /\ daily[w].at = "idle"
  /\ daily' = [daily EXCEPT ![w] =
                 [at |-> "select", candidates |-> {}, exclude |-> Excluded]]
  /\ UNCHANGED <<orderVars, track, parcel, poll, shared>>

\* The limit applies before the exclusion.
AutoCompleteSelect(w) ==
  LET stale == {o \in Orders : order[o] = "shipped" /\ overdue[o]}
      candidates == Oldest(stale, BatchSize) \ daily[w].exclude
  IN
  /\ daily[w].at = "select"
  /\ daily' = [daily EXCEPT ![w] =
                 IF candidates = {} THEN DailyIdle
                 ELSE [@ EXCEPT !.at = "update", !.candidates = candidates]]
  /\ UNCHANGED <<orderVars, track, parcel, poll, shared>>

\* Fault: the status is not compared again.
StillCandidateAnyway(o) == TRUE

\* UPDATE ... WHERE status = 'shipped' AND id IN (...).
StillCandidate(o) == order[o] = "shipped"

AutoCompleteUpdate(w) ==
  LET completed == {o \in daily[w].candidates : StillCandidate(o)} IN
  /\ daily[w].at = "update"
  /\ order' = [o \in Orders |-> IF o \in completed THEN "completed" ELSE order[o]]
  /\ closedBy' = [o \in Orders |-> IF o \in completed THEN "timeout" ELSE closedBy[o]]
  /\ daily' = [daily EXCEPT ![w] = DailyIdle]
  /\ UNCHANGED <<number, shippedAt, overdue, track, parcel, poll, shared>>

-----------------------------------------------------------------------------
(* The carrier, time and crashes *)

ParcelMoves(n, s) ==
  /\ \/ parcel[n] = "in_transit" /\ s # "in_transit"
     \/ parcel[n] = "delivery_failed" /\ s # "delivery_failed"
  /\ parcel' = [parcel EXCEPT ![n] = s]
  /\ UNCHANGED <<orderVars, track, poll, daily, shared>>

\* An order becomes overdue after those that were shipped before it.
GrowsOverdue(o) ==
  /\ order[o] = "shipped" /\ shippedAt[o] > 0 /\ ~overdue[o]
  /\ \A p \in Orders : shippedAt[p] \in 1..(shippedAt[o] - 1) =>
       overdue[p] \/ order[p] # "shipped"
  /\ overdue' = [overdue EXCEPT ![o] = TRUE]
  /\ UNCHANGED <<order, number, shippedAt, closedBy, track, parcel, poll, daily, shared>>

PollCrash(w) ==
  /\ poll[w].at # "idle"
  /\ poll' = [poll EXCEPT ![w] = PollIdle]
  /\ UNCHANGED <<orderVars, track, parcel, daily, shared>>

DailyCrash(w) ==
  /\ daily[w].at # "idle"
  /\ daily' = [daily EXCEPT ![w] = DailyIdle]
  /\ UNCHANGED <<orderVars, track, parcel, poll, shared>>

-----------------------------------------------------------------------------
PollStep(w) ==
  \/ ListShippedWithTracking(w) \/ SyncTrack(w) \/ CompleteDelivered(w) \/ PollCrash(w)
  \/ \E o \in Orders : QueryTrack(w, o) \/ ProviderError(w, o)

DailyStep(w) ==
  \/ ListExceptionOrderIds(w) \/ AutoCompleteSelect(w) \/ AutoCompleteUpdate(w)
  \/ DailyCrash(w)

OrderStep(o) ==
  \/ \E n \in Numbers \cup {NoNumber} : ShipOrder(o, n)
  \/ \E n \in Numbers : CorrectNumber(o, n)
  \/ \E s \in {"cancelled", "refunded"} : MovesAway(o, s)
  \/ PatchShipped(o) \/ CompleteOrder(o) \/ GrowsOverdue(o)

Next ==
  \/ \E w \in Pollers : PollStep(w)
  \/ \E w \in Completers : DailyStep(w)
  \/ \E o \in Orders : OrderStep(o)
  \/ \E n \in Numbers, s \in TrackStatus : ParcelMoves(n, s)

Spec == Init /\ [][Next]_vars

\* Both jobs are scheduled again and again, in whichever worker; a crash or a
\* carrier's error may spoil any run, but not every run at the same statement.
PollFair ==
  /\ SF_vars(\E w \in Pollers : ListShippedWithTracking(w))
  /\ \A o \in Orders : SF_vars(\E w \in Pollers : QueryTrack(w, o))
  /\ SF_vars(\E w \in Pollers : SyncTrack(w))
  /\ SF_vars(\E w \in Pollers : CompleteDelivered(w))

DailyFair ==
  /\ SF_vars(\E w \in Completers : ListExceptionOrderIds(w))
  /\ SF_vars(\E w \in Completers : AutoCompleteSelect(w))
  /\ SF_vars(\E w \in Completers : AutoCompleteUpdate(w))

FairSpec == Spec /\ PollFair /\ DailyFair

\* The daily job alone.
DailySpec == Spec /\ DailyFair

-----------------------------------------------------------------------------
(* What holds *)

\* "Whoever comes first wins" (order/service completeOrder): the customer, the
\* poll and the daily job complete an order once between them, and none of
\* them brings back an order that was refunded or cancelled meanwhile.
ClosedOnce ==
  [][\A o \in Orders :
       /\ closedBy[o] # "nobody" => closedBy'[o] = closedBy[o]
       /\ order[o] \in {"refunded", "cancelled"} => order'[o] = order[o]]_vars

\* What the customer sees agrees with what the poll did: an order it completed
\* was delivered by the carrier, and its record says so and under which number.
\* The worker runs five jobs at once: where two runs of the poll had the order
\* on their lists together, the one that asked first may write last, and only
\* the delivery is certain.
DeliveryIsOnRecord ==
  \A o \in Orders : closedBy[o] = "delivery" =>
    \E n \in Numbers :
      /\ parcel[n] = "delivered"
      /\ track[o] = [number |-> n, status |-> "delivered"] \/ o \in shared

\* A delivered order is completed, however the carrier's errors and the
\* crashes of the poll fall, unless its number is corrected.
DeliveredOrderCompletes ==
  \A o \in Orders, n \in Numbers :
    (order[o] = "shipped" /\ number[o] = n /\ parcel[n] = "delivered")
      ~> (order[o] # "shipped" \/ number[o] # n)

\* order/jobs: what nobody confirmed in time is completed by the worker,
\* unless the carrier reports it as refused or not deliverable.
OverdueOrderCompletes ==
  \A o \in Orders :
    (order[o] = "shipped" /\ overdue[o])
      ~> (order[o] # "shipped" \/ track[o].status \in Exceptional)

-----------------------------------------------------------------------------
(* What the comments say, and the code does not keep *)

\* logistics-tracks: a refused parcel must never be completed by the timeout.
RejectedIsSpared ==
  [][\A o \in Orders :
       closedBy[o] = "nobody" /\ closedBy'[o] = "timeout"
         => track[o].status \notin Exceptional]_vars

\* syncTrack: status and deliveredAt follow the snapshot, so an order that the
\* poll completed shows the delivery.
RecordShowsDelivery ==
  \A o \in Orders : closedBy[o] = "delivery" =>
    track[o].status = "delivered" /\ parcel[track[o].number] = "delivered"

\* logisticsWorker: delivery drives completion, so an order the poll completes
\* was delivered under the number it has.
DeliveredUnderItsNumber ==
  [][\A o \in Orders :
       closedBy[o] = "nobody" /\ closedBy'[o] = "delivery"
         => number[o] \in Numbers /\ parcel[number[o]] = "delivered"]_vars
=============================================================================

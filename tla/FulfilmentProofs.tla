-------------------------- MODULE FulfilmentProofs --------------------------
(***************************************************************************)
(* What TLAPS proves of Fulfilment, for every set of orders, tracking      *)
(* numbers and workers and every batch limit: types, that an order is      *)
(* closed once between the customer, the poll and the daily job, and that  *)
(* an order closed by delivery was delivered and shows it, but for a late  *)
(* write of a run that had it on its list at the same time.                *)
(***************************************************************************)
EXTENDS Fulfilment, FiniteSetTheorems, TLAPS

USE DEF orderVars, vars

\* TypeOK alone is not inductive: what a poll has in hand is on its list.
HandIsListed ==
  \A w \in Pollers : poll[w].at \in {"upsert", "complete"} =>
    poll[w].order \in DOMAIN poll[w].todo

TypeInv == TypeOK /\ HandIsListed

\* An idle poll is well typed.
LEMMA IdleTyped == PollIdle \in Poll /\ PollIdle.at = "idle"
<1>1. NoTodo \in [{} -> Numbers]
  BY DEF NoTodo
<1>2. QED
  BY <1>1 DEF PollIdle, Poll, Todo, TrackStatus

\* Any list of orders with their numbers makes a well-typed poll.
LEMMA ListedTyped ==
  ASSUME NEW S \in SUBSET Orders, NEW todo \in [S -> Numbers]
  PROVE  [PollIdle EXCEPT !.at = "query", !.todo = todo] \in Poll
<1>1. todo \in Todo
  BY DEF Todo
<1>2. QED
  BY <1>1 DEF PollIdle, Poll, TrackStatus

\* Going on with the list leaves a well-typed poll with nothing in hand, on a
\* list without the order just done.
LEMMA NextTyped ==
  ASSUME TypeOK, NEW w \in Pollers, NEW o, NextOrder(w, o)
  PROVE  /\ poll' \in [Pollers -> Poll]
         /\ poll'[w].at \in {"idle", "query"}
         /\ DOMAIN poll'[w].todo = DOMAIN poll[w].todo \ {o}
         /\ \A v \in Pollers \ {w} : poll'[v] = poll[v]
<1> DEFINE rest == Without(poll[w].todo, o)
<1>0. poll[w].todo \in Todo
  BY DEF TypeOK, Poll
<1>1. PICK S \in SUBSET Orders : poll[w].todo \in [S -> Numbers]
  BY <1>0, Zenon DEF Todo
<1>2. rest \in [S \ {o} -> Numbers] /\ DOMAIN rest = DOMAIN poll[w].todo \ {o}
  BY <1>1 DEF Without
<1>3. [PollIdle EXCEPT !.at = "query", !.todo = rest] \in Poll
  BY <1>1, <1>2, ListedTyped
<1>4. DOMAIN NoTodo = {} /\ PollIdle.todo = NoTodo /\ PollIdle.at = "idle"
  BY DEF NoTodo, PollIdle
<1>5. [PollIdle EXCEPT !.at = "query", !.todo = rest].todo = rest
      /\ [PollIdle EXCEPT !.at = "query", !.todo = rest].at = "query"
  BY DEF PollIdle
<1> HIDE DEF rest
<1>6. CASE DOMAIN rest = {}
  <2>1. poll' = [poll EXCEPT ![w] = PollIdle]
    BY <1>6 DEF NextOrder, rest
  <2>2. QED
    BY <2>1, <1>2, <1>4, <1>6, IdleTyped DEF TypeOK
<1>7. CASE DOMAIN rest # {}
  <2>1. poll' = [poll EXCEPT ![w] = [PollIdle EXCEPT !.at = "query", !.todo = rest]]
    BY <1>7 DEF NextOrder, rest
  <2>2. QED
    BY <2>1, <1>2, <1>3, <1>5 DEF TypeOK
<1>8. QED
  BY <1>6, <1>7

\* The position of an order shipped for the first time.
LEMMA StampTyped ==
  ASSUME TypeOK, NEW o \in Orders, StampShipped(o)
  PROVE  shippedAt' \in [Orders -> 0..Cardinality(Orders)]
<1> DEFINE S == {p \in Orders : shippedAt[p] > 0}
<1>1. CASE shippedAt[o] > 0
  BY <1>1 DEF StampShipped, TypeOK
<1>2. CASE ~(shippedAt[o] > 0)
  <2>1. IsFiniteSet(Orders) /\ o \notin S /\ S \subseteq Orders
    BY <1>2, FulfilmentAssumption
  <2>2. IsFiniteSet(S) /\ Cardinality(S) \in Nat /\ Cardinality(Orders) \in Nat
    BY <2>1, FS_Subset, FS_CardinalityType
  <2>3. Cardinality(S \cup {o}) = Cardinality(S) + 1
    BY <2>1, <2>2, FS_AddElement
  <2>4. Cardinality(S \cup {o}) <= Cardinality(Orders)
    BY <2>1, FS_Subset
  <2>5. Cardinality(S) + 1 \in 0..Cardinality(Orders)
    BY <2>2, <2>3, <2>4
  <2>6. shippedAt' = [shippedAt EXCEPT ![o] = Cardinality(S) + 1]
    BY <1>2 DEF StampShipped
  <2>7. QED
    BY <2>5, <2>6 DEF TypeOK
<1>3. QED
  BY <1>1, <1>2

\* The inductive step of type correctness.
LEMMA TypeInvStep == TypeInv /\ [Next]_vars => TypeInv'
<1> SUFFICES ASSUME TypeInv, [Next]_vars PROVE TypeOK' /\ HandIsListed'
  BY DEF TypeInv
<1> TypeOK /\ HandIsListed
  BY DEF TypeInv
<1> DEFINE Goal == TypeOK' /\ HandIsListed'
<1> USE DEF HandIsListed
<1>1. ASSUME NEW w \in Pollers, PollStep(w) PROVE Goal
  <2>1. CASE ListShippedWithTracking(w)
    <3> DEFINE listed == Oldest(Trackable, PollLimit)
               todo == [o \in listed |-> number[o]]
               run == [PollIdle EXCEPT !.at = "query", !.todo = todo]
    <3>1. listed \in SUBSET Orders /\ todo \in [listed -> Numbers]
      BY DEF Oldest, Trackable, TypeOK
    <3>2. run \in Poll
      BY <3>1, ListedTyped
    <3>3. run.at = "query"
      BY DEF PollIdle
    <3>4. poll' = [poll EXCEPT ![w] = run]
      BY <2>1 DEF ListShippedWithTracking
    <3> HIDE DEF run
    <3>5. TypeOK'
      BY <2>1, <3>1, <3>2, <3>4 DEF ListShippedWithTracking, TypeOK
    <3>6. HandIsListed'
      BY <3>3, <3>4 DEF TypeOK
    <3>7. QED
      BY <3>5, <3>6
  <2>2. ASSUME NEW o \in Orders, QueryTrack(w, o) PROVE Goal
    <3>1. poll[w] \in Poll /\ o \in DOMAIN poll[w].todo
      BY <2>2 DEF QueryTrack, InHand, TypeOK
    <3>2. PICK S \in SUBSET Orders : poll[w].todo \in [S -> Numbers]
      <4>1. poll[w].todo \in Todo
        BY <3>1 DEF Poll
      <4>2. QED
        BY <4>1, Zenon DEF Todo
    <3>3. parcel[poll[w].todo[o]] \in TrackStatus
      BY <3>1, <3>2 DEF TypeOK
    <3>4. [poll[w] EXCEPT !.at = "upsert", !.order = o,
                          !.saw = parcel[poll[w].todo[o]]] \in Poll
      BY <3>1, <3>3 DEF Poll
    <3>5. TypeOK'
      BY <2>2, <3>4 DEF QueryTrack, TypeOK
    <3>6. HandIsListed'
      BY <2>2, <3>1 DEF QueryTrack, TypeOK, Poll
    <3>7. QED
      BY <3>5, <3>6
  <2>3. ASSUME NEW o \in Orders, ProviderError(w, o) PROVE Goal
    <3>1. NextOrder(w, o) /\ UNCHANGED <<orderVars, track, parcel, daily, shared>>
      BY <2>3 DEF ProviderError
    <3>2. TypeOK'
      BY <3>1, NextTyped DEF TypeOK
    <3>3. HandIsListed'
      BY <3>1, NextTyped
    <3>4. QED
      BY <3>2, <3>3
  <2>4. CASE SyncTrack(w)
    <3>1. poll[w] \in Poll /\ poll[w].order \in DOMAIN poll[w].todo
      BY <2>4 DEF SyncTrack, TypeOK
    <3>2. PICK S \in SUBSET Orders : poll[w].todo \in [S -> Numbers]
      <4>1. poll[w].todo \in Todo
        BY <3>1 DEF Poll
      <4>2. QED
        BY <4>1, Zenon DEF Todo
    <3>3. track' \in [Orders -> [number : Numbers \cup {NoNumber}, status : TrackStatus]]
      BY <2>4, <3>1, <3>2 DEF SyncTrack, UpsertTrack, TypeOK, Poll
    <3>4. CASE NextOrder(w, poll[w].order)
      <4>1. TypeOK'
        BY <2>4, <3>3, <3>4, NextTyped DEF SyncTrack, TypeOK
      <4>2. HandIsListed'
        BY <3>4, NextTyped
      <4>3. QED
        BY <4>1, <4>2
    <3>5. CASE poll' = [poll EXCEPT ![w].at = "complete"]
      BY <2>4, <3>1, <3>3, <3>5 DEF SyncTrack, TypeOK, Poll
    <3>6. QED
      BY <2>4, <3>4, <3>5 DEF SyncTrack
  <2>5. CASE CompleteDelivered(w)
    <3>1. NextOrder(w, poll[w].order)
          /\ UNCHANGED <<number, shippedAt, overdue, track, parcel, daily, shared>>
      BY <2>5 DEF CompleteDelivered
    <3>2. /\ order' \in [Orders -> OrderStatus]
          /\ closedBy' \in [Orders -> {"nobody", "customer", "delivery", "timeout"}]
      BY <2>5 DEF CompleteDelivered, TypeOK, OrderStatus
    <3>3. TypeOK'
      BY <3>1, <3>2, NextTyped DEF TypeOK
    <3>4. HandIsListed'
      BY <3>1, NextTyped
    <3>5. QED
      BY <3>3, <3>4
  <2>6. CASE PollCrash(w)
    <3>1. TypeOK'
      BY <2>6, IdleTyped DEF PollCrash, TypeOK
    <3>2. HandIsListed'
      BY <2>6, IdleTyped DEF PollCrash, TypeOK
    <3>3. QED
      BY <3>1, <3>2
  <2>7. QED
    BY <1>1, <2>1, <2>2, <2>3, <2>4, <2>5, <2>6 DEF PollStep
<1>2. ASSUME NEW w \in Completers, DailyStep(w) PROVE Goal
  <2>1. CASE ListExceptionOrderIds(w)
    BY <2>1 DEF ListExceptionOrderIds, Excluded, TypeOK
  <2>2. CASE AutoCompleteSelect(w)
    <3> DEFINE candidates ==
                 Oldest({o \in Orders : order[o] = "shipped" /\ overdue[o]}, BatchSize)
                   \ daily[w].exclude
    <3>1. candidates \in SUBSET Orders
      BY DEF Oldest
    <3>2. \/ daily' = [daily EXCEPT ![w] = DailyIdle]
          \/ daily' = [daily EXCEPT ![w] = [@ EXCEPT !.at = "update",
                                                     !.candidates = candidates]]
      BY <2>2 DEF AutoCompleteSelect
    <3> HIDE DEF candidates
    <3> DEFINE Run == [at : {"idle", "select", "update"}, exclude : SUBSET Orders,
                       candidates : SUBSET Orders]
    <3>3. DailyIdle \in Run
      BY DEF DailyIdle
    <3>4. daily \in [Completers -> Run] /\ daily[w] \in Run
      BY DEF TypeOK
    <3>5. [daily[w] EXCEPT !.at = "update", !.candidates = candidates] \in Run
      BY <3>1, <3>4
    <3> HIDE DEF Run
    <3>6. daily' \in [Completers -> Run]
      BY <3>2, <3>3, <3>4, <3>5
    <3>7. UNCHANGED <<orderVars, track, parcel, poll, shared>>
      BY <2>2 DEF AutoCompleteSelect
    <3>8. QED
      BY <3>6, <3>7 DEF TypeOK, Run
  <2>3. CASE AutoCompleteUpdate(w)
    BY <2>3 DEF AutoCompleteUpdate, DailyIdle, TypeOK, OrderStatus
  <2>4. CASE DailyCrash(w)
    BY <2>4 DEF DailyCrash, DailyIdle, TypeOK
  <2>5. QED
    BY <1>2, <2>1, <2>2, <2>3, <2>4 DEF DailyStep
<1>3. ASSUME NEW o \in Orders, OrderStep(o) PROVE Goal
  <2>1. ASSUME NEW n \in Numbers \cup {NoNumber}, ShipOrder(o, n) PROVE Goal
    BY <2>1, StampTyped DEF ShipOrder, TypeOK, OrderStatus
  <2>2. ASSUME NEW n \in Numbers, CorrectNumber(o, n) PROVE Goal
    BY <2>2, StampTyped DEF CorrectNumber, TypeOK, OrderStatus
  <2>3. ASSUME NEW s \in {"cancelled", "refunded"}, MovesAway(o, s) PROVE Goal
    BY <2>3 DEF MovesAway, TypeOK, OrderStatus
  <2>4. CASE PatchShipped(o)
    BY <2>4 DEF PatchShipped, TypeOK, OrderStatus
  <2>5. CASE CompleteOrder(o)
    BY <2>5 DEF CompleteOrder, TypeOK, OrderStatus
  <2>6. CASE GrowsOverdue(o)
    BY <2>6 DEF GrowsOverdue, TypeOK
  <2>7. QED
    BY <1>3, <2>1, <2>2, <2>3, <2>4, <2>5, <2>6 DEF OrderStep
<1>4. ASSUME NEW n \in Numbers, NEW s \in TrackStatus, ParcelMoves(n, s) PROVE Goal
  BY <1>4 DEF ParcelMoves, TypeOK
<1>5. CASE UNCHANGED vars
  BY <1>5 DEF TypeOK
<1>6. QED
  BY <1>1, <1>2, <1>3, <1>4, <1>5 DEF Next

\* The first state is well typed.
LEMMA InitTyped == Init => TypeInv
<1> SUFFICES ASSUME Init PROVE TypeOK /\ HandIsListed
  BY DEF TypeInv
<1>1. Cardinality(Orders) \in Nat
  BY FulfilmentAssumption, FS_CardinalityType
<1>2. TypeOK
  BY <1>1, IdleTyped DEF Init, TypeOK, OrderStatus, TrackStatus, NoTrack, DailyIdle
<1>3. HandIsListed
  BY IdleTyped DEF Init, HandIsListed
<1>4. QED
  BY <1>2, <1>3

\* Type correctness of the orders, the tracks, the carrier and the two jobs.
THEOREM FulfilmentTyped == Spec => []TypeOK
<1>1. QED
  BY InitTyped, TypeInvStep, PTL DEF Spec, TypeInv

-----------------------------------------------------------------------------
(* Closing an order *)

\* A closed order is completed, or was refunded since; nothing takes it back.
ClosedInv ==
  \A o \in Orders :
    closedBy[o] # "nobody" => order[o] \in {"completed", "refunded"}

\* How any step treats an order: it is closed from shipped only, by the step
\* that completes it; refunded and cancelled are final.
LEMMA OrderMoves ==
  ASSUME TypeInv, ClosedInv, [Next]_vars, NEW o \in Orders
  PROVE  /\ closedBy[o] # "nobody" =>
              closedBy'[o] = closedBy[o] /\ order'[o] \in {"completed", "refunded"}
         /\ closedBy[o] = "nobody" /\ closedBy'[o] # "nobody" => order'[o] = "completed"
         /\ order[o] \in {"refunded", "cancelled"} => order'[o] = order[o]
<1> TypeOK
  BY DEF TypeInv
<1> DEFINE Goal ==
      /\ closedBy[o] # "nobody" =>
           closedBy'[o] = closedBy[o] /\ order'[o] \in {"completed", "refunded"}
      /\ closedBy[o] = "nobody" /\ closedBy'[o] # "nobody" => order'[o] = "completed"
      /\ order[o] \in {"refunded", "cancelled"} => order'[o] = order[o]
<1>0. UNCHANGED <<order, closedBy>> => Goal
  BY DEF ClosedInv
<1>1. ASSUME NEW w \in Pollers, PollStep(w) PROVE Goal
  <2>1. CASE CompleteDelivered(w)
    BY <2>1 DEF CompleteDelivered, TypeOK, ClosedInv
  <2>2. CASE ~CompleteDelivered(w)
    BY <1>0, <1>1, <2>2 DEF PollStep, ListShippedWithTracking, SyncTrack, PollCrash,
                            QueryTrack, ProviderError
  <2>3. QED
    BY <2>1, <2>2
<1>2. ASSUME NEW w \in Completers, DailyStep(w) PROVE Goal
  <2>1. CASE AutoCompleteUpdate(w)
    BY <2>1 DEF AutoCompleteUpdate, StillCandidate, TypeOK, ClosedInv
  <2>2. CASE ~AutoCompleteUpdate(w)
    BY <1>0, <1>2, <2>2 DEF DailyStep, ListExceptionOrderIds, AutoCompleteSelect, DailyCrash
  <2>3. QED
    BY <2>1, <2>2
<1>3. ASSUME NEW p \in Orders, OrderStep(p) PROVE Goal
  <2>1. ASSUME NEW n \in Numbers \cup {NoNumber}, ShipOrder(p, n) PROVE Goal
    BY <2>1 DEF ShipOrder, TypeOK, ClosedInv
  <2>2. ASSUME NEW n \in Numbers, CorrectNumber(p, n) PROVE Goal
    BY <1>0, <2>2 DEF CorrectNumber
  <2>3. ASSUME NEW s \in {"cancelled", "refunded"}, MovesAway(p, s) PROVE Goal
    BY <2>3 DEF MovesAway, TypeOK, ClosedInv, CanUpdate, ORDER_TRANSITIONS, Refundable
  <2>4. CASE PatchShipped(p)
    BY <2>4 DEF PatchShipped, TypeOK, ClosedInv
  <2>5. CASE CompleteOrder(p)
    BY <2>5 DEF CompleteOrder, TypeOK, ClosedInv
  <2>6. CASE GrowsOverdue(p)
    BY <1>0, <2>6 DEF GrowsOverdue
  <2>7. QED
    BY <1>3, <2>1, <2>2, <2>3, <2>4, <2>5, <2>6 DEF OrderStep
<1>4. ASSUME NEW n \in Numbers, NEW s \in TrackStatus, ParcelMoves(n, s) PROVE Goal
  BY <1>0, <1>4 DEF ParcelMoves
<1>5. CASE UNCHANGED vars
  BY <1>0, <1>5
<1>6. QED
  BY <1>1, <1>2, <1>3, <1>4, <1>5 DEF Next

\* The inductive step of the invariant of closing.
LEMMA ClosedInvStep == TypeInv /\ ClosedInv /\ [Next]_vars => ClosedInv'
<1> SUFFICES ASSUME TypeInv, ClosedInv, [Next]_vars, NEW o \in Orders,
                    closedBy'[o] # "nobody"
             PROVE  order'[o] \in {"completed", "refunded"}
  BY DEF ClosedInv
<1>1. QED
  BY OrderMoves

\* The customer's receipt, the poll and the daily job close an order once
\* between them, and never bring back one that was refunded or cancelled, for
\* any number of pollers and of daily jobs running at once.
THEOREM Closes == Spec => ClosedOnce
<1>1. Init => ClosedInv
  BY DEF Init, ClosedInv
<1>2. TypeInv /\ ClosedInv /\ [Next]_vars =>
        [\A o \in Orders :
           /\ closedBy[o] # "nobody" => closedBy'[o] = closedBy[o]
           /\ order[o] \in {"refunded", "cancelled"} => order'[o] = order[o]]_vars
  BY OrderMoves
<1>3. QED
  BY <1>1, <1>2, InitTyped, TypeInvStep, ClosedInvStep, PTL DEF Spec, ClosedOnce

-----------------------------------------------------------------------------
(* Delivery *)

\* The record of an order shows the delivery of n, unless two runs had the order.
Shown(o, n) ==
  /\ parcel[n] = "delivered"
  /\ track[o] = [number |-> n, status |-> "delivered"] \/ o \in shared

\* What two runs have on their lists is noted.
ListsMeet ==
  \A v, w \in Pollers : v # w => DOMAIN poll[v].todo \cap DOMAIN poll[w].todo \subseteq shared

\* What a run saw is so, and what it is about to complete is on record.
SawSo(w) ==
  /\ poll[w].at = "upsert" /\ poll[w].saw = "delivered" =>
       parcel[poll[w].todo[poll[w].order]] = "delivered"
  /\ poll[w].at = "complete" => Shown(poll[w].order, poll[w].todo[poll[w].order])

\* An order the poll completed is on record and on no list: no upsert will
\* touch it, but for one of a run that shared it.
DoneSo(o) ==
  closedBy[o] = "delivery" =>
    /\ \E n \in Numbers : Shown(o, n)
    /\ o \in shared \/ \A w \in Pollers : o \notin DOMAIN poll[w].todo

RecordInv == ListsMeet /\ (\A w \in Pollers : SawSo(w)) /\ (\A o \in Orders : DoneSo(o))

\* The number of an order in hand is a number.
LEMMA HandNumber ==
  ASSUME TypeInv, NEW w \in Pollers, NEW o \in DOMAIN poll[w].todo
  PROVE  o \in Orders /\ poll[w].todo[o] \in Numbers
<1>1. poll[w].todo \in Todo
  BY DEF TypeInv, TypeOK, Poll
<1>2. PICK S \in SUBSET Orders : poll[w].todo \in [S -> Numbers]
  BY <1>1, Zenon DEF Todo
<1>3. QED
  BY <1>2

\* A run that has finished with an order keeps to the record.
LEMMA NextOnRecord ==
  ASSUME TypeInv, RecordInv, NEW w \in Pollers, NEW p \in DOMAIN poll[w].todo, NextOrder(w, p),
         UNCHANGED <<track, parcel, shared>>,
         \A o \in Orders : closedBy'[o] = "delivery" =>
           \/ closedBy[o] = "delivery"
           \/ o = p /\ \E n \in Numbers : Shown(p, n)
  PROVE  RecordInv'
<1>1. /\ \A v \in Pollers \ {w} : poll'[v] = poll[v]
      /\ poll'[w].at \in {"idle", "query"}
      /\ \A v \in Pollers : DOMAIN poll'[v].todo \subseteq DOMAIN poll[v].todo
      /\ p \notin DOMAIN poll'[w].todo
  BY NextTyped DEF TypeInv
<1>2. \A o, n : Shown(o, n) => Shown(o, n)'
  BY DEF Shown
<1>3. ListsMeet'
  BY <1>1 DEF RecordInv, ListsMeet
<1>4. ASSUME NEW v \in Pollers PROVE SawSo(v)'
  <2>1. CASE v = w
    BY <1>1, <2>1 DEF SawSo
  <2>2. CASE v # w
    BY <1>1, <1>2, <2>2 DEF RecordInv, SawSo
  <2>3. QED
    BY <2>1, <2>2
<1>5. ASSUME NEW o \in Orders, closedBy'[o] = "delivery"
      PROVE  /\ \E n \in Numbers : Shown(o, n)'
             /\ o \in shared' \/ \A v \in Pollers : o \notin DOMAIN poll'[v].todo
  <2>1. CASE closedBy[o] = "delivery"
    BY <1>1, <1>2, <2>1 DEF RecordInv, DoneSo
  <2>2. CASE closedBy[o] # "delivery"
    <3>1. o = p /\ \E n \in Numbers : Shown(p, n)
      BY <1>5, <2>2
    <3>2. \A v \in Pollers \ {w} : o \in DOMAIN poll[v].todo => o \in shared
      BY <3>1 DEF RecordInv, ListsMeet
    <3>3. QED
      BY <1>1, <1>2, <3>1, <3>2
  <2>3. QED
    BY <2>1, <2>2
<1>6. QED
  BY <1>3, <1>4, <1>5 DEF RecordInv, DoneSo

\* Listing orders notes what another run has on its list; what is completed is
\* not listed.
LEMMA ListOnRecord ==
  ASSUME TypeInv, ClosedInv, RecordInv, NEW w \in Pollers, ListShippedWithTracking(w)
  PROVE  RecordInv'
<1> TypeOK
  BY DEF TypeInv
<1>1. PICK listed \in SUBSET Orders :
        /\ listed = Oldest(Trackable, PollLimit)
        /\ \A o \in listed : order[o] = "shipped"
  <2>1. /\ Oldest(Trackable, PollLimit) \in SUBSET Orders
        /\ \A o \in Oldest(Trackable, PollLimit) : order[o] = "shipped"
    BY DEF Oldest, Trackable
  <2>2. QED
    BY <2>1
<1>2. PICK run : run = [PollIdle EXCEPT !.at = "query", !.todo = [o \in listed |-> number[o]]]
  OBVIOUS
<1>3. run.at = "query" /\ DOMAIN run.todo = listed
  BY <1>2 DEF PollIdle
<1>4. /\ poll' = [poll EXCEPT ![w] = run]
      /\ shared' = shared \cup {o \in listed : \E v \in Pollers \ {w} : o \in DOMAIN poll[v].todo}
      /\ UNCHANGED <<closedBy, track, parcel>>
  BY <1>1, <1>2 DEF ListShippedWithTracking
<1>5. poll'[w] = run /\ \A v \in Pollers \ {w} : poll'[v] = poll[v]
  BY <1>4 DEF TypeOK
<1>6. \A o, n : Shown(o, n) => Shown(o, n)'
  BY <1>4 DEF Shown
<1>7. ListsMeet'
  BY <1>3, <1>4, <1>5 DEF RecordInv, ListsMeet
<1>8. \A v \in Pollers : SawSo(v)'
  BY <1>3, <1>4, <1>5, <1>6 DEF RecordInv, SawSo
<1>9. \A o \in Orders : closedBy[o] = "delivery" => o \notin listed
  BY <1>1 DEF ClosedInv
<1>10. \A o \in Orders : DoneSo(o)'
  BY <1>3, <1>4, <1>5, <1>6, <1>9 DEF RecordInv, DoneSo
<1>11. QED
  BY <1>7, <1>8, <1>10 DEF RecordInv

\* Writing a snapshot: another run that has the order in hand shares it.
LEMMA SyncOnRecord ==
  ASSUME TypeInv, RecordInv, NEW w \in Pollers, SyncTrack(w)
  PROVE  RecordInv'
<1> TypeOK /\ HandIsListed
  BY DEF TypeInv
<1>1. PICK o \in DOMAIN poll[w].todo : o = poll[w].order
  BY DEF SyncTrack, HandIsListed
<1>2. o \in Orders /\ poll[w].todo[o] \in Numbers
  BY HandNumber
<1>3. /\ track'[o] = [number |-> poll[w].todo[o], status |-> poll[w].saw]
      /\ \A q \in Orders \ {o} : track'[q] = track[q]
      /\ UNCHANGED <<closedBy, parcel, shared>>
  BY <1>1, <1>2 DEF SyncTrack, UpsertTrack, TypeOK
<1>4. /\ \A v \in Pollers \ {w} : poll'[v] = poll[v]
      /\ \A v \in Pollers : DOMAIN poll'[v].todo \subseteq DOMAIN poll[v].todo
      /\ \/ poll'[w].at \in {"idle", "query"}
         \/ /\ poll[w].saw = "delivered" /\ poll'[w].at = "complete"
            /\ poll'[w].todo = poll[w].todo /\ poll'[w].order = o
  <2>1. CASE NextOrder(w, o)
    BY <2>1, NextTyped
  <2>2. CASE poll[w].saw = "delivered" /\ poll' = [poll EXCEPT ![w].at = "complete"]
    <3>1. /\ poll'[w].at = "complete" /\ poll'[w].todo = poll[w].todo /\ poll'[w].order = o
          /\ \A v \in Pollers \ {w} : poll'[v] = poll[v]
      BY <1>1, <2>2 DEF TypeOK, Poll
    <3>2. QED
      BY <2>2, <3>1
  <2>3. QED
    BY <1>1, <2>1, <2>2 DEF SyncTrack
<1>5. \A q \in Orders, n \in Numbers : (q # o \/ o \in shared) /\ Shown(q, n) => Shown(q, n)'
  BY <1>3 DEF Shown
<1>6. ListsMeet'
  BY <1>3, <1>4 DEF RecordInv, ListsMeet
<1>7. ASSUME NEW v \in Pollers PROVE SawSo(v)'
  <2>1. CASE v = w
    <3>1. PICK n \in Numbers : n = poll[w].todo[o]
      BY <1>2
    <3>2. poll[w].saw = "delivered" => parcel[n] = "delivered"
      BY <1>1, <3>1 DEF SyncTrack, RecordInv, SawSo
    <3>3. poll[w].saw = "delivered" => Shown(o, n)'
      BY <1>2, <1>3, <3>1, <3>2 DEF Shown
    <3>4. poll'[w].at = "complete" =>
            poll[w].saw = "delivered" /\ poll'[w].order = o /\ poll'[w].todo[o] = n
      BY <1>4, <3>1
    <3>5. poll'[w].at # "upsert"
      BY <1>4
    <3>6. QED
      BY <2>1, <3>3, <3>4, <3>5 DEF SawSo
  <2>2. CASE v # w
    <3>1. poll'[v] = poll[v] /\ SawSo(v)
      BY <1>4, <2>2 DEF RecordInv
    <3>2. ASSUME poll[v].at = "complete"
          PROVE  Shown(poll[v].order, poll[v].todo[poll[v].order])'
      <4>1. /\ poll[v].order \in DOMAIN poll[v].todo /\ poll[v].order \in Orders
            /\ poll[v].todo[poll[v].order] \in Numbers
        BY <3>2, HandNumber DEF HandIsListed
      <4>2. poll[v].order = o => o \in shared
        BY <2>2, <4>1 DEF RecordInv, ListsMeet
      <4>3. Shown(poll[v].order, poll[v].todo[poll[v].order])
        BY <3>1, <3>2 DEF SawSo
      <4>4. Shown(poll[v].order, poll[v].todo[poll[v].order])
              => (parcel'[poll[v].todo[poll[v].order]] = "delivered"
                  /\ (track'[poll[v].order] = [number |-> poll[v].todo[poll[v].order],
                                               status |-> "delivered"]
                      \/ poll[v].order \in shared'))
        BY <1>3, <4>1, <4>2 DEF Shown
      <4>5. QED
        BY <3>1, <4>3, <4>4 DEF Shown
    <3>3. QED
      BY <1>3, <3>1, <3>2 DEF SawSo
  <2>3. QED
    BY <2>1, <2>2
<1>8. ASSUME NEW q \in Orders PROVE DoneSo(q)'
  <2>1. closedBy[q] = "delivery" /\ q = o => o \in shared
    BY DEF RecordInv, DoneSo
  <2>2. QED
    BY <1>3, <1>4, <1>5, <2>1 DEF RecordInv, DoneSo
<1>9. QED
  BY <1>6, <1>7, <1>8 DEF RecordInv

\* The inductive step of the record, for any number of runs at once.
LEMMA RecordInvStep ==
  TypeInv /\ ClosedInv /\ RecordInv /\ [Next]_vars => RecordInv'
<1> SUFFICES ASSUME TypeInv, ClosedInv, RecordInv, [Next]_vars PROVE RecordInv'
  OBVIOUS
<1> TypeOK /\ HandIsListed
  BY DEF TypeInv
<1>0. ASSUME UNCHANGED <<track, poll, shared>>,
             \A n \in Numbers : parcel[n] = "delivered" => parcel'[n] = "delivered",
             \A o \in Orders : closedBy'[o] = "delivery" => closedBy[o] = "delivery"
      PROVE  RecordInv'
  <2>1. \A o \in Orders, n \in Numbers : Shown(o, n) => Shown(o, n)'
    BY <1>0 DEF Shown
  <2>2. ListsMeet'
    BY <1>0 DEF RecordInv, ListsMeet
  <2>3. ASSUME NEW w \in Pollers PROVE SawSo(w)'
    <3>1. poll[w].at \in {"upsert", "complete"} => poll[w].todo[poll[w].order] \in Numbers
      BY HandNumber DEF HandIsListed
    <3>2. SawSo(w) /\ poll' = poll
      BY <1>0 DEF RecordInv
    <3>3. QED
      BY <1>0, <3>1, <3>2 DEF SawSo, Shown
  <2>4. \A o \in Orders : DoneSo(o)'
    BY <1>0, <2>1 DEF RecordInv, DoneSo
  <2>5. QED
    BY <2>2, <2>3, <2>4 DEF RecordInv
<1>a. ASSUME UNCHANGED <<closedBy, track, parcel, poll, shared>> PROVE RecordInv'
  BY <1>0, <1>a
<1>1. ASSUME NEW w \in Pollers, PollStep(w) PROVE RecordInv'
  <2>1. CASE ListShippedWithTracking(w)
    BY <2>1, ListOnRecord
  <2>2. ASSUME NEW o \in Orders, QueryTrack(w, o) PROVE RecordInv'
    <3>1. /\ poll'[w].at = "upsert" /\ poll'[w].todo = poll[w].todo
          /\ poll'[w].order = o /\ poll'[w].saw = parcel[poll[w].todo[o]]
          /\ \A v \in Pollers \ {w} : poll'[v] = poll[v]
      BY <2>2 DEF QueryTrack, TypeOK, Poll
    <3>2. UNCHANGED <<closedBy, track, parcel, shared>>
      BY <2>2 DEF QueryTrack
    <3>3. \A p, n : Shown(p, n) => Shown(p, n)'
      BY <3>2 DEF Shown
    <3>4. \A v \in Pollers : poll'[v].todo = poll[v].todo
      BY <3>1
    <3>5. ListsMeet'
      BY <3>2, <3>4 DEF RecordInv, ListsMeet
    <3>6. \A v \in Pollers : SawSo(v)'
      BY <3>1, <3>2, <3>3 DEF RecordInv, SawSo
    <3>7. \A p \in Orders : DoneSo(p)'
      BY <3>2, <3>3, <3>4 DEF RecordInv, DoneSo
    <3>8. QED
      BY <3>5, <3>6, <3>7 DEF RecordInv
  <2>3. ASSUME NEW o \in Orders, ProviderError(w, o) PROVE RecordInv'
    <3>1. o \in DOMAIN poll[w].todo /\ NextOrder(w, o)
          /\ UNCHANGED <<closedBy, track, parcel, shared>>
      BY <2>3 DEF ProviderError, InHand
    <3>2. QED
      BY <3>1, NextOnRecord
  <2>4. CASE SyncTrack(w)
    BY <2>4, SyncOnRecord
  <2>5. CASE CompleteDelivered(w)
    <3>1. PICK o \in DOMAIN poll[w].todo : o = poll[w].order
      BY <2>5 DEF CompleteDelivered, HandIsListed
    <3>2. o \in Orders /\ poll[w].todo[o] \in Numbers /\ Shown(o, poll[w].todo[o])
      BY <2>5, <3>1, HandNumber DEF CompleteDelivered, RecordInv, SawSo
    <3>3. NextOrder(w, o) /\ UNCHANGED <<track, parcel, shared>>
      BY <2>5, <3>1 DEF CompleteDelivered
    <3>4. \A q \in Orders : closedBy'[q] = "delivery" => closedBy[q] = "delivery" \/ q = o
      BY <2>5, <3>1 DEF CompleteDelivered, TypeOK
    <3>5. QED
      BY <3>2, <3>3, <3>4, NextOnRecord
  <2>6. CASE PollCrash(w)
    <3>1. DOMAIN PollIdle.todo = {} /\ PollIdle.at = "idle"
      BY DEF PollIdle, NoTodo
    <3>2. /\ poll'[w] = PollIdle /\ \A v \in Pollers \ {w} : poll'[v] = poll[v]
          /\ UNCHANGED <<closedBy, track, parcel, shared>>
      BY <2>6 DEF PollCrash, TypeOK
    <3>3. \A p, n : Shown(p, n) => Shown(p, n)'
      BY <3>2 DEF Shown
    <3>4. \A v \in Pollers : DOMAIN poll'[v].todo \subseteq DOMAIN poll[v].todo
      BY <3>1, <3>2
    <3>5. ListsMeet'
      BY <3>2, <3>4 DEF RecordInv, ListsMeet
    <3>6. \A v \in Pollers : SawSo(v)'
      BY <3>1, <3>2, <3>3 DEF RecordInv, SawSo
    <3>7. \A p \in Orders : DoneSo(p)'
      BY <3>2, <3>3, <3>4 DEF RecordInv, DoneSo
    <3>8. QED
      BY <3>5, <3>6, <3>7 DEF RecordInv
  <2>7. QED
    BY <1>1, <2>1, <2>2, <2>3, <2>4, <2>5, <2>6 DEF PollStep
<1>2. ASSUME NEW w \in Completers, DailyStep(w) PROVE RecordInv'
  <2>1. CASE AutoCompleteUpdate(w)
    <3>1. \A o \in Orders : closedBy'[o] = "delivery" => closedBy[o] = "delivery"
      BY <2>1 DEF AutoCompleteUpdate
    <3>2. UNCHANGED <<track, parcel, poll, shared>>
      BY <2>1 DEF AutoCompleteUpdate
    <3>3. QED
      BY <1>0, <3>1, <3>2
  <2>2. CASE ~AutoCompleteUpdate(w)
    BY <1>a, <1>2, <2>2 DEF DailyStep, ListExceptionOrderIds, AutoCompleteSelect, DailyCrash
  <2>3. QED
    BY <2>1, <2>2
<1>3. ASSUME NEW p \in Orders, OrderStep(p) PROVE RecordInv'
  <2>1. CASE CompleteOrder(p)
    <3>1. \A o \in Orders : closedBy'[o] = "delivery" => closedBy[o] = "delivery"
      BY <2>1 DEF CompleteOrder, TypeOK
    <3>2. UNCHANGED <<track, parcel, poll, shared>>
      BY <2>1 DEF CompleteOrder
    <3>3. QED
      BY <1>0, <3>1, <3>2
  <2>2. CASE ~CompleteOrder(p)
    BY <1>a, <1>3, <2>2 DEF OrderStep, ShipOrder, CorrectNumber, MovesAway,
                            PatchShipped, GrowsOverdue
  <2>3. QED
    BY <2>1, <2>2
<1>4. ASSUME NEW n \in Numbers, NEW s \in TrackStatus, ParcelMoves(n, s) PROVE RecordInv'
  <2>1. \A m \in Numbers : parcel[m] = "delivered" => parcel'[m] = "delivered"
    BY <1>4 DEF ParcelMoves, TypeOK
  <2>2. UNCHANGED <<closedBy, track, poll, shared>>
    BY <1>4 DEF ParcelMoves
  <2>3. QED
    BY <1>0, <2>1, <2>2
<1>5. CASE UNCHANGED vars
  BY <1>a, <1>5
<1>6. QED
  BY <1>1, <1>2, <1>3, <1>4, <1>5 DEF Next

\* For any number of runs of the poll at once: an order that the poll completed
\* was delivered, and its record shows it, but where another run had the order
\* on its list at the same time and wrote its answer last.
THEOREM DeliveryRecorded == Spec => []DeliveryIsOnRecord
<1>1. Init => ClosedInv /\ RecordInv
  BY IdleTyped DEF Init, ClosedInv, RecordInv, ListsMeet, SawSo, DoneSo, PollIdle, NoTodo
<1>2. RecordInv => DeliveryIsOnRecord
  BY DEF RecordInv, DoneSo, Shown, DeliveryIsOnRecord
<1>3. QED
  BY <1>1, <1>2, InitTyped, TypeInvStep, ClosedInvStep, RecordInvStep, PTL DEF Spec
=============================================================================

---------------------------- MODULE TradeProofs ----------------------------
(***************************************************************************)
(* What TLAPS proves of Trade, for every set of orders, payments and       *)
(* handlers. Type correctness, and that stock goes back once per cancelled *)
(* order. Of the money: the transition tables are kept by all writers      *)
(* together, at most one payment of an order is ever booked, and no refund *)
(* is booked here that the channel has not made. Of the refunds: the money *)
(* of an order is on its way back once at most, a settled refund is booked *)
(* with its payment and its event, and, unless admins write statuses by    *)
(* hand, the status of an order says what became of its money.             *)
(***************************************************************************)
EXTENDS Trade, FiniteSetTheorems, TLAPS

USE DEF NoPayment, SucceedPayment, MoveOrder, RefundFirstSucceeded,
        MarkRefundSucceeded, RefundPayment, RefundNotification, ReconcileRefund,
        AbnormalNotification, ReconcileAbnormal

-----------------------------------------------------------------------------
(* Type correctness *)

\* An idle slot is a well-formed call.
LEMMA IdleIsCall == Idle \in Call
BY TradeAssumption DEF Idle, Call, Points, OrderStatus

\* A call that enters a point with proper arguments is well formed.
LEMMA EnterTyped ==
  ASSUME call \in [Handlers -> Call], NEW h \in Handlers,
         NEW point \in Points, NEW o \in Orders \cup {NoOrder},
         NEW p \in Payments \cup {NoPayment},
         NEW n \in 0..MaxRefunds, NEW s \in OrderStatus, Enter(h, point, o, p, n, s)
  PROVE  call' \in [Handlers -> Call]
BY DEF Enter, Call

\* A call that moves on stays well formed.
LEMMA GotoTyped ==
  ASSUME call \in [Handlers -> Call], NEW h \in Handlers, NEW point \in Points,
         Goto(h, point)
  PROVE  call' \in [Handlers -> Call]
BY DEF Goto, Call

\* A call that returns leaves an idle slot.
LEMMA ReturnTyped ==
  ASSUME call \in [Handlers -> Call], NEW h \in Handlers, Return(h)
  PROVE  call' \in [Handlers -> Call]
BY IdleIsCall DEF Return

\* The variables of TypeOK other than the calls.
DataOK ==
  /\ order \in [Orders -> OrderStatus]
  /\ restocked \in [Orders -> Nat]
  /\ shippedEvents \in [Orders -> Nat]
  /\ pay \in [Payments -> PaymentStatus]
  /\ payload \in [Payments -> BOOLEAN]
  /\ paidEvents \in [Payments -> Nat]
  /\ refund \in [Payments -> [RefundNos -> RefundStatus]]
  /\ refundEvents \in [Payments -> [RefundNos -> Nat]]
  /\ chPay \in [Payments -> TradeStatus]
  /\ chRefund \in [Payments -> [RefundNos -> RefundStatus]]

CallsOK == call \in [Handlers -> Call]

\* Type correctness falls into the data and the calls.
LEMMA TypeSplit == TypeOK <=> DataOK /\ CallsOK
BY DEF TypeOK, DataOK, CallsOK

\* The state checkout leaves is well typed.
LEMMA InitTyped == Init => TypeOK
BY IdleIsCall, SMT DEF Init, TypeOK, OrderStatus, PaymentStatus, RefundStatus, TradeStatus

\* What the fields of a call range over.
LEMMA CallFields ==
  ASSUME CallsOK, NEW h \in Handlers
  PROVE  /\ call[h].at \in Points
         /\ call[h].order \in Orders \cup {NoOrder}
         /\ call[h].payment \in Payments \cup {NoPayment}
         /\ call[h].refundNo \in 0..MaxRefunds
         /\ call[h].saw \in OrderStatus
BY DEF CallsOK, Call

\* A step of a call in flight leaves the calls well formed.
LEMMA CallStepCalls ==
  ASSUME TypeOK, NEW h \in Handlers, CallStep(h)
  PROVE  CallsOK'
<1> USE TypeSplit, CallFields, EnterTyped, GotoTyped, ReturnTyped DEF CallsOK
<1> SUFFICES ASSUME CallsOK PROVE CallsOK'
  OBVIOUS
<1> "pending" \in OrderStatus /\ 0 \in 0..MaxRefunds
  BY TradeAssumption DEF OrderStatus
<1> USE DEF Points, PaymentPoints, RefundPoints, OrderPoints
<1>1. CASE SelectPending(h)
  BY <1>1 DEF SelectPending
<1>2. CASE VoidPending(h)
  BY <1>2 DEF VoidPending
<1>3. CASE InsertPayment(h)
  BY <1>3 DEF InsertPayment
<1>4. CASE CreatePayment(h)
  BY <1>4 DEF CreatePayment
<1>5. CASE BackfillPayload(h)
  BY <1>5 DEF BackfillPayload
<1>6. CASE FailPayment(h)
  BY <1>6 DEF FailPayment
<1>7. CASE CancelRefused(h)
  BY <1>7 DEF CancelRefused
<1>8. CASE CancelUnpaidTx(h)
  BY <1>8 DEF CancelUnpaidTx, Rollback
<1>9. CASE CancelAsyncTx(h)
  BY <1>9 DEF CancelAsyncTx, Rollback
<1>10. CASE CancelSyncTx(h)
  BY <1>10 DEF CancelSyncTx, Rollback
<1>11. CASE SubmitRefund(h)
  BY <1>11 DEF SubmitRefund
<1>12. CASE RefundAsyncInsert(h)
  BY <1>12 DEF RefundAsyncInsert, Rollback
<1>13. CASE RefundSyncTx(h)
  BY <1>13 DEF RefundSyncTx, Rollback
<1>14. CASE RefundSettledTx(h)
  BY <1>14 DEF RefundSettledTx, Rollback
<1>15. CASE Crash(h)
  BY <1>15 DEF Crash, Rollback
<1>16. QED
  BY <1>1, <1>2, <1>3, <1>4, <1>5, <1>6, <1>7, <1>8, <1>9, <1>10, <1>11, <1>12, <1>13, <1>14, <1>15 DEF CallStep

\* A new call is well formed.
LEMMA CallStartCalls ==
  ASSUME TypeOK, NEW h \in Handlers, CallStart(h)
  PROVE  CallsOK'
<1> USE EnterTyped DEF CallsOK
<1> CallsOK /\ DataOK
  BY TypeSplit
<1> "pending" \in OrderStatus /\ 0 \in 0..MaxRefunds /\ RefundNos \subseteq 0..MaxRefunds
  BY TradeAssumption DEF OrderStatus, RefundNos
<1> USE DEF Points, PaymentPoints, RefundPoints, OrderPoints
<1>1. ASSUME NEW o \in Orders, InitiateOrderPayment(h, o) PROVE CallsOK'
  BY <1>1 DEF InitiateOrderPayment
<1>2. ASSUME NEW o \in Orders, AutoCancelList(h, o) PROVE CallsOK'
  BY <1>2 DEF AutoCancelList
<1>3. ASSUME NEW o \in Orders, CancelUnpaid(h, o) PROVE CallsOK'
  BY <1>3 DEF CancelUnpaid
<1>4. ASSUME NEW o \in Orders, CancelPaid(h, o) PROVE CallsOK'
  BY <1>4 DEF CancelPaid
<1>5. ASSUME NEW o \in Orders, RefundOrder(h, o) PROVE CallsOK'
  BY <1>5 DEF RefundOrder
<1>6. ASSUME NEW p \in Payments, NEW n \in RefundNos, RefundSettledRead(h, p, n)
      PROVE  CallsOK'
  <2>1. OwnerOf[p] \in Orders /\ order[OwnerOf[p]] \in OrderStatus
    BY TradeAssumption DEF DataOK
  <2>2. QED
    BY <1>6, <2>1 DEF RefundSettledRead
<1>7. QED
  BY <1>1, <1>2, <1>3, <1>4, <1>5, <1>6 DEF CallStart

-----------------------------------------------------------------------------
(* The calls at work on a refund *)

\* TypeOK alone is not inductive: the channel is asked about the refund a call
\* names, so the call must name one, and it is a refund of its own order.
RefundNamed ==
  \A h \in Handlers : call[h].at \in RefundPoints =>
    /\ call[h].payment \in Payments /\ call[h].refundNo \in RefundNos
    /\ OwnerOf[call[h].payment] = call[h].order

TypeInv == TypeOK /\ RefundNamed

\* A handler that leaves a refund point for another keeps the refund it named.
LEMMA CallStepNamed ==
  ASSUME TypeInv, NEW h \in Handlers, CallStep(h)
  PROVE  RefundNamed'
<1> CallsOK
  BY TypeSplit DEF TypeInv
<1> USE DEF TypeInv, RefundNamed, CallsOK, Enter, Goto, Return, Idle, Call,
            Points, PaymentPoints, RefundPoints, OrderPoints
<1>1. CASE SelectPending(h)
  BY <1>1 DEF SelectPending
<1>2. CASE VoidPending(h)
  BY <1>2 DEF VoidPending
<1>3. CASE InsertPayment(h)
  BY <1>3 DEF InsertPayment
<1>4. CASE CreatePayment(h)
  BY <1>4 DEF CreatePayment
<1>5. CASE BackfillPayload(h)
  BY <1>5 DEF BackfillPayload
<1>6. CASE FailPayment(h)
  BY <1>6 DEF FailPayment
<1>7. CASE CancelRefused(h)
  BY <1>7 DEF CancelRefused
<1>8. CASE CancelUnpaidTx(h)
  BY <1>8 DEF CancelUnpaidTx, Rollback
<1>9. CASE CancelAsyncTx(h)
  BY <1>9 DEF CancelAsyncTx, Rollback
<1>10. CASE CancelSyncTx(h)
  BY <1>10 DEF CancelSyncTx, Rollback
<1>11. CASE SubmitRefund(h)
  BY <1>11 DEF SubmitRefund
<1>12. CASE RefundAsyncInsert(h)
  BY <1>12 DEF RefundAsyncInsert, Rollback
<1>13. CASE RefundSyncTx(h)
  BY <1>13 DEF RefundSyncTx, Rollback
<1>14. CASE RefundSettledTx(h)
  BY <1>14 DEF RefundSettledTx, Rollback
<1>15. CASE Crash(h)
  BY <1>15 DEF Crash, Rollback
<1>16. QED
  BY <1>1, <1>2, <1>3, <1>4, <1>5, <1>6, <1>7, <1>8, <1>9, <1>10, <1>11, <1>12, <1>13, <1>14, <1>15 DEF CallStep

\* A new call on a refund names a refund of its order.
LEMMA CallStartNamed ==
  ASSUME TypeInv, NEW h \in Handlers, CallStart(h)
  PROVE  RefundNamed'
<1> CallsOK
  BY TypeSplit DEF TypeInv
<1> USE DEF TypeInv, RefundNamed, CallsOK, Enter, RefundPoints
<1>1. ASSUME NEW o \in Orders, InitiateOrderPayment(h, o) PROVE RefundNamed'
  BY <1>1 DEF InitiateOrderPayment
<1>2. ASSUME NEW o \in Orders, AutoCancelList(h, o) PROVE RefundNamed'
  BY <1>2 DEF AutoCancelList
<1>3. ASSUME NEW o \in Orders, CancelUnpaid(h, o) PROVE RefundNamed'
  BY <1>3 DEF CancelUnpaid
<1>4. ASSUME NEW o \in Orders, CancelPaid(h, o) PROVE RefundNamed'
  BY <1>4 DEF CancelPaid, RefundTarget, IsFirst, PaymentsOf
<1>5. ASSUME NEW o \in Orders, RefundOrder(h, o) PROVE RefundNamed'
  BY <1>5 DEF RefundOrder, RefundTarget, IsFirst, PaymentsOf
<1>6. ASSUME NEW p \in Payments, NEW n \in RefundNos, RefundSettledRead(h, p, n)
      PROVE  RefundNamed'
  BY <1>6 DEF RefundSettledRead
<1>7. QED
  BY <1>1, <1>2, <1>3, <1>4, <1>5, <1>6 DEF CallStart

\* A rolled-back transaction keeps every table well typed.
LEMMA RollbackTyped ==
  ASSUME DataOK, NEW h, Rollback(h)
  PROVE  DataOK'
BY DEF Rollback, DataOK, orderVars, payVars, refundVars, channelVars

\* Cancelling keeps the order tables well typed.
LEMMA CancelWriteTyped ==
  ASSUME DataOK, NEW o, CancelWrite(o)
  PROVE  /\ order' \in [Orders -> OrderStatus]
         /\ restocked' \in [Orders -> Nat]
         /\ shippedEvents' \in [Orders -> Nat]
<1>1. order' \in [Orders -> OrderStatus] /\ shippedEvents' \in [Orders -> Nat]
  BY DEF CancelWrite, DataOK, OrderStatus
<1>2. CASE o \in Orders
  BY <1>1, <1>2 DEF CancelWrite, DataOK
<1>3. CASE o \notin Orders
  BY <1>1, <1>3 DEF CancelWrite, DataOK
<1>4. QED
  BY <1>2, <1>3

\* Inserting a refund row keeps the refund table well typed.
LEMMA InsertRefundTyped ==
  ASSUME DataOK, NEW p, NEW n, NEW s \in RefundStatus, InsertRefund(p, n, s)
  PROVE  refund' \in [Payments -> [RefundNos -> RefundStatus]]
BY DEF InsertRefund, DataOK

\* A step of a call in flight keeps every table well typed.
LEMMA CallStepData ==
  ASSUME TypeInv, NEW h \in Handlers, CallStep(h)
  PROVE  DataOK'
<1> DataOK
  BY TypeSplit DEF TypeInv
<1> USE RollbackTyped, CancelWriteTyped, InsertRefundTyped
    DEF DataOK, orderVars, payVars, refundVars, channelVars
<1> /\ {"pending", "failed", "cancelled", "refunded"} \subseteq PaymentStatus
    /\ {"processing", "succeeded"} \subseteq RefundStatus
    /\ {"open"} \subseteq TradeStatus
    /\ {"refunded"} \subseteq OrderStatus
  BY DEF PaymentStatus, RefundStatus, TradeStatus, OrderStatus
<1>a. call[h].at \in RefundPoints =>
        call[h].payment \in Payments /\ call[h].refundNo \in RefundNos
  BY DEF TypeInv, RefundNamed
<1>b. call[h].payment \in Payments /\ call[h].refundNo \in RefundNos =>
        [refundEvents EXCEPT ![call[h].payment][call[h].refundNo] = @ + 1]
          \in [Payments -> [RefundNos -> Nat]]
  OBVIOUS
<1>1. CASE SelectPending(h)
  BY <1>1 DEF SelectPending
<1>2. CASE VoidPending(h)
  BY <1>2 DEF VoidPending, FailIfPending
<1>3. CASE InsertPayment(h)
  BY <1>3 DEF InsertPayment
<1>4. CASE CreatePayment(h)
  BY <1>4 DEF CreatePayment
<1>5. CASE BackfillPayload(h)
  BY <1>5 DEF BackfillPayload
<1>6. CASE FailPayment(h)
  BY <1>6 DEF FailPayment, FailIfPending
<1>7. CASE CancelRefused(h)
  BY <1>7 DEF CancelRefused
<1>8. CASE CancelUnpaidTx(h)
  BY <1>8 DEF CancelUnpaidTx, CancelPendingPayments
<1>9. CASE CancelAsyncTx(h)
  BY <1>9 DEF CancelAsyncTx
<1>10. CASE CancelSyncTx(h)
  BY <1>10, <1>a, <1>b DEF CancelSyncTx, RefundPoints
<1>11. CASE SubmitRefund(h)
  <2>1. /\ call[h].payment \in Payments /\ call[h].refundNo \in RefundNos
    BY <1>11, <1>a DEF SubmitRefund, RefundPoints
  <2>2. chRefund[call[h].payment][call[h].refundNo] \in RefundStatus
    BY <2>1
  <2>3. AfterSubmit(chRefund[call[h].payment][call[h].refundNo]) \subseteq RefundStatus
    BY <2>2 DEF AfterSubmit, RefundStatus
  <2>4. PICK s \in RefundStatus :
          chRefund' = [chRefund EXCEPT ![call[h].payment][call[h].refundNo] = s]
    BY <1>11, <2>3 DEF SubmitRefund
  <2>5. chRefund' \in [Payments -> [RefundNos -> RefundStatus]]
    BY <2>4
  <2>6. QED
    BY <1>11, <2>5 DEF SubmitRefund
<1>12. CASE RefundAsyncInsert(h)
  BY <1>12 DEF RefundAsyncInsert
<1>13. CASE RefundSyncTx(h)
  <2>1. CASE Rollback(h)
    BY <2>1
  <2>2. CASE ~Rollback(h)
    <3>1. PICK p \in Payments :
            /\ pay' = [pay EXCEPT ![p] = "refunded"]
            /\ order' = [order EXCEPT ![call[h].order] = "refunded"]
            /\ refundEvents' = [refundEvents EXCEPT
                                  ![call[h].payment][call[h].refundNo] = @ + 1]
            /\ InsertRefund(call[h].payment, call[h].refundNo, "succeeded")
            /\ UNCHANGED <<restocked, shippedEvents, payload, paidEvents, channelVars>>
      BY <1>13, <2>2 DEF RefundSyncTx
    <3>2. call[h].payment \in Payments /\ call[h].refundNo \in RefundNos
      BY <1>13, <1>a DEF RefundSyncTx, RefundPoints
    <3>3. QED
      BY <3>1, <3>2, <1>b
  <2>3. QED
    BY <2>1, <2>2
<1>14. CASE RefundSettledTx(h)
  <2>1. CASE Rollback(h)
    BY <2>1
  <2>2. CASE ~Rollback(h)
    <3>1. /\ refund' = [refund EXCEPT ![call[h].payment][call[h].refundNo] = "succeeded"]
          /\ \/ /\ pay' = [pay EXCEPT ![call[h].payment] = "refunded"]
                /\ MarkOrderRefunded(call[h].order, call[h].saw)
                /\ refundEvents' = [refundEvents EXCEPT
                                      ![call[h].payment][call[h].refundNo] = @ + 1]
             \/ UNCHANGED <<pay, order, refundEvents>>
          /\ UNCHANGED <<restocked, shippedEvents, payload, paidEvents, channelVars>>
      BY <1>14, <2>2 DEF RefundSettledTx
    <3>2. call[h].payment \in Payments /\ call[h].refundNo \in RefundNos
      BY <1>14, <1>a DEF RefundSettledTx, RefundPoints
    <3>3. order' \in [Orders -> OrderStatus]
      BY <3>1 DEF MarkOrderRefunded
    <3>4. refund' \in [Payments -> [RefundNos -> RefundStatus]]
      BY <3>1
    <3>5. /\ pay' \in [Payments -> PaymentStatus]
          /\ refundEvents' \in [Payments -> [RefundNos -> Nat]]
      <4>1. CASE UNCHANGED <<pay, order, refundEvents>>
        BY <4>1
      <4>2. CASE /\ pay' = [pay EXCEPT ![call[h].payment] = "refunded"]
                 /\ refundEvents' = [refundEvents EXCEPT
                                       ![call[h].payment][call[h].refundNo] = @ + 1]
        BY <4>2, <3>2, <1>b
      <4>3. QED
        BY <3>1, <4>1, <4>2
    <3>6. UNCHANGED <<restocked, shippedEvents, payload, paidEvents, channelVars>>
      BY <3>1
    <3>7. QED
      BY <3>3, <3>4, <3>5, <3>6
  <2>3. QED
    BY <2>1, <2>2
<1>15. CASE Crash(h)
  BY <1>15 DEF Crash
<1>16. QED
  BY <1>1, <1>2, <1>3, <1>4, <1>5, <1>6, <1>7, <1>8, <1>9, <1>10, <1>11, <1>12, <1>13, <1>14, <1>15 DEF CallStep

\* Starting a call writes nothing.
LEMMA CallStartReads ==
  ASSUME NEW h \in Handlers, CallStart(h)
  PROVE  UNCHANGED <<orderVars, payVars, refundVars, channelVars>>
BY DEF CallStart, InitiateOrderPayment, AutoCancelList, CancelUnpaid, CancelPaid,
       RefundOrder, RefundSettledRead, orderVars, payVars, refundVars, channelVars

\* What befalls a payment outside a call keeps every table well typed.
LEMMA PaymentStepData ==
  ASSUME DataOK, NEW p \in Payments, PaymentStep(p)
  PROVE  DataOK' /\ UNCHANGED call
<1> USE DEF DataOK, orderVars, payVars, refundVars, channelVars,
            OrderStatus, PaymentStatus, RefundStatus, TradeStatus
<1>1. CASE ConfirmOrderPayment(p)
  <2>1. order' \in [Orders -> OrderStatus] /\ pay' \in [Payments -> PaymentStatus]
    BY <1>1 DEF ConfirmOrderPayment
  <2>2. paidEvents' \in [Payments -> Nat]
    BY <1>1 DEF ConfirmOrderPayment
  <2>3. QED
    BY <1>1, <2>1, <2>2 DEF ConfirmOrderPayment
<1>2. CASE ReconcileClosed(p)
  BY <1>2 DEF ReconcileClosed
<1>3. CASE CustomerPays(p)
  BY <1>3 DEF CustomerPays
<1>4. CASE ChannelCloses(p)
  BY <1>4 DEF ChannelCloses
<1>5. ASSUME NEW n \in RefundNos, RefundFailed(p, n)
      PROVE  DataOK' /\ UNCHANGED call
  BY <1>5 DEF RefundFailed
<1>6. ASSUME NEW n \in RefundNos, ChannelSettles(p, n)
      PROVE  DataOK' /\ UNCHANGED call
  BY <1>6 DEF ChannelSettles
<1>7. QED
  BY <1>1, <1>2, <1>3, <1>4, <1>5, <1>6 DEF PaymentStep, PaidNotification, ReconcilePaid

\* So does shipping, completing and overriding.
LEMMA OrderStepData ==
  ASSUME DataOK, NEW o \in Orders, OrderStep(o)
  PROVE  DataOK' /\ UNCHANGED call
<1> USE DEF DataOK, orderVars, payVars, refundVars, channelVars
<1>1. CASE ShipOrder(o)
  BY <1>1 DEF ShipOrder, OrderStatus
<1>2. CASE CompleteOrder(o)
  BY <1>2 DEF CompleteOrder, OrderStatus
<1>3. ASSUME NEW s \in OrderStatus, AdminPatch(o, s)
      PROVE  DataOK' /\ UNCHANGED call
  BY <1>3 DEF AdminPatch
<1>4. QED
  BY <1>1, <1>2, <1>3 DEF OrderStep

\* TypeInv is inductive.
LEMMA TypeInvStep == TypeInv /\ [Next]_vars => TypeInv'
<1> SUFFICES ASSUME TypeInv, [Next]_vars PROVE TypeInv'
  OBVIOUS
<1> DataOK /\ CallsOK /\ RefundNamed
  BY TypeSplit DEF TypeInv
<1> SUFFICES DataOK' /\ CallsOK' /\ RefundNamed'
  BY DEF TypeInv, TypeOK, DataOK, CallsOK
<1>1. ASSUME NEW h \in Handlers, CallStep(h)
      PROVE  DataOK' /\ CallsOK' /\ RefundNamed'
  BY <1>1, CallStepData, CallStepCalls, CallStepNamed DEF TypeInv
<1>2. ASSUME NEW h \in Handlers, CallStart(h)
      PROVE  DataOK' /\ CallsOK' /\ RefundNamed'
  <2>1. DataOK'
    BY <1>2, CallStartReads DEF DataOK, orderVars, payVars, refundVars, channelVars
  <2>2. QED
    BY <1>2, <2>1, CallStartCalls, CallStartNamed DEF TypeInv
<1>3. ASSUME NEW p \in Payments, PaymentStep(p)
      PROVE  DataOK' /\ CallsOK' /\ RefundNamed'
  BY <1>3, PaymentStepData DEF CallsOK, RefundNamed
<1>4. ASSUME NEW o \in Orders, OrderStep(o)
      PROVE  DataOK' /\ CallsOK' /\ RefundNamed'
  BY <1>4, OrderStepData DEF CallsOK, RefundNamed
<1>5. CASE UNCHANGED vars
  BY <1>5 DEF DataOK, CallsOK, RefundNamed, vars, orderVars, payVars, refundVars, channelVars
<1>6. QED
  BY <1>1, <1>2, <1>3, <1>4, <1>5 DEF Next

\* No call is in flight at first.
LEMMA TypeInvInit == Init => TypeInv
BY InitTyped DEF Init, TypeInv, RefundNamed, RefundPoints, Idle

\* Every table and every call in flight stays well typed, whatever handlers
\* interleave, crash or lose an answer of the channel.
THEOREM TypeCorrect == Spec => []TypeOK
<1>1. TypeInv => TypeOK
  BY DEF TypeInv
<1>2. QED
  BY <1>1, TypeInvInit, TypeInvStep, PTL DEF Spec

-----------------------------------------------------------------------------
(* Stock goes back once per cancelled order *)

\* Every write to an order is a compare-and-set from a status that is not
\* final, and the ones that reach "cancelled" give the stock back.
LEMMA StockStep == TypeInv /\ StockReturnedOnce /\ [Next]_vars => StockReturnedOnce'
<1> SUFFICES ASSUME TypeInv, StockReturnedOnce, [Next]_vars
             PROVE  StockReturnedOnce'
  OBVIOUS
<1> DataOK
  BY TypeSplit DEF TypeInv
<1> order \in [Orders -> OrderStatus] /\ restocked \in [Orders -> Nat]
  BY DEF DataOK
<1>a. UNCHANGED <<order, restocked>> => StockReturnedOnce'
  BY DEF StockReturnedOnce
<1>b. ASSUME NEW o, CancelWrite(o) PROVE StockReturnedOnce'
  BY <1>b DEF CancelWrite, StockReturnedOnce, CanUpdate, ORDER_TRANSITIONS
<1>c. ASSUME NEW o, NEW s, s # "cancelled", o \in Orders => order[o] # "cancelled",
             order' = [order EXCEPT ![o] = s], UNCHANGED restocked
      PROVE  StockReturnedOnce'
  BY <1>c DEF StockReturnedOnce
<1> USE DEF orderVars, payVars, refundVars, channelVars
<1>1. ASSUME NEW h \in Handlers, CallStep(h) PROVE StockReturnedOnce'
  <2>1. CASE SelectPending(h)
    BY <2>1, <1>a DEF SelectPending
  <2>2. CASE VoidPending(h)
    BY <2>2, <1>a DEF VoidPending
  <2>3. CASE InsertPayment(h)
    BY <2>3, <1>a DEF InsertPayment
  <2>4. CASE CreatePayment(h)
    BY <2>4, <1>a DEF CreatePayment
  <2>5. CASE BackfillPayload(h)
    BY <2>5, <1>a DEF BackfillPayload
  <2>6. CASE FailPayment(h)
    BY <2>6, <1>a DEF FailPayment
  <2>7. CASE CancelRefused(h)
    BY <2>7, <1>a DEF CancelRefused
  <2>8. CASE CancelUnpaidTx(h)
    BY <2>8, <1>a, <1>b DEF CancelUnpaidTx, Rollback
  <2>9. CASE CancelAsyncTx(h)
    BY <2>9, <1>a, <1>b DEF CancelAsyncTx, Rollback
  <2>10. CASE CancelSyncTx(h)
    BY <2>10, <1>a, <1>b DEF CancelSyncTx, Rollback
  <2>11. CASE SubmitRefund(h)
    BY <2>11, <1>a DEF SubmitRefund
  <2>12. CASE RefundAsyncInsert(h)
    BY <2>12, <1>a DEF RefundAsyncInsert, Rollback
  <2>13. CASE RefundSyncTx(h)
    BY <2>13, <1>a, <1>c DEF RefundSyncTx, Rollback, Refundable
  <2>14. CASE RefundSettledTx(h)
    BY <2>14, <1>a, <1>c DEF RefundSettledTx, Rollback, MarkOrderRefunded, Refundable
  <2>15. CASE Crash(h)
    BY <2>15, <1>a DEF Crash, Rollback
  <2>16. QED
    BY <1>1, <2>1, <2>2, <2>3, <2>4, <2>5, <2>6, <2>7, <2>8, <2>9, <2>10, <2>11,
       <2>12, <2>13, <2>14, <2>15 DEF CallStep
<1>2. ASSUME NEW h \in Handlers, CallStart(h) PROVE StockReturnedOnce'
  BY <1>2, <1>a, CallStartReads
<1>3. ASSUME NEW p \in Payments, PaymentStep(p) PROVE StockReturnedOnce'
  <2>1. CASE ConfirmOrderPayment(p)
    BY <2>1, <1>c DEF ConfirmOrderPayment, CanUpdate, ORDER_TRANSITIONS
  <2>2. CASE ~ConfirmOrderPayment(p)
    BY <1>3, <2>2, <1>a DEF PaymentStep, PaidNotification, ReconcilePaid, ReconcileClosed,
       CustomerPays, ChannelCloses, RefundFailed, ChannelSettles
  <2>3. QED
    BY <2>1, <2>2
<1>4. ASSUME NEW o \in Orders, OrderStep(o) PROVE StockReturnedOnce'
  BY <1>4, <1>c DEF OrderStep, ShipOrder, CompleteOrder, AdminPatch, CanUpdate,
     ORDER_TRANSITIONS
<1>5. CASE UNCHANGED vars
  BY <1>5, <1>a DEF vars
<1>6. QED
  BY <1>1, <1>2, <1>3, <1>4, <1>5 DEF Next

\* However many customers, admins and timeout runs cancel an order at once, or
\* again after a crash, its stock is given back exactly once, and only with
\* the order cancelled.
THEOREM StockReturned == Spec => []StockReturnedOnce
<1>1. Init => StockReturnedOnce
  BY DEF Init, StockReturnedOnce
<1>2. QED
  BY <1>1, TypeInvInit, TypeInvStep, StockStep, PTL DEF Spec
HIDE DEF NoPayment

-----------------------------------------------------------------------------
(* Moves *)

OrderMove(o) ==
  order'[o] # order[o] =>
    \/ CanUpdate(order[o], order'[o])
    \/ order[o] \in Refundable /\ order'[o] = "refunded"

\* A payment moves along its table, and becomes succeeded in the transaction
\* that makes its order paid and nowhere else.
PayMove(p) ==
  pay'[p] # pay[p] =>
    /\ \/ <<pay[p], pay'[p]>> \in PAYMENT_TRANSITIONS
       \/ pay[p] = "absent" /\ pay'[p] = "pending"
    /\ pay'[p] = "succeeded" => ConfirmOrderPayment(p)

\* Every step moves every order along its table, or by a refund.
LEMMA OrderMoves ==
  ASSUME TypeInv, [Next]_vars
  PROVE  \A o \in Orders : OrderMove(o)
<1> DataOK
  BY TypeSplit DEF TypeInv
<1> order \in [Orders -> OrderStatus]
  BY DEF DataOK
<1> DEFINE Goal == \A o \in Orders : OrderMove(o)
<1>a. UNCHANGED order => Goal
  BY DEF OrderMove
<1>b. ASSUME NEW x, NEW s, order' = [order EXCEPT ![x] = s],
             \/ CanUpdate(order[x], s)
             \/ order[x] \in Refundable /\ s = "refunded"
      PROVE  Goal
  BY <1>b DEF OrderMove
<1> HIDE DEF Goal
<1> SUFFICES Goal
  BY DEF Goal
<1> USE DEF orderVars
<1>1. ASSUME NEW h \in Handlers, CallStep(h) PROVE Goal
  <2>1. CASE SelectPending(h)
    BY <2>1, <1>a DEF SelectPending
  <2>2. CASE VoidPending(h)
    BY <2>2, <1>a DEF VoidPending
  <2>3. CASE InsertPayment(h)
    BY <2>3, <1>a DEF InsertPayment
  <2>4. CASE CreatePayment(h)
    BY <2>4, <1>a DEF CreatePayment
  <2>5. CASE BackfillPayload(h)
    BY <2>5, <1>a DEF BackfillPayload
  <2>6. CASE FailPayment(h)
    BY <2>6, <1>a DEF FailPayment
  <2>7. CASE CancelRefused(h)
    BY <2>7, <1>a DEF CancelRefused
  <2>8. CASE CancelUnpaidTx(h)
    BY <2>8, <1>a, <1>b DEF CancelUnpaidTx, Rollback, CancelWrite
  <2>9. CASE CancelAsyncTx(h)
    BY <2>9, <1>a, <1>b DEF CancelAsyncTx, Rollback, CancelWrite
  <2>10. CASE CancelSyncTx(h)
    BY <2>10, <1>a, <1>b DEF CancelSyncTx, Rollback, CancelWrite
  <2>11. CASE SubmitRefund(h)
    BY <2>11, <1>a DEF SubmitRefund
  <2>12. CASE RefundAsyncInsert(h)
    BY <2>12, <1>a DEF RefundAsyncInsert, Rollback
  <2>13. CASE RefundSyncTx(h)
    BY <2>13, <1>a, <1>b DEF RefundSyncTx, Rollback
  <2>14. CASE RefundSettledTx(h)
    BY <2>14, <1>a, <1>b DEF RefundSettledTx, Rollback, MarkOrderRefunded
  <2>15. CASE Crash(h)
    BY <2>15, <1>a DEF Crash, Rollback
  <2>16. QED
    BY <1>1, <2>1, <2>2, <2>3, <2>4, <2>5, <2>6, <2>7, <2>8, <2>9, <2>10, <2>11,
       <2>12, <2>13, <2>14, <2>15 DEF CallStep
<1>2. ASSUME NEW h \in Handlers, CallStart(h) PROVE Goal
  BY <1>2, <1>a, CallStartReads
<1>3. ASSUME NEW p \in Payments, PaymentStep(p) PROVE Goal
  <2>1. CASE ConfirmOrderPayment(p)
    BY <2>1, <1>b DEF ConfirmOrderPayment
  <2>2. CASE ~ConfirmOrderPayment(p)
    BY <1>3, <2>2, <1>a DEF PaymentStep, PaidNotification, ReconcilePaid, ReconcileClosed,
       CustomerPays, ChannelCloses, RefundFailed, ChannelSettles
  <2>3. QED
    BY <2>1, <2>2
<1>4. ASSUME NEW o \in Orders, OrderStep(o) PROVE Goal
  BY <1>4, <1>b DEF OrderStep, ShipOrder, CompleteOrder, AdminPatch, CanUpdate,
     ORDER_TRANSITIONS
<1>5. CASE UNCHANGED vars
  BY <1>5, <1>a DEF vars
<1>6. QED
  BY <1>1, <1>2, <1>3, <1>4, <1>5 DEF Next

\* Every step moves every payment along its table.
LEMMA PayMoves ==
  ASSUME TypeInv, [Next]_vars
  PROVE  \A p \in Payments : PayMove(p)
<1> DataOK
  BY TypeSplit DEF TypeInv
<1> pay \in [Payments -> PaymentStatus]
  BY DEF DataOK
<1> DEFINE Goal == \A p \in Payments : PayMove(p)
<1>a. UNCHANGED pay => Goal
  BY DEF PayMove
<1>b. ASSUME NEW x, NEW s, pay' = [pay EXCEPT ![x] = s], s # "succeeded",
             \/ <<pay[x], s>> \in PAYMENT_TRANSITIONS
             \/ pay[x] = "absent" /\ s = "pending"
      PROVE  Goal
  BY <1>b DEF PayMove
<1>c. ASSUME NEW o, NEW from, NEW s, <<from, s>> \in PAYMENT_TRANSITIONS, s # "succeeded",
             pay' = [p \in Payments |-> IF p \in PaymentsOf(o, from) THEN s ELSE pay[p]]
      PROVE  Goal
  BY <1>c DEF PayMove, PaymentsOf
<1>d. /\ <<"pending", "failed">> \in PAYMENT_TRANSITIONS
      /\ <<"pending", "cancelled">> \in PAYMENT_TRANSITIONS
      /\ <<"succeeded", "refunded">> \in PAYMENT_TRANSITIONS
  BY DEF PAYMENT_TRANSITIONS
<1>e. ASSUME NEW x, FailIfPending(x) PROVE Goal
  BY <1>e, <1>a, <1>b, <1>d DEF FailIfPending
<1> HIDE DEF Goal
<1> SUFFICES Goal
  BY DEF Goal
<1> USE <1>d DEF payVars
<1>1. ASSUME NEW h \in Handlers, CallStep(h) PROVE Goal
  <2>1. CASE SelectPending(h)
    BY <2>1, <1>a DEF SelectPending
  <2>2. CASE VoidPending(h)
    BY <2>2, <1>e DEF VoidPending
  <2>3. CASE InsertPayment(h)
    BY <2>3, <1>b DEF InsertPayment, IsFirst, PaymentsOf
  <2>4. CASE CreatePayment(h)
    BY <2>4, <1>a DEF CreatePayment
  <2>5. CASE BackfillPayload(h)
    BY <2>5, <1>a DEF BackfillPayload
  <2>6. CASE FailPayment(h)
    BY <2>6, <1>e DEF FailPayment
  <2>7. CASE CancelRefused(h)
    BY <2>7, <1>a DEF CancelRefused
  <2>8. CASE CancelUnpaidTx(h)
    BY <2>8, <1>a, <1>c DEF CancelUnpaidTx, Rollback, CancelPendingPayments
  <2>9. CASE CancelAsyncTx(h)
    BY <2>9, <1>a DEF CancelAsyncTx, Rollback
  <2>10. CASE CancelSyncTx(h)
    BY <2>10, <1>a, <1>c DEF CancelSyncTx, Rollback
  <2>11. CASE SubmitRefund(h)
    BY <2>11, <1>a DEF SubmitRefund
  <2>12. CASE RefundAsyncInsert(h)
    BY <2>12, <1>a DEF RefundAsyncInsert, Rollback
  <2>13. CASE RefundSyncTx(h)
    BY <2>13, <1>a, <1>b DEF RefundSyncTx, Rollback, IsFirst, PaymentsOf
  <2>14. CASE RefundSettledTx(h)
    BY <2>14, <1>a, <1>b DEF RefundSettledTx, Rollback
  <2>15. CASE Crash(h)
    BY <2>15, <1>a DEF Crash, Rollback
  <2>16. QED
    BY <1>1, <2>1, <2>2, <2>3, <2>4, <2>5, <2>6, <2>7, <2>8, <2>9, <2>10, <2>11,
       <2>12, <2>13, <2>14, <2>15 DEF CallStep
<1>2. ASSUME NEW h \in Handlers, CallStart(h) PROVE Goal
  BY <1>2, <1>a, CallStartReads
<1>3. ASSUME NEW p \in Payments, PaymentStep(p) PROVE Goal
  <2>1. CASE ConfirmOrderPayment(p)
    BY <2>1 DEF ConfirmOrderPayment, Goal, PayMove
  <2>2. CASE ReconcileClosed(p)
    BY <2>2, <1>b DEF ReconcileClosed
  <2>3. CASE ~ConfirmOrderPayment(p) /\ ~ReconcileClosed(p)
    BY <1>3, <2>3, <1>a DEF PaymentStep, PaidNotification, ReconcilePaid,
       CustomerPays, ChannelCloses, RefundFailed, ChannelSettles
  <2>4. QED
    BY <2>1, <2>2, <2>3
<1>4. ASSUME NEW o \in Orders, OrderStep(o) PROVE Goal
  BY <1>4, <1>a DEF OrderStep, ShipOrder, CompleteOrder, AdminPatch
<1>5. CASE UNCHANGED vars
  BY <1>5, <1>a DEF vars
<1>6. QED
  BY <1>1, <1>2, <1>3, <1>4, <1>5 DEF Next

\* All the writers of the two tables together keep to the transition tables:
\* a read-then-write handler never moves a row from a status it did not see.
THEOREM TablesKept == Spec => MovesFollowTables
<1> DEFINE Moves ==
      /\ \A o \in Orders : order'[o] # order[o] =>
           \/ CanUpdate(order[o], order'[o])
           \/ order[o] \in Refundable /\ order'[o] = "refunded"
      /\ \A p \in Payments : pay'[p] # pay[p] =>
           \/ <<pay[p], pay'[p]>> \in PAYMENT_TRANSITIONS
           \/ pay[p] = "absent" /\ pay'[p] = "pending"
<1>1. TypeInv /\ [Next]_vars => Moves
  BY OrderMoves, PayMoves DEF OrderMove, PayMove
<1>2. QED
  BY <1>1, TypeInvInit, TypeInvStep, PTL DEF Spec, MovesFollowTables

-----------------------------------------------------------------------------
(* At most one payment of an order is booked *)

\* OnePaymentPerOrder alone is not inductive: a second payment stays unbooked
\* because the first one took its order out of "pending", for good.
BookedNotPending ==
  \A p \in Payments : Collected(p) => order[OwnerOf[p]] # "pending"

OnePaymentInv == OnePaymentPerOrder /\ BookedNotPending

\* Booking a payment happens once per order.
LEMMA OnePaymentStep == TypeInv /\ OnePaymentInv /\ [Next]_vars => OnePaymentInv'
<1> SUFFICES ASSUME TypeInv, OnePaymentInv, [Next]_vars PROVE OnePaymentInv'
  OBVIOUS
<1>1. DataOK
  BY TypeSplit DEF TypeInv
<1>2. ASSUME NEW p \in Payments, ~Collected(p), Collected(p)'
      PROVE  ConfirmOrderPayment(p)
  <2>1. PayMove(p)
    BY PayMoves
  <2>2. pay[p] # "succeeded" /\ pay[p] # "refunded"
    BY <1>2 DEF Collected
  <2>3. pay'[p] = "succeeded" \/ pay'[p] = "refunded"
    BY <1>2 DEF Collected
  <2>4. QED
    BY <2>1, <2>2, <2>3 DEF PayMove, PAYMENT_TRANSITIONS
<1>3. ASSUME NEW p \in Payments, ConfirmOrderPayment(p)
      PROVE  /\ order[OwnerOf[p]] = "pending" /\ order'[OwnerOf[p]] = "paid"
             /\ \A q \in Payments : q # p => pay'[q] = pay[q]
  BY <1>1, <1>3, TradeAssumption
     DEF ConfirmOrderPayment, DataOK, CanUpdate, ORDER_TRANSITIONS
<1>4. \A o \in Orders : order[o] # "pending" => order'[o] # "pending"
  BY OrderMoves DEF OrderMove, CanUpdate, ORDER_TRANSITIONS
<1>5. BookedNotPending'
  <2>1. ASSUME NEW p \in Payments, Collected(p)'
        PROVE  order'[OwnerOf[p]] # "pending"
    <3>1. CASE Collected(p)
      BY <3>1, <1>4, TradeAssumption DEF OnePaymentInv, BookedNotPending
    <3>2. CASE ~Collected(p)
      BY <2>1, <3>2, <1>2, <1>3
    <3>3. QED
      BY <3>1, <3>2
  <2>2. QED
    BY <2>1 DEF BookedNotPending, Collected
<1>6. OnePaymentPerOrder'
  <2>1. ASSUME NEW p \in Payments, NEW q \in Payments, OwnerOf[p] = OwnerOf[q],
               Collected(p)', Collected(q)', p # q
        PROVE  FALSE
    <3>1. ASSUME NEW x \in Payments, NEW y \in Payments, OwnerOf[x] = OwnerOf[y],
                 x # y, ~Collected(x), Collected(x)', Collected(y)'
          PROVE  FALSE
      <4>1. ConfirmOrderPayment(x)
        BY <1>2, <3>1
      <4>2. Collected(y)
        BY <1>3, <3>1, <4>1 DEF Collected
      <4>3. QED
        BY <1>3, <3>1, <4>1, <4>2 DEF OnePaymentInv, BookedNotPending
    <3>2. Collected(p) /\ Collected(q)
      BY <2>1, <3>1
    <3>3. QED
      BY <2>1, <3>2 DEF OnePaymentInv, OnePaymentPerOrder
  <2>2. QED
    BY <2>1 DEF OnePaymentPerOrder, Collected
<1>7. QED
  BY <1>5, <1>6 DEF OnePaymentInv

\* Nothing is booked at first.
LEMMA OnePaymentInit == Init => OnePaymentInv
BY DEF Init, OnePaymentInv, OnePaymentPerOrder, BookedNotPending, Collected

\* However many payments of an order are started, paid at the channel or
\* notified, at most one of them is ever booked as money taken for it.
THEOREM OnePayment == Spec => []OnePaymentPerOrder
<1>1. OnePaymentInv => OnePaymentPerOrder
  BY DEF OnePaymentInv
<1>2. QED
  BY <1>1, TypeInvInit, TypeInvStep, OnePaymentInit, OnePaymentStep, PTL DEF Spec

-----------------------------------------------------------------------------
(* Refunds are backed by the channel *)

\* RefundsBackedByChannel alone is not inductive: a handler writes a refund on
\* the strength of the answer it carries, so what each call in flight carries
\* must be true at the channel, and stay true.
CallBacked(c) ==
  /\ c.at \in RefundPoints \ {"notify_commit"} => Collected(c.payment)
  /\ c.at \in {"cancel_async", "refund_async"} =>
       chRefund[c.payment][c.refundNo] # "absent"
  /\ c.at \in {"cancel_sync", "refund_sync", "notify_commit"} =>
       chRefund[c.payment][c.refundNo] = "succeeded"

CallsBacked == \A h \in Handlers : CallBacked(call[h])

\* The channel forgets no refund and reverses no settled one.
ChannelMove(p, n) ==
  chRefund'[p][n] # chRefund[p][n] =>
    chRefund[p][n] \in {"absent", "processing"} /\ chRefund'[p][n] # "absent"

\* Submitting and settling are all that happens to a refund at the channel.
LEMMA ChannelMoves ==
  ASSUME TypeInv, [Next]_vars
  PROVE  \A p \in Payments, n \in RefundNos : ChannelMove(p, n)
<1> chRefund \in [Payments -> [RefundNos -> RefundStatus]]
  BY TypeSplit DEF TypeInv, DataOK
<1> DEFINE Goal == \A p \in Payments, n \in RefundNos : ChannelMove(p, n)
<1>a. UNCHANGED chRefund => Goal
  BY DEF ChannelMove
<1> HIDE DEF Goal
<1> SUFFICES Goal
  BY DEF Goal
<1> USE DEF channelVars
<1>1. ASSUME NEW h \in Handlers, CallStep(h) PROVE Goal
  <2>1. CASE SubmitRefund(h)
    <3> DEFINE cp == call[h].payment  cn == call[h].refundNo
    <3>1. cp \in Payments /\ cn \in RefundNos
      BY <2>1 DEF TypeInv, RefundNamed, RefundPoints, SubmitRefund
    <3>2. PICK s \in AfterSubmit(chRefund[cp][cn]) :
            chRefund' = [chRefund EXCEPT ![cp][cn] = s]
      BY <2>1 DEF SubmitRefund
    <3>3. s # chRefund[cp][cn] => chRefund[cp][cn] = "absent" /\ s # "absent"
      BY <3>2 DEF AfterSubmit
    <3>4. QED
      BY <3>1, <3>2, <3>3 DEF Goal, ChannelMove
  <2>2. CASE ~SubmitRefund(h)
    BY <1>1, <2>2, <1>a DEF CallStep, SelectPending, VoidPending, InsertPayment,
       CreatePayment, BackfillPayload, FailPayment, CancelRefused, CancelUnpaidTx,
       CancelAsyncTx, CancelSyncTx, RefundAsyncInsert, RefundSyncTx, RefundSettledTx,
       Crash, Rollback
  <2>3. QED
    BY <2>1, <2>2
<1>2. ASSUME NEW h \in Handlers, CallStart(h) PROVE Goal
  BY <1>2, <1>a, CallStartReads
<1>3. ASSUME NEW p \in Payments, PaymentStep(p) PROVE Goal
  <2>1. ASSUME NEW n \in RefundNos, ChannelSettles(p, n) PROVE Goal
    BY <2>1 DEF Goal, ChannelMove, ChannelSettles
  <2>2. CASE ~\E n \in RefundNos : ChannelSettles(p, n)
    BY <1>3, <2>2, <1>a DEF PaymentStep, PaidNotification, ReconcilePaid,
       ConfirmOrderPayment, ReconcileClosed, CustomerPays, ChannelCloses, RefundFailed
  <2>3. QED
    BY <2>1, <2>2
<1>4. ASSUME NEW o \in Orders, OrderStep(o) PROVE Goal
  BY <1>4, <1>a DEF OrderStep, ShipOrder, CompleteOrder, AdminPatch
<1>5. CASE UNCHANGED vars
  BY <1>5, <1>a DEF vars
<1>6. QED
  BY <1>1, <1>2, <1>3, <1>4, <1>5 DEF Next

\* A booked payment stays booked.
LEMMA CollectedStays ==
  ASSUME TypeInv, [Next]_vars, NEW p \in Payments, Collected(p)
  PROVE  Collected(p)'
BY PayMoves DEF PayMove, Collected, PAYMENT_TRANSITIONS

\* What a call carries stays true while others run.
LEMMA BackedStays ==
  ASSUME TypeInv, CallsBacked, [Next]_vars, NEW h \in Handlers, call'[h] = call[h]
  PROVE  CallBacked(call[h])'
<1> DEFINE c == call[h]
<1>1. CASE c.at \in RefundPoints
  <2>1. c.payment \in Payments /\ c.refundNo \in RefundNos
    BY <1>1 DEF TypeInv, RefundNamed
  <2>2. ChannelMove(c.payment, c.refundNo)
    BY <2>1, ChannelMoves
  <2>3. Collected(c.payment) => pay'[c.payment] \in {"succeeded", "refunded"}
    BY <2>1, CollectedStays DEF Collected
  <2>4. QED
    BY <2>2, <2>3 DEF CallsBacked, CallBacked, ChannelMove, Collected
<1>2. CASE c.at \notin RefundPoints
  BY <1>2 DEF CallBacked, RefundPoints
<1>3. QED
  BY <1>1, <1>2

\* An answer of the channel is carried only as the channel gave it.
LEMMA CallsBackedStep ==
  ASSUME TypeInv, CallsBacked, [Next]_vars
  PROVE  CallsBacked'
<1> CallsOK /\ RefundNamed
  BY TypeSplit DEF TypeInv
<1>a. ASSUME NEW h \in Handlers, NEW c, call' = [call EXCEPT ![h] = c],
             c.at \notin RefundPoints
      PROVE  CallsBacked'
  <2>1. CallBacked(call[h])'
    BY <1>a DEF CallsOK, CallBacked, RefundPoints
  <2>2. \A g \in Handlers : g # h => call'[g] = call[g]
    BY <1>a DEF CallsOK
  <2>3. QED
    BY <2>1, <2>2, BackedStays DEF CallsBacked
<1>b. UNCHANGED call => CallsBacked'
  BY BackedStays DEF CallsBacked
<1>c. ASSUME NEW h \in Handlers, Return(h) PROVE CallsBacked'
  BY <1>c, <1>a DEF Return, Idle, RefundPoints
<1>d. ASSUME NEW h \in Handlers, NEW point, NEW o, NEW p, NEW n, NEW s,
             point \notin RefundPoints, Enter(h, point, o, p, n, s)
      PROVE  CallsBacked'
  <2> DEFINE c == [at |-> point, order |-> o, payment |-> p, refundNo |-> n, saw |-> s]
  <2>1. call' = [call EXCEPT ![h] = c] /\ c.at \notin RefundPoints
    BY <1>d DEF Enter
  <2> HIDE DEF c
  <2>2. QED
    BY <2>1, <1>a
<1>e. ASSUME NEW h \in Handlers, NEW point, point \notin RefundPoints, Goto(h, point)
      PROVE  CallsBacked'
  <2>1. call' = [call EXCEPT ![h] = [call[h] EXCEPT !.at = point]]
    BY <1>e DEF Goto
  <2>2. [call[h] EXCEPT !.at = point].at = point
    BY DEF CallsOK, Call
  <2>3. QED
    BY <1>e, <2>1, <2>2, <1>a
<1>f. ASSUME NEW h \in Handlers, CallBacked(call[h])',
             \A g \in Handlers : g # h => call'[g] = call[g]
      PROVE  CallsBacked'
  BY <1>f, BackedStays DEF CallsBacked
<1>1. ASSUME NEW h \in Handlers, CallStep(h) PROVE CallsBacked'
  <2> USE DEF RefundPoints
  <2>1. CASE SelectPending(h)
    BY <2>1, <1>c, <1>d, <1>e DEF SelectPending
  <2>2. CASE VoidPending(h)
    BY <2>2, <1>e DEF VoidPending
  <2>3. CASE InsertPayment(h)
    BY <2>3, <1>d DEF InsertPayment
  <2>4. CASE CreatePayment(h)
    BY <2>4, <1>e DEF CreatePayment
  <2>5. CASE BackfillPayload(h)
    BY <2>5, <1>c DEF BackfillPayload
  <2>6. CASE FailPayment(h)
    BY <2>6, <1>c DEF FailPayment
  <2>7. CASE CancelRefused(h)
    BY <2>7, <1>c DEF CancelRefused
  <2>8. CASE CancelUnpaidTx(h)
    BY <2>8, <1>c DEF CancelUnpaidTx, Rollback
  <2>9. CASE CancelAsyncTx(h)
    BY <2>9, <1>c DEF CancelAsyncTx, Rollback
  <2>10. CASE CancelSyncTx(h)
    BY <2>10, <1>c DEF CancelSyncTx, Rollback
  <2>11. CASE SubmitRefund(h)
    <3> DEFINE c == call[h]
    <3>1. CASE Return(h)
      BY <3>1, <1>c
    <3>2. CASE ~Return(h)
      <4>1. PICK s : /\ chRefund' = [chRefund EXCEPT ![c.payment][c.refundNo] = s]
                     /\ s # "absent"
                     /\ \/ s = "succeeded" /\ Goto(h, "cancel_sync")
                        \/ s # "succeeded" /\ Goto(h, "cancel_async")
                        \/ s = "succeeded" /\ Goto(h, "refund_sync")
                        \/ s # "succeeded" /\ Goto(h, "refund_async")
        BY <2>11, <3>2 DEF SubmitRefund, Accepted
      <4>2. /\ c.at \in {"cancel_submit", "refund_submit"}
            /\ UNCHANGED pay
        BY <2>11 DEF SubmitRefund, payVars
      <4>3. /\ c.payment \in Payments /\ c.refundNo \in RefundNos
            /\ Collected(c.payment)
        BY <4>2 DEF RefundNamed, CallsBacked, CallBacked
      <4>4. chRefund'[c.payment][c.refundNo] = s
        BY <4>1, <4>3, TypeSplit DEF TypeInv, DataOK
      <4>5. /\ call'[h].payment = c.payment /\ call'[h].refundNo = c.refundNo
            /\ call'[h].at \in {"cancel_sync", "refund_sync"} => s = "succeeded"
            /\ call'[h].at # "notify_commit"
            /\ \A g \in Handlers : g # h => call'[g] = call[g]
        BY <4>1 DEF Goto, CallsOK, Call
      <4>6. CallBacked(call[h])'
        BY <4>1, <4>2, <4>3, <4>4, <4>5 DEF CallBacked, Collected
      <4>7. QED
        BY <4>5, <4>6, <1>f
    <3>3. QED
      BY <3>1, <3>2
  <2>12. CASE RefundAsyncInsert(h)
    BY <2>12, <1>c DEF RefundAsyncInsert, Rollback
  <2>13. CASE RefundSyncTx(h)
    BY <2>13, <1>c DEF RefundSyncTx, Rollback
  <2>14. CASE RefundSettledTx(h)
    BY <2>14, <1>c DEF RefundSettledTx, Rollback
  <2>15. CASE Crash(h)
    BY <2>15, <1>c DEF Crash, Rollback
  <2>16. QED
    BY <1>1, <2>1, <2>2, <2>3, <2>4, <2>5, <2>6, <2>7, <2>8, <2>9, <2>10, <2>11,
       <2>12, <2>13, <2>14, <2>15 DEF CallStep
<1>2. ASSUME NEW h \in Handlers, CallStart(h) PROVE CallsBacked'
  <2> USE DEF RefundPoints
  <2>1. ASSUME NEW o \in Orders,
               InitiateOrderPayment(h, o) \/ AutoCancelList(h, o) \/ CancelUnpaid(h, o)
        PROVE  CallsBacked'
    BY <2>1, <1>d DEF InitiateOrderPayment, AutoCancelList, CancelUnpaid
  <2>2. ASSUME NEW o \in Orders, CancelPaid(h, o) \/ RefundOrder(h, o)
        PROVE  CallsBacked'
    <3>1. PICK p \in Payments, n \in RefundNos, point \in {"cancel_submit", "refund_submit"} :
            /\ RefundTarget(o, p, n) /\ UNCHANGED pay
            /\ Enter(h, point, o, p, n, "pending")
      BY <2>2 DEF CancelPaid, RefundOrder, payVars
    <3>2. Collected(p)
      BY <3>1 DEF RefundTarget, IsFirst, PaymentsOf, Collected
    <3>3. /\ call'[h].at = point /\ call'[h].payment = p
          /\ \A g \in Handlers : g # h => call'[g] = call[g]
      BY <3>1 DEF Enter, CallsOK
    <3>4. CallBacked(call[h])'
      BY <3>1, <3>2, <3>3 DEF CallBacked, Collected
    <3>5. QED
      BY <3>3, <3>4, <1>f
  <2>3. ASSUME NEW p \in Payments, NEW n \in RefundNos, RefundSettledRead(h, p, n)
        PROVE  CallsBacked'
    <3>1. /\ Enter(h, "notify_commit", OwnerOf[p], p, n, order[OwnerOf[p]])
          /\ chRefund'[p][n] = "succeeded"
      BY <2>3 DEF RefundSettledRead, channelVars
    <3>2. /\ call'[h].at = "notify_commit"
          /\ call'[h].payment = p /\ call'[h].refundNo = n
          /\ \A g \in Handlers : g # h => call'[g] = call[g]
      BY <3>1 DEF Enter, CallsOK
    <3>3. CallBacked(call[h])'
      BY <3>1, <3>2 DEF CallBacked
    <3>4. QED
      BY <3>2, <3>3, <1>f
  <2>4. QED
    BY <1>2, <2>1, <2>2, <2>3 DEF CallStart
<1>3. ASSUME NEW p \in Payments, PaymentStep(p) PROVE CallsBacked'
  BY <1>3, <1>b, PaymentStepData, TypeSplit DEF TypeInv
<1>4. ASSUME NEW o \in Orders, OrderStep(o) PROVE CallsBacked'
  BY <1>4, <1>b, OrderStepData, TypeSplit DEF TypeInv
<1>5. CASE UNCHANGED vars
  BY <1>5, <1>b DEF vars
<1>6. QED
  BY <1>1, <1>2, <1>3, <1>4, <1>5 DEF Next

\* A refund row is written only as the channel answered.
LEMMA RowMoves ==
  ASSUME TypeInv, CallsBacked, [Next]_vars
  PROVE  \A p \in Payments, n \in RefundNos : refund'[p][n] # refund[p][n] =>
           \/ refund'[p][n] = "processing" /\ chRefund[p][n] # "absent"
           \/ refund'[p][n] = chRefund[p][n]
<1> refund \in [Payments -> [RefundNos -> RefundStatus]]
  BY TypeSplit DEF TypeInv, DataOK
<1> DEFINE Goal ==
      \A p \in Payments, n \in RefundNos : refund'[p][n] # refund[p][n] =>
        \/ refund'[p][n] = "processing" /\ chRefund[p][n] # "absent"
        \/ refund'[p][n] = chRefund[p][n]
<1>a. UNCHANGED refund => Goal
  OBVIOUS
<1>b. ASSUME NEW x \in Payments, NEW m \in RefundNos, NEW s,
             refund' = [refund EXCEPT ![x][m] = s],
             \/ s = "processing" /\ chRefund[x][m] # "absent"
             \/ s = chRefund[x][m]
      PROVE  Goal
  BY <1>b
<1> HIDE DEF Goal
<1> SUFFICES Goal
  BY DEF Goal
<1> USE DEF refundVars
<1>1. ASSUME NEW h \in Handlers, CallStep(h) PROVE Goal
  <2> DEFINE c == call[h]
  <2>a. /\ c.at \in RefundPoints => c.payment \in Payments /\ c.refundNo \in RefundNos
        /\ CallBacked(c)
    BY DEF TypeInv, RefundNamed, CallsBacked
  <2>1. CASE UNCHANGED refund
    BY <2>1, <1>a
  <2>2. CASE CancelAsyncTx(h) /\ ~Rollback(h)
    BY <2>2, <2>a, <1>b DEF CancelAsyncTx, InsertRefund, CallBacked, RefundPoints
  <2>3. CASE CancelSyncTx(h) /\ ~Rollback(h)
    BY <2>3, <2>a, <1>b DEF CancelSyncTx, InsertRefund, CallBacked, RefundPoints
  <2>4. CASE RefundAsyncInsert(h) /\ ~Rollback(h)
    BY <2>4, <2>a, <1>b DEF RefundAsyncInsert, InsertRefund, CallBacked, RefundPoints
  <2>5. CASE RefundSyncTx(h) /\ ~Rollback(h)
    BY <2>5, <2>a, <1>b DEF RefundSyncTx, InsertRefund, CallBacked, RefundPoints
  <2>6. CASE RefundSettledTx(h) /\ ~Rollback(h)
    BY <2>6, <2>a, <1>b DEF RefundSettledTx, CallBacked, RefundPoints
  <2>7. QED
    BY <1>1, <2>1, <2>2, <2>3, <2>4, <2>5, <2>6 DEF CallStep, SelectPending, VoidPending,
       InsertPayment, CreatePayment, BackfillPayload, FailPayment, CancelRefused,
       CancelUnpaidTx, SubmitRefund, Crash, Rollback
<1>2. ASSUME NEW h \in Handlers, CallStart(h) PROVE Goal
  BY <1>2, <1>a, CallStartReads
<1>3. ASSUME NEW p \in Payments, PaymentStep(p) PROVE Goal
  <2>1. ASSUME NEW n \in RefundNos, RefundFailed(p, n) PROVE Goal
    BY <2>1, <1>b DEF RefundFailed
  <2>2. CASE ~\E n \in RefundNos : RefundFailed(p, n)
    BY <1>3, <2>2, <1>a DEF PaymentStep, PaidNotification, ReconcilePaid,
       ConfirmOrderPayment, ReconcileClosed, CustomerPays, ChannelCloses, ChannelSettles
  <2>3. QED
    BY <2>1, <2>2
<1>4. ASSUME NEW o \in Orders, OrderStep(o) PROVE Goal
  BY <1>4, <1>a DEF OrderStep, ShipOrder, CompleteOrder, AdminPatch
<1>5. CASE UNCHANGED vars
  BY <1>5, <1>a DEF vars
<1>6. QED
  BY <1>1, <1>2, <1>3, <1>4, <1>5 DEF Next

\* A payment is marked refunded only when the channel has refunded it: the
\* handlers that mark by order find the payment they refunded, because no
\* other payment of the order is booked.
LEMMA RefundedMoves ==
  ASSUME TypeInv, OnePaymentInv, CallsBacked, [Next]_vars,
         NEW p \in Payments, pay[p] # "refunded", pay'[p] = "refunded"
  PROVE  \E n \in RefundNos : chRefund[p][n] = "succeeded"
<1> pay \in [Payments -> PaymentStatus]
  BY TypeSplit DEF TypeInv, DataOK
<1> USE DEF payVars
<1>1. ASSUME NEW h \in Handlers, CallStep(h)
      PROVE  \E n \in RefundNos : chRefund[p][n] = "succeeded"
  <2> DEFINE c == call[h]
  <2>a. /\ c.at \in RefundPoints =>
             /\ c.payment \in Payments /\ c.refundNo \in RefundNos
             /\ OwnerOf[c.payment] = c.order
        /\ CallBacked(c)
    BY DEF TypeInv, RefundNamed, CallsBacked
  <2>b. ASSUME c.at \in {"cancel_sync", "refund_sync"}, p \in PaymentsOf(c.order, "succeeded")
        PROVE  \E n \in RefundNos : chRefund[p][n] = "succeeded"
    <3>1. p = c.payment
      BY <2>a, <2>b DEF CallBacked, RefundPoints, PaymentsOf, Collected, OnePaymentInv,
         OnePaymentPerOrder
    <3>2. QED
      BY <2>a, <2>b, <3>1 DEF CallBacked, RefundPoints
  <2>1. CASE CancelSyncTx(h) /\ ~Rollback(h)
    BY <2>1, <2>b DEF CancelSyncTx
  <2>2. CASE RefundSyncTx(h) /\ ~Rollback(h)
    BY <2>2, <2>b DEF RefundSyncTx, IsFirst
  <2>3. CASE RefundSettledTx(h) /\ ~Rollback(h)
    BY <2>3, <2>a DEF RefundSettledTx, CallBacked, RefundPoints
  <2>4. CASE \/ SelectPending(h) \/ VoidPending(h) \/ InsertPayment(h)
             \/ CreatePayment(h) \/ BackfillPayload(h) \/ FailPayment(h)
             \/ CancelRefused(h) \/ CancelUnpaidTx(h) \/ CancelAsyncTx(h)
             \/ SubmitRefund(h) \/ RefundAsyncInsert(h) \/ Crash(h) \/ Rollback(h)
    <3>1. pay'[p] = pay[p] \/ pay'[p] \in {"pending", "failed", "cancelled"}
      BY <2>4 DEF SelectPending, VoidPending, InsertPayment, CreatePayment,
         BackfillPayload, FailPayment, CancelRefused, CancelUnpaidTx, CancelAsyncTx,
         SubmitRefund, RefundAsyncInsert, Crash, Rollback, FailIfPending,
         CancelPendingPayments
    <3>2. QED
      BY <3>1
  <2>5. QED
    BY <1>1, <2>1, <2>2, <2>3, <2>4 DEF CallStep
<1>2. ASSUME NEW h \in Handlers, CallStart(h) PROVE FALSE
  BY <1>2, CallStartReads
<1>3. ASSUME NEW q \in Payments, PaymentStep(q) PROVE FALSE
  BY <1>3 DEF PaymentStep, PaidNotification, ReconcilePaid, ConfirmOrderPayment,
     ReconcileClosed, CustomerPays, ChannelCloses, RefundFailed, ChannelSettles
<1>4. ASSUME NEW o \in Orders, OrderStep(o) PROVE FALSE
  BY <1>4 DEF OrderStep, ShipOrder, CompleteOrder, AdminPatch
<1>5. CASE UNCHANGED vars
  BY <1>5 DEF vars
<1>6. QED
  BY <1>1, <1>2, <1>3, <1>4, <1>5 DEF Next

\* The three parts carry one another over a step.
LEMMA BackedStep ==
  /\ TypeInv /\ OnePaymentInv /\ CallsBacked /\ RefundsBackedByChannel
  /\ [Next]_vars
  => CallsBacked' /\ RefundsBackedByChannel'
<1> SUFFICES ASSUME TypeInv, OnePaymentInv, CallsBacked, RefundsBackedByChannel,
                    [Next]_vars
             PROVE  RefundsBackedByChannel'
  BY CallsBackedStep
<1>1. ASSUME NEW p \in Payments, NEW n \in RefundNos
      PROVE  /\ refund'[p][n] = "processing" => chRefund'[p][n] # "absent"
             /\ refund'[p][n] \in {"succeeded", "abnormal"} =>
                  chRefund'[p][n] = refund'[p][n]
  <2>1. ChannelMove(p, n)
    BY ChannelMoves
  <2>2. \/ refund'[p][n] = refund[p][n]
        \/ refund'[p][n] = "processing" /\ chRefund[p][n] # "absent"
        \/ refund'[p][n] = chRefund[p][n]
    BY RowMoves
  <2>3. QED
    BY <2>1, <2>2 DEF ChannelMove, RefundsBackedByChannel
<1>2. ASSUME NEW p \in Payments, pay'[p] = "refunded"
      PROVE  \E n \in RefundNos : chRefund'[p][n] = "succeeded"
  <2>1. PICK n \in RefundNos : chRefund[p][n] = "succeeded"
    BY <1>2, RefundedMoves DEF RefundsBackedByChannel
  <2>2. QED
    BY <2>1, ChannelMoves DEF ChannelMove
<1>3. QED
  BY <1>1, <1>2 DEF RefundsBackedByChannel

\* Nothing is in flight and nothing refunded at first.
LEMMA BackedInit == Init => CallsBacked /\ RefundsBackedByChannel
BY DEF Init, CallsBacked, CallBacked, RefundsBackedByChannel, RefundPoints, Idle

\* "Refunded here but not at the channel" cannot happen: whatever handlers
\* interleave, crash or lose an answer, a refund row says what the channel
\* knows and a refunded payment has been refunded by the channel.
THEOREM RefundsBacked == Spec => []RefundsBackedByChannel
BY TypeInvInit, TypeInvStep, OnePaymentInit, OnePaymentStep, BackedInit, BackedStep, PTL
   DEF Spec
-----------------------------------------------------------------------------
(* Numbering the refunds of a payment *)

\* A number is due when every smaller one has been given up at the channel.
Due(p, n) == \A m \in RefundNos : m < n => refund[p][m] = "abnormal"

\* As many numbers given up as lie below n, and all of them next to each
\* other from 1 on: then n is due.
LEMMA PrefixCounted ==
  ASSUME NEW M \in Nat, NEW S \in SUBSET (1..M),
         \A i \in S : \A j \in 1..M : j < i => j \in S
  PROVE  \A m \in 1..M : m < Cardinality(S) + 1 => m \in S
<1> SUFFICES ASSUME NEW m \in 1..M, m < Cardinality(S) + 1, m \notin S PROVE FALSE
  OBVIOUS
<1>1. S \subseteq 1..(m - 1)
  OBVIOUS
<1>2. IsFiniteSet(1..(m - 1)) /\ Cardinality(1..(m - 1)) = m - 1
  <2>1. IF 1 > m - 1 THEN Cardinality(1..(m - 1)) = 0
                     ELSE Cardinality(1..(m - 1)) = (m - 1) - 1 + 1
    BY FS_Interval
  <2>2. IsFiniteSet(1..(m - 1))
    BY FS_Interval
  <2>3. QED
    BY <2>1, <2>2
<1>3. IsFiniteSet(S) /\ Cardinality(S) <= m - 1
  BY <1>1, <1>2, FS_Subset
<1>4. Cardinality(S) \in Nat
  BY <1>3, FS_CardinalityType
<1>5. QED
  BY <1>3, <1>4

\* A row leaves the statuses it waits in and no others.
LEMMA RowLeaves ==
  ASSUME TypeInv, [Next]_vars, NEW p \in Payments, NEW n \in RefundNos,
         refund[p][n] \in {"succeeded", "abnormal"}
  PROVE  refund'[p][n] = refund[p][n]
<1> refund \in [Payments -> [RefundNos -> RefundStatus]]
  BY TypeSplit DEF TypeInv, DataOK
<1>a. UNCHANGED refund => refund'[p][n] = refund[p][n]
  OBVIOUS
<1>b. ASSUME NEW x \in Payments, NEW m \in RefundNos, NEW s,
             refund' = [refund EXCEPT ![x][m] = s], refund[x][m] \in {"absent", "processing"}
      PROVE  refund'[p][n] = refund[p][n]
  BY <1>b
<1> USE DEF refundVars
<1>1. ASSUME NEW h \in Handlers, CallStep(h) PROVE refund'[p][n] = refund[p][n]
  <2> DEFINE c == call[h]
  <2>a. c.at \in RefundPoints => c.payment \in Payments /\ c.refundNo \in RefundNos
    BY DEF TypeInv, RefundNamed
  <2>1. CASE UNCHANGED refund
    BY <2>1
  <2>2. CASE \/ CancelAsyncTx(h) \/ CancelSyncTx(h) \/ RefundAsyncInsert(h)
             \/ RefundSyncTx(h) \/ RefundSettledTx(h)
    <3>1. /\ c.payment \in Payments /\ c.refundNo \in RefundNos
          /\ \/ UNCHANGED refund
             \/ \E s : /\ refund' = [refund EXCEPT ![c.payment][c.refundNo] = s]
                      /\ refund[c.payment][c.refundNo] \in {"absent", "processing"}
      BY <2>2, <2>a DEF CancelAsyncTx, CancelSyncTx, RefundAsyncInsert, RefundSyncTx,
         RefundSettledTx, InsertRefund, Rollback, RefundPoints
    <3>2. QED
      BY <3>1, <1>a, <1>b
  <2>3. QED
    BY <1>1, <2>1, <2>2 DEF CallStep, SelectPending, VoidPending, InsertPayment,
       CreatePayment, BackfillPayload, FailPayment, CancelRefused, CancelUnpaidTx,
       SubmitRefund, Crash, Rollback, CancelAsyncTx, CancelSyncTx, RefundAsyncInsert,
       RefundSyncTx, RefundSettledTx
<1>2. ASSUME NEW h \in Handlers, CallStart(h) PROVE refund'[p][n] = refund[p][n]
  BY <1>2, CallStartReads
<1>3. ASSUME NEW q \in Payments, PaymentStep(q) PROVE refund'[p][n] = refund[p][n]
  <2>1. ASSUME NEW m \in RefundNos, RefundFailed(q, m) PROVE refund'[p][n] = refund[p][n]
    BY <2>1, <1>b DEF RefundFailed
  <2>2. CASE ~\E m \in RefundNos : RefundFailed(q, m)
    BY <1>3, <2>2, <1>a DEF PaymentStep, PaidNotification, ReconcilePaid,
       ConfirmOrderPayment, ReconcileClosed, CustomerPays, ChannelCloses, ChannelSettles
  <2>3. QED
    BY <2>1, <2>2
<1>4. ASSUME NEW o \in Orders, OrderStep(o) PROVE refund'[p][n] = refund[p][n]
  BY <1>4 DEF OrderStep, ShipOrder, CompleteOrder, AdminPatch
<1>5. CASE UNCHANGED vars
  BY <1>5 DEF vars
<1>6. QED
  BY <1>1, <1>2, <1>3, <1>4, <1>5 DEF Next

\* A number that is due stays due.
LEMMA DueStays ==
  ASSUME TypeInv, [Next]_vars, NEW p \in Payments, NEW n \in RefundNos, Due(p, n)
  PROVE  \A m \in RefundNos : m < n => refund'[p][m] = "abnormal"
BY RowLeaves DEF Due

\* The refund a call carries is one it carried before, the next number of a
\* payment that is booked, or one whose row is in flight.
Carries(h) ==
  call'[h].at \in RefundPoints =>
    \/ /\ call[h].at \in RefundPoints
       /\ call'[h].payment = call[h].payment /\ call'[h].refundNo = call[h].refundNo
    \/ \E o \in Orders, p \in Payments, n \in RefundNos :
         /\ call'[h].payment = p /\ call'[h].refundNo = n
         /\ RefundTarget(o, p, n) \/ refund[p][n] = "processing"

LEMMA CallsCarry ==
  ASSUME TypeInv, [Next]_vars
  PROVE  \A h \in Handlers : Carries(h)
<1> CallsOK
  BY TypeSplit DEF TypeInv
<1> DEFINE Goal == \A h \in Handlers : Carries(h)
<1>a. ASSUME NEW h \in Handlers, NEW c, call' = [call EXCEPT ![h] = c],
             \/ c.at \notin RefundPoints
             \/ /\ call[h].at \in RefundPoints
                /\ c.payment = call[h].payment /\ c.refundNo = call[h].refundNo
             \/ \E o \in Orders, p \in Payments, n \in RefundNos :
                  /\ c.payment = p /\ c.refundNo = n
                  /\ RefundTarget(o, p, n) \/ refund[p][n] = "processing"
      PROVE  Goal
  <2>1. call'[h] = c /\ \A g \in Handlers : g # h => call'[g] = call[g]
    BY <1>a DEF CallsOK
  <2>2. Carries(h)
    BY <1>a, <2>1 DEF Carries
  <2>3. QED
    BY <2>1, <2>2 DEF Carries
<1>b. UNCHANGED call => Goal
  BY DEF Carries
<1> HIDE DEF Goal
<1> SUFFICES Goal
  BY DEF Goal
<1>c. ASSUME NEW h \in Handlers, Return(h) PROVE Goal
  BY <1>c, <1>a DEF Return, Idle, RefundPoints
<1>d. ASSUME NEW h \in Handlers, NEW point, NEW o, NEW p, NEW n, NEW s,
             Enter(h, point, o, p, n, s),
             \/ point \notin RefundPoints
             \/ \E oo \in Orders, pp \in Payments, nn \in RefundNos :
                  /\ p = pp /\ n = nn
                  /\ RefundTarget(oo, pp, nn) \/ refund[pp][nn] = "processing"
      PROVE  Goal
  <2> DEFINE c == [at |-> point, order |-> o, payment |-> p, refundNo |-> n, saw |-> s]
  <2>1. call' = [call EXCEPT ![h] = c] /\ c.at = point /\ c.payment = p /\ c.refundNo = n
    BY <1>d DEF Enter
  <2> HIDE DEF c
  <2>2. QED
    BY <1>d, <2>1, <1>a
<1>e. ASSUME NEW h \in Handlers, NEW point, Goto(h, point),
             point \in RefundPoints => call[h].at \in RefundPoints
      PROVE  Goal
  <2> DEFINE c == [call[h] EXCEPT !.at = point]
  <2>1. call' = [call EXCEPT ![h] = c]
    BY <1>e DEF Goto
  <2>2. c.at = point /\ c.payment = call[h].payment /\ c.refundNo = call[h].refundNo
    BY DEF CallsOK, Call
  <2> HIDE DEF c
  <2>3. QED
    BY <1>e, <2>1, <2>2, <1>a
<1>1. ASSUME NEW h \in Handlers, CallStep(h) PROVE Goal
  <2> USE DEF RefundPoints
  <2>1. CASE SelectPending(h)
    BY <2>1, <1>c, <1>d, <1>e DEF SelectPending
  <2>2. CASE VoidPending(h) \/ CreatePayment(h)
    BY <2>2, <1>e DEF VoidPending, CreatePayment
  <2>3. CASE InsertPayment(h)
    BY <2>3, <1>d DEF InsertPayment
  <2>4. CASE \/ BackfillPayload(h) \/ FailPayment(h) \/ CancelRefused(h)
             \/ CancelUnpaidTx(h) \/ CancelAsyncTx(h) \/ CancelSyncTx(h)
             \/ RefundAsyncInsert(h) \/ RefundSyncTx(h) \/ RefundSettledTx(h) \/ Crash(h)
    <3>1. Return(h)
      BY <2>4 DEF BackfillPayload, FailPayment, CancelRefused, CancelUnpaidTx, CancelAsyncTx,
         CancelSyncTx, RefundAsyncInsert, RefundSyncTx, RefundSettledTx, Crash, Rollback
    <3>2. QED
      BY <3>1, <1>c
  <2>5. CASE SubmitRefund(h)
    BY <2>5, <1>c, <1>e DEF SubmitRefund
  <2>6. QED
    BY <1>1, <2>1, <2>2, <2>3, <2>4, <2>5 DEF CallStep
<1>2. ASSUME NEW h \in Handlers, CallStart(h) PROVE Goal
  <2> USE DEF RefundPoints
  <2>1. ASSUME NEW o \in Orders,
               InitiateOrderPayment(h, o) \/ AutoCancelList(h, o) \/ CancelUnpaid(h, o)
        PROVE  Goal
    BY <2>1, <1>d DEF InitiateOrderPayment, AutoCancelList, CancelUnpaid
  <2>2. ASSUME NEW o \in Orders, CancelPaid(h, o) \/ RefundOrder(h, o)
        PROVE  Goal
    <3>1. PICK p \in Payments, n \in RefundNos, point \in Points :
            RefundTarget(o, p, n) /\ Enter(h, point, o, p, n, "pending")
      BY <2>2 DEF CancelPaid, RefundOrder, Points
    <3>2. QED
      BY <3>1, <1>d
  <2>3. ASSUME NEW p \in Payments, NEW n \in RefundNos, RefundSettledRead(h, p, n)
        PROVE  Goal
    <3>1. OwnerOf[p] \in Orders
      BY TradeAssumption
    <3>2. QED
      BY <2>3, <3>1, <1>d DEF RefundSettledRead
  <2>4. QED
    BY <1>2, <2>1, <2>2, <2>3 DEF CallStart
<1>3. ASSUME NEW p \in Payments, PaymentStep(p) PROVE Goal
  BY <1>3, <1>b, PaymentStepData, TypeSplit DEF TypeInv
<1>4. ASSUME NEW o \in Orders, OrderStep(o) PROVE Goal
  BY <1>4, <1>b, OrderStepData, TypeSplit DEF TypeInv
<1>5. CASE UNCHANGED vars
  BY <1>5, <1>b DEF vars
<1>6. QED
  BY <1>1, <1>2, <1>3, <1>4, <1>5 DEF Next

\* A refund reaches the channel only from a call that carries it.
LEMMA SubmittedByCall ==
  ASSUME TypeInv, [Next]_vars, NEW p \in Payments, NEW n \in RefundNos,
         chRefund[p][n] = "absent", chRefund'[p][n] # "absent"
  PROVE  \E h \in Handlers : /\ call[h].at \in {"cancel_submit", "refund_submit"}
                             /\ call[h].payment = p /\ call[h].refundNo = n
<1> chRefund \in [Payments -> [RefundNos -> RefundStatus]]
  BY TypeSplit DEF TypeInv, DataOK
<1> USE DEF channelVars
<1>1. ASSUME NEW h \in Handlers, CallStep(h)
      PROVE  /\ call[h].at \in {"cancel_submit", "refund_submit"}
             /\ call[h].payment = p /\ call[h].refundNo = n
  <2>1. CASE SubmitRefund(h)
    <3> DEFINE cp == call[h].payment  cn == call[h].refundNo
    <3>1. call[h].at \in {"cancel_submit", "refund_submit"}
      BY <2>1 DEF SubmitRefund
    <3>2. PICK s : chRefund' = [chRefund EXCEPT ![cp][cn] = s]
      BY <2>1 DEF SubmitRefund
    <3>3. QED
      BY <3>1, <3>2
  <2>2. CASE ~SubmitRefund(h)
    BY <1>1, <2>2 DEF CallStep, SelectPending, VoidPending, InsertPayment,
       CreatePayment, BackfillPayload, FailPayment, CancelRefused, CancelUnpaidTx,
       CancelAsyncTx, CancelSyncTx, RefundAsyncInsert, RefundSyncTx, RefundSettledTx,
       Crash, Rollback
  <2>3. QED
    BY <2>1, <2>2
<1>2. ASSUME NEW h \in Handlers, CallStart(h) PROVE FALSE
  BY <1>2, CallStartReads
<1>3. ASSUME NEW q \in Payments, PaymentStep(q) PROVE FALSE
  BY <1>3 DEF PaymentStep, PaidNotification, ReconcilePaid, ConfirmOrderPayment,
     ReconcileClosed, CustomerPays, ChannelCloses, RefundFailed, ChannelSettles
<1>4. ASSUME NEW o \in Orders, OrderStep(o) PROVE FALSE
  BY <1>4 DEF OrderStep, ShipOrder, CompleteOrder, AdminPatch
<1>5. CASE UNCHANGED vars
  BY <1>5 DEF vars
<1>6. QED
  BY <1>1, <1>2, <1>3, <1>4, <1>5 DEF Next

-----------------------------------------------------------------------------
(* The money of an order is on its way back once at most *)

\* OneLiveRefundPerOrder alone is not inductive: a call that chose its number
\* long ago may submit it at any time, so every number that is at the channel
\* or carried by a call must be due, and stay due.
NumbersInOrder ==
  /\ \A p \in Payments, n \in RefundNos :
       chRefund[p][n] # "absent" => Collected(p) /\ Due(p, n)
  /\ \A h \in Handlers :
       call[h].at \in RefundPoints => Due(call[h].payment, call[h].refundNo)

RefundInv ==
  /\ OnePaymentInv /\ CallsBacked /\ RefundsBackedByChannel
  /\ NumbersInOrder

\* The number nextRefundNo picks is due.
LEMMA NextIsDue ==
  ASSUME TypeInv, RefundInv, NEW o \in Orders, NEW p \in Payments, NEW n \in RefundNos,
         RefundTarget(o, p, n)
  PROVE  Due(p, n)
<1> DEFINE S == {m \in RefundNos : refund[p][m] = "abnormal"}
<1>1. DOMAIN refund[p] = RefundNos
  BY TypeSplit DEF TypeInv, DataOK
<1>2. n = Cardinality(S) + 1
  BY <1>1 DEF RefundTarget, NextRefundNo
<1>3. MaxRefunds \in Nat /\ S \in SUBSET (1..MaxRefunds)
  BY TradeAssumption DEF RefundNos
<1>4. \A i \in S : \A j \in 1..MaxRefunds : j < i => j \in S
  BY DEF RefundInv, RefundsBackedByChannel, NumbersInOrder, Due, RefundNos
<1> HIDE DEF S
<1>5. \A m \in 1..MaxRefunds : m < Cardinality(S) + 1 => m \in S
  BY <1>3, <1>4, PrefixCounted
<1>6. QED
  BY <1>2, <1>5 DEF S, Due, RefundNos

\* Every number that is submitted or chosen is due.
LEMMA RefundInvStep == TypeInv /\ RefundInv /\ [Next]_vars => RefundInv'
<1> SUFFICES ASSUME TypeInv, RefundInv, [Next]_vars PROVE NumbersInOrder'
  BY OnePaymentStep, BackedStep DEF RefundInv
<1>1. ASSUME NEW p \in Payments, NEW n \in RefundNos, chRefund'[p][n] # "absent"
      PROVE  Collected(p)' /\ Due(p, n)'
  <2>1. Collected(p) /\ Due(p, n)
    <3>1. CASE chRefund[p][n] # "absent"
      BY <3>1 DEF RefundInv, NumbersInOrder
    <3>2. CASE chRefund[p][n] = "absent"
      <4>1. PICK h \in Handlers : /\ call[h].at \in {"cancel_submit", "refund_submit"}
                                  /\ call[h].payment = p /\ call[h].refundNo = n
        BY <1>1, <3>2, SubmittedByCall
      <4>2. QED
        BY <4>1 DEF RefundInv, NumbersInOrder, CallsBacked, CallBacked, RefundPoints
    <3>3. QED
      BY <3>1, <3>2
  <2>2. Due(p, n)'
    BY <2>1, DueStays DEF Due
  <2>3. QED
    BY <2>1, <2>2, CollectedStays
<1>2. ASSUME NEW h \in Handlers, call'[h].at \in RefundPoints
      PROVE  Due(call[h].payment, call[h].refundNo)'
  <2>1. PICK p \in Payments, n \in RefundNos :
          call'[h].payment = p /\ call'[h].refundNo = n /\ Due(p, n)
    <3>1. CASE /\ call[h].at \in RefundPoints
               /\ call'[h].payment = call[h].payment /\ call'[h].refundNo = call[h].refundNo
      BY <3>1 DEF RefundInv, NumbersInOrder, TypeInv, RefundNamed
    <3>2. CASE \E o \in Orders, p \in Payments, n \in RefundNos :
                 /\ call'[h].payment = p /\ call'[h].refundNo = n
                 /\ RefundTarget(o, p, n) \/ refund[p][n] = "processing"
      <4>1. PICK o \in Orders, p \in Payments, n \in RefundNos :
                 /\ call'[h].payment = p /\ call'[h].refundNo = n
                 /\ RefundTarget(o, p, n) \/ refund[p][n] = "processing"
        BY <3>2
      <4>2. Due(p, n)
        BY <4>1, NextIsDue DEF RefundInv, RefundsBackedByChannel, NumbersInOrder
      <4>3. QED
        BY <4>1, <4>2
    <3>3. QED
      BY <1>2, <3>1, <3>2, CallsCarry DEF Carries
  <2>2. QED
    BY <2>1, DueStays DEF Due
<1>3. QED
  BY <1>1, <1>2 DEF NumbersInOrder

\* No refund is numbered at first.
LEMMA RefundInvInit == Init => RefundInv
BY OnePaymentInit, BackedInit DEF RefundInv, Init, NumbersInOrder, Idle, RefundPoints

\* Rows given up aside, a payment has one refund.
LEMMA OneRow ==
  ASSUME RefundInv, NEW p \in Payments, NEW m \in RefundNos, NEW n \in RefundNos,
         chRefund[p][m] # "absent", chRefund[p][n] # "absent",
         refund[p][m] # "abnormal", refund[p][n] # "abnormal"
  PROVE  m = n
BY DEF RefundInv, NumbersInOrder, Due, RefundNos

\* Whoever cancels, refunds, retries and loses the answer at the same time,
\* the channel is asked to return the money of an order once at most, unless
\* it gave up the earlier attempt.
THEOREM OneLiveRefund == Spec => []OneLiveRefundPerOrder
<1>1. RefundInv => OneLiveRefundPerOrder
  <2> SUFFICES ASSUME RefundInv, NEW p \in Payments, NEW q \in Payments,
                      NEW m \in RefundNos, NEW n \in RefundNos,
                      OwnerOf[p] = OwnerOf[q], LiveAtChannel(p, m), LiveAtChannel(q, n)
               PROVE  p = q /\ m = n
    BY DEF OneLiveRefundPerOrder
  <2>1. p = q
    BY DEF RefundInv, NumbersInOrder, LiveAtChannel, OnePaymentInv, OnePaymentPerOrder
  <2>2. refund[p][m] # "abnormal" /\ refund[q][n] # "abnormal"
    BY DEF RefundInv, RefundsBackedByChannel, LiveAtChannel
  <2>3. QED
    BY <2>1, <2>2, OneRow DEF LiveAtChannel
<1>2. QED
  BY <1>1, TypeInvInit, TypeInvStep, RefundInvInit, RefundInvStep, PTL DEF Spec

-----------------------------------------------------------------------------
(* A settled refund is booked *)

\* SettledRefundIsBooked alone is not inductive: the notification leaves early
\* when the payment is not succeeded, so a refund in flight must have it so.
BookedInv ==
  /\ SettledRefundIsBooked
  /\ \A p \in Payments, n \in RefundNos :
       refund[p][n] = "processing" => pay[p] = "succeeded"

\* A refund the channel took and no row settled yet leaves its payment booked.
LEMMA UnsettledIsBooked ==
  ASSUME RefundInv, BookedInv, NEW p \in Payments, NEW n \in RefundNos,
         chRefund[p][n] # "absent", refund[p][n] \in {"absent", "processing"}
  PROVE  pay[p] = "succeeded"
<1>1. Collected(p)
  BY DEF RefundInv, NumbersInOrder
<1>2. CASE pay[p] = "refunded"
  <2>1. PICK m \in RefundNos : refund[p][m] = "succeeded"
    BY <1>2 DEF BookedInv, SettledRefundIsBooked
  <2>2. m = n
    BY <2>1, OneRow DEF RefundInv, RefundsBackedByChannel
  <2>3. QED
    BY <2>1, <2>2
<1>3. QED
  BY <1>1, <1>2 DEF Collected

\* The only handlers that touch refunds book what they settle.
LEMMA BookedStep == TypeInv /\ RefundInv /\ BookedInv /\ [Next]_vars => BookedInv'
<1> SUFFICES ASSUME TypeInv, RefundInv, BookedInv, [Next]_vars PROVE BookedInv'
  OBVIOUS
<1> /\ pay \in [Payments -> PaymentStatus]
    /\ refund \in [Payments -> [RefundNos -> RefundStatus]]
    /\ refundEvents \in [Payments -> [RefundNos -> Nat]]
  BY TypeSplit DEF TypeInv, DataOK
<1>a. ASSUME NEW p \in Payments, NEW n \in RefundNos, chRefund[p][n] # "absent",
             refund[p][n] \in {"absent", "processing"},
             refund' = [refund EXCEPT ![p][n] = "succeeded"],
             refundEvents' = [refundEvents EXCEPT ![p][n] = @ + 1],
             pay' = [pay EXCEPT ![p] = "refunded"]
      PROVE  BookedInv'
  <2>1. pay[p] = "succeeded"
    BY <1>a, UnsettledIsBooked
  <2>2. \A m \in RefundNos : m # n => refund[p][m] \notin {"processing", "succeeded"}
    BY <1>a, <2>1, OneRow DEF BookedInv, SettledRefundIsBooked, RefundInv,
       RefundsBackedByChannel
  <2>3. refundEvents[p][n] = 0
    BY <1>a DEF BookedInv, SettledRefundIsBooked
  <2>4. SettledRefundIsBooked'
    BY <1>a, <2>3 DEF BookedInv, SettledRefundIsBooked
  <2>5. QED
    BY <1>a, <2>2, <2>4 DEF BookedInv
<1>b. ASSUME NEW p \in Payments, NEW n \in RefundNos, chRefund[p][n] # "absent",
             refund[p][n] = "absent", UNCHANGED <<pay, refundEvents>>,
             refund' = [refund EXCEPT ![p][n] = "processing"]
      PROVE  BookedInv'
  <2>1. pay[p] = "succeeded"
    BY <1>b, UnsettledIsBooked
  <2>2. QED
    BY <1>b, <2>1 DEF BookedInv, SettledRefundIsBooked
<1>c. ASSUME UNCHANGED <<refund, refundEvents>>,
             \A p \in Payments : /\ pay[p] = "succeeded" => pay'[p] = "succeeded"
                                 /\ pay'[p] = "refunded" <=> pay[p] = "refunded"
      PROVE  BookedInv'
  BY <1>c DEF BookedInv, SettledRefundIsBooked
<1>d. ASSUME NEW x, FailIfPending(x)
      PROVE  \A p \in Payments : /\ pay[p] = "succeeded" => pay'[p] = "succeeded"
                                 /\ pay'[p] = "refunded" <=> pay[p] = "refunded"
  BY <1>d DEF FailIfPending
<1> USE DEF refundVars, payVars
<1>1. ASSUME NEW h \in Handlers, CallStep(h) PROVE BookedInv'
  <2> DEFINE c == call[h]
  <2>a. c.at \in RefundPoints =>
          /\ c.payment \in Payments /\ c.refundNo \in RefundNos
          /\ OwnerOf[c.payment] = c.order
    BY DEF TypeInv, RefundNamed
  <2>b. CallBacked(c)
    BY DEF RefundInv, CallsBacked
  <2>c. ASSUME c.at \in {"cancel_sync", "refund_sync"}, refund[c.payment][c.refundNo] = "absent"
        PROVE  /\ chRefund[c.payment][c.refundNo] # "absent"
               /\ pay[c.payment] = "succeeded"
               /\ PaymentsOf(c.order, "succeeded") = {c.payment}
    <3>1. chRefund[c.payment][c.refundNo] # "absent"
      BY <2>b, <2>c DEF CallBacked
    <3>2. pay[c.payment] = "succeeded"
      BY <2>a, <2>c, <3>1, UnsettledIsBooked DEF RefundPoints
    <3>3. QED
      BY <2>a, <2>c, <3>1, <3>2 DEF RefundPoints, PaymentsOf, RefundInv, OnePaymentInv,
         OnePaymentPerOrder, Collected
  <2>1. CASE Rollback(h) \/ SelectPending(h) \/ CreatePayment(h) \/ BackfillPayload(h)
               \/ CancelRefused(h) \/ SubmitRefund(h) \/ Crash(h)
    BY <2>1, <1>c DEF Rollback, SelectPending, CreatePayment, BackfillPayload,
       CancelRefused, SubmitRefund, Crash
  <2>2. CASE VoidPending(h) \/ FailPayment(h)
    BY <2>2, <1>c, <1>d DEF VoidPending, FailPayment
  <2>3. CASE InsertPayment(h)
    BY <2>3, <1>c DEF InsertPayment, IsFirst, PaymentsOf
  <2>4. CASE CancelUnpaidTx(h) /\ ~Rollback(h)
    BY <2>4, <1>c DEF CancelUnpaidTx, CancelPendingPayments, PaymentsOf
  <2>5. CASE (CancelAsyncTx(h) \/ RefundAsyncInsert(h)) /\ ~Rollback(h)
    BY <2>5, <2>a, <2>b, <1>b DEF CancelAsyncTx, RefundAsyncInsert, InsertRefund,
       CallBacked, RefundPoints
  <2>6. CASE CancelSyncTx(h) /\ ~Rollback(h)
    <3>1. /\ c.at = "cancel_sync" /\ refund[c.payment][c.refundNo] = "absent"
          /\ refund' = [refund EXCEPT ![c.payment][c.refundNo] = "succeeded"]
          /\ refundEvents' = [refundEvents EXCEPT ![c.payment][c.refundNo] = @ + 1]
          /\ pay' = [p \in Payments |-> IF p \in PaymentsOf(c.order, "succeeded")
                                        THEN "refunded" ELSE pay[p]]
      BY <2>6 DEF CancelSyncTx, InsertRefund
    <3>2. pay' = [pay EXCEPT ![c.payment] = "refunded"]
      BY <2>c, <3>1
    <3>3. QED
      BY <2>a, <2>c, <3>1, <3>2, <1>a DEF RefundPoints
  <2>7. CASE RefundSyncTx(h) /\ ~Rollback(h)
    <3>1. /\ c.at = "refund_sync" /\ refund[c.payment][c.refundNo] = "absent"
          /\ refund' = [refund EXCEPT ![c.payment][c.refundNo] = "succeeded"]
          /\ refundEvents' = [refundEvents EXCEPT ![c.payment][c.refundNo] = @ + 1]
          /\ RefundFirstSucceeded(c.order)
      BY <2>7 DEF RefundSyncTx, InsertRefund
    <3>2. pay' = [pay EXCEPT ![c.payment] = "refunded"]
      BY <2>c, <3>1 DEF IsFirst
    <3>3. QED
      BY <2>a, <2>c, <3>1, <3>2, <1>a DEF RefundPoints
  <2>8. CASE RefundSettledTx(h) /\ ~Rollback(h)
    <3>1. c.at = "notify_commit" /\ refund[c.payment][c.refundNo] = "processing"
      BY <2>8 DEF RefundSettledTx
    <3>2. c.payment \in Payments /\ c.refundNo \in RefundNos
      BY <3>1, <2>a DEF RefundPoints
    <3>3. pay[c.payment] = "succeeded"
      BY <3>1, <3>2 DEF BookedInv
    <3>4. chRefund[c.payment][c.refundNo] # "absent"
      BY <3>1, <2>b DEF CallBacked
    <3>5. /\ refund' = [refund EXCEPT ![c.payment][c.refundNo] = "succeeded"]
          /\ refundEvents' = [refundEvents EXCEPT ![c.payment][c.refundNo] = @ + 1]
          /\ pay' = [pay EXCEPT ![c.payment] = "refunded"]
      BY <2>8, <3>3 DEF RefundSettledTx
    <3>6. QED
      BY <3>1, <3>2, <3>4, <3>5, <1>a
  <2>9. QED
    BY <1>1, <2>1, <2>2, <2>3, <2>4, <2>5, <2>6, <2>7, <2>8 DEF CallStep
<1>2. ASSUME NEW h \in Handlers, CallStart(h) PROVE BookedInv'
  BY <1>2, <1>c, CallStartReads
<1>3. ASSUME NEW p \in Payments, PaymentStep(p) PROVE BookedInv'
  <2>1. ASSUME NEW n \in RefundNos, RefundFailed(p, n) PROVE BookedInv'
    BY <2>1 DEF RefundFailed, BookedInv, SettledRefundIsBooked
  <2>2. CASE ConfirmOrderPayment(p)
    BY <2>2, <1>c DEF ConfirmOrderPayment, PAYMENT_TRANSITIONS
  <2>3. CASE ReconcileClosed(p)
    BY <2>3, <1>c DEF ReconcileClosed
  <2>4. CASE CustomerPays(p) \/ ChannelCloses(p) \/ \E n \in RefundNos : ChannelSettles(p, n)
    BY <2>4, <1>c DEF CustomerPays, ChannelCloses, ChannelSettles
  <2>5. QED
    BY <1>3, <2>1, <2>2, <2>3, <2>4 DEF PaymentStep, PaidNotification, ReconcilePaid
<1>4. ASSUME NEW o \in Orders, OrderStep(o) PROVE BookedInv'
  BY <1>4, <1>c DEF OrderStep, ShipOrder, CompleteOrder, AdminPatch
<1>5. CASE UNCHANGED vars
  BY <1>5, <1>c DEF vars
<1>6. QED
  BY <1>1, <1>2, <1>3, <1>4, <1>5 DEF Next

\* No refund is booked at first.
LEMMA BookedInit == Init => BookedInv
BY DEF Init, BookedInv, SettledRefundIsBooked

\* The early commits of confirmRefundByWebhookEvent strand no refund: a
\* settled refund has moved its payment and written its event exactly once,
\* and a refunded payment has a settled refund.
THEOREM SettledBooked == Spec => []SettledRefundIsBooked
<1>1. BookedInv => SettledRefundIsBooked
  BY DEF BookedInv
<1>2. QED
  BY <1>1, TypeInvInit, TypeInvStep, RefundInvInit, RefundInvStep, BookedInit, BookedStep,
     PTL DEF Spec

-----------------------------------------------------------------------------
(* The order says what became of its money *)

\* A notification about to commit acts on the order as it read it.
SawOrder(h) ==
  call'[h].at = "notify_commit" =>
    \/ call'[h] = call[h]
    \/ \E p \in Payments, n \in RefundNos :
         /\ refund[p][n] = "processing" /\ call'[h].order = OwnerOf[p]
         /\ call'[h].saw = order[OwnerOf[p]] /\ UNCHANGED order

LEMMA CallsSaw ==
  ASSUME TypeInv, [Next]_vars
  PROVE  \A h \in Handlers : SawOrder(h)
<1> CallsOK
  BY TypeSplit DEF TypeInv
<1> DEFINE Goal == \A h \in Handlers : SawOrder(h)
<1>a. ASSUME NEW h \in Handlers, NEW c, call' = [call EXCEPT ![h] = c],
             c.at # "notify_commit"
      PROVE  Goal
  BY <1>a DEF CallsOK, SawOrder
<1>b. UNCHANGED call => Goal
  BY DEF SawOrder
<1> HIDE DEF Goal
<1> SUFFICES Goal
  BY DEF Goal
<1>c. ASSUME NEW h \in Handlers, Return(h) PROVE Goal
  <2>1. Idle.at # "notify_commit"
    BY DEF Idle
  <2>2. QED
    BY <1>c, <2>1, <1>a DEF Return
<1>d. ASSUME NEW h \in Handlers, NEW point, NEW o, NEW p, NEW n, NEW s,
             Enter(h, point, o, p, n, s), point # "notify_commit"
      PROVE  Goal
  <2> DEFINE c == [at |-> point, order |-> o, payment |-> p, refundNo |-> n, saw |-> s]
  <2>1. call' = [call EXCEPT ![h] = c] /\ c.at = point
    BY <1>d DEF Enter
  <2> HIDE DEF c
  <2>2. QED
    BY <1>d, <2>1, <1>a
<1>e. ASSUME NEW h \in Handlers, NEW point, Goto(h, point), point # "notify_commit"
      PROVE  Goal
  <2> DEFINE c == [call[h] EXCEPT !.at = point]
  <2>1. call' = [call EXCEPT ![h] = c]
    BY <1>e DEF Goto
  <2>2. c.at = point
    BY DEF CallsOK, Call
  <2> HIDE DEF c
  <2>3. QED
    BY <1>e, <2>1, <2>2, <1>a
<1>1. ASSUME NEW h \in Handlers, CallStep(h) PROVE Goal
  <2>1. CASE SelectPending(h)
    BY <2>1, <1>c, <1>d, <1>e DEF SelectPending
  <2>2. CASE VoidPending(h) \/ CreatePayment(h)
    BY <2>2, <1>e DEF VoidPending, CreatePayment
  <2>3. CASE InsertPayment(h)
    BY <2>3, <1>d DEF InsertPayment
  <2>4. CASE \/ BackfillPayload(h) \/ FailPayment(h) \/ CancelRefused(h)
             \/ CancelUnpaidTx(h) \/ CancelAsyncTx(h) \/ CancelSyncTx(h)
             \/ RefundAsyncInsert(h) \/ RefundSyncTx(h) \/ RefundSettledTx(h) \/ Crash(h)
    <3>1. Return(h)
      BY <2>4 DEF BackfillPayload, FailPayment, CancelRefused, CancelUnpaidTx, CancelAsyncTx,
         CancelSyncTx, RefundAsyncInsert, RefundSyncTx, RefundSettledTx, Crash, Rollback
    <3>2. QED
      BY <3>1, <1>c
  <2>5. CASE SubmitRefund(h)
    BY <2>5, <1>c, <1>e DEF SubmitRefund
  <2>6. QED
    BY <1>1, <2>1, <2>2, <2>3, <2>4, <2>5 DEF CallStep
<1>2. ASSUME NEW h \in Handlers, CallStart(h) PROVE Goal
  <2>1. ASSUME NEW o \in Orders,
               \/ InitiateOrderPayment(h, o) \/ AutoCancelList(h, o) \/ CancelUnpaid(h, o)
               \/ CancelPaid(h, o) \/ RefundOrder(h, o)
        PROVE  Goal
    BY <2>1, <1>d DEF InitiateOrderPayment, AutoCancelList, CancelUnpaid, CancelPaid,
       RefundOrder
  <2>2. ASSUME NEW p \in Payments, NEW n \in RefundNos, RefundSettledRead(h, p, n)
        PROVE  Goal
    <3>1. /\ Enter(h, "notify_commit", OwnerOf[p], p, n, order[OwnerOf[p]])
          /\ refund[p][n] = "processing" /\ UNCHANGED order
      BY <2>2 DEF RefundSettledRead, orderVars
    <3>2. /\ call'[h].order = OwnerOf[p] /\ call'[h].saw = order[OwnerOf[p]]
          /\ \A g \in Handlers : g # h => call'[g] = call[g]
      BY <3>1 DEF Enter, CallsOK
    <3>3. QED
      BY <3>1, <3>2 DEF Goal, SawOrder
  <2>3. QED
    BY <1>2, <2>1, <2>2 DEF CallStart
<1>3. ASSUME NEW p \in Payments, PaymentStep(p) PROVE Goal
  BY <1>3, <1>b, PaymentStepData, TypeSplit DEF TypeInv
<1>4. ASSUME NEW o \in Orders, OrderStep(o) PROVE Goal
  BY <1>4, <1>b, OrderStepData, TypeSplit DEF TypeInv
<1>5. CASE UNCHANGED vars
  BY <1>5, <1>b DEF vars
<1>6. QED
  BY <1>1, <1>2, <1>3, <1>4, <1>5 DEF Next

\* StatusMatchesMoney alone is not inductive: the notification flips the order
\* only if it still is as it was read, and an order read as anything but paid
\* must not be paid by then.
SawInv ==
  \A h \in Handlers : call[h].at = "notify_commit" =>
    /\ call[h].saw # "pending"
    /\ order[call[h].order] = "paid" => call[h].saw = "paid"

\* What a step does to the statuses of an order and its money at once.
LEMMA StatusEffects ==
  ASSUME ~AdminOverride, TypeInv, RefundInv, BookedInv, SawInv, [Next]_vars
  PROVE  /\ \A o \in Orders : order[o] # "paid" /\ order'[o] = "paid" =>
              \E p \in Payments : OwnerOf[p] = o /\ ConfirmOrderPayment(p)
         /\ \A o \in Orders : order[o] # "refunded" /\ order'[o] = "refunded" =>
              \E p \in Payments : OwnerOf[p] = o /\ pay'[p] = "refunded"
         /\ \A p \in Payments : pay[p] = "succeeded" /\ pay'[p] = "refunded" =>
              order'[OwnerOf[p]] # "paid"
         /\ \/ UNCHANGED paidEvents
            \/ \E p \in Payments : ConfirmOrderPayment(p)
<1> /\ pay \in [Payments -> PaymentStatus] /\ order \in [Orders -> OrderStatus]
  BY TypeSplit DEF TypeInv, DataOK
<1> OwnerOf \in [Payments -> Orders]
  BY TradeAssumption
<1> DEFINE Goal ==
      /\ \A o \in Orders : order[o] # "paid" /\ order'[o] = "paid" =>
           \E p \in Payments : OwnerOf[p] = o /\ ConfirmOrderPayment(p)
      /\ \A o \in Orders : order[o] # "refunded" /\ order'[o] = "refunded" =>
           \E p \in Payments : OwnerOf[p] = o /\ pay'[p] = "refunded"
      /\ \A p \in Payments : pay[p] = "succeeded" /\ pay'[p] = "refunded" =>
           order'[OwnerOf[p]] # "paid"
      /\ \/ UNCHANGED paidEvents
         \/ \E p \in Payments : ConfirmOrderPayment(p)
<1>a. ASSUME UNCHANGED paidEvents,
             \/ UNCHANGED order
             \/ \E o, s : order' = [order EXCEPT ![o] = s] /\ s \notin {"paid", "refunded"},
             \A p \in Payments : pay[p] = "succeeded" => pay'[p] = "succeeded"
      PROVE  Goal
  BY <1>a
<1>b. ASSUME UNCHANGED paidEvents, NEW o, NEW s,
             s = "cancelled" \/ s = "refunded",
             order' = [order EXCEPT ![o] = s],
             \A p \in Payments : pay[p] = "succeeded" /\ pay'[p] # "succeeded" => OwnerOf[p] = o,
             s = "refunded" => \E p \in Payments : OwnerOf[p] = o /\ pay'[p] = "refunded"
      PROVE  Goal
  BY <1>b
<1>c. ASSUME NEW x, FailIfPending(x), UNCHANGED order PROVE Goal
  BY <1>c, <1>a DEF FailIfPending
<1> HIDE DEF Goal
<1> SUFFICES Goal
  BY DEF Goal
<1> USE DEF orderVars, payVars
<1>1. ASSUME NEW h \in Handlers, CallStep(h) PROVE Goal
  <2> DEFINE c == call[h]
  <2>a. c.at \in RefundPoints =>
          /\ c.payment \in Payments /\ c.refundNo \in RefundNos
          /\ OwnerOf[c.payment] = c.order
    BY DEF TypeInv, RefundNamed
  <2>1. CASE Rollback(h) \/ SelectPending(h) \/ CreatePayment(h) \/ BackfillPayload(h)
               \/ CancelRefused(h) \/ SubmitRefund(h) \/ Crash(h) \/ RefundAsyncInsert(h)
    BY <2>1, <1>a DEF Rollback, SelectPending, CreatePayment, BackfillPayload,
       CancelRefused, SubmitRefund, Crash, RefundAsyncInsert
  <2>2. CASE VoidPending(h) \/ FailPayment(h)
    BY <2>2, <1>c DEF VoidPending, FailPayment
  <2>3. CASE InsertPayment(h)
    BY <2>3, <1>a DEF InsertPayment, IsFirst, PaymentsOf
  <2>4. CASE CancelUnpaidTx(h) /\ ~Rollback(h)
    BY <2>4, <1>a DEF CancelUnpaidTx, CancelPendingPayments, CancelWrite, PaymentsOf
  <2>5. CASE CancelAsyncTx(h) /\ ~Rollback(h)
    BY <2>5, <1>a DEF CancelAsyncTx, CancelWrite
  <2>6. CASE CancelSyncTx(h) /\ ~Rollback(h)
    BY <2>6, <1>b DEF CancelSyncTx, CancelWrite, PaymentsOf
  <2>7. CASE RefundSyncTx(h) /\ ~Rollback(h)
    <3>1. PICK p \in Payments :
            /\ OwnerOf[p] = c.order /\ pay' = [pay EXCEPT ![p] = "refunded"]
            /\ order' = [order EXCEPT ![c.order] = "refunded"] /\ UNCHANGED paidEvents
      BY <2>7 DEF RefundSyncTx, IsFirst, PaymentsOf
    <3>2. QED
      BY <3>1, <1>b
  <2>8. CASE RefundSettledTx(h) /\ ~Rollback(h)
    <3>1. c.at = "notify_commit" /\ UNCHANGED paidEvents
      BY <2>8 DEF RefundSettledTx
    <3>2. /\ c.payment \in Payments /\ OwnerOf[c.payment] = c.order
          /\ c.order \in Orders
      BY <3>1, <2>a DEF RefundPoints
    <3>3. /\ pay' = [pay EXCEPT ![c.payment] = "refunded"]
          /\ MarkOrderRefunded(c.order, c.saw)
      BY <2>8, <3>1, <2>a DEF RefundSettledTx, BookedInv, RefundPoints
    <3>4. order[c.order] = "paid" => c.saw = "paid"
      BY <3>1 DEF SawInv
    <3>5. CASE order' = [order EXCEPT ![c.order] = "refunded"]
      BY <3>1, <3>2, <3>3, <3>5, <1>b
    <3>6. CASE UNCHANGED order /\ order[c.order] # "paid"
      BY <3>1, <3>2, <3>3, <3>6 DEF Goal
    <3>7. QED
      BY <3>3, <3>4, <3>5, <3>6 DEF MarkOrderRefunded, Refundable
  <2>9. QED
    BY <1>1, <2>1, <2>2, <2>3, <2>4, <2>5, <2>6, <2>7, <2>8 DEF CallStep
<1>2. ASSUME NEW h \in Handlers, CallStart(h) PROVE Goal
  BY <1>2, <1>a, CallStartReads
<1>3. ASSUME NEW p \in Payments, PaymentStep(p) PROVE Goal
  <2>1. CASE ConfirmOrderPayment(p)
    <3>1. /\ order' = [order EXCEPT ![OwnerOf[p]] = "paid"]
          /\ pay' = [pay EXCEPT ![p] = "succeeded"]
      BY <2>1 DEF ConfirmOrderPayment
    <3>2. QED
      BY <2>1, <3>1 DEF Goal
  <2>2. CASE ReconcileClosed(p)
    BY <2>2, <1>a DEF ReconcileClosed
  <2>3. CASE \/ CustomerPays(p) \/ ChannelCloses(p)
             \/ \E n \in RefundNos : ChannelSettles(p, n) \/ RefundFailed(p, n)
    BY <2>3, <1>a DEF CustomerPays, ChannelCloses, ChannelSettles, RefundFailed
  <2>4. QED
    BY <1>3, <2>1, <2>2, <2>3 DEF PaymentStep, PaidNotification, ReconcilePaid
<1>4. ASSUME NEW o \in Orders, OrderStep(o) PROVE Goal
  BY <1>4, <1>a DEF OrderStep, ShipOrder, CompleteOrder, AdminPatch
<1>5. CASE UNCHANGED vars
  BY <1>5, <1>a DEF vars
<1>6. QED
  BY <1>1, <1>2, <1>3, <1>4, <1>5 DEF Next

StatusInv == StatusMatchesMoney /\ SawInv

\* The statuses of orders and payments move together.
LEMMA StatusStep ==
  ASSUME ~AdminOverride
  PROVE  TypeInv /\ RefundInv /\ BookedInv /\ StatusInv /\ [Next]_vars => StatusInv'
<1> SUFFICES ASSUME TypeInv, RefundInv, BookedInv, StatusInv, [Next]_vars PROVE StatusInv'
  OBVIOUS
<1> /\ pay \in [Payments -> PaymentStatus] /\ order \in [Orders -> OrderStatus]
    /\ paidEvents \in [Payments -> Nat] /\ OwnerOf \in [Payments -> Orders]
  BY TypeSplit, TradeAssumption DEF TypeInv, DataOK
<1> SawInv /\ OnePaymentInv'
  BY OnePaymentStep DEF StatusInv, RefundInv
<1>a. \A p \in Payments : Collected(p) => Collected(p)'
  BY CollectedStays
<1>b. \A p \in Payments : Collected(p)' => Collected(p) \/ ConfirmOrderPayment(p)
  BY PayMoves DEF PayMove, Collected, PAYMENT_TRANSITIONS
<1>c. \A o \in Orders : OrderMove(o)
  BY OrderMoves
<1>d. ASSUME NEW p \in Payments, ConfirmOrderPayment(p)
      PROVE  /\ ~Collected(p) /\ pay' = [pay EXCEPT ![p] = "succeeded"]
             /\ paidEvents' = [paidEvents EXCEPT ![p] = @ + 1]
  BY <1>d DEF ConfirmOrderPayment, Collected, PAYMENT_TRANSITIONS
<1>1. ASSUME NEW o \in Orders, order'[o] = "pending", NEW p \in Payments, OwnerOf[p] = o
      PROVE  ~Collected(p)'
  BY <1>1 DEF OnePaymentInv, BookedNotPending, Collected
<1>2. ASSUME NEW o \in Orders, order'[o] = "paid"
      PROVE  \E p \in Payments : OwnerOf[p] = o /\ pay'[p] = "succeeded"
  <2>1. CASE order[o] = "paid"
    <3>1. PICK p \in Payments : OwnerOf[p] = o /\ pay[p] = "succeeded"
      BY <2>1 DEF StatusInv, StatusMatchesMoney, PaymentsOf
    <3>2. pay'[p] = "succeeded" \/ pay'[p] = "refunded"
      BY <3>1, <1>a DEF Collected
    <3>3. QED
      BY <1>2, <3>1, <3>2, StatusEffects
  <2>2. CASE order[o] # "paid"
    BY <1>2, <2>2, <1>d, StatusEffects
  <2>3. QED
    BY <2>1, <2>2
<1>3. ASSUME NEW o \in Orders, order'[o] = "refunded"
      PROVE  \E p \in Payments : OwnerOf[p] = o /\ pay'[p] = "refunded"
  <2>1. CASE order[o] = "refunded"
    <3>1. PICK p \in Payments : OwnerOf[p] = o /\ pay[p] = "refunded"
      BY <2>1 DEF StatusInv, StatusMatchesMoney, PaymentsOf
    <3>2. pay'[p] = "refunded"
      BY <3>1, PayMoves DEF PayMove, PAYMENT_TRANSITIONS
    <3>3. QED
      BY <3>1, <3>2
  <2>2. CASE order[o] # "refunded"
    BY <1>3, <2>2, StatusEffects
  <2>3. QED
    BY <2>1, <2>2
<1>4. ASSUME NEW o \in Orders, order'[o] \in {"shipped", "completed"}
      PROVE  \E p \in Payments : OwnerOf[p] = o /\ Collected(p)'
  <2>1. order[o] \in {"paid", "shipped", "completed"}
    BY <1>4, <1>c DEF OrderMove, CanUpdate, ORDER_TRANSITIONS
  <2>2. PICK p \in Payments : OwnerOf[p] = o /\ Collected(p)
    BY <2>1 DEF StatusInv, StatusMatchesMoney, PaymentsOf, Collected
  <2>3. QED
    BY <2>2, <1>a
<1>5. ASSUME NEW p \in Payments, Orders # {}
      PROVE  paidEvents'[p] = IF Collected(p)' THEN 1 ELSE 0
  <2>1. paidEvents[p] = IF Collected(p) THEN 1 ELSE 0
    BY <1>5 DEF StatusInv, StatusMatchesMoney
  <2>2. CASE ConfirmOrderPayment(p)
    BY <2>1, <2>2, <1>d DEF Collected
  <2>3. CASE ~ConfirmOrderPayment(p)
    <3>1. paidEvents'[p] = paidEvents[p]
      BY <2>3, <1>d, StatusEffects
    <3>2. QED
      BY <2>1, <2>3, <3>1, <1>a, <1>b DEF Collected
  <2>4. QED
    BY <2>2, <2>3
<1>6. StatusMatchesMoney'
  BY <1>1, <1>2, <1>3, <1>4, <1>5 DEF StatusMatchesMoney, PaymentsOf, Collected
<1>7. ASSUME NEW h \in Handlers, call'[h].at = "notify_commit"
      PROVE  /\ call'[h].saw # "pending"
             /\ order'[call'[h].order] = "paid" => call'[h].saw = "paid"
  <2>1. CASE call'[h] = call[h]
    <3>1. call[h].order \in Orders /\ order[call[h].order] # "pending"
      BY <1>7, <2>1 DEF TypeInv, RefundNamed, RefundPoints, RefundInv, CallsBacked,
         CallBacked, NumbersInOrder, OnePaymentInv, BookedNotPending
    <3>2. QED
      BY <1>7, <2>1, <3>1, <1>c DEF SawInv, OrderMove, CanUpdate, ORDER_TRANSITIONS
  <2>2. CASE \E p \in Payments, n \in RefundNos :
               /\ refund[p][n] = "processing" /\ call'[h].order = OwnerOf[p]
               /\ call'[h].saw = order[OwnerOf[p]] /\ UNCHANGED order
    <3>1. PICK p \in Payments, n \in RefundNos :
               /\ refund[p][n] = "processing" /\ call'[h].order = OwnerOf[p]
               /\ call'[h].saw = order[OwnerOf[p]] /\ UNCHANGED order
      BY <2>2
    <3>2. order[OwnerOf[p]] # "pending"
      BY <3>1 DEF BookedInv, Collected, RefundInv, OnePaymentInv, BookedNotPending
    <3>3. QED
      BY <3>1, <3>2
  <2>3. QED
    BY <1>7, <2>1, <2>2, CallsSaw DEF SawOrder
<1>8. QED
  BY <1>6, <1>7 DEF StatusInv, SawInv

\* Nothing is booked while every order is pending.
LEMMA StatusInit == Init => StatusInv
BY DEF Init, StatusInv, StatusMatchesMoney, SawInv, PaymentsOf, Collected, Idle

\* As long as admins write no status by hand, an order's status says what
\* became of its money: booked when paid or beyond, given back when refunded,
\* and every booked payment announced exactly once.
THEOREM StatusMatches == ASSUME ~AdminOverride PROVE Spec => []StatusMatchesMoney
<1>1. StatusInv => StatusMatchesMoney
  BY DEF StatusInv
<1>2. TypeInv /\ RefundInv /\ BookedInv /\ StatusInv /\ [Next]_vars => StatusInv'
  BY StatusStep
<1>3. QED
  BY <1>1, <1>2, TypeInvInit, TypeInvStep, RefundInvInit, RefundInvStep, BookedInit,
     BookedStep, StatusInit, PTL DEF Spec
=============================================================================

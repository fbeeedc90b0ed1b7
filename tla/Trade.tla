------------------------------- MODULE Trade -------------------------------
(***************************************************************************)
(* The order, its payments and their refunds, and every handler that moves *)
(* them: starting a payment, the paid and refunded notifications of the    *)
(* channel, cancelling (by a customer, an admin or the timeout job),       *)
(* refunding, shipping, completing, and the two reconciliation jobs.       *)
(*                                                                         *)
(* A handler that awaits the channel, or decides on a row it read outside  *)
(* the transaction that writes, is a call in flight: it takes one step per *)
(* awaited statement or transaction, and other handlers run in between. A  *)
(* database transaction is one step; the notification transaction is two,  *)
(* because it tolerates losing its compare-and-set on the order.           *)
(***************************************************************************)
EXTENDS Naturals, FiniteSets, OrderDomain, PaymentDomain

CONSTANTS
  Orders,        \* orders created by checkout
  Payments,      \* payment ids, in creation order
  OwnerOf,       \* the order each payment id belongs to
  MaxRefunds,    \* bound on the refund numbers of one payment
  Requesters,    \* slots for HTTP requests and channel notifications
  Cancellers,    \* slots for the order timeout job
  Reconcilers,   \* slots for the refund reconciliation job
  AdminOverride, \* whether admins write a status through PATCH
  NoOrder        \* the order of an idle slot

NoPayment == 0
RefundNos == 1..MaxRefunds
Handlers == Requesters \cup Cancellers \cup Reconcilers

ASSUME TradeAssumption ==
  /\ Payments \subseteq Nat \ {NoPayment}
  /\ OwnerOf \in [Payments -> Orders]
  /\ MaxRefunds \in Nat
  /\ AdminOverride \in BOOLEAN
  /\ NoOrder \notin Orders

VARIABLES
  order,         \* orders.status
  restocked,     \* how often the stock of an order was given back
  pay,           \* payments.status
  payload,       \* whether payments.payload is set
  refund,        \* refunds.status by payment and refund number
  paidEvents,    \* payment.succeeded rows written to the outbox
  refundEvents,  \* refund.succeeded rows written to the outbox
  shippedEvents, \* order.shipped rows written to the outbox
  chPay,         \* the trade at the channel, by payment
  chRefund,      \* the refund at the channel, by payment and number
  call           \* the calls in flight

orderVars == <<order, restocked, shippedEvents>>
payVars == <<pay, payload, paidEvents>>
refundVars == <<refund, refundEvents>>
channelVars == <<chPay, chRefund>>
vars == <<orderVars, payVars, refundVars, channelVars, call>>

-----------------------------------------------------------------------------
(* Calls in flight *)

PaymentPoints ==
  {"initiate_void", "initiate_create", "initiate_backfill", "initiate_fail"}
RefundPoints ==
  {"cancel_submit", "cancel_async", "cancel_sync",
   "refund_submit", "refund_async", "refund_sync", "notify_commit"}
OrderPoints ==
  {"initiate_select", "initiate_insert", "auto_cancel_listed", "cancel_unpaid"}
Points == {"idle"} \cup PaymentPoints \cup RefundPoints \cup OrderPoints

Call == [at: Points, order: Orders \cup {NoOrder},
         payment: Payments \cup {NoPayment},
         refundNo: 0..MaxRefunds, saw: OrderStatus]

Idle == [at |-> "idle", order |-> NoOrder, payment |-> NoPayment,
         refundNo |-> 0, saw |-> "pending"]

Enter(h, point, o, p, n, s) ==
  call' = [call EXCEPT ![h] = [at |-> point, order |-> o, payment |-> p,
                               refundNo |-> n, saw |-> s]]
Goto(h, point) == call' = [call EXCEPT ![h].at = point]
Return(h) == call' = [call EXCEPT ![h] = Idle]

IsIdle(h) == call[h].at = "idle"

-----------------------------------------------------------------------------
(* Queries *)

PaymentsOf(o, status) == {p \in Payments : OwnerOf[p] = o /\ pay[p] = status}

TypeOK ==
  /\ order \in [Orders -> OrderStatus]
  /\ restocked \in [Orders -> Nat]
  /\ shippedEvents \in [Orders -> Nat]
  /\ pay \in [Payments -> PaymentStatus]
  /\ payload \in [Payments -> BOOLEAN]
  /\ paidEvents \in [Payments -> Nat]
  /\ refund \in [Payments -> [RefundNos -> RefundStatus]]
  /\ refundEvents \in [Payments -> [RefundNos -> Nat]]
  /\ chPay \in [Payments -> TradeStatus]
  /\ chRefund \in [Payments -> [RefundNos -> RefundStatus]]
  /\ call \in [Handlers -> Call]

\* Checkout has just created the orders (createOrderRecord: "pending").
Init ==
  /\ order = [o \in Orders |-> "pending"]
  /\ restocked = [o \in Orders |-> 0]
  /\ shippedEvents = [o \in Orders |-> 0]
  /\ pay = [p \in Payments |-> "absent"]
  /\ payload = [p \in Payments |-> FALSE]
  /\ paidEvents = [p \in Payments |-> 0]
  /\ refund = [p \in Payments |-> [n \in RefundNos |-> "absent"]]
  /\ refundEvents = [p \in Payments |-> [n \in RefundNos |-> 0]]
  /\ chPay = [p \in Payments |-> "none"]
  /\ chRefund = [p \in Payments |-> [n \in RefundNos |-> "absent"]]
  /\ call = [h \in Handlers |-> Idle]

-----------------------------------------------------------------------------
(* Starting a payment: initiateOrderPayment, then initiatePayment *)

\* What getPayableOrder's snapshot must say for the payment to start.
Payable(o) == order[o] = "pending"

\* The order must be payable when its snapshot is read, and only then.
InitiateOrderPayment(h, o) ==
  /\ IsIdle(h) /\ h \in Requesters
  /\ Payable(o)
  /\ Enter(h, "initiate_select", o, NoPayment, 0, "pending")
  /\ UNCHANGED <<orderVars, payVars, refundVars, channelVars>>

\* A pending payment with channel parameters is reused; one without is voided.
SelectPending(h) ==
  LET o == call[h].order
      pending == PaymentsOf(o, "pending")
  IN
  /\ call[h].at = "initiate_select"
  /\ \/ pending = {} /\ Goto(h, "initiate_insert")
     \/ \E p \in Payments :
          /\ IsFirst(p, pending)
          /\ \/ payload[p] /\ Return(h)
             \/ ~payload[p] /\ Enter(h, "initiate_void", o, p, 0, "pending")
  /\ UNCHANGED <<orderVars, payVars, refundVars, channelVars>>

\* UPDATE payments SET status = 'failed' WHERE id = p AND status = 'pending'.
FailIfPending(p) ==
  /\ pay' = IF pay[p] = "pending" THEN [pay EXCEPT ![p] = "failed"] ELSE pay
  /\ UNCHANGED <<payload, paidEvents>>

VoidPending(h) ==
  /\ call[h].at = "initiate_void"
  /\ FailIfPending(call[h].payment)
  /\ Goto(h, "initiate_insert")
  /\ UNCHANGED <<orderVars, refundVars, channelVars>>

InsertPayment(h) ==
  LET o == call[h].order IN
  /\ call[h].at = "initiate_insert"
  /\ \E p \in Payments :
       /\ IsFirst(p, PaymentsOf(o, "absent"))
       /\ pay' = [pay EXCEPT ![p] = "pending"]
       /\ Enter(h, "initiate_create", o, p, 0, "pending")
  /\ UNCHANGED <<orderVars, payload, paidEvents, refundVars, channelVars>>

\* gateway.createPayment: the channel opens the trade, or the call fails.
CreatePayment(h) ==
  LET p == call[h].payment IN
  /\ call[h].at = "initiate_create"
  /\ \/ chPay' = [chPay EXCEPT ![p] = "open"] /\ Goto(h, "initiate_backfill")
     \/ chPay' = chPay /\ Goto(h, "initiate_fail")
  /\ UNCHANGED <<orderVars, payVars, refundVars, chRefund>>

\* The customer gets the parameters only if the row is still pending.
BackfillPayload(h) ==
  LET p == call[h].payment IN
  /\ call[h].at = "initiate_backfill"
  /\ payload' = IF pay[p] = "pending" THEN [payload EXCEPT ![p] = TRUE]
                                      ELSE payload
  /\ Return(h)
  /\ UNCHANGED <<orderVars, pay, paidEvents, refundVars, channelVars>>

FailPayment(h) ==
  /\ call[h].at = "initiate_fail"
  /\ FailIfPending(call[h].payment)
  /\ Return(h)
  /\ UNCHANGED <<orderVars, refundVars, channelVars>>

-----------------------------------------------------------------------------
(* Confirming a payment: confirmByWebhookEvent, then confirmOrderPayment *)

\* confirmPayment, a compare-and-set along the table of payments.
SucceedPayment(p) ==
  /\ <<pay[p], "succeeded">> \in PAYMENT_TRANSITIONS
  /\ pay' = [pay EXCEPT ![p] = "succeeded"]

\* updateOrderStatus, a compare-and-set along the table of orders.
MoveOrder(o, s) ==
  /\ CanUpdate(order[o], s)
  /\ order' = [order EXCEPT ![o] = s]

\* Fault: the payment stays confirmed when the order refuses to be paid.
ConfirmPaymentAlone(p) ==
  LET o == OwnerOf[p] IN
  /\ SucceedPayment(p)
  /\ order' = [order EXCEPT ![o] = IF CanUpdate(@, "paid") THEN "paid" ELSE @]
  /\ paidEvents' = [paidEvents EXCEPT ![p] = @ + 1]
  /\ UNCHANGED <<restocked, shippedEvents, payload, refundVars, channelVars, call>>

\* One transaction: the payment, the order and the event, or nothing. A
\* repeated, late or refused notification changes nothing.
ConfirmOrderPayment(p) ==
  /\ SucceedPayment(p)
  /\ MoveOrder(OwnerOf[p], "paid")
  /\ paidEvents' = [paidEvents EXCEPT ![p] = @ + 1]
  /\ UNCHANGED <<restocked, shippedEvents, payload, refundVars, channelVars, call>>

\* The channel notifies of a paid trade: once, again, late or never.
PaidNotification(p) == chPay[p] = "paid" /\ ConfirmOrderPayment(p)

\* reconcilePendingPayments asks the channel about each stale pending payment.
ReconcilePaid(p) ==
  pay[p] = "pending" /\ chPay[p] = "paid" /\ ConfirmOrderPayment(p)

ReconcileClosed(p) ==
  /\ pay[p] = "pending" /\ chPay[p] = "closed"
  /\ pay' = [pay EXCEPT ![p] = "cancelled"]
  /\ UNCHANGED <<orderVars, payload, paidEvents, refundVars, channelVars, call>>

-----------------------------------------------------------------------------
(* Cancelling an order: cancelOrder and autoCancelStaleOrders *)

\* autoCancelStaleOrders lists the stale pending orders, then takes them one
\* by one; by the time an order is taken it may have moved.
AutoCancelList(h, o) ==
  /\ IsIdle(h) /\ h \in Cancellers
  /\ order[o] = "pending"
  /\ Enter(h, "auto_cancel_listed", o, NoPayment, 0, "pending")
  /\ UNCHANGED <<orderVars, payVars, refundVars, channelVars>>

Cancelling(h, o) ==
  \/ IsIdle(h) /\ h \in Requesters
  \/ call[h].at = "auto_cancel_listed" /\ call[h].order = o

\* The refund that cancelOrder and refundOrderWorkflow submit: the first
\* succeeded payment, under its next number, unless that number is taken.
RefundTarget(o, p, n) ==
  /\ IsFirst(p, PaymentsOf(o, "succeeded"))
  /\ n = NextRefundNo(refund[p])
  /\ refund[p][n] = "absent"

CancelUnpaid(h, o) ==
  /\ Cancelling(h, o)
  /\ order[o] = "pending"
  /\ Enter(h, "cancel_unpaid", o, NoPayment, 0, "pending")
  /\ UNCHANGED <<orderVars, payVars, refundVars, channelVars>>

CancelPaid(h, o) ==
  /\ Cancelling(h, o)
  /\ order[o] = "paid"
  /\ \E p \in Payments, n \in RefundNos :
       RefundTarget(o, p, n) /\ Enter(h, "cancel_submit", o, p, n, "pending")
  /\ UNCHANGED <<orderVars, payVars, refundVars, channelVars>>

\* The order taken from the list can no longer be cancelled.
CancelRefused(h) ==
  LET o == call[h].order IN
  /\ call[h].at = "auto_cancel_listed"
  /\ order[o] # "pending"
  /\ order[o] = "paid" =>
       ~\E p \in Payments, n \in RefundNos : RefundTarget(o, p, n)
  /\ Return(h)
  /\ UNCHANGED <<orderVars, payVars, refundVars, channelVars>>

\* Fault: the status is not compared when the order is cancelled.
CancelBlindWrite(o) ==
  /\ order' = [order EXCEPT ![o] = "cancelled"]
  /\ restocked' = [restocked EXCEPT ![o] = @ + 1]
  /\ UNCHANGED shippedEvents

\* updateOrderStatus(o, "cancelled") reads the status again in the
\* transaction and accepts whatever the table accepts; the stock goes back.
CancelWrite(o) ==
  /\ MoveOrder(o, "cancelled")
  /\ restocked' = [restocked EXCEPT ![o] = @ + 1]
  /\ UNCHANGED shippedEvents

Rollback(h) ==
  Return(h) /\ UNCHANGED <<orderVars, payVars, refundVars, channelVars>>

\* Fault: an order with a payment in progress is left alone.
CancelNoPendingPayments(o) == PaymentsOf(o, "pending") = {} /\ UNCHANGED pay

\* cancelPendingPayment for each payment still pending at that point.
CancelPendingPayments(o) ==
  pay' = [p \in Payments |->
            IF p \in PaymentsOf(o, "pending") THEN "cancelled" ELSE pay[p]]

CancelUnpaidTx(h) ==
  LET o == call[h].order IN
  /\ call[h].at = "cancel_unpaid"
  /\ \/ /\ CancelWrite(o)
        /\ CancelPendingPayments(o)
        /\ Return(h)
        /\ UNCHANGED <<payload, paidEvents, refundVars, channelVars>>
     \/ ~CanUpdate(order[o], "cancelled") /\ Rollback(h)

\* Fault: a refund row that exists is written over.
UpsertRefund(p, n, s) == refund' = [refund EXCEPT ![p][n] = s]

\* insertRefund; out_refund_no is unique, so a second insert rolls back.
InsertRefund(p, n, s) ==
  /\ refund[p][n] = "absent"
  /\ refund' = [refund EXCEPT ![p][n] = s]

CancelAsyncTx(h) ==
  LET c == call[h] IN
  /\ c.at = "cancel_async"
  /\ \/ /\ CancelWrite(c.order)
        /\ InsertRefund(c.payment, c.refundNo, "processing")
        /\ Return(h)
        /\ UNCHANGED <<payVars, refundEvents, channelVars>>
     \/ /\ \/ ~CanUpdate(order[c.order], "cancelled")
           \/ refund[c.payment][c.refundNo] # "absent"
        /\ Rollback(h)

CancelSyncTx(h) ==
  LET c == call[h] IN
  /\ c.at = "cancel_sync"
  /\ \/ /\ CancelWrite(c.order)
        /\ InsertRefund(c.payment, c.refundNo, "succeeded")
        /\ pay' = [p \in Payments |-> IF p \in PaymentsOf(c.order, "succeeded")
                                      THEN "refunded" ELSE pay[p]]
        /\ refundEvents' = [refundEvents EXCEPT ![c.payment][c.refundNo] = @ + 1]
        /\ Return(h)
        /\ UNCHANGED <<payload, paidEvents, channelVars>>
     \/ /\ \/ ~CanUpdate(order[c.order], "cancelled")
           \/ refund[c.payment][c.refundNo] # "absent"
        /\ Rollback(h)

-----------------------------------------------------------------------------
(* Refunding an order: refundOrderWorkflow *)

RefundOrder(h, o) ==
  /\ IsIdle(h) /\ h \in Requesters
  /\ order[o] \in Refundable
  /\ \E p \in Payments, n \in RefundNos :
       RefundTarget(o, p, n) /\ Enter(h, "refund_submit", o, p, n, "pending")
  /\ UNCHANGED <<orderVars, payVars, refundVars, channelVars>>

\* Fault: a refused refund is taken for an accepted one.
AcceptedAnyway(s) == TRUE

\* The channel took the refund: submitted.isErr() is false.
Accepted(s) == s # "absent"

\* gateway.refund, for both callers. The channel may refuse, and the answer
\* to a refund it did accept may be lost: either way nothing is written here.
SubmitRefund(h) ==
  LET c == call[h]
      After(s) == IF c.at = "cancel_submit"
                  THEN IF s = "succeeded" THEN "cancel_sync" ELSE "cancel_async"
                  ELSE IF s = "succeeded" THEN "refund_sync" ELSE "refund_async"
  IN
  /\ c.at \in {"cancel_submit", "refund_submit"}
  /\ \E s \in AfterSubmit(chRefund[c.payment][c.refundNo]) :
       /\ chRefund' = [chRefund EXCEPT ![c.payment][c.refundNo] = s]
       /\ Return(h) \/ (Accepted(s) /\ Goto(h, After(s)))
  /\ UNCHANGED <<orderVars, payVars, refundVars, chPay>>

\* Not a transaction: only the refund row, whatever became of the order.
RefundAsyncInsert(h) ==
  LET c == call[h] IN
  /\ c.at = "refund_async"
  /\ \/ /\ InsertRefund(c.payment, c.refundNo, "processing")
        /\ Return(h)
        /\ UNCHANGED <<orderVars, payVars, refundEvents, channelVars>>
     \/ refund[c.payment][c.refundNo] # "absent" /\ Rollback(h)

\* refundOrder: the first succeeded payment of the order is refunded.
RefundFirstSucceeded(o) ==
  \E p \in Payments :
    /\ IsFirst(p, PaymentsOf(o, "succeeded"))
    /\ pay' = [pay EXCEPT ![p] = "refunded"]

\* markOrderRefunded, refundOrder and insertRefund in one transaction.
RefundSyncTx(h) ==
  LET c == call[h] IN
  /\ c.at = "refund_sync"
  /\ \/ /\ order[c.order] \in Refundable
        /\ InsertRefund(c.payment, c.refundNo, "succeeded")
        /\ RefundFirstSucceeded(c.order)
        /\ order' = [order EXCEPT ![c.order] = "refunded"]
        /\ refundEvents' = [refundEvents EXCEPT ![c.payment][c.refundNo] = @ + 1]
        /\ Return(h)
        /\ UNCHANGED <<restocked, shippedEvents, payload, paidEvents, channelVars>>
     \/ /\ \/ order[c.order] \notin Refundable
           \/ PaymentsOf(c.order, "succeeded") = {}
           \/ refund[c.payment][c.refundNo] # "absent"
        /\ Rollback(h)

-----------------------------------------------------------------------------
(* Settling a refund: confirmRefundByWebhookEvent, reconcilePendingRefunds *)

\* The transaction has moved the refund and payment rows, whose locks keep
\* others out until it commits, and has read the order it will flip.
RefundSettledRead(h, p, n) ==
  /\ IsIdle(h)
  /\ refund[p][n] = "processing" /\ chRefund[p][n] = "succeeded"
  /\ Enter(h, "notify_commit", OwnerOf[p], p, n, order[OwnerOf[p]])
  /\ UNCHANGED <<orderVars, payVars, refundVars, channelVars>>

\* The channel notifies of the refund: once, again, late or never.
RefundNotification(h, p, n) == h \in Requesters /\ RefundSettledRead(h, p, n)

\* reconcilePendingRefunds asks the channel about each stale refund, and
\* passes what it learns on as if the channel had notified it.
ReconcileRefund(h, p, n) == h \in Reconcilers /\ RefundSettledRead(h, p, n)

\* markRefundSucceeded and refundPayment, each a compare-and-set.
MarkRefundSucceeded(p, n) ==
  /\ refund[p][n] = "processing"
  /\ refund' = [refund EXCEPT ![p][n] = "succeeded"]

RefundPayment(p) ==
  /\ pay[p] = "succeeded"
  /\ pay' = [pay EXCEPT ![p] = "refunded"]

\* Fault: the order is forgotten when its refund settles.
MarkOrderSkipped(o, saw) == UNCHANGED order

\* markOrderRefunded on the status it read, its failure ignored.
MarkOrderRefunded(o, saw) ==
  order' = IF saw \in Refundable /\ order[o] = saw
           THEN [order EXCEPT ![o] = "refunded"] ELSE order

\* The refund row moves by compare-and-set, then the payment. If the payment
\* does not move the handler commits there, with no event. The result of
\* flipping the order is ignored: an order that moved since it was read stays.
RefundSettledTx(h) ==
  LET c == call[h] IN
  /\ c.at = "notify_commit"
  /\ \/ /\ MarkRefundSucceeded(c.payment, c.refundNo)
        /\ \/ /\ RefundPayment(c.payment)
              /\ MarkOrderRefunded(c.order, c.saw)
              /\ refundEvents' =
                   [refundEvents EXCEPT ![c.payment][c.refundNo] = @ + 1]
           \/ pay[c.payment] # "succeeded" /\ UNCHANGED <<pay, order, refundEvents>>
        /\ Return(h)
        /\ UNCHANGED <<restocked, shippedEvents, payload, paidEvents, channelVars>>
     \/ refund[c.payment][c.refundNo] # "processing" /\ Rollback(h)

\* Fault: a refund that failed at the channel is looked at and left.
RefundFailureIgnored(p, n) ==
  /\ refund[p][n] = "processing" /\ chRefund[p][n] = "abnormal"
  /\ UNCHANGED vars

\* markRefundAbnormal, once the channel says that the refund failed.
RefundFailed(p, n) ==
  /\ refund[p][n] = "processing" /\ chRefund[p][n] = "abnormal"
  /\ refund' = [refund EXCEPT ![p][n] = "abnormal"]
  /\ UNCHANGED <<orderVars, payVars, refundEvents, channelVars, call>>

AbnormalNotification(p, n) == RefundFailed(p, n)
ReconcileAbnormal(p, n) == RefundFailed(p, n)

-----------------------------------------------------------------------------
(* Fulfilment as far as the order status goes, and the admin's PATCH *)

\* shipOrder: the event is written on paid -> shipped only; shipping again
\* only corrects the tracking number, which is not modelled here.
ShipOrder(o) ==
  /\ order[o] = "paid"
  /\ order' = [order EXCEPT ![o] = "shipped"]
  /\ shippedEvents' = [shippedEvents EXCEPT ![o] = @ + 1]
  /\ UNCHANGED <<restocked, payVars, refundVars, channelVars, call>>

\* completeOrder and autoCompleteShippedOrders.
CompleteOrder(o) ==
  /\ order[o] = "shipped"
  /\ order' = [order EXCEPT ![o] = "completed"]
  /\ UNCHANGED <<restocked, shippedEvents, payVars, refundVars, channelVars, call>>

\* PATCH /orders/:id/status sends "cancelled" to cancelOrder and "completed"
\* to completeOrder; any other status goes through the table alone.
AdminPatch(o, s) ==
  /\ AdminOverride
  /\ s \notin {"cancelled", "completed"} /\ MoveOrder(o, s)
  /\ UNCHANGED <<restocked, shippedEvents, payVars, refundVars, channelVars, call>>

-----------------------------------------------------------------------------
(* The channel, and crashes *)

\* The customer pays with parameters the shop handed out.
CustomerPays(p) ==
  /\ payload[p] /\ chPay[p] = "open"
  /\ chPay' = [chPay EXCEPT ![p] = "paid"]
  /\ UNCHANGED <<orderVars, payVars, refundVars, chRefund, call>>

ChannelCloses(p) ==
  /\ chPay[p] = "open"
  /\ chPay' = [chPay EXCEPT ![p] = "closed"]
  /\ UNCHANGED <<orderVars, payVars, refundVars, chRefund, call>>

ChannelSettles(p, n) ==
  /\ chRefund[p][n] = "processing"
  /\ \E s \in {"succeeded", "abnormal"} :
       chRefund' = [chRefund EXCEPT ![p][n] = s]
  /\ UNCHANGED <<orderVars, payVars, refundVars, chPay, call>>

\* The process dies, or the call throws: its locals are gone and an open
\* transaction rolls back.
Crash(h) == ~IsIdle(h) /\ Rollback(h)

-----------------------------------------------------------------------------
CallStep(h) ==
  \/ SelectPending(h) \/ VoidPending(h) \/ InsertPayment(h)
  \/ CreatePayment(h) \/ BackfillPayload(h) \/ FailPayment(h)
  \/ CancelRefused(h) \/ CancelUnpaidTx(h) \/ CancelAsyncTx(h) \/ CancelSyncTx(h)
  \/ SubmitRefund(h) \/ RefundAsyncInsert(h) \/ RefundSyncTx(h)
  \/ RefundSettledTx(h) \/ Crash(h)

CallStart(h) ==
  \/ \E o \in Orders : \/ InitiateOrderPayment(h, o) \/ AutoCancelList(h, o)
                       \/ CancelUnpaid(h, o) \/ CancelPaid(h, o)
                       \/ RefundOrder(h, o)
  \/ \E p \in Payments, n \in RefundNos :
       RefundNotification(h, p, n) \/ ReconcileRefund(h, p, n)

PaymentStep(p) ==
  \/ PaidNotification(p) \/ ReconcilePaid(p) \/ ReconcileClosed(p)
  \/ CustomerPays(p) \/ ChannelCloses(p)
  \/ \E n \in RefundNos : \/ AbnormalNotification(p, n) \/ ReconcileAbnormal(p, n)
                           \/ ChannelSettles(p, n)

OrderStep(o) ==
  \/ ShipOrder(o) \/ CompleteOrder(o)
  \/ \E s \in OrderStatus : AdminPatch(o, s)

Next ==
  \/ \E h \in Handlers : CallStep(h) \/ CallStart(h)
  \/ \E p \in Payments : PaymentStep(p)
  \/ \E o \in Orders : OrderStep(o)

Spec == Init /\ [][Next]_vars

\* The reconciliation and timeout jobs are scheduled again and again, and a
\* crash does not always strike inside the same transaction; the channel
\* settles what it accepted. Nobody is bound to notify, retry or pay.
FairSpec ==
  /\ Spec
  /\ \A p \in Payments : WF_vars(ReconcilePaid(p)) /\ WF_vars(ReconcileClosed(p))
  /\ \A p \in Payments, n \in RefundNos :
       /\ WF_vars(ReconcileAbnormal(p, n)) /\ WF_vars(ChannelSettles(p, n))
       /\ \A h \in Reconcilers : SF_vars(ReconcileRefund(h, p, n))
  /\ \A h \in Reconcilers : SF_vars(RefundSettledTx(h))
  /\ \A h \in Cancellers :
       /\ \A o \in Orders : SF_vars(AutoCancelList(h, o)) /\ SF_vars(CancelUnpaid(h, o))
       /\ SF_vars(CancelRefused(h)) /\ SF_vars(CancelUnpaidTx(h))

-----------------------------------------------------------------------------
(* What holds *)

Collected(p) == pay[p] \in {"succeeded", "refunded"}
LiveAtChannel(p, n) == chRefund[p][n] \in {"processing", "succeeded"}

\* However many payments were started, paid or notified, at most one payment
\* of an order is ever booked: confirmOrderPayment books the payment and the
\* order together.
OnePaymentPerOrder ==
  \A p, q \in Payments :
    OwnerOf[p] = OwnerOf[q] /\ Collected(p) /\ Collected(q) => p = q

\* "Never refunded here but not at the channel": every refund row reports
\* what the channel knows, and a payment is marked refunded only once the
\* channel has refunded it (gateway.refund comes before the local writes).
RefundsBackedByChannel ==
  /\ \A p \in Payments, n \in RefundNos :
       /\ refund[p][n] = "processing" => chRefund[p][n] # "absent"
       /\ refund[p][n] \in {"succeeded", "abnormal"} => chRefund[p][n] = refund[p][n]
  /\ \A p \in Payments :
       pay[p] = "refunded" => \E n \in RefundNos : chRefund[p][n] = "succeeded"

\* The deterministic refund numbers of buildRefundNo and nextRefundNo: the
\* money of an order is never on its way back twice, whoever retries, cancels
\* and refunds at the same time.
OneLiveRefundPerOrder ==
  \A p, q \in Payments, m, n \in RefundNos :
    OwnerOf[p] = OwnerOf[q] /\ LiveAtChannel(p, m) /\ LiveAtChannel(q, n)
      => p = q /\ m = n

\* The early commits of confirmRefundByWebhookEvent never strand a refund: a
\* settled refund has moved its payment and written its event once, and a
\* refunded payment has a settled refund.
SettledRefundIsBooked ==
  /\ \A p \in Payments, n \in RefundNos :
       /\ refund[p][n] = "succeeded" => pay[p] = "refunded"
       /\ refundEvents[p][n] = IF refund[p][n] = "succeeded" THEN 1 ELSE 0
  /\ \A p \in Payments :
       pay[p] = "refunded" => \E n \in RefundNos : refund[p][n] = "succeeded"

\* Two cancels, a cancel and the timeout job, or a cancel retried after a
\* crash give the stock back once, and only with the order cancelled.
StockReturnedOnce ==
  \A o \in Orders : restocked[o] = IF order[o] = "cancelled" THEN 1 ELSE 0

\* What the order says of the money, as long as admins do not write statuses
\* by hand: nothing booked while pending, a payment not refunded while paid, a
\* refunded payment when refunded, and one payment.succeeded event for each
\* booked payment.
StatusMatchesMoney ==
  \A o \in Orders :
    /\ order[o] = "pending" => \A p \in Payments : OwnerOf[p] = o => ~Collected(p)
    /\ order[o] = "paid" => PaymentsOf(o, "succeeded") # {}
    /\ order[o] = "refunded" => PaymentsOf(o, "refunded") # {}
    /\ order[o] \in {"shipped", "completed"} =>
         \E p \in Payments : OwnerOf[p] = o /\ Collected(p)
    /\ \A p \in Payments : paidEvents[p] = IF Collected(p) THEN 1 ELSE 0

\* All writers of both tables together, each with its own guard, never leave
\* the two transition tables; only a refund takes an order beyond its table.
MovesFollowTables ==
  [][/\ \A o \in Orders : order'[o] # order[o] =>
          \/ CanUpdate(order[o], order'[o])
          \/ order[o] \in Refundable /\ order'[o] = "refunded"
     /\ \A p \in Payments : pay'[p] # pay[p] =>
          \/ <<pay[p], pay'[p]>> \in PAYMENT_TRANSITIONS
          \/ pay[p] = "absent" /\ pay'[p] = "pending"]_vars

\* A refund row does not stay in flight when its notification is lost or its
\* handler crashes: reconciliation settles it as the channel did.
ProcessingRefundSettles ==
  \A p \in Payments, n \in RefundNos :
    refund[p][n] = "processing" ~> refund[p][n] = chRefund[p][n]

\* No order waits for its payment for ever: it is paid or the timeout job
\* cancels it, although each of its runs may crash or lose a race.
PendingOrderResolves ==
  \A o \in Orders : order[o] = "pending" ~> order[o] # "pending"

-----------------------------------------------------------------------------
(* What the documentation and comments say, and the code does not keep *)

\* order-cancel: a paid order is cancelled by refunding it first, so a booked
\* payment of a cancelled order has a refund.
CancelledPaymentHasRefund ==
  \A p \in Payments :
    order[OwnerOf[p]] = "cancelled" /\ pay[p] = "succeeded" =>
      \E n \in RefundNos : refund[p][n] # "absent"

\* autoCancelStaleOrders: an order paid meanwhile only counts as failed.
AutoCancelSparesPaid ==
  [][\A h \in Cancellers \ Requesters, o \in Orders :
       call[h].order = o /\ call'[h] # call[h] /\ order[o] = "paid"
         => order'[o] = "paid"]_vars

\* payment-flow.md: a refund without a local row is left to reconciliation.
ChannelRefundIsRecorded ==
  \A p \in Payments, n \in RefundNos :
    chRefund[p][n] = "succeeded" ~> refund[p][n] = "succeeded"

\* payment-flow.md: starting the payment again reuses the pending one.
OnePendingPayment ==
  \A p, q \in Payments :
    OwnerOf[p] = OwnerOf[q] /\ pay[p] = "pending" /\ pay[q] = "pending" => p = q

\* payment-flow.md: a settled refund leaves the order refunded or cancelled.
RefundedPaymentClosesOrder ==
  \A p \in Payments :
    pay[p] = "refunded" => order[OwnerOf[p]] \in {"refunded", "cancelled"}

\* payment-confirm: reconciliation repairs what a lost notification left, so
\* money the channel took is booked here.
PaidTradeIsBooked ==
  \A p \in Payments : chPay[p] = "paid" ~> Collected(p)

\* payment-confirm: an abnormal refund can be submitted again.
AbnormalRefundCanBeRetried ==
  \A p \in Payments :
    /\ pay[p] = "succeeded"
    /\ \E n \in RefundNos : refund[p][n] = "abnormal"
    /\ \A n \in RefundNos : refund[p][n] \in {"absent", "abnormal"}
    => order[OwnerOf[p]] \in Refundable

\* initiatePayment: only a payment that never got its parameters is voided.
VoidedPaymentHasNoPayload ==
  \A p \in Payments : pay[p] = "failed" => ~payload[p]
=============================================================================

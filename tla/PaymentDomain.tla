--------------------------- MODULE PaymentDomain ---------------------------
(***************************************************************************)
(* The payment and refund state machines of domains/payment, and what the  *)
(* channel (mock, Alipay, WeChat Pay) may answer. "absent" stands for a    *)
(* row, or an order at the channel, that does not exist yet.               *)
(***************************************************************************)
EXTENDS Naturals, FiniteSets

PaymentStatus ==
  {"absent", "pending", "succeeded", "failed", "refunded", "cancelled"}

PAYMENT_TRANSITIONS ==
  { <<"pending", "succeeded">>, <<"pending", "failed">>,
    <<"pending", "cancelled">>, <<"succeeded", "refunded">> }

RefundStatus == {"absent", "processing", "succeeded", "abnormal"}

\* Payments are numbered in the order in which their rows are created, which
\* is the order every "ORDER BY created_at LIMIT 1" of the domain picks by.
IsFirst(p, S) == p \in S /\ \A q \in S : p <= q

\* Fault: every refund of the payment is counted.
NextRefundNoOfAll(rows) ==
  Cardinality({n \in DOMAIN rows : rows[n] # "absent"}) + 1

\* nextRefundNo: one more than the number of abnormal refunds of the payment.
NextRefundNo(rows) ==
  Cardinality({n \in DOMAIN rows : rows[n] = "abnormal"}) + 1

-----------------------------------------------------------------------------
(* The channel, from how the gateways of domains/payment read its answers. *)

\* State of a trade at the channel: none, open for the customer to pay, paid,
\* or closed unpaid. Paid and closed are final.
TradeStatus == {"none", "open", "paid", "closed"}

\* A refund submitted under a number the channel already knows changes
\* nothing; a new one is refused, accepted for later, or made at once.
AfterSubmit(known) ==
  IF known = "absent" THEN {"absent", "processing", "succeeded"} ELSE {known}
=============================================================================

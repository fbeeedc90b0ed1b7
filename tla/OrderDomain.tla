---------------------------- MODULE OrderDomain ----------------------------
(***************************************************************************)
(* The order state machine of domains/order: the statuses of an order and  *)
(* the transitions its two guarded writers accept. Every write is a        *)
(* compare-and-set on the status that was read, so a module that uses      *)
(* these relations evaluates them at the moment of the write.              *)
(***************************************************************************)

OrderStatus ==
  {"pending", "paid", "shipped", "completed", "refunded", "cancelled"}

\* updateOrderStatus accepts a move in this table only. "refunded" is not in
\* it: markOrderRefunded has its own source set, Refundable.
ORDER_TRANSITIONS ==
  { <<"pending", "paid">>, <<"pending", "cancelled">>,
    <<"paid", "shipped">>, <<"paid", "cancelled">>,
    <<"shipped", "completed">> }

CanUpdate(from, to) == <<from, to>> \in ORDER_TRANSITIONS

Refundable == {"paid", "shipped", "completed"}
=============================================================================

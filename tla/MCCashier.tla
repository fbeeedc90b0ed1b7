------------------------------ MODULE MCCashier ------------------------------
(* Small instances of OrderDesk, and of Cashier in the worlds without a desk. *)
EXTENDS OrderDesk, TLC

CONSTANTS t1, t2, d1, d2, c1, c2

\* The pages of each tab, the browser, payments, channels, the address of the
\* notifications; whether WeChat authorises, and rotates keys and resends.
World(p1, p2, e, n, offers, notify, oauth, rotates) ==
  [pages |-> t1 :> p1 @@ t2 :> p2, env |-> [t \in Tabs |-> e], payments |-> n,
   offers |-> offers, notify |-> notify, oauth |-> oauth, rotates |-> rotates,
   resends |-> rotates, refunds |-> e = "alipay", paid |-> FALSE, desks |-> {},
   calls |-> {}]

\* A paid order and the administrators, with their requests.
DeskWorld(D, C) ==
  [World({}, {}, "web", 0, {"wechat"}, "wechat", TRUE, FALSE)
     EXCEPT !.refunds = TRUE, !.paid = TRUE, !.desks = D, !.calls = C]

Both == {"wechat", "alipay"}
OrderAndPay == {"order", "pay"}

DeskWorlds == {DeskWorld({d1}, {c1, c2}), DeskWorld({d1, d2}, {c1})}

Worlds ==
  { World({"list", "pay"}, {"order"}, "web", 1, {"mock"}, "wechat", TRUE, FALSE),
    World({"pay"}, {}, "web", 2, Both, "wechat", TRUE, FALSE),
    World(OrderAndPay, {}, "mobile", 1, Both, "alipay", TRUE, FALSE),
    World({"pay"}, {}, "wechat", 1, Both, "wechat", TRUE, FALSE),
    World({"pay"}, {"pay"}, "wechat", 0, Both, "wechat", TRUE, FALSE),
    World(OrderAndPay, {}, "alipay", 1, Both, "alipay", FALSE, FALSE),
    World(OrderAndPay, {}, "wechat", 1, {"wechat"}, "alipay", FALSE, FALSE),
    World(OrderAndPay, {}, "web", 1, {"wechat"}, "wechat", TRUE, TRUE) } \cup DeskWorlds
==============================================================================

------------------------------- MODULE Cashier -------------------------------
(***************************************************************************)
(* The customer's tabs on one order, from paying to receiving: pages of    *)
(* the storefront that show what they last heard, requests whose answers   *)
(* arrive late, out of order or never, the routes of the storefront api,   *)
(* the gateways, and the payment simulator of the repository as the        *)
(* channel. A handler of the api is one step here; what happens inside of  *)
(* them is in Trade.                                                       *)
(***************************************************************************)
EXTENDS WechatChannel, OrderDomain

CONSTANTS
  MaxPayments, \* bound on the payments of the order
  Scenarios,   \* browsers, channels and faults the behaviours start from
  NoChannel

ASSUME CashierAssumption == MaxPayments \in Nat \ {0}

Payments == 1..MaxPayments
NoPayment == 0
Channels == {"mock", "wechat", "alipay"}
Payloads == {"qr", "redirect", "params"}
PAID_STATUSES == {"paid", "shipped", "completed"}

VARIABLES
  world,    \* the scenario of the behaviour
  order,    \* orders.status
  had,      \* the statuses the order has had so far
  underway, \* whether a refund of the order is processing
  pay,      \* the payments: status, provider, type of payload
  trade,    \* what the simulator has registered
  post,     \* the notification of a payment
  at,       \* where a tab is
  shown,    \* the status the page of a tab shows
  refunds,  \* whether the order page was told of a refund underway
  channel,  \* selectedChannel of the pay page
  due,      \* the payment whose QR code the pay page shows
  stopped,  \* pollStopped
  reply,    \* the answer a button of the page waits for
  answers,  \* statuses on their way to the page
  checked   \* whether the effect has asked for the openid

serverVars == <<order, had, underway, pay>>
simVars == <<trade, post>>
pageVars == <<at, shown, refunds, channel, due, stopped, reply, answers, checked>>
vars == <<world, serverVars, simVars, pageVars, wechatVars>>

Row(s, c, l) == [status |-> s, provider |-> c, payload |-> l]
NoRow == Row("none", NoChannel, "none")
Answer(k, o, p) == [kind |-> k, outcome |-> o, payment |-> p]
NoReply == Answer("none", "none", NoPayment)
InSpa == {"list", "order", "pay"}

ASSUME ScenarioAssumption ==
  \A w \in Scenarios : w.pages \in [Tabs -> SUBSET InSpa] /\ w.offers \subseteq Channels

TypeOK ==
  /\ WechatTypeOK
  /\ world \in Scenarios
  /\ order \in OrderStatus /\ had \subseteq OrderStatus /\ underway \in BOOLEAN
  /\ pay \in [Payments -> [status: {"none", "pending", "succeeded", "failed", "cancelled", "refunded"},
                           provider: Channels \cup {NoChannel},
                           payload: Payloads \cup {"none"}]]
  /\ trade \in [Payments -> {"none", "open", "paid", "closed"}]
  /\ post \in [Payments -> {"none", "sent", "waiting"}]
  /\ at \in [Tabs -> InSpa \cup {"away", "channel", "wechat", "login", "error", "denied"}]
  /\ shown \in [Tabs -> OrderStatus]
  /\ refunds \in [Tabs -> BOOLEAN] /\ stopped \in [Tabs -> BOOLEAN]
  /\ checked \in [Tabs -> BOOLEAN]
  /\ channel \in [Tabs -> Channels \cup {NoChannel}]
  /\ due \in [Tabs -> Payments \cup {NoPayment}]
  /\ reply \in [Tabs -> [kind: {"none", "pay", "confirm", "cancel", "receipt"},
                         outcome: {"none", "ok", "error"},
                         payment: Payments \cup {NoPayment}]]
  /\ answers \in [Tabs -> SUBSET OrderStatus]

Init ==
  /\ WechatInit
  /\ world \in Scenarios
  /\ underway = FALSE
  /\ IF world.paid
     THEN /\ order = "paid" /\ had = {"pending", "paid"}
          /\ pay = [p \in Payments |-> IF p = 1 THEN Row("succeeded", "wechat", "qr") ELSE NoRow]
          /\ trade = [p \in Payments |-> IF p = 1 THEN "paid" ELSE "none"]
     ELSE /\ order = "pending" /\ had = {"pending"}
          /\ pay = [p \in Payments |-> NoRow]
          /\ trade = [p \in Payments |-> "none"]
  /\ post = [p \in Payments |-> "none"]
  /\ at = [t \in Tabs |-> "away"]
  /\ shown = [t \in Tabs |-> "pending"]
  /\ refunds = [t \in Tabs |-> FALSE] /\ stopped = [t \in Tabs |-> FALSE]
  /\ checked = [t \in Tabs |-> FALSE]
  /\ channel = [t \in Tabs |-> NoChannel]
  /\ due = [t \in Tabs |-> NoPayment]
  /\ reply = [t \in Tabs |-> NoReply]
  /\ answers = [t \in Tabs |-> {}]

-----------------------------------------------------------------------------
(* The order and its payments at the api *)

With(status) == {p \in Payments : pay[p].status = status}
SetPay(S, status) ==
  pay' = [p \in Payments |-> IF p \in S THEN [pay[p] EXCEPT !.status = status] ELSE pay[p]]

MoveOrder(to) ==
  /\ order' = to
  /\ had' = had \cup {to}
  /\ UNCHANGED underway

\* confirmByWebhookEvent, for a success: booked already, booked now, refused.
Booked(p) == pay[p].status = "succeeded"
Bookable(p) == pay[p].status = "pending" /\ order = "pending"

ConfirmByWebhookEvent(p) ==
  IF Bookable(p) THEN SetPay({p}, "succeeded") /\ MoveOrder("paid")
                 ELSE UNCHANGED serverVars

\* cancelOrder: an unpaid order with its pending payments, a paid one with a
\* refund that is done at once, or underway.
Cancellable ==
  \/ order = "pending"
  \/ order = "paid" /\ With("succeeded") # {} /\ ~underway

CancelOrder ==
  \/ /\ order = "pending"
     /\ SetPay(With("pending"), "cancelled") /\ MoveOrder("cancelled")
  \/ /\ order = "paid"
     /\ SetPay(With("succeeded"), "refunded") /\ MoveOrder("cancelled")
  \/ /\ order = "paid" /\ world.refunds
     /\ order' = "cancelled" /\ had' = had \cup {"cancelled"} /\ underway' = TRUE
     /\ UNCHANGED pay

\* The product a gateway orders for a request.
ProductFor(t, c) ==
  IF c # "wechat" THEN c
  ELSE IF world.env[t] = "mobile" THEN "h5"
  ELSE IF Authorised THEN "jsapi" ELSE "native"

PayloadOf(product) ==
  CASE product = "h5" -> "redirect" [] product = "jsapi" -> "params" [] OTHER -> "qr"

\* What the simulators say of a trade: wechat's knows it only from the moment
\* it is paid, alipay's takes one it does not know as unpaid.
WechatTrade(p) ==
  CASE trade[p] = "paid" -> "SUCCESS" [] trade[p] = "closed" -> "CLOSED"
    [] OTHER -> "NOTPAY"
AlipayTrade(p) ==
  CASE trade[p] = "paid" -> "TRADE_SUCCESS" [] trade[p] = "closed" -> "TRADE_CLOSED"
    [] OTHER -> "WAIT_BUYER_PAY"

\* What the gateways make of it.
WechatSays(p) ==
  CASE WechatTrade(p) = "SUCCESS" -> "paid" [] WechatTrade(p) = "NOTPAY" -> "unpaid"
    [] OTHER -> "closed"
AlipaySays(p) ==
  CASE AlipayTrade(p) = "TRADE_SUCCESS" -> "paid"
    [] AlipayTrade(p) = "WAIT_BUYER_PAY" -> "unpaid" [] OTHER -> "closed"
QueryPayment(p) == IF pay[p].provider = "alipay" THEN AlipaySays(p) ELSE WechatSays(p)

-----------------------------------------------------------------------------
(* The pages *)

\* parseChannels and filterByEnvironment.
Offered(t) ==
  CASE world.env[t] = "wechat" -> world.offers \cap {"wechat"}
    [] world.env[t] = "alipay" -> world.offers \cap {"alipay"}
    [] OTHER -> world.offers

First(S) ==
  CASE "mock" \in S -> "mock" [] "wechat" \in S -> "wechat"
    [] "alipay" \in S -> "alipay" [] OTHER -> NoChannel

Set(f, t, value) == f' = [f EXCEPT ![t] = value]

\* What a tab forgets with the page it leaves.
ClearPage(t) ==
  /\ Set(channel, t, First(Offered(t))) /\ Set(due, t, NoPayment)
  /\ Set(stopped, t, FALSE) /\ Set(reply, t, NoReply)
  /\ Set(answers, t, {}) /\ Set(checked, t, FALSE)

\* Pages are left by location.assign, or by the router, which keeps the
\* document of the tab.
LeaveFor(t, place) ==
  /\ Set(at, t, place)
  /\ ClearPage(t)
  /\ UNCHANGED <<shown, refunds>>
  /\ IF place \in InSpa THEN GoTo(t, "none") /\ UNCHANGED <<promise, script>>
                        ELSE FreshDocument(t)
  /\ UNCHANGED <<ticketVars, keyVars>>

\* GET /orders/:id/payments, which lists the refunds too.
RefundUnderway == underway

\* A page of the order does without the refunds if they cannot be had.
ReadRefunds(t) == \E told \in {RefundUnderway, FALSE} : Set(refunds, t, told)

\* The loaders of /orders, /pay and /orders/$id: a fresh page, or an error page,
\* or the login, which comes back here.
Visit(t, place) ==
  /\ Set(at, t, place) /\ Set(shown, t, order) /\ ReadRefunds(t)
  /\ ClearPage(t)
  /\ GoTo(t, "none") /\ UNCHANGED <<promise, script, oauthVars, ticketVars, keyVars>>

\* No callback of the tab is on its way.
Arrived(t) == trip[t].head \in {Unsent, Done}

\* The list links to the order, and to the payment of one it shows as pending.
LinksTo(t) == IF shown[t] = "pending" THEN {"order", "pay"} ELSE {"order"}

OpenPage(t) ==
  /\ Arrived(t)
  /\ \E place \in world.pages[t] \ {at[t]} :
       /\ at[t] = "list" => place \in LinksTo(t)
       /\ Visit(t, place)
  /\ UNCHANGED <<world, serverVars, simVars>>

\* The tab is closed, reloaded or sent elsewhere.
LeavePage(t) ==
  /\ at[t] \in InSpa
  /\ LeaveFor(t, "away")
  /\ UNCHANGED <<world, serverVars, simVars, oauthVars>>

LoaderFails(t) ==
  /\ world.pages[t] # {} /\ at[t] = "away"
  /\ \E place \in {"login", "error"} : LeaveFor(t, place)
  /\ UNCHANGED <<world, serverVars, simVars, oauthVars>>

\* The effect of the pay page inside of WeChat: no openid, or no answer to
\* the question, and the tab goes to be authorised.
CheckOpenid(t) ==
  /\ at[t] = "pay" /\ shown[t] = "pending" /\ ~checked[t]
  /\ world.env[t] = "wechat" /\ "wechat" \in Offered(t)
  /\ \/ /\ Authorised /\ Set(checked, t, TRUE)
        /\ UNCHANGED <<at, shown, refunds, channel, due, stopped, reply, answers, wechatVars>>
     \/ /\ world.oauth
        /\ Authorize(t) /\ LeaveFor(t, "wechat")
     \/ /\ ~world.oauth
        /\ LeaveFor(t, "denied") /\ UNCHANGED oauthVars
  /\ UNCHANGED <<world, serverVars, simVars>>

\* WeChat sends the tab to the callback, where it may load the page again.
OauthCallback(t) ==
  /\ at[t] \in {"wechat", "denied"}
  /\ SendCallback(t)
  /\ UNCHANGED <<world, serverVars, simVars, pageVars, sdkVars, ticketVars, keyVars>>

OauthLost(t) ==
  /\ LoseCallback(t)
  /\ UNCHANGED <<world, serverVars, simVars, pageVars, sdkVars, ticketVars, keyVars>>

OauthAnswer(t) ==
  /\ \E exchanged \in BOOLEAN :
       /\ AnswerCallback(t, exchanged)
       /\ Set(at, t, IF exchanged /\ trip[t].head # Refused THEN "away" ELSE "denied")
  /\ UNCHANGED <<world, serverVars, simVars, shown, refunds, channel, due,
                 stopped, reply, answers, checked, sdkVars, ticketVars, keyVars>>

-----------------------------------------------------------------------------
(* The pay page *)

OnPay(t) == at[t] = "pay" /\ shown[t] = "pending"
Quiet(t) == reply[t] = NoReply
PageKept(t) == UNCHANGED <<at, shown, refunds, channel, due, stopped, answers, checked>>

PickChannel(t) ==
  /\ OnPay(t) /\ due[t] = NoPayment
  /\ \E c \in Offered(t) \ {channel[t]} : Set(channel, t, c)
  /\ UNCHANGED <<world, serverVars, simVars, at, shown, refunds, due, stopped,
                 reply, answers, checked, wechatVars>>

\* Alipay's simulator registers the trade at once, wechat's does not.
Precreated(p) == trade' = [trade EXCEPT ![p] = "open"]
Ordered(p) == UNCHANGED trade

\* The gateway takes the order, or not.
CreatePayment(t, p, c, ok) ==
  /\ pay' = [pay EXCEPT ![p] =
       IF ok THEN Row("pending", c, PayloadOf(ProductFor(t, c)))
             ELSE Row("failed", c, "none")]
  /\ IF ok /\ c = "alipay" THEN Precreated(p) ELSE Ordered(p)

\* POST /orders/:id/pay: the pending payment with its payload, whatever
\* channel and browser it was made for, or a new one.
PayClick(t) ==
  /\ OnPay(t) /\ due[t] = NoPayment /\ channel[t] # NoChannel
  /\ Quiet(t) /\ step[t] = "none"
  /\ \/ /\ order # "pending"
        /\ Set(reply, t, Answer("pay", "error", NoPayment))
        /\ UNCHANGED <<pay, trade>>
     \/ \E p \in With("pending") :
        /\ order = "pending"
        /\ Set(reply, t, Answer("pay", "ok", p))
        /\ UNCHANGED <<pay, trade>>
     \/ \E p \in With("none") \cap 1..world.payments, ok \in BOOLEAN :
        /\ order = "pending" /\ With("pending") = {}
        /\ \A q \in With("none") : p <= q
        /\ CreatePayment(t, p, channel[t], ok)
        /\ Set(reply, t, IF ok THEN Answer("pay", "ok", p)
                               ELSE Answer("pay", "error", NoPayment))
  /\ PageKept(t)
  /\ UNCHANGED <<world, order, had, underway, post, wechatVars>>

\* The answer of pay: an error, the cashier of the channel, the JS-SDK, or a
\* QR code on the page.
PayAnswer(t) ==
  LET p == reply[t].payment IN
  /\ reply[t].kind = "pay"
  /\ \/ /\ reply[t].outcome = "error"
        /\ Set(reply, t, NoReply) /\ PageKept(t) /\ UNCHANGED wechatVars
     \/ /\ reply[t].outcome = "ok" /\ pay[p].payload = "redirect"
        /\ LeaveFor(t, "channel") /\ UNCHANGED oauthVars
     \/ /\ reply[t].outcome = "ok" /\ pay[p].payload = "params"
        /\ Set(reply, t, NoReply) /\ PageKept(t)
        /\ GoTo(t, "asking")
        /\ UNCHANGED <<promise, script, oauthVars, ticketVars, keyVars>>
     \/ /\ reply[t].outcome = "ok" /\ pay[p].payload = "qr"
        /\ Set(reply, t, NoReply) /\ Set(due, t, p)
        /\ UNCHANGED <<at, shown, refunds, channel, stopped, answers, checked, wechatVars>>
  /\ UNCHANGED <<world, serverVars, simVars>>

\* POST /payments/:id/confirm, of the mock channel only.
ConfirmMock(t) ==
  /\ OnPay(t) /\ due[t] # NoPayment /\ pay[due[t]].provider = "mock" /\ Quiet(t)
  /\ Set(reply, t, Answer("confirm",
       IF Booked(due[t]) \/ Bookable(due[t]) THEN "ok" ELSE "error", due[t]))
  /\ ConfirmByWebhookEvent(due[t])
  /\ PageKept(t)
  /\ UNCHANGED <<world, simVars, wechatVars>>

\* Fault: the page believes that it has paid whatever the answer is.
BelievedAnyway(outcome) == TRUE

Believed(outcome) == outcome = "ok"

ConfirmAnswer(t) ==
  /\ reply[t].kind = "confirm"
  /\ Set(reply, t, NoReply)
  /\ Set(shown, t, IF Believed(reply[t].outcome) THEN "paid" ELSE shown[t])
  /\ UNCHANGED <<world, serverVars, simVars, at, refunds, channel, due,
                 stopped, answers, checked, wechatVars>>

\* refreshStatus: what the api answers now, and the page hears later.
RefreshStatus(t) ==
  /\ Set(answers, t, answers[t] \cup {order})
  /\ UNCHANGED <<world, serverVars, simVars, at, shown, refunds, channel, due,
                 stopped, reply, checked, wechatVars>>

Polls(t) == due[t] # NoPayment /\ ~stopped[t]

\* Every three seconds, whether or not the last answer has come.
PollTick(t) == OnPay(t) /\ Polls(t) /\ RefreshStatus(t)

\* "I have paid": for a QR code of a real channel.
RefreshClick(t) ==
  OnPay(t) /\ due[t] # NoPayment /\ pay[due[t]].provider # "mock" /\ RefreshStatus(t)

PollTimeout(t) ==
  /\ OnPay(t) /\ Polls(t)
  /\ Set(stopped, t, TRUE)
  /\ UNCHANGED <<world, serverVars, simVars, at, shown, refunds, channel, due,
                 reply, answers, checked, wechatVars>>

\* Fault: the page only listens for a payment.
ListensForPaid(old, new) == IF new \in PAID_STATUSES THEN new ELSE old

NextShown(old, new) == new

\* One of the answers arrives, in whatever order.
HearStatus(t, s) ==
  /\ at[t] = "pay" /\ s \in answers[t]
  /\ Set(answers, t, answers[t] \ {s})
  /\ Set(shown, t, NextShown(shown[t], s))
  /\ UNCHANGED <<world, serverVars, simVars, at, refunds, channel, due,
                 stopped, reply, checked, wechatVars>>

\* Or an error does: the page waits for the next one, or must log in again.
StatusLost(t, s) ==
  /\ at[t] = "pay" /\ s \in answers[t]
  /\ \/ /\ Set(answers, t, answers[t] \ {s})
        /\ UNCHANGED <<at, shown, refunds, channel, due, stopped, reply, checked, wechatVars>>
     \/ LeaveFor(t, "login") /\ UNCHANGED oauthVars
  /\ UNCHANGED <<world, serverVars, simVars>>

\* The answer to a button is lost, whatever the api did.
ReplyLost(t) ==
  /\ reply[t].outcome = "ok"
  /\ reply' = [reply EXCEPT ![t].outcome = "error"]
  /\ PageKept(t)
  /\ UNCHANGED <<world, serverVars, simVars, wechatVars>>

-----------------------------------------------------------------------------
(* The JS-SDK *)

\* Any step of handleJsapiParams before its sheet.
JsapiStep(t) ==
  /\ AskSignature(t) \/ LoadWechatJssdk(t) \/ ScriptSettles(t) \/ ConfigureWx(t)
  /\ UNCHANGED <<world, serverVars, simVars, pageVars>>

TicketStep ==
  /\ \/ \E ok \in BOOLEAN : TicketLoaded(ok)
     \/ TicketExpires
  /\ UNCHANGED <<world, serverVars, simVars, pageVars>>

\* The sheet is paid, and the page asks once for the status; or it is closed.
SheetDone(t) ==
  /\ step[t] = "sheet"
  /\ GoTo(t, "none")
  /\ \/ \E p \in Payments :
          /\ pay[p].payload = "params" /\ trade[p] = "paid"
          /\ Set(answers, t, answers[t] \cup {order})
     \/ UNCHANGED answers
  /\ UNCHANGED <<world, serverVars, simVars, at, shown, refunds, channel, due, stopped,
                 reply, checked, promise, script, oauthVars, ticketVars, keyVars>>

-----------------------------------------------------------------------------
(* The order page *)

OnOrder(t) == at[t] = "order" /\ Quiet(t)

OffersCancel(t) == shown[t] \in {"pending", "paid"} /\ ~refunds[t]

\* POST /orders/:id/cancel: offered for what the page shows, decided on what
\* the order is, and the channel may refuse the refund.
CancelClick(t) ==
  /\ OnOrder(t) /\ OffersCancel(t)
  /\ \/ /\ Cancellable /\ CancelOrder
        /\ Set(reply, t, Answer("cancel", "ok", NoPayment))
     \/ /\ ~Cancellable \/ order = "paid"
        /\ Set(reply, t, Answer("cancel", "error", NoPayment))
        /\ UNCHANGED serverVars
  /\ PageKept(t)
  /\ UNCHANGED <<world, simVars, wechatVars>>

\* POST /orders/:id/confirm
ReceiptClick(t) ==
  /\ OnOrder(t) /\ shown[t] = "shipped"
  /\ IF order = "shipped"
     THEN /\ MoveOrder("completed") /\ UNCHANGED pay
          /\ Set(reply, t, Answer("receipt", "ok", NoPayment))
     ELSE /\ Set(reply, t, Answer("receipt", "error", NoPayment))
          /\ UNCHANGED serverVars
  /\ PageKept(t)
  /\ UNCHANGED <<world, simVars, wechatVars>>

\* router.invalidate: the loader runs again, on the order of that time.
OrderPageAnswer(t) ==
  /\ reply[t].kind \in {"cancel", "receipt"}
  /\ Set(reply, t, NoReply)
  /\ IF reply[t].outcome = "ok" THEN Set(shown, t, order) /\ ReadRefunds(t)
                                  ELSE UNCHANGED <<shown, refunds>>
  /\ UNCHANGED <<world, serverVars, simVars, at, channel, due, stopped, answers,
                 checked, wechatVars>>

-----------------------------------------------------------------------------
(* The simulator, and the rest of the shop *)

\* A paid trade is notified once; bounds: the payments of the scenario, and one
\* notification of a payment at a time.
BuildSimulatedCallback(p) ==
  /\ p <= world.payments /\ post[p] = "none"
  /\ post' = [post EXCEPT ![p] = "sent"]

\* /__simulate__/pay and /__simulate__/alipay/pay: paid, whatever became of the
\* trade.
SimulatePayment(p) ==
  /\ pay[p].payload # "none" /\ pay[p].provider = "wechat"
  /\ trade' = [trade EXCEPT ![p] = "paid"]
  /\ BuildSimulatedCallback(p)
  /\ UNCHANGED <<world, serverVars, pageVars, wechatVars>>

SimulateAlipayPayment(p) ==
  /\ pay[p].payload # "none" /\ pay[p].provider = "alipay"
  /\ trade' = [trade EXCEPT ![p] = "paid"]
  /\ BuildSimulatedCallback(p)
  /\ UNCHANGED <<world, serverVars, pageVars, wechatVars>>

\* /__simulate__/close and /__simulate__/alipay/close: a trade that is
\* registered, and wechat's simulator registers it when it is paid.
CloseTransaction(p) ==
  /\ p <= world.payments /\ pay[p].provider = "wechat" /\ trade[p] = "paid"
  /\ trade' = [trade EXCEPT ![p] = "closed"]
  /\ UNCHANGED <<world, serverVars, post, pageVars, wechatVars>>

CloseAlipayTransaction(p) ==
  /\ pay[p].provider = "alipay" /\ trade[p] \in {"open", "paid"}
  /\ trade' = [trade EXCEPT ![p] = "closed"]
  /\ UNCHANGED <<world, serverVars, post, pageVars, wechatVars>>

\* Both simulators post to the one address they were started with.
Address == world.notify

\* Only wechat's gateway looks for the key that signed a notification, and
\* joins or starts a fetch if it may.
NeedsKey(p) == pay[p].provider = "wechat" /\ Address = "wechat" /\ ~known /\ ~throttled

\* Every gateway refuses what another channel has signed.
WechatVerifies(p) == Address = "wechat" /\ pay[p].provider = "wechat" /\ known
AlipayVerifies(p) == Address = "alipay" /\ pay[p].provider = "alipay"
Verified(p) == WechatVerifies(p) \/ AlipayVerifies(p)

\* POST /payments/notify/:channel
NotifyArrives(p) ==
  /\ post[p] = "sent"
  /\ \/ /\ NeedsKey(p)
        /\ post' = [post EXCEPT ![p] = "waiting"]
        /\ fetching' = IF fetching = "none" THEN "flying" ELSE fetching
        /\ UNCHANGED <<rotated, known, throttled, serverVars>>
     \/ /\ ~NeedsKey(p)
        /\ post' = [post EXCEPT ![p] = "none"]
        /\ IF Verified(p) THEN ConfirmByWebhookEvent(p) ELSE UNCHANGED serverVars
        /\ UNCHANGED keyVars
  /\ UNCHANGED <<world, trade, pageVars, oauthVars, sdkVars, ticketVars>>

\* The fetch it waited for has ended: verified now, or refused.
NotifyResumes(p) ==
  /\ post[p] = "waiting" /\ fetching # "flying"
  /\ post' = [post EXCEPT ![p] = "none"]
  /\ IF known THEN ConfirmByWebhookEvent(p) ELSE UNCHANGED serverVars
  /\ UNCHANGED <<world, trade, pageVars, wechatVars>>

\* A channel that was not told of success sends the notification again; the
\* simulator does not.
Resend(p) ==
  /\ world.resends
  /\ trade[p] = "paid" /\ post[p] = "none" /\ pay[p].status = "pending"
  /\ post' = [post EXCEPT ![p] = "sent"]
  /\ UNCHANGED <<world, trade, serverVars, pageVars, wechatVars>>

NotifyLost(p) ==
  /\ post[p] = "sent"
  /\ post' = [post EXCEPT ![p] = "none"]
  /\ UNCHANGED <<world, trade, serverVars, pageVars, wechatVars>>

KeyStep ==
  /\ world.rotates
  /\ RotateKey \/ ThrottleElapses \/ \E ok \in BOOLEAN : KeysFetched(ok)
  /\ UNCHANGED <<world, serverVars, simVars, pageVars>>

CookieStep ==
  /\ StateExpires
  /\ UNCHANGED <<world, serverVars, simVars, pageVars, sdkVars, ticketVars, keyVars>>

\* The worker's reconciliation asks the channel about a pending payment.
Reconcile(p) ==
  /\ pay[p].status = "pending" /\ pay[p].provider # "mock"
  /\ \/ QueryPayment(p) = "paid" /\ ConfirmByWebhookEvent(p)
     \/ QueryPayment(p) = "closed" /\ SetPay({p}, "cancelled")
        /\ UNCHANGED <<order, had, underway>>
  /\ UNCHANGED <<world, simVars, pageVars, wechatVars>>

\* Shipping and a refund where no administrator is modelled, a cancel by a
\* customer who is not, the jobs that complete an order or find it not paid in
\* time, and the end of a refund.
ShopStep ==
  /\ \/ order = "paid" /\ world.desks = {} /\ MoveOrder("shipped") /\ UNCHANGED pay
     \/ order = "shipped" /\ MoveOrder("completed") /\ UNCHANGED pay
     \/ order = "pending" /\ CancelOrder
     \/ order = "paid" /\ world.desks # {} /\ Cancellable /\ CancelOrder
     \/ /\ world.refunds /\ world.desks = {} /\ order \in Refundable /\ ~underway
        /\ underway' = TRUE /\ UNCHANGED <<order, had, pay>>
     \/ /\ underway
        /\ underway' = FALSE
        /\ \/ /\ SetPay(With("succeeded"), "refunded")
              /\ order' = IF order \in Refundable THEN "refunded" ELSE order
              /\ had' = had \cup {order'}
           \/ UNCHANGED <<order, had, pay>>
  /\ UNCHANGED <<world, simVars, pageVars, wechatVars>>

-----------------------------------------------------------------------------
PayPageStep(t) ==
  \/ CheckOpenid(t) \/ PickChannel(t) \/ PayClick(t) \/ PayAnswer(t)
  \/ ConfirmMock(t) \/ ConfirmAnswer(t)
  \/ PollTick(t) \/ RefreshClick(t) \/ PollTimeout(t)
  \/ \E s \in OrderStatus : HearStatus(t, s) \/ StatusLost(t, s)

TabStep(t) ==
  \/ OpenPage(t) \/ LeavePage(t) \/ LoaderFails(t)
  \/ OauthCallback(t) \/ OauthLost(t) \/ OauthAnswer(t)
  \/ PayPageStep(t) \/ JsapiStep(t) \/ SheetDone(t)
  \/ CancelClick(t) \/ ReceiptClick(t) \/ OrderPageAnswer(t) \/ ReplyLost(t)

PaymentStep(p) ==
  \/ SimulatePayment(p) \/ SimulateAlipayPayment(p)
  \/ CloseTransaction(p) \/ CloseAlipayTransaction(p)
  \/ NotifyArrives(p) \/ NotifyResumes(p) \/ Resend(p) \/ NotifyLost(p) \/ Reconcile(p)

Next ==
  \/ \E t \in Tabs : TabStep(t)
  \/ \E p \in Payments : PaymentStep(p)
  \/ TicketStep \/ KeyStep \/ CookieStep \/ ShopStep

Spec == Init /\ [][Next]_vars

\* Timers fire, and not every answer is lost; a channel that resends does so,
\* the minute passes, and a fetch of the keys ends, and not always badly.
Fairness ==
  /\ \A t \in Tabs : WF_vars(PollTick(t)) /\ SF_vars(HearStatus(t, order))
  /\ \A p \in Payments :
       /\ WF_vars(Resend(p)) /\ SF_vars(NotifyArrives(p)) /\ WF_vars(NotifyResumes(p))
  /\ WF_vars(KeyStep) /\ SF_vars(KeysFetched(TRUE) /\ KeyStep)

FairSpec == Spec /\ Fairness

-----------------------------------------------------------------------------
(* What holds *)

\* A page shows a status the order has had, however its answers are lost or
\* overtaken; the pay page calls itself paid without asking (pay.tsx).
ShownWasTrue == \A t \in Tabs : shown[t] \in had

\* An open pay page with a QR code hears that the order is not pending any more
\* (the comment above the poll in pay.tsx), unless the five minutes are over.
PollingPageCatchesUp ==
  \A t \in Tabs :
    OnPay(t) /\ Polls(t) /\ order # "pending" ~> ~(OnPay(t) /\ Polls(t))

\* A channel that sends its notification again until it is taken has the order
\* settled, though it signs with a key the gateway has yet to fetch.
PaidTradeIsHeard ==
  \A p \in Payments :
    world.resends /\ trade[p] = "paid" /\ pay[p].status = "pending"
        /\ pay[p].provider = world.notify
      ~> order # "pending" \/ trade[p] # "paid" \/ pay[p].status # "pending"
=============================================================================

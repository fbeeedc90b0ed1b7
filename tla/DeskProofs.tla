----------------------------- MODULE DeskProofs -----------------------------
(***************************************************************************)
(* What TLAPS proves of Cashier, WechatChannel and OrderDesk, for every    *)
(* set of tabs, desks, requests and scenarios: type correctness, that a    *)
(* page shows a status its order has had, that an authorised tab comes     *)
(* back where it left and a nonce whose callback was answered is not       *)
(* accepted again, that a shipped order was announced once, and that only  *)
(* a page that is out of date ships an order into a refund.                *)
(***************************************************************************)
EXTENDS OrderDesk, TLAPS

-----------------------------------------------------------------------------
(* The parts of the type invariant *)

PayRow == [status: {"none", "pending", "succeeded", "failed", "cancelled", "refunded"},
           provider: Channels \cup {NoChannel}, payload: Payloads \cup {"none"}]
Replies == [kind: {"none", "pay", "confirm", "cancel", "receipt"},
            outcome: {"none", "ok", "error"}, payment: Payments \cup {NoPayment}]
Places == InSpa \cup {"away", "channel", "wechat", "login", "error", "denied"}

ServerTyped ==
  /\ order \in OrderStatus /\ had \subseteq OrderStatus /\ underway \in BOOLEAN
  /\ pay \in [Payments -> PayRow]

SimTyped ==
  /\ trade \in [Payments -> {"none", "open", "paid", "closed"}]
  /\ post \in [Payments -> {"none", "sent", "waiting"}]

PageTyped ==
  /\ at \in [Tabs -> Places] /\ shown \in [Tabs -> OrderStatus]
  /\ refunds \in [Tabs -> BOOLEAN] /\ stopped \in [Tabs -> BOOLEAN]
  /\ checked \in [Tabs -> BOOLEAN] /\ channel \in [Tabs -> Channels \cup {NoChannel}]
  /\ due \in [Tabs -> Payments \cup {NoPayment}]
  /\ reply \in [Tabs -> Replies] /\ answers \in [Tabs -> SUBSET OrderStatus]

LEMMA TypeParts ==
  TypeOK <=> WechatTypeOK /\ world \in Scenarios /\ ServerTyped /\ SimTyped /\ PageTyped
BY DEF TypeOK, ServerTyped, SimTyped, PageTyped, PayRow, Replies, Places

-----------------------------------------------------------------------------
(* What a step does to the order *)

\* The order has the statuses it had; a booked payment made it paid; neither a
\* pending nor a paid order was ever shipped; a refund needs a paid order.
ServerInv ==
  /\ order \in had /\ "pending" \in had
  /\ \A p \in Payments : pay[p].status = "succeeded" => "paid" \in had
  /\ order \in {"pending", "paid"} => "shipped" \notin had
  /\ underway => order # "pending"

\* However the order moves.
Moved ==
  /\ ServerTyped'
  /\ had \subseteq had' /\ had' \subseteq had \cup {order'} /\ order' \in had'
  /\ order' = "pending" => order = "pending"
  /\ order' = "paid" => order \in {"pending", "paid"}
  /\ \A p \in Payments :
       pay'[p].status = "succeeded" => pay[p].status = "succeeded" \/ "paid" \in had'
  /\ underway' => underway \/ order' # "pending"

\* Where administrators are modelled, nobody else ships, or begins a refund of
\* an order that stays paid.
LeftToDesks ==
  world.desks # {} =>
    /\ order' = "shipped" => order = "shipped"
    /\ underway' /\ order' = "paid" => underway /\ order = "paid"

LEMMA StandsStill ==
  ASSUME ServerTyped, ServerInv, UNCHANGED serverVars
  PROVE  Moved /\ LeftToDesks
BY DEF ServerTyped, ServerInv, serverVars, Moved, LeftToDesks

\* A payment that gets another status is still a payment.
LEMMA SetPayTyped ==
  ASSUME ServerTyped, NEW S, NEW s \in {"succeeded", "cancelled", "refunded"}, SetPay(S, s)
  PROVE  /\ pay' \in [Payments -> PayRow]
         /\ \A p \in Payments : pay'[p].status = (IF p \in S THEN s ELSE pay[p].status)
BY DEF ServerTyped, SetPay, PayRow

LEMMA ConfirmMoves ==
  ASSUME ServerTyped, ServerInv, NEW p \in Payments, ConfirmByWebhookEvent(p)
  PROVE  Moved /\ LeftToDesks
<1>1. CASE Bookable(p)
  <2>1. SetPay({p}, "succeeded") /\ MoveOrder("paid") /\ order = "pending"
    BY <1>1 DEF ConfirmByWebhookEvent, Bookable
  <2> QED
    BY <2>1, SetPayTyped DEF ServerTyped, ServerInv, Moved, LeftToDesks, MoveOrder, OrderStatus
<1>2. CASE ~Bookable(p)
  BY <1>2, StandsStill DEF ConfirmByWebhookEvent
<1> QED
  BY <1>1, <1>2

LEMMA CancelMoves ==
  ASSUME ServerTyped, ServerInv, CancelOrder
  PROVE  Moved /\ LeftToDesks
<1>1. CASE order = "pending" /\ SetPay(With("pending"), "cancelled") /\ MoveOrder("cancelled")
  BY <1>1, SetPayTyped DEF ServerTyped, ServerInv, Moved, LeftToDesks, MoveOrder, OrderStatus
<1>2. CASE order = "paid" /\ SetPay(With("succeeded"), "refunded") /\ MoveOrder("cancelled")
  BY <1>2, SetPayTyped DEF ServerTyped, ServerInv, Moved, LeftToDesks, MoveOrder, OrderStatus
<1>3. CASE /\ order' = "cancelled" /\ had' = had \cup {"cancelled"} /\ underway' = TRUE
           /\ UNCHANGED pay
  BY <1>3 DEF ServerTyped, ServerInv, Moved, LeftToDesks, OrderStatus
<1> QED
  BY <1>1, <1>2, <1>3 DEF CancelOrder

LEMMA CompleteMoves ==
  ASSUME ServerTyped, ServerInv, order = "shipped", MoveOrder("completed"), UNCHANGED pay
  PROVE  Moved /\ LeftToDesks
BY DEF ServerTyped, ServerInv, Moved, LeftToDesks, MoveOrder, OrderStatus

LEMMA ShopMoves ==
  ASSUME ServerTyped, ServerInv, ShopStep
  PROVE  Moved /\ LeftToDesks
<1>1. CASE order = "paid" /\ world.desks = {} /\ MoveOrder("shipped") /\ UNCHANGED pay
  BY <1>1 DEF ServerTyped, ServerInv, Moved, LeftToDesks, MoveOrder, OrderStatus
<1>2. CASE order = "shipped" /\ MoveOrder("completed") /\ UNCHANGED pay
  BY <1>2, CompleteMoves
<1>3. CASE CancelOrder
  BY <1>3, CancelMoves
<1>4. CASE /\ world.desks = {} /\ order \in Refundable
           /\ underway' = TRUE /\ UNCHANGED <<order, had, pay>>
  BY <1>4 DEF ServerTyped, ServerInv, Moved, LeftToDesks, Refundable
<1>5. CASE underway' = FALSE /\ UNCHANGED <<order, had, pay>>
  BY <1>5 DEF ServerTyped, ServerInv, Moved, LeftToDesks
<1>6. CASE /\ underway' = FALSE /\ SetPay(With("succeeded"), "refunded")
           /\ order' = IF order \in Refundable THEN "refunded" ELSE order
           /\ had' = had \cup {order'}
  BY <1>6, SetPayTyped DEF ServerTyped, ServerInv, Moved, LeftToDesks, Refundable, OrderStatus
<1> QED
  BY <1>1, <1>2, <1>3, <1>4, <1>5, <1>6 DEF ShopStep

LEMMA ReconcileMoves ==
  ASSUME ServerTyped, ServerInv, NEW p \in Payments, Reconcile(p)
  PROVE  Moved /\ LeftToDesks
<1>1. CASE ConfirmByWebhookEvent(p)
  BY <1>1, ConfirmMoves
<1>2. CASE SetPay({p}, "cancelled") /\ UNCHANGED <<order, had, underway>>
  BY <1>2, SetPayTyped DEF ServerTyped, ServerInv, Moved, LeftToDesks
<1> QED
  BY <1>1, <1>2 DEF Reconcile

LEMMA NotifyMoves ==
  ASSUME ServerTyped, ServerInv, NEW p \in Payments, NotifyArrives(p) \/ NotifyResumes(p)
  PROVE  Moved /\ LeftToDesks
<1>1. UNCHANGED serverVars \/ ConfirmByWebhookEvent(p)
  BY DEF NotifyArrives, NotifyResumes
<1> QED
  BY <1>1, ConfirmMoves, StandsStill

\* What the customer asks of the api.
LEMMA PayClickMoves ==
  ASSUME ServerTyped, ServerInv, channel \in [Tabs -> Channels \cup {NoChannel}],
         NEW t \in Tabs, PayClick(t)
  PROVE  Moved /\ LeftToDesks
<1>1. CASE UNCHANGED pay
  BY <1>1, StandsStill DEF PayClick, serverVars
<1>2. ASSUME NEW p \in With("none"), NEW ok \in BOOLEAN, CreatePayment(t, p, channel[t], ok)
      PROVE  Moved /\ LeftToDesks
  <2> DEFINE row == IF ok THEN Row("pending", channel[t], PayloadOf(ProductFor(t, channel[t])))
                          ELSE Row("failed", channel[t], "none")
  <2>1. row \in PayRow /\ row.status # "succeeded"
    BY DEF Row, PayRow, PayloadOf, Payloads
  <2>2. pay' = [pay EXCEPT ![p] = row]
    BY <1>2 DEF CreatePayment
  <2> HIDE DEF row
  <2>3. /\ pay' \in [Payments -> PayRow]
        /\ \A q \in Payments :
             pay'[q].status = "succeeded" => pay[q].status = "succeeded"
    BY <2>1, <2>2 DEF ServerTyped
  <2>4. UNCHANGED <<order, had, underway>>
    BY DEF PayClick
  <2> QED
    BY <2>3, <2>4 DEF ServerTyped, ServerInv, Moved, LeftToDesks
<1> QED
  BY <1>1, <1>2 DEF PayClick

LEMMA ClickMoves ==
  ASSUME ServerTyped, ServerInv, due \in [Tabs -> Payments \cup {NoPayment}], NEW t \in Tabs,
         ConfirmMock(t) \/ CancelClick(t) \/ ReceiptClick(t)
  PROVE  Moved /\ LeftToDesks
<1>1. CASE ConfirmMock(t)
  BY <1>1, ConfirmMoves DEF ConfirmMock
<1>2. CASE CancelClick(t)
  BY <1>2, CancelMoves, StandsStill DEF CancelClick
<1>3. CASE ReceiptClick(t)
  BY <1>3, CompleteMoves, StandsStill DEF ReceiptClick
<1> QED
  BY <1>1, <1>2, <1>3

\* Every step of the shop and of the customer.
LEMMA ServerStep ==
  ASSUME TypeOK, ServerInv, Next
  PROVE  Moved /\ LeftToDesks
<1> USE TypeParts
<1>1. ASSUME NEW t \in Tabs, TabStep(t) PROVE Moved /\ LeftToDesks
  <2>1. CASE PayClick(t)
    BY <2>1, PayClickMoves DEF PageTyped
  <2>2. CASE ConfirmMock(t) \/ CancelClick(t) \/ ReceiptClick(t)
    BY <2>2, ClickMoves DEF PageTyped
  <2>3. CASE \/ OpenPage(t) \/ LeavePage(t) \/ LoaderFails(t) \/ OauthCallback(t)
             \/ OauthLost(t) \/ OauthAnswer(t) \/ CheckOpenid(t) \/ JsapiStep(t) \/ SheetDone(t)
    BY <2>3, StandsStill DEF OpenPage, LeavePage, LoaderFails, OauthCallback,
       OauthLost, OauthAnswer, CheckOpenid, JsapiStep, SheetDone
  <2>4. CASE \/ PickChannel(t) \/ PayAnswer(t) \/ ConfirmAnswer(t) \/ PollTick(t)
             \/ RefreshClick(t) \/ PollTimeout(t) \/ OrderPageAnswer(t) \/ ReplyLost(t)
    BY <2>4, StandsStill DEF PickChannel, PayAnswer, ConfirmAnswer, PollTick,
       RefreshClick, RefreshStatus, PollTimeout, OrderPageAnswer, ReplyLost
  <2>5. ASSUME NEW s \in OrderStatus, HearStatus(t, s) \/ StatusLost(t, s)
        PROVE  Moved /\ LeftToDesks
    BY <2>5, StandsStill DEF HearStatus, StatusLost
  <2> QED
    BY <1>1, <2>1, <2>2, <2>3, <2>4, <2>5 DEF TabStep, PayPageStep
<1>2. ASSUME NEW p \in Payments, PaymentStep(p) PROVE Moved /\ LeftToDesks
  <2>1. CASE NotifyArrives(p) \/ NotifyResumes(p)
    BY <2>1, NotifyMoves
  <2>2. CASE Reconcile(p)
    BY <2>2, ReconcileMoves
  <2>3. CASE \/ SimulatePayment(p) \/ SimulateAlipayPayment(p) \/ CloseTransaction(p)
             \/ CloseAlipayTransaction(p) \/ Resend(p) \/ NotifyLost(p)
    BY <2>3, StandsStill DEF SimulatePayment, SimulateAlipayPayment, CloseTransaction,
       CloseAlipayTransaction, Resend, NotifyLost
  <2> QED
    BY <1>2, <2>1, <2>2, <2>3 DEF PaymentStep
<1>3. CASE TicketStep \/ KeyStep \/ CookieStep
  BY <1>3, StandsStill DEF TicketStep, KeyStep, CookieStep
<1>4. CASE ShopStep
  BY <1>4, ShopMoves
<1> QED
  BY <1>1, <1>2, <1>3, <1>4 DEF Next

\* A move keeps what is known of the order.
LEMMA MovedKeeps ==
  ASSUME ServerTyped, ServerInv, Moved
  PROVE  ServerInv'
BY DEF ServerTyped, ServerInv, Moved
-----------------------------------------------------------------------------
(* The simulator *)

\* The scenario is given.
LEMMA SimStep ==
  ASSUME TypeOK, Next
  PROVE  SimTyped' /\ UNCHANGED world
<1> USE DEF SimTyped
<1>0. SimTyped
  BY TypeParts
<1>1. ASSUME NEW t \in Tabs, TabStep(t) PROVE SimTyped' /\ UNCHANGED world
  <2>1. CASE PayClick(t)
    BY <1>0, <2>1 DEF PayClick, CreatePayment, Precreated, Ordered, With
  <2>2. CASE \/ OpenPage(t) \/ LeavePage(t) \/ LoaderFails(t) \/ OauthCallback(t)
             \/ OauthLost(t) \/ OauthAnswer(t) \/ CheckOpenid(t) \/ JsapiStep(t) \/ SheetDone(t)
    BY <1>0, <2>2 DEF OpenPage, LeavePage, LoaderFails, OauthCallback, OauthLost, OauthAnswer,
       CheckOpenid, JsapiStep, SheetDone, simVars
  <2>3. CASE \/ PickChannel(t) \/ PayAnswer(t) \/ ConfirmMock(t) \/ ConfirmAnswer(t)
             \/ PollTick(t) \/ RefreshClick(t) \/ PollTimeout(t) \/ CancelClick(t)
             \/ ReceiptClick(t) \/ OrderPageAnswer(t) \/ ReplyLost(t)
    BY <1>0, <2>3 DEF PickChannel, PayAnswer, ConfirmMock, ConfirmAnswer, PollTick,
       RefreshClick, RefreshStatus, PollTimeout, CancelClick, ReceiptClick,
       OrderPageAnswer, ReplyLost, simVars
  <2>4. ASSUME NEW s \in OrderStatus, HearStatus(t, s) \/ StatusLost(t, s)
        PROVE  SimTyped' /\ UNCHANGED world
    BY <1>0, <2>4 DEF HearStatus, StatusLost, simVars
  <2> QED
    BY <1>1, <2>1, <2>2, <2>3, <2>4 DEF TabStep, PayPageStep
<1>2. ASSUME NEW p \in Payments, PaymentStep(p) PROVE SimTyped' /\ UNCHANGED world
  <2>1. CASE SimulatePayment(p) \/ SimulateAlipayPayment(p)
    BY <1>0, <2>1 DEF SimulatePayment, SimulateAlipayPayment, BuildSimulatedCallback
  <2>2. CASE CloseTransaction(p) \/ CloseAlipayTransaction(p)
    BY <1>0, <2>2 DEF CloseTransaction, CloseAlipayTransaction
  <2>3. CASE NotifyArrives(p) \/ NotifyResumes(p) \/ Resend(p) \/ NotifyLost(p)
    BY <1>0, <2>3 DEF NotifyArrives, NotifyResumes, Resend, NotifyLost
  <2>4. CASE Reconcile(p)
    BY <1>0, <2>4 DEF Reconcile, simVars
  <2> QED
    BY <1>2, <2>1, <2>2, <2>3, <2>4 DEF PaymentStep
<1>3. CASE TicketStep \/ KeyStep \/ CookieStep \/ ShopStep
  BY <1>0, <1>3 DEF TicketStep, KeyStep, CookieStep, ShopStep, simVars
<1> QED
  BY <1>1, <1>2, <1>3 DEF Next

-----------------------------------------------------------------------------
(* The OAuth trip *)

OauthTyped ==
  /\ jar \in {NoState} \cup [nonce: Nonces, back: Tabs]
  /\ openid \in BOOLEAN
  /\ drawn \in 0..MaxNonce
  /\ trip \in [Tabs -> [nonce: 0..MaxNonce, head: Tabs \cup {Unsent, Refused, Done}]]
  /\ spent \subseteq Nonces

\* Every nonce was drawn for one tab: the cookie holds one that was not
\* answered yet, and names the tab it was drawn for.
OauthInv ==
  /\ OauthTyped
  /\ \A t \in Tabs :
       trip[t].nonce <= drawn /\ (trip[t].head # Done => trip[t].nonce # 0)
  /\ \A n \in spent : n <= drawn
  /\ jar # NoState =>
       /\ jar.nonce <= drawn /\ jar.nonce \notin spent
       /\ \A t \in Tabs : trip[t].nonce = jar.nonce => jar.back = t
  /\ AuthorisedTabReturns

\* What can happen to the cookie and the trips.
OauthMove ==
  \/ UNCHANGED oauthVars
  \/ \E t \in Tabs : Authorize(t) \/ SendCallback(t) \/ LoseCallback(t)
  \/ \E t \in Tabs, exchanged \in BOOLEAN : AnswerCallback(t, exchanged)
  \/ StateExpires

LEMMA OauthKept ==
  ASSUME OauthInv, OauthMove
  PROVE  OauthInv'
<1> USE WechatAssumption DEF Nonces
<1>0. OauthTyped /\ drawn \in Nat
  BY DEF OauthInv, OauthTyped
<1>1. CASE UNCHANGED oauthVars
  BY <1>1 DEF oauthVars, OauthInv, OauthTyped, AuthorisedTabReturns
<1>2. ASSUME NEW t \in Tabs, Authorize(t) PROVE OauthInv'
  <2>1. /\ drawn < MaxNonce /\ drawn' = drawn + 1 /\ UNCHANGED <<openid, spent>>
        /\ jar' = [nonce |-> drawn + 1, back |-> t]
        /\ trip' = [trip EXCEPT ![t] = [nonce |-> drawn + 1, head |-> Unsent]]
    BY <1>2 DEF Authorize
  <2>2. OauthTyped'
    BY <1>0, <2>1 DEF OauthTyped
  <2>3. /\ trip'[t].nonce = drawn + 1 /\ trip'[t].head = Unsent
        /\ \A u \in Tabs : u # t => trip'[u] = trip[u]
    BY <1>0, <2>1 DEF OauthTyped
  <2>4. \A u \in Tabs : trip[u].nonce \in Nat /\ trip[u].nonce <= drawn
    BY <1>0 DEF OauthInv, OauthTyped
  <2>5. \A n \in spent : n \in Nat /\ n <= drawn
    BY <1>0 DEF OauthInv, OauthTyped
  <2>6. \A u \in Tabs :
          trip'[u].nonce <= drawn' /\ (trip'[u].head # Done => trip'[u].nonce # 0)
    BY <1>0, <2>1, <2>3, <2>4 DEF OauthInv
  <2>7. \A n \in spent' : n <= drawn'
    BY <1>0, <2>1, <2>5
  <2>8. /\ jar'.nonce <= drawn' /\ jar'.nonce \notin spent'
        /\ \A u \in Tabs : trip'[u].nonce = jar'.nonce => jar'.back = u
    BY <1>0, <2>1, <2>3, <2>4, <2>5
  <2>9. AuthorisedTabReturns'
    BY <2>3 DEF OauthInv, AuthorisedTabReturns
  <2> QED
    BY <2>2, <2>6, <2>7, <2>8, <2>9 DEF OauthInv
<1>3. ASSUME NEW t \in Tabs, SendCallback(t) PROVE OauthInv'
  <2> DEFINE head == IF StateMatches(t) THEN jar.back ELSE Refused
  <2>1. /\ trip' = [trip EXCEPT ![t].head = head] /\ trip[t].nonce # 0
        /\ UNCHANGED <<jar, openid, drawn, spent>>
    BY <1>3 DEF SendCallback
  <2>2. head \in {t, Refused}
    BY DEF StateMatches, OauthInv
  <2> HIDE DEF head
  <2>3. /\ trip'[t].head = head /\ trip'[t].nonce = trip[t].nonce
        /\ \A u \in Tabs : u # t => trip'[u] = trip[u]
    BY <1>0, <2>1 DEF OauthTyped
  <2>4. OauthTyped'
    BY <1>0, <2>1, <2>2 DEF OauthTyped
  <2> QED
    BY <2>1, <2>2, <2>3, <2>4 DEF OauthInv, AuthorisedTabReturns
<1>4. ASSUME NEW t \in Tabs, NEW exchanged \in BOOLEAN, AnswerCallback(t, exchanged)
      PROVE  OauthInv'
  <2>1. /\ trip' = [trip EXCEPT ![t].head = Done] /\ jar' = NoState
        /\ spent' = spent \cup {trip[t].nonce} /\ trip[t].nonce # 0
        /\ openid' \in BOOLEAN /\ drawn' = drawn
    BY <1>0, <1>4 DEF AnswerCallback, StateRemoved, OauthInv, OauthTyped
  <2>2. /\ trip'[t].head = Done /\ trip'[t].nonce = trip[t].nonce
        /\ \A u \in Tabs : u # t => trip'[u] = trip[u]
    BY <1>0, <2>1 DEF OauthTyped
  <2>3. OauthTyped'
    BY <1>0, <2>1 DEF OauthTyped
  <2> QED
    BY <2>1, <2>2, <2>3 DEF OauthInv, AuthorisedTabReturns
<1>5. CASE StateExpires
  BY <1>5 DEF StateExpires, OauthInv, OauthTyped, AuthorisedTabReturns
<1>6. ASSUME NEW t \in Tabs, LoseCallback(t) PROVE OauthInv'
  <2>1. trip' = [trip EXCEPT ![t].head = Unsent] /\ trip[t].nonce # 0
        /\ UNCHANGED <<jar, openid, drawn, spent>>
    BY <1>6 DEF LoseCallback, OauthInv
  <2>2. /\ trip'[t].head = Unsent /\ trip'[t].nonce = trip[t].nonce
        /\ \A u \in Tabs : u # t => trip'[u] = trip[u]
    BY <1>0, <2>1 DEF OauthTyped
  <2>3. OauthTyped'
    BY <1>0, <2>1 DEF OauthTyped
  <2> QED
    BY <2>1, <2>2, <2>3 DEF OauthInv, AuthorisedTabReturns
<1> QED
  BY <1>1, <1>2, <1>3, <1>4, <1>5, <1>6 DEF OauthMove

\* A callback that is accepted brings the nonce of the cookie.
LEMMA OauthAccepts ==
  ASSUME OauthInv, OauthMove, NEW t \in Tabs,
         trip[t].head \in {Unsent, Done}, trip'[t].head \in Tabs
  PROVE  trip[t].nonce \notin spent
<1> USE WechatAssumption
<1>0. OauthTyped
  BY DEF OauthInv
<1>1. trip' # trip
  OBVIOUS
<1>2. ASSUME NEW u \in Tabs, Authorize(u) PROVE FALSE
  <2>1. trip'[t] \in {trip[t], [nonce |-> drawn + 1, head |-> Unsent]}
    BY <1>0, <1>2 DEF Authorize, OauthTyped
  <2> QED
    BY <2>1
<1>3. ASSUME NEW u \in Tabs, SendCallback(u) PROVE trip[t].nonce \notin spent
  <2>1. u = t /\ trip'[t].head = (IF StateMatches(t) THEN jar.back ELSE Refused)
    BY <1>0, <1>3 DEF SendCallback, OauthTyped
  <2> QED
    BY <2>1 DEF StateMatches, OauthInv
<1>4. ASSUME NEW u \in Tabs, NEW exchanged \in BOOLEAN, AnswerCallback(u, exchanged)
      PROVE  FALSE
  <2>1. trip'[t].head \in {trip[t].head, Done}
    BY <1>0, <1>4 DEF AnswerCallback, OauthTyped
  <2> QED
    BY <2>1
<1>5. ASSUME NEW u \in Tabs, LoseCallback(u) PROVE FALSE
  <2>1. trip'[t].head \in {trip[t].head, Unsent}
    BY <1>0, <1>5 DEF LoseCallback, OauthTyped
  <2> QED
    BY <2>1
<1> QED
  BY <1>1, <1>2, <1>3, <1>4, <1>5 DEF OauthMove, StateExpires, oauthVars

-----------------------------------------------------------------------------
(* Pages, and what else a tab and a gateway hold *)

SdkTyped ==
  /\ promise \in [Tabs -> {"none", "loading", "loaded"}]
  /\ script \in [Tabs -> {"none", "fetching", "failed", "loaded"}]
  /\ step \in [Tabs -> {"none", "asking", "joined", "signed", "loading", "sheet"}]

TicketTyped == ticket \in BOOLEAN /\ inflight \in {"none", "pending"}

KeyTyped ==
  /\ rotated \in BOOLEAN /\ known \in BOOLEAN
  /\ throttled \in BOOLEAN /\ fetching \in {"none", "flying", "failed"}

LEMMA WechatParts ==
  WechatTypeOK <=> OauthTyped /\ SdkTyped /\ TicketTyped /\ KeyTyped
BY DEF WechatTypeOK, OauthTyped, SdkTyped, TicketTyped, KeyTyped

\* What a page shows, and the answers on their way to it, were true once; a
\* page that is about to call itself paid is right.
Told ==
  \A t \in Tabs :
    /\ shown[t] \in had /\ answers[t] \subseteq had
    /\ reply[t].kind = "confirm" /\ reply[t].outcome = "ok" => "paid" \in had

PageInv == PageTyped /\ Told

LEMMA FirstTyped == ASSUME NEW S PROVE First(S) \in Channels \cup {NoChannel}
BY DEF First, Channels

LEMMA PageStands ==
  ASSUME PageInv, had \subseteq had', UNCHANGED pageVars
  PROVE  PageInv'
BY DEF PageInv, PageTyped, Told, pageVars

\* A page that is left is forgotten.
LEMMA PageCleared ==
  ASSUME PageInv, had \subseteq had', NEW t \in Tabs, ClearPage(t),
         at' \in [Tabs -> Places], refunds' \in [Tabs -> BOOLEAN],
         shown' \in [Tabs -> OrderStatus], \A u \in Tabs : shown'[u] \in had'
  PROVE  PageInv'
<1> DEFINE new == First(Offered(t))
<1>1. new \in Channels \cup {NoChannel}
  BY FirstTyped
<1> HIDE DEF new
<1>2. channel' \in [Tabs -> Channels \cup {NoChannel}]
  BY <1>1 DEF ClearPage, Set, PageInv, PageTyped, new
<1>3. /\ due' \in [Tabs -> Payments \cup {NoPayment}] /\ stopped' \in [Tabs -> BOOLEAN]
      /\ checked' \in [Tabs -> BOOLEAN]
  BY DEF ClearPage, Set, PageInv, PageTyped
<1>4. /\ reply' \in [Tabs -> Replies]
      /\ \A u \in Tabs : reply'[u] = reply[u] \/ reply'[u].kind = "none"
  BY DEF ClearPage, Set, PageInv, PageTyped, NoReply, Answer, Replies
<1>5. /\ answers' \in [Tabs -> SUBSET OrderStatus]
      /\ \A u \in Tabs : answers'[u] \subseteq answers[u]
  BY DEF ClearPage, Set, PageInv, PageTyped
<1> QED
  BY <1>2, <1>3, <1>4, <1>5 DEF PageInv, PageTyped, Told

LEMMA PageLeft ==
  ASSUME PageInv, SdkTyped, had \subseteq had', NEW t \in Tabs, NEW page \in Places,
         LeaveFor(t, page)
  PROVE  PageInv' /\ SdkTyped' /\ UNCHANGED <<ticketVars, keyVars>>
<1>1. at' \in [Tabs -> Places]
  BY DEF LeaveFor, Set, PageInv, PageTyped
<1>2. /\ ClearPage(t) /\ UNCHANGED <<shown, refunds>>
  BY DEF LeaveFor
<1>3. PageInv'
  BY <1>1, <1>2, PageCleared DEF PageInv, PageTyped, Told
<1>4. SdkTyped'
  BY DEF LeaveFor, SdkTyped, GoTo, FreshDocument
<1> QED
  BY <1>3, <1>4 DEF LeaveFor

LEMMA PageLoaded ==
  ASSUME TypeOK, PageInv, ServerInv, had \subseteq had', NEW t \in Tabs,
         NEW page \in InSpa, Visit(t, page)
  PROVE  PageInv' /\ SdkTyped' /\ UNCHANGED <<oauthVars, ticketVars, keyVars>>
<1> USE TypeParts, WechatParts
<1>1. at' \in [Tabs -> Places]
  BY DEF Visit, Set, PageInv, PageTyped, Places
<1>2. /\ shown' \in [Tabs -> OrderStatus] /\ refunds' \in [Tabs -> BOOLEAN]
      /\ \A u \in Tabs : shown'[u] \in had'
  BY DEF Visit, Set, PageInv, PageTyped, Told, ReadRefunds, RefundUnderway,
     ServerTyped, ServerInv
<1>3. PageInv'
  BY <1>1, <1>2, PageCleared DEF Visit
<1>4. SdkTyped'
  BY DEF Visit, SdkTyped, GoTo
<1> QED
  BY <1>3, <1>4 DEF Visit

\* The actions that change a page and leave it where it is.
LEMMA PagePlays ==
  ASSUME TypeOK, PageInv, ServerInv, Moved, NEW t \in Tabs,
         \/ PickChannel(t) \/ PayClick(t) \/ ConfirmMock(t) \/ ConfirmAnswer(t)
         \/ PollTick(t) \/ RefreshClick(t) \/ PollTimeout(t)
         \/ CancelClick(t) \/ ReceiptClick(t) \/ OrderPageAnswer(t) \/ ReplyLost(t)
         \/ \E s \in OrderStatus : HearStatus(t, s)
         \/ SheetDone(t)
  PROVE  PageInv'
<1> USE TypeParts
<1>0. /\ PageTyped /\ Told /\ ServerTyped /\ had \subseteq had'
      /\ order \in had /\ order \in OrderStatus
  BY DEF PageInv, Moved, ServerInv, ServerTyped
<1>1. CASE PickChannel(t)
  <2>1. Offered(t) \subseteq Channels
    BY ScenarioAssumption DEF Offered
  <2> QED
    BY <1>0, <1>1, <2>1 DEF PickChannel, Set, PageInv, PageTyped, Told
<1>2. CASE /\ PageKept(t) /\ \E a \in Replies :
                /\ Set(reply, t, a)
                /\ a.kind = "confirm" /\ a.outcome = "ok" => "paid" \in had'
  BY <1>0, <1>2 DEF PageKept, Set, PageInv, PageTyped, Told
<1>3. CASE PayClick(t)
  <2>1. \E p \in Payments \cup {NoPayment}, o \in {"ok", "error"} :
          Set(reply, t, Answer("pay", o, p))
    BY <1>3 DEF PayClick, With
  <2>2. \A p \in Payments \cup {NoPayment}, o \in {"ok", "error"} :
          Answer("pay", o, p) \in Replies /\ Answer("pay", o, p).kind # "confirm"
    BY DEF Answer, Replies
  <2> QED
    BY <1>2, <1>3, <2>1, <2>2 DEF PayClick
<1>4. CASE ConfirmMock(t)
  <2> DEFINE a == Answer("confirm", IF Booked(due[t]) \/ Bookable(due[t])
                                    THEN "ok" ELSE "error", due[t])
  <2>1. a \in Replies /\ due[t] \in Payments
    BY <1>0, <1>4 DEF ConfirmMock, Answer, Replies, PageTyped
  <2>2. a.outcome = "ok" => "paid" \in had'
    <3>1. CASE Booked(due[t])
      BY <1>0, <2>1, <3>1 DEF Booked, ServerInv
    <3>2. CASE Bookable(due[t])
      BY <1>4, <3>2 DEF ConfirmMock, ConfirmByWebhookEvent, MoveOrder
    <3> QED
      BY <3>1, <3>2 DEF Answer
  <2>3. Set(reply, t, a) /\ PageKept(t)
    BY <1>4 DEF ConfirmMock
  <2> HIDE DEF a
  <2> QED
    BY <1>2, <2>1, <2>2, <2>3
<1>5. CASE CancelClick(t) \/ ReceiptClick(t)
  <2>1. PageKept(t) /\ \E k \in {"cancel", "receipt"}, o \in {"ok", "error"} :
                         Set(reply, t, Answer(k, o, NoPayment))
    BY <1>5 DEF CancelClick, ReceiptClick
  <2>2. \A k \in {"cancel", "receipt"}, o \in {"ok", "error"} :
          /\ Answer(k, o, NoPayment) \in Replies
          /\ Answer(k, o, NoPayment).kind # "confirm"
    BY DEF Answer, Replies
  <2> QED
    BY <1>2, <2>1, <2>2
<1>6. CASE ReplyLost(t)
  <2>1. reply' = [reply EXCEPT ![t].outcome = "error"] /\ PageKept(t)
    BY <1>6 DEF ReplyLost
  <2>2. /\ reply' \in [Tabs -> Replies] /\ reply'[t].outcome = "error"
        /\ \A u \in Tabs : u # t => reply'[u] = reply[u]
    BY <1>0, <2>1 DEF PageTyped, Replies
  <2> QED
    BY <1>0, <2>1, <2>2 DEF PageKept, PageInv, PageTyped, Told
<1>7. NoReply \in Replies /\ NoReply.kind = "none"
  BY DEF NoReply, Answer, Replies
<1>8. CASE ConfirmAnswer(t)
  <2> DEFINE s == IF Believed(reply[t].outcome) THEN "paid" ELSE shown[t]
  <2>1. s \in had' /\ s \in OrderStatus
    BY <1>0, <1>8 DEF ConfirmAnswer, Believed, Told, PageTyped, OrderStatus
  <2>2. /\ Set(reply, t, NoReply) /\ Set(shown, t, s)
        /\ UNCHANGED <<at, refunds, channel, due, stopped, answers, checked>>
    BY <1>8 DEF ConfirmAnswer
  <2> HIDE DEF s
  <2> QED
    BY <1>0, <1>7, <2>1, <2>2 DEF Set, PageInv, PageTyped, Told
<1>9. CASE OrderPageAnswer(t)
  <2>1. /\ Set(reply, t, NoReply)
        /\ UNCHANGED <<at, channel, due, stopped, answers, checked>>
    BY <1>9 DEF OrderPageAnswer
  <2>2. /\ shown' \in [Tabs -> OrderStatus] /\ refunds' \in [Tabs -> BOOLEAN]
        /\ \A u \in Tabs : shown'[u] \in had'
    <3>1. CASE UNCHANGED <<shown, refunds>>
      BY <1>0, <3>1 DEF PageTyped, Told
    <3>2. CASE Set(shown, t, order) /\ ReadRefunds(t)
      BY <1>0, <3>2 DEF Set, ReadRefunds, RefundUnderway, ServerTyped, PageTyped, Told
    <3> QED
      BY <1>9, <3>1, <3>2 DEF OrderPageAnswer
  <2> QED
    BY <1>0, <1>7, <2>1, <2>2 DEF Set, PageInv, PageTyped, Told
<1>10. CASE RefreshStatus(t)
  BY <1>0, <1>10 DEF RefreshStatus, Set, PageInv, PageTyped, Told
<1>11. CASE PollTick(t) \/ RefreshClick(t)
  BY <1>10, <1>11 DEF PollTick, RefreshClick
<1>12. CASE PollTimeout(t)
  BY <1>0, <1>12 DEF PollTimeout, Set, PageInv, PageTyped, Told
<1>13. ASSUME NEW s \in OrderStatus, HearStatus(t, s) PROVE PageInv'
  BY <1>0, <1>13 DEF HearStatus, NextShown, Set, PageInv, PageTyped, Told
<1>14. CASE SheetDone(t)
  <2>1. UNCHANGED <<at, shown, refunds, channel, due, stopped, reply, checked>>
    BY <1>14 DEF SheetDone
  <2>2. CASE UNCHANGED answers
    BY <1>0, <2>1, <2>2 DEF PageInv, PageTyped, Told
  <2>3. CASE answers' = [answers EXCEPT ![t] = answers[t] \cup {order}]
    BY <1>0, <2>1, <2>3 DEF PageInv, PageTyped, Told
  <2> QED
    BY <1>14, <2>2, <2>3 DEF SheetDone, Set
<1> QED
  BY <1>1, <1>3, <1>4, <1>5, <1>6, <1>8, <1>9, <1>11, <1>12, <1>13, <1>14

\* What WeChat keeps of a browser and of a gateway, besides the trips.
OthersTyped == SdkTyped /\ TicketTyped /\ KeyTyped

LEMMA OthersStand ==
  ASSUME OthersTyped, UNCHANGED <<sdkVars, ticketVars, keyVars>>
  PROVE  OthersTyped'
BY DEF OthersTyped, SdkTyped, TicketTyped, KeyTyped, sdkVars, ticketVars, keyVars

LEMMA OthersStandToo ==
  ASSUME OthersTyped, SdkTyped', UNCHANGED <<ticketVars, keyVars>>
  PROVE  OthersTyped'
BY DEF OthersTyped, TicketTyped, KeyTyped, ticketVars, keyVars

\* Whatever a step does to pages, trips, documents, tickets and keys.
ClientInv == PageInv /\ OthersTyped

\* The actions of a tab that take it elsewhere, or its documents or trips.
LEMMA TabMoves ==
  ASSUME TypeOK, ClientInv, ServerInv, Moved, NEW t \in Tabs,
         \/ OpenPage(t) \/ LeavePage(t) \/ LoaderFails(t) \/ OauthCallback(t)
         \/ OauthLost(t) \/ OauthAnswer(t) \/ CheckOpenid(t) \/ PayAnswer(t) \/ JsapiStep(t)
         \/ \E s \in OrderStatus : StatusLost(t, s)
  PROVE  ClientInv' /\ OauthMove
<1> USE TypeParts DEF ClientInv
<1>0. /\ PageInv /\ OthersTyped /\ SdkTyped /\ had \subseteq had'
      /\ PageTyped /\ Told
  BY DEF Moved, OthersTyped, PageInv
<1>1. ASSUME NEW page \in Places, LeaveFor(t, page) PROVE ClientInv'
  BY <1>0, <1>1, PageLeft, OthersStandToo
<1>2. UNCHANGED wechatVars => OthersTyped' /\ OauthMove
  BY <1>0, OthersStand DEF wechatVars, OauthMove
<1>3. UNCHANGED oauthVars => OauthMove
  BY DEF OauthMove
<1>4. CASE OpenPage(t)
  <2>1. PICK page \in world.pages[t] : Visit(t, page)
    BY <1>4 DEF OpenPage
  <2>2. page \in InSpa
    BY <2>1, ScenarioAssumption
  <2> QED
    BY <1>0, <1>3, <2>1, <2>2, PageLoaded, OthersStandToo
<1>5. CASE LeavePage(t) \/ LoaderFails(t)
  <2>1. PICK page \in {"away", "login", "error"} : LeaveFor(t, page) /\ UNCHANGED oauthVars
    BY <1>5 DEF LeavePage, LoaderFails
  <2> QED
    BY <1>1, <1>3, <2>1 DEF Places
<1>6. CASE CheckOpenid(t)
  <2>1. CASE /\ Set(checked, t, TRUE)
             /\ UNCHANGED <<at, shown, refunds, channel, due, stopped, reply, answers, wechatVars>>
    BY <1>0, <1>2, <2>1 DEF Set, PageInv, PageTyped, Told
  <2>2. CASE Authorize(t) /\ LeaveFor(t, "wechat")
    BY <1>1, <2>2 DEF OauthMove, Places
  <2>3. CASE LeaveFor(t, "denied") /\ UNCHANGED oauthVars
    BY <1>1, <1>3, <2>3 DEF Places
  <2> QED
    BY <1>6, <2>1, <2>2, <2>3 DEF CheckOpenid
<1>7. CASE OauthCallback(t)
  BY <1>0, <1>7, PageStands, OthersStand DEF OauthCallback, OauthMove
<1>7a. CASE OauthLost(t)
  BY <1>0, <1>7a, PageStands, OthersStand DEF OauthLost, OauthMove
<1>8. CASE OauthAnswer(t)
  <2>1. /\ \E exchanged \in BOOLEAN : AnswerCallback(t, exchanged)
        /\ at' \in [Tabs -> Places]
        /\ UNCHANGED <<shown, refunds, channel, due, stopped, reply, answers, checked,
                       sdkVars, ticketVars, keyVars>>
    BY <1>0, <1>8 DEF OauthAnswer, Set, PageTyped, Places
  <2>2. PageInv'
    BY <1>0, <2>1 DEF PageInv, PageTyped, Told
  <2> QED
    BY <1>0, <2>1, <2>2, OthersStand DEF OauthMove
<1>9. CASE PayAnswer(t)
  <2>1. NoReply \in Replies /\ NoReply.kind = "none"
    BY DEF NoReply, Answer, Replies
  <2>2. Set(reply, t, NoReply) =>
          /\ reply' \in [Tabs -> Replies]
          /\ \A u \in Tabs : reply'[u] = reply[u] \/ reply'[u].kind = "none"
    BY <1>0, <2>1 DEF Set, PageTyped
  <2>3. CASE Set(reply, t, NoReply) /\ PageKept(t) /\ UNCHANGED wechatVars
    BY <1>0, <1>2, <2>2, <2>3 DEF PageKept, PageInv, PageTyped, Told
  <2>4. CASE LeaveFor(t, "channel") /\ UNCHANGED oauthVars
    BY <1>1, <1>3, <2>4 DEF Places
  <2>5. CASE /\ Set(reply, t, NoReply) /\ PageKept(t) /\ GoTo(t, "asking")
             /\ UNCHANGED <<promise, script, oauthVars, ticketVars, keyVars>>
    <3>1. SdkTyped'
      BY <1>0, <2>5 DEF SdkTyped, GoTo
    <3>2. PageInv'
      BY <1>0, <2>2, <2>5 DEF PageKept, PageInv, PageTyped, Told
    <3> QED
      BY <1>0, <1>3, <2>5, <3>1, <3>2, OthersStandToo
  <2>6. CASE /\ Set(reply, t, NoReply) /\ Set(due, t, reply[t].payment)
             /\ UNCHANGED <<at, shown, refunds, channel, stopped, answers, checked, wechatVars>>
    <3>1. reply[t].payment \in Payments \cup {NoPayment}
      BY <1>0 DEF PageTyped, Replies
    <3>2. due' \in [Tabs -> Payments \cup {NoPayment}]
      BY <1>0, <2>6, <3>1 DEF Set, PageTyped
    <3> QED
      BY <1>0, <1>2, <2>2, <2>6, <3>2 DEF PageInv, PageTyped, Told
  <2> QED
    BY <1>9, <2>3, <2>4, <2>5, <2>6 DEF PayAnswer
<1>10. CASE JsapiStep(t)
  <2>1. UNCHANGED <<pageVars, oauthVars, keyVars>>
    BY <1>10 DEF JsapiStep, AskSignature, LoadWechatJssdk, ScriptSettles, ConfigureWx
  <2>2. SdkTyped'
    BY <1>0, <1>10 DEF JsapiStep, AskSignature, GetTicket, LoadWechatJssdk, ScriptSettles,
       ConfigureWx, SdkTyped, GoTo, sdkVars
  <2>3. TicketTyped'
    BY <1>0, <1>10 DEF JsapiStep, AskSignature, GetTicket, LoadWechatJssdk, ScriptSettles,
       ConfigureWx, OthersTyped, TicketTyped, GoTo, ticketVars
  <2> QED
    BY <1>0, <1>3, <2>1, <2>2, <2>3, PageStands DEF OthersTyped, KeyTyped, keyVars
<1>11. ASSUME NEW s \in OrderStatus, StatusLost(t, s) PROVE ClientInv' /\ OauthMove
  <2>1. CASE LeaveFor(t, "login") /\ UNCHANGED oauthVars
    BY <1>1, <1>3, <2>1 DEF Places, InSpa
  <2>2. CASE /\ Set(answers, t, answers[t] \ {s})
             /\ UNCHANGED <<at, shown, refunds, channel, due, stopped, reply, checked, wechatVars>>
    BY <1>0, <1>2, <2>2 DEF Set, PageInv, PageTyped, Told
  <2> QED
    BY <1>11, <2>1, <2>2 DEF StatusLost
<1> QED
  BY <1>4, <1>5, <1>6, <1>7, <1>7a, <1>8, <1>9, <1>10, <1>11

LEMMA ClientStep ==
  ASSUME TypeOK, ClientInv, ServerInv, Moved, Next
  PROVE  ClientInv' /\ OauthMove
<1>0. PageInv /\ OthersTyped /\ had \subseteq had'
  BY DEF ClientInv, Moved
<1>1. UNCHANGED wechatVars => OthersTyped' /\ OauthMove
  BY <1>0, OthersStand DEF wechatVars, OauthMove
<1>2. UNCHANGED pageVars => PageInv'
  BY <1>0, PageStands
<1> USE DEF ClientInv
<1>3. ASSUME NEW t \in Tabs, TabStep(t) PROVE ClientInv' /\ OauthMove
  <2>1. CASE \/ PickChannel(t) \/ PayClick(t) \/ ConfirmMock(t) \/ ConfirmAnswer(t)
             \/ PollTick(t) \/ RefreshClick(t) \/ PollTimeout(t)
             \/ CancelClick(t) \/ ReceiptClick(t) \/ OrderPageAnswer(t) \/ ReplyLost(t)
             \/ \E s \in OrderStatus : HearStatus(t, s)
    <3>1. UNCHANGED wechatVars
      BY <2>1 DEF PickChannel, PayClick, ConfirmMock, ConfirmAnswer, PollTick,
         RefreshClick, RefreshStatus, PollTimeout, CancelClick, ReceiptClick,
         OrderPageAnswer, ReplyLost, HearStatus
    <3> QED
      BY <1>0, <1>1, <2>1, <3>1, PagePlays
  <2>2. CASE SheetDone(t)
    <3>1. SdkTyped' /\ UNCHANGED <<oauthVars, ticketVars, keyVars>>
      BY <1>0, <2>2 DEF SheetDone, GoTo, OthersTyped, SdkTyped
    <3> QED
      BY <1>0, <2>2, <3>1, PagePlays, OthersStandToo DEF OauthMove
  <2>3. CASE \/ OpenPage(t) \/ LeavePage(t) \/ LoaderFails(t) \/ OauthCallback(t)
             \/ OauthLost(t) \/ OauthAnswer(t) \/ CheckOpenid(t) \/ PayAnswer(t) \/ JsapiStep(t)
             \/ \E s \in OrderStatus : StatusLost(t, s)
    BY <2>3, TabMoves
  <2> QED
    BY <1>3, <2>1, <2>2, <2>3 DEF TabStep, PayPageStep
<1>4. ASSUME NEW p \in Payments, PaymentStep(p) PROVE ClientInv' /\ OauthMove
  <2>1. CASE NotifyArrives(p)
    <3>1. KeyTyped' /\ UNCHANGED <<pageVars, oauthVars, sdkVars, ticketVars>>
      BY <1>0, <2>1 DEF NotifyArrives, OthersTyped, KeyTyped, keyVars
    <3> QED
      BY <1>0, <1>2, <3>1 DEF OthersTyped, SdkTyped, TicketTyped, sdkVars, ticketVars, OauthMove
  <2>2. CASE \/ SimulatePayment(p) \/ SimulateAlipayPayment(p) \/ CloseTransaction(p)
             \/ CloseAlipayTransaction(p) \/ NotifyResumes(p) \/ Resend(p) \/ NotifyLost(p)
             \/ Reconcile(p)
    BY <1>1, <1>2, <2>2 DEF SimulatePayment, SimulateAlipayPayment, CloseTransaction,
       CloseAlipayTransaction, NotifyResumes, Resend, NotifyLost, Reconcile
  <2> QED
    BY <1>4, <2>1, <2>2 DEF PaymentStep
<1>5. CASE TicketStep
  <2>1. UNCHANGED <<pageVars, oauthVars, keyVars>>
    BY <1>5 DEF TicketStep, TicketLoaded, TicketExpires
  <2>2. SdkTyped' /\ TicketTyped'
    BY <1>0, <1>5 DEF TicketStep, TicketLoaded, TicketExpires, ForgottenLoad, OthersTyped,
       SdkTyped, TicketTyped, sdkVars
  <2> QED
    BY <1>0, <1>2, <2>1, <2>2 DEF OthersTyped, KeyTyped, keyVars, OauthMove
<1>6. CASE KeyStep
  <2>1. UNCHANGED <<pageVars, oauthVars, sdkVars, ticketVars>>
    BY <1>6 DEF KeyStep, RotateKey, ThrottleElapses, KeysFetched
  <2>2. KeyTyped'
    BY <1>0, <1>6 DEF KeyStep, RotateKey, ThrottleElapses, KeysFetched, FetchOver,
       OthersTyped, KeyTyped
  <2> QED
    BY <1>0, <1>2, <2>1, <2>2 DEF OthersTyped, SdkTyped, TicketTyped, sdkVars, ticketVars,
       OauthMove
<1>7. CASE CookieStep
  BY <1>0, <1>2, <1>7, OthersStand DEF CookieStep, OauthMove
<1>8. CASE ShopStep
  BY <1>1, <1>2, <1>8 DEF ShopStep
<1> QED
  BY <1>3, <1>4, <1>5, <1>6, <1>7, <1>8 DEF Next

-----------------------------------------------------------------------------
(* The desks *)

Views == [status: OrderStatus, refunding: BOOLEAN, fresh: BOOLEAN]
Requests == [desk: Desks \cup {NoDesk}, kind: Actions, number: Typed,
             outcome: {"none", "sent", "ok", "error"},
             asked: {"buttons", "page", "gone"}, fresh: BOOLEAN]

DeskTyped ==
  /\ waybill \in Typed /\ announced \in Nat
  /\ place \in [Desks -> {"off", "detail", "problem"}]
  /\ seen \in [Desks -> Views] /\ dialog \in [Desks -> BOOLEAN]
  /\ call \in [Calls -> Requests]

LEMMA DeskParts == DeskTypeOK <=> TypeOK /\ DeskTyped
BY DEF DeskTypeOK, DeskTyped, Views, Requests

DialogsOnPages == \A d \in Desks : dialog[d] => place[d] = "detail"

\* A page that was loaded after the refund began shows it, and offers nothing;
\* a request of such a page, or an open dialog, is older than the refund.
OutOfDate ==
  world.desks # {} /\ underway /\ order = "paid" =>
    /\ \A d \in Desks : (seen[d].fresh => seen[d].refunding) /\ (dialog[d] => ~seen[d].fresh)
    /\ \A c \in Calls : ~call[c].fresh

DeskInv == DeskTyped /\ DialogsOnPages /\ OutOfDate /\ AnnouncedOnce

LEMMA NothingIsView == Nothing \in Views /\ ~Nothing.fresh
BY DEF Nothing, Seen, Views, OrderStatus

LEMMA NoCallIsRequest == NoCall \in Requests /\ ~NoCall.fresh
BY DEF NoCall, Request, Requests, Actions, Typed

\* What the customer and the shop do leaves the desks as they are.
LEMMA DesksStand ==
  ASSUME ServerInv, DeskInv, Moved, LeftToDesks, UNCHANGED <<world, deskVars>>
  PROVE  DeskInv'
<1>1. DeskTyped' /\ DialogsOnPages'
  BY DEF DeskInv, DeskTyped, DialogsOnPages, deskVars
<1>2. OutOfDate'
  BY DEF DeskInv, OutOfDate, LeftToDesks, deskVars
<1>3. AnnouncedOnce'
  BY DEF DeskInv, AnnouncedOnce, Moved, LeftToDesks, ServerInv, deskVars
<1> QED
  BY <1>1, <1>2, <1>3 DEF DeskInv

\* Requests that only grow older, lose their page or are forgotten.
Aged ==
  /\ call' \in [Calls -> Requests]
  /\ \A c \in Calls : call'[c].fresh => call[c].fresh

LEMMA AnswersAge ==
  ASSUME DeskTyped, NEW c \in Calls, NEW outcome \in {"ok", "error"}, Answers(c, outcome)
  PROVE  Aged
<1> DEFINE r == [call[c] EXCEPT !.outcome = outcome, !.number = NoWaybill, !.fresh = FALSE]
<1>1. r \in Requests /\ ~r.fresh
  BY DEF DeskTyped, Requests, Typed
<1>2. call' = [call EXCEPT ![c] = r]
  BY DEF Answers
<1> HIDE DEF r
<1> QED
  BY <1>1, <1>2 DEF DeskTyped, Aged

LEMMA HeardAge ==
  ASSUME DeskTyped, NEW c \in Calls, Heard(c)
  PROVE  Aged
BY NoCallIsRequest DEF DeskTyped, Heard, Aged

LEMMA ButtonsAge ==
  ASSUME DeskTyped, NEW d, NEW c \in Calls, NEW kinds, NEW left \in {"page", "gone"},
         ButtonsGo(d, c, kinds, left)
  PROVE  /\ Aged /\ dialog' \in [Desks -> BOOLEAN]
         /\ \A e \in Desks : dialog'[e] => dialog[e] /\ e # d
<1>1. dialog' = [dialog EXCEPT ![d] = FALSE]
  BY DEF ButtonsGo, Set
<1>2. Aged
  <2> DEFINE heard(e) == IF e = c THEN NoCall
        ELSE IF call[e].desk = d /\ call[e].kind \in kinds /\ call[e].asked # "gone"
        THEN [call[e] EXCEPT !.asked = left] ELSE call[e]
  <2>1. call' = [e \in Calls |-> heard(e)]
    BY DEF ButtonsGo
  <2>2. \A e \in Calls : heard(e) \in Requests /\ (heard(e).fresh => call[e].fresh)
    BY NoCallIsRequest DEF DeskTyped, Requests
  <2> HIDE DEF heard
  <2> QED
    BY <2>1, <2>2 DEF Aged
<1> QED
  BY <1>1, <1>2 DEF DeskTyped

-----------------------------------------------------------------------------
(* The steps of a desk *)

LEMMA DeskStepKeeps ==
  ASSUME TypeOK, DeskInv, ServerInv, NEW d \in world.desks, DeskStep(d)
  PROVE  DeskInv' /\ UNCHANGED vars
<1> USE DEF DeskInv
<1>0. /\ DeskTyped /\ d \in Desks /\ order \in OrderStatus /\ underway \in BOOLEAN
  BY DeskAssumption, TypeParts DEF ServerTyped
<1>1. ASSUME UNCHANGED <<vars, waybill, announced>>, DeskTyped', DialogsOnPages', OutOfDate'
      PROVE  DeskInv' /\ UNCHANGED vars
  BY <1>1 DEF AnnouncedOnce, vars, serverVars
<1>2. UNCHANGED vars => UNCHANGED <<world, underway, order>>
  BY DEF vars, serverVars
<1>3. Loaded(d) =>
        /\ seen' \in [Desks -> Views] /\ seen'[d].refunding = underway
        /\ \A e \in Desks : e # d => seen'[e] = seen[e]
  BY <1>0 DEF Loaded, Set, Seen, OrderRead, Refunding, RefundUnderway, Views, DeskTyped
<1>4. CASE OpenDesk(d)
  <2>1. DeskTyped' /\ DialogsOnPages'
    BY <1>0, <1>3, <1>4 DEF OpenDesk, Set, DeskTyped, DialogsOnPages
  <2>2. ~dialog[d] /\ UNCHANGED <<call, dialog>>
    BY <1>0, <1>4 DEF OpenDesk, DialogsOnPages
  <2>3. OutOfDate'
    BY <1>0, <1>2, <1>3, <1>4, <2>2 DEF OpenDesk, OutOfDate
  <2> QED
    BY <1>1, <1>4, <2>1, <2>3 DEF OpenDesk
<1>5. CASE OpenList(d)
  <2>1. /\ place' = [place EXCEPT ![d] = "off"] /\ seen' = [seen EXCEPT ![d] = Nothing]
        /\ dialog' = [dialog EXCEPT ![d] = FALSE]
        /\ Outlived(d, "gone") /\ UNCHANGED <<vars, waybill, announced>>
    BY <1>5 DEF OpenList, Set
  <2>2. Aged
    BY <1>0, <2>1 DEF Outlived, Aged, DeskTyped, Requests
  <2>3. DeskTyped' /\ DialogsOnPages'
    BY <1>0, <2>1, <2>2, NothingIsView DEF DeskTyped, DialogsOnPages, Aged
  <2>4. \A e \in Desks : e # d => seen'[e] = seen[e] /\ dialog'[e] = dialog[e]
    BY <1>0, <2>1 DEF DeskTyped
  <2>5. ~seen'[d].fresh /\ ~dialog'[d]
    BY <1>0, <2>1, NothingIsView DEF DeskTyped
  <2>6. OutOfDate'
    BY <1>0, <1>2, <2>1, <2>2, <2>4, <2>5 DEF OutOfDate, Aged
  <2> QED
    BY <1>1, <2>1, <2>3, <2>6
<1>6. CASE CloseProblem(d)
  <2>1. DeskTyped' /\ DialogsOnPages'
    BY <1>0, <1>6 DEF CloseProblem, Set, DeskTyped, DialogsOnPages
  <2> QED
    BY <1>1, <1>2, <1>6, <2>1 DEF CloseProblem, OutOfDate
<1>7. CASE OpenDialog(d)
  <2>1. DeskTyped' /\ DialogsOnPages'
    BY <1>0, <1>7 DEF OpenDialog, Set, DeskTyped, DialogsOnPages
  <2>2. ~seen[d].refunding
    BY <1>7 DEF OpenDialog, Offers
  <2>3. OutOfDate'
    BY <1>0, <1>2, <1>7, <2>2 DEF OpenDialog, Set, OutOfDate, DeskTyped
  <2> QED
    BY <1>1, <1>7, <2>1, <2>3 DEF OpenDialog
<1>8. CASE CloseDialog(d)
  <2>1. DeskTyped' /\ DialogsOnPages'
    BY <1>0, <1>8 DEF CloseDialog, Set, DeskTyped, DialogsOnPages
  <2>2. OutOfDate'
    BY <1>0, <1>2, <1>8 DEF CloseDialog, Set, OutOfDate, DeskTyped
  <2> QED
    BY <1>1, <1>8, <2>1, <2>2 DEF CloseDialog
<1>9. ASSUME NEW c \in Calls, NEW k \in Actions, NEW n \in Typed,
             Set(call, c, Request(d, k, n, seen[d].fresh)),
             seen[d].fresh => ~(world.desks # {} /\ underway /\ order = "paid"),
             UNCHANGED <<vars, waybill, announced, place, seen, dialog>>
      PROVE  DeskInv' /\ UNCHANGED vars
  <2> DEFINE r == Request(d, k, n, seen[d].fresh)
  <2>1. r \in Requests /\ r.fresh = seen[d].fresh
    BY <1>0 DEF Request, Requests, DeskTyped, Views
  <2>2. call' = [call EXCEPT ![c] = r]
    BY <1>9 DEF Set
  <2> HIDE DEF r
  <2>3. DeskTyped' /\ DialogsOnPages'
    BY <1>0, <1>9, <2>1, <2>2 DEF DeskTyped, DialogsOnPages
  <2>4. OutOfDate'
    BY <1>0, <1>2, <1>9, <2>1, <2>2 DEF DeskTyped, OutOfDate
  <2> QED
    BY <1>1, <1>9, <2>3, <2>4
<1>10. ASSUME NEW c \in Calls, ShipClick(d, c) PROVE DeskInv' /\ UNCHANGED vars
  <2>1. /\ dialog[d] /\ \E n \in Typed : Set(call, c, Request(d, "ship", n, seen[d].fresh))
        /\ UNCHANGED <<vars, waybill, announced, place, seen, dialog>>
    BY <1>10 DEF ShipClick
  <2>2. seen[d].fresh => ~(world.desks # {} /\ underway /\ order = "paid")
    BY <1>0, <2>1 DEF OutOfDate
  <2> QED
    BY <1>9, <2>1, <2>2 DEF Actions
<1>11. ASSUME NEW c \in Calls, NEW k \in Actions, RunAction(d, c, k)
       PROVE  DeskInv' /\ UNCHANGED vars
  <2>1. /\ ~seen[d].refunding /\ Set(call, c, Request(d, k, NoWaybill, seen[d].fresh))
        /\ UNCHANGED <<vars, waybill, announced, place, seen, dialog>>
    BY <1>11 DEF RunAction, Offers
  <2>2. seen[d].fresh => ~(world.desks # {} /\ underway /\ order = "paid")
    BY <1>0, <2>1 DEF OutOfDate
  <2> QED
    BY <1>9, <2>1, <2>2 DEF Typed
<1> QED
  BY <1>4, <1>5, <1>6, <1>7, <1>8, <1>10, <1>11 DEF DeskStep

-----------------------------------------------------------------------------
(* What becomes of a request *)

\* The api serves a desk.
LEMMA HandleMoves ==
  ASSUME ServerTyped, ServerInv, NEW c \in Calls, Handle(c)
  PROVE  Moved
<1>0. UNCHANGED serverVars => Moved
  BY StandsStill
<1>1. CASE PatchCancelled(c)
  BY <1>0, <1>1, CancelMoves DEF PatchCancelled
<1>2. CASE PatchCompleted(c)
  BY <1>0, <1>2, CompleteMoves DEF PatchCompleted
<1>3. CASE PostRefund(c)
  <2>1. CASE MoveOrder("refunded") /\ SetPay(With("succeeded"), "refunded")
    BY <2>1, SetPayTyped DEF ServerTyped, ServerInv, Moved, MoveOrder, OrderStatus
  <2>2. CASE Returnable /\ underway' = TRUE /\ UNCHANGED <<order, had, pay>>
    BY <2>2 DEF Returnable, Refundable, ServerTyped, ServerInv, Moved
  <2> QED
    BY <1>0, <1>3, <2>1, <2>2 DEF PostRefund
<1>4. CASE PostShip(c)
  <2>1. CASE MoveOrder("shipped") /\ UNCHANGED pay
    BY <2>1 DEF ServerTyped, ServerInv, Moved, MoveOrder, OrderStatus
  <2> QED
    BY <1>0, <1>4, <2>1 DEF PostShip
<1> QED
  BY <1>1, <1>2, <1>3, <1>4 DEF Handle

\* Nothing but shipping makes an order shipped, and no answer undoes what
\* is known of the pages of an order that stays paid.
LEMMA HandleKeeps ==
  ASSUME TypeOK, DeskInv, ServerInv, NEW c \in Calls, Handle(c)
  PROVE  DeskInv'
<1> USE DEF DeskInv
<1>0. /\ DeskTyped /\ ServerTyped /\ order \in had /\ UNCHANGED <<world, place, dialog>>
  BY TypeParts DEF Handle, ServerInv
<1>1. ASSUME Answers(c, "ok") \/ Answers(c, "error"), UNCHANGED <<waybill, announced, seen>>,
             order' = "shipped" => order = "shipped", had' \in {had, had \cup {order'}},
             underway' /\ order' = "paid" => underway /\ order = "paid"
      PROVE  DeskInv'
  <2>1. Aged
    BY <1>0, <1>1, AnswersAge
  <2>2. DeskTyped' /\ DialogsOnPages'
    BY <1>0, <1>1, <2>1 DEF DeskTyped, DialogsOnPages, Aged
  <2>3. OutOfDate'
    BY <1>0, <1>1, <2>1 DEF OutOfDate, Aged
  <2>4. AnnouncedOnce'
    BY <1>0, <1>1 DEF AnnouncedOnce
  <2> QED
    BY <2>2, <2>3, <2>4
<1>2. UNCHANGED serverVars =>
        /\ order' = order /\ had' = had /\ underway' = underway
  BY DEF serverVars
<1>3. CASE PatchCancelled(c)
  <2>1. CASE CancelOrder
    BY <1>1, <1>3, <2>1 DEF PatchCancelled, CancelOrder, MoveOrder
  <2> QED
    BY <1>1, <1>2, <1>3, <2>1 DEF PatchCancelled
<1>4. CASE PatchCompleted(c)
  BY <1>1, <1>2, <1>4 DEF PatchCompleted, MoveOrder
<1>5. CASE PostRefund(c)
  <2>1. CASE UNCHANGED <<serverVars, seen>> /\ Answers(c, "error")
    BY <1>1, <1>2, <1>5, <2>1 DEF PostRefund
  <2>2. CASE MoveOrder("refunded") /\ UNCHANGED seen /\ Answers(c, "ok")
    BY <1>1, <1>5, <2>2 DEF PostRefund, MoveOrder
  <2>3. CASE /\ underway' = TRUE /\ UNCHANGED <<order, had, pay>>
             /\ seen' = [d \in Desks |-> [seen[d] EXCEPT !.fresh = FALSE]]
             /\ call' = [e \in Calls |-> [call[e] EXCEPT !.fresh = FALSE,
                                            !.outcome = IF e = c THEN "ok" ELSE @]]
    <3>1. /\ seen' \in [Desks -> Views] /\ call' \in [Calls -> Requests]
          /\ \A d \in Desks : ~seen'[d].fresh
          /\ \A e \in Calls : ~call'[e].fresh
      BY <1>0, <2>3 DEF DeskTyped, Views, Requests
    <3>2. DeskTyped' /\ DialogsOnPages'
      BY <1>0, <1>5, <3>1 DEF PostRefund, DeskTyped, DialogsOnPages
    <3>3. OutOfDate' /\ AnnouncedOnce'
      BY <1>0, <1>5, <2>3, <3>1 DEF PostRefund, OutOfDate, AnnouncedOnce
    <3> QED
      BY <3>2, <3>3
  <2> QED
    BY <1>5, <2>1, <2>2, <2>3 DEF PostRefund
<1>6. CASE PostShip(c)
  <2>1. CASE order \notin {"paid", "shipped"}
    BY <1>1, <1>2, <1>6, <2>1 DEF PostShip
  <2>2. CASE order \in {"paid", "shipped"}
    <3>1. /\ order' = "shipped" /\ had' = had \cup {"shipped"}
          /\ announced' = announced + Announces(order) /\ UNCHANGED seen
          /\ waybill' \in {waybill, call[c].number} /\ Answers(c, "ok")
      BY <1>6, <2>2 DEF PostShip, MoveOrder, Kept
    <3>2. Aged
      BY <1>0, <3>1, AnswersAge
    <3>3. call[c].number \in Typed
      BY <1>0 DEF DeskTyped, Requests
    <3>4. DeskTyped' /\ DialogsOnPages'
      BY <1>0, <3>1, <3>2, <3>3 DEF DeskTyped, DialogsOnPages, Aged, Announces
    <3>5. AnnouncedOnce'
      BY <1>0, <2>2, <3>1 DEF AnnouncedOnce, ServerInv, Announces, DeskTyped
    <3>6. OutOfDate'
      BY <3>1 DEF OutOfDate
    <3> QED
      BY <3>4, <3>5, <3>6
  <2> QED
    BY <2>1, <2>2
<1> QED
  BY <1>3, <1>4, <1>5, <1>6 DEF Handle

\* An answer reaches the page, or is lost.
LEMMA AnswerKeeps ==
  ASSUME TypeOK, DeskInv, NEW c \in Calls, CallLost(c) \/ Refusal(c) \/ Success(c)
  PROVE  DeskInv' /\ UNCHANGED vars
<1> USE DEF DeskInv
<1> DEFINE d == call[c].desk
<1>0. DeskTyped /\ order \in OrderStatus /\ underway \in BOOLEAN
  BY TypeParts DEF ServerTyped
<1>1. UNCHANGED <<vars, waybill, announced>>
  BY DEF CallLost, Refusal, Success
<1>2. UNCHANGED <<world, order, had, underway>>
  BY <1>1 DEF vars, serverVars
<1>3. ASSUME DeskTyped', DialogsOnPages', OutOfDate' PROVE DeskInv' /\ UNCHANGED vars
  BY <1>1, <1>2, <1>3 DEF AnnouncedOnce
<1>4. ASSUME Aged, UNCHANGED <<place, seen, dialog>> PROVE DeskInv' /\ UNCHANGED vars
  <2>1. DeskTyped' /\ DialogsOnPages'
    BY <1>0, <1>1, <1>4 DEF DeskTyped, DialogsOnPages, Aged
  <2>2. OutOfDate'
    BY <1>2, <1>4 DEF OutOfDate, Aged
  <2> QED
    BY <1>3, <2>1, <2>2
<1>5. CASE CallLost(c)
  BY <1>0, <1>4, <1>5, AnswersAge DEF CallLost
<1>6. Heard(c) /\ UNCHANGED <<place, seen, dialog>> => DeskInv' /\ UNCHANGED vars
  BY <1>0, <1>4, HeardAge
<1>7. ASSUME NEW page \in {"problem", "off"}, NEW left \in {"page", "gone"},
             ButtonsGo(d, c, Actions, left), Set(place, d, page),
             seen' \in [Desks -> Views],
             \A e \in Desks : seen'[e] = seen[e] \/ ~seen'[e].fresh
      PROVE  DeskInv' /\ UNCHANGED vars
  <2>1. /\ Aged /\ dialog' \in [Desks -> BOOLEAN]
        /\ \A e \in Desks : dialog'[e] => dialog[e] /\ e # d
    BY <1>0, <1>7, ButtonsAge
  <2>2. /\ place' \in [Desks -> {"off", "detail", "problem"}]
        /\ \A e \in Desks : e # d => place'[e] = place[e]
    BY <1>0, <1>7 DEF Set, DeskTyped
  <2>3. DeskTyped' /\ DialogsOnPages'
    BY <1>0, <1>1, <1>7, <2>1, <2>2 DEF DeskTyped, DialogsOnPages, Aged
  <2>4. OutOfDate'
    BY <1>2, <1>7, <2>1 DEF OutOfDate, Aged
  <2> QED
    BY <1>3, <2>3, <2>4
<1>8. CASE Refusal(c)
  <2>1. CASE call[c].asked = "gone"
    BY <1>6, <1>8, <2>1 DEF Refusal
  <2>2. CASE call[c].asked # "gone"
    <3>1. /\ ButtonsGo(d, c, Actions, "page") /\ Set(place, d, "problem")
          /\ UNCHANGED seen
      BY <1>8, <2>2 DEF Refusal
    <3> QED
      BY <1>0, <1>7, <3>1 DEF DeskTyped
  <2> QED
    BY <2>1, <2>2
<1>9. CASE Success(c)
  <2>1. CASE Heard(c) /\ UNCHANGED <<place, seen, dialog>>
    BY <1>6, <2>1
  <2>2. CASE Set(place, d, "off") /\ Set(seen, d, Nothing) /\ ButtonsGo(d, c, Actions, "gone")
    <3>1. /\ seen' \in [Desks -> Views]
          /\ \A e \in Desks : seen'[e] = seen[e] \/ ~seen'[e].fresh
      BY <1>0, <2>2, NothingIsView DEF Set, DeskTyped
    <3> QED
      BY <1>7, <2>2, <3>1
  <2>3. CASE /\ Loaded(d) /\ UNCHANGED place
             /\ IF OrderRead = "paid" /\ ~Refunding THEN Heard(c) /\ UNCHANGED dialog
                ELSE ButtonsGo(d, c, {"ship"}, "page")
    <3>1. /\ seen' \in [Desks -> Views]
          /\ \A e \in Desks : seen'[e] = seen[e] \/ seen'[e].refunding = underway
          /\ \A e \in Desks : e # d => seen'[e] = seen[e]
      BY <1>0, <2>3 DEF Loaded, Set, Seen, OrderRead, Refunding, RefundUnderway, Views,
         DeskTyped
    <3>2. CASE order = "paid" /\ ~underway
      <4>1. Aged /\ UNCHANGED dialog
        BY <1>0, <2>3, <3>2, HeardAge DEF OrderRead, Refunding, RefundUnderway
      <4>2. DeskTyped' /\ DialogsOnPages'
        BY <1>0, <1>1, <2>3, <3>1, <4>1 DEF DeskTyped, DialogsOnPages, Aged
      <4>3. OutOfDate'
        BY <1>2, <3>2 DEF OutOfDate
      <4> QED
        BY <1>3, <4>2, <4>3
    <3>3. CASE ~(order = "paid" /\ ~underway)
      <4>1. ButtonsGo(d, c, {"ship"}, "page")
        BY <2>3, <3>3 DEF OrderRead, Refunding, RefundUnderway
      <4>2. /\ Aged /\ dialog' \in [Desks -> BOOLEAN]
            /\ \A e \in Desks : dialog'[e] => dialog[e] /\ e # d
        BY <1>0, <4>1, ButtonsAge
      <4>3. DeskTyped' /\ DialogsOnPages'
        BY <1>0, <1>1, <2>3, <3>1, <4>2 DEF DeskTyped, DialogsOnPages, Aged
      <4>4. OutOfDate'
        BY <1>0, <1>2, <3>1, <4>2 DEF OutOfDate, Aged
      <4> QED
        BY <1>3, <4>3, <4>4
    <3> QED
      BY <3>2, <3>3
  <2> QED
    BY <1>9, <2>1, <2>2, <2>3 DEF Success
<1> QED
  BY <1>5, <1>8, <1>9

-----------------------------------------------------------------------------
(* The theorems *)

\* The type invariant, part by part.
AllTyped ==
  /\ world \in Scenarios /\ ServerTyped /\ SimTyped /\ PageTyped
  /\ OauthTyped /\ SdkTyped /\ TicketTyped /\ KeyTyped

LEMMA AllTypes == AllTyped <=> TypeOK
BY TypeParts, WechatParts DEF AllTyped

\* What holds of the order and its desks, of pages, and of trips, together.
AllInv == AllTyped /\ ServerInv /\ OauthInv /\ ClientInv /\ DeskInv

LEMMA AllInit == DeskInit => AllInv
<1> SUFFICES ASSUME DeskInit PROVE AllInv
  OBVIOUS
<1> USE DEF DeskInit, Init
<1>1. OauthInv
  <2>1. /\ jar = NoState /\ openid = FALSE /\ drawn = 0 /\ spent = {}
        /\ trip = [t \in Tabs |-> [nonce |-> 0, head |-> Done]]
    BY DEF WechatInit
  <2>2. OauthTyped
    <3>1. 0 \in 0..MaxNonce
      BY WechatAssumption
    <3> QED
      BY <2>1, <3>1 DEF OauthTyped, Nonces
  <2>3. \A t \in Tabs : trip[t].nonce = 0 /\ trip[t].head = Done
    BY <2>1
  <2>4. AuthorisedTabReturns
    <3>1. Done \notin Tabs
      BY WechatAssumption
    <3> QED
      BY <2>3, <3>1 DEF AuthorisedTabReturns
  <2> QED
    BY <2>1, <2>2, <2>3, <2>4 DEF OauthInv
<1>2. OthersTyped
  BY DEF WechatInit, OthersTyped, SdkTyped, TicketTyped, KeyTyped
<1>3. SimTyped
  BY CashierAssumption DEF SimTyped
<1>4. ServerTyped /\ ServerInv
  <2> DEFINE booked == Row("succeeded", "wechat", "qr")
  <2>1. /\ NoRow \in PayRow /\ NoRow.status = "none"
        /\ booked \in PayRow
    BY DEF NoRow, Row, PayRow, Payloads, Channels
  <2> HIDE DEF booked
  <2>2. CASE world.paid
    <3>1. /\ pay = [p \in Payments |-> IF p = 1 THEN booked ELSE NoRow]
          /\ order = "paid" /\ had = {"pending", "paid"} /\ underway = FALSE
      BY <2>2 DEF booked
    <3> QED
      BY <2>1, <3>1 DEF ServerTyped, ServerInv, OrderStatus
  <2>3. CASE ~world.paid
    <3>1. /\ pay = [p \in Payments |-> NoRow]
          /\ order = "pending" /\ had = {"pending"} /\ underway = FALSE
      BY <2>3
    <3> QED
      BY <2>1, <3>1 DEF ServerTyped, ServerInv, OrderStatus
  <2> QED
    BY <2>2, <2>3
<1>5. NoReply \in Replies /\ NoReply.kind = "none"
  BY DEF NoReply, Answer, Replies
<1>6. PageInv
  <2>1. PageTyped
    BY <1>5 DEF PageTyped, Places, OrderStatus
  <2>2. Told
    BY <1>5 DEF Told
  <2> QED
    BY <2>1, <2>2 DEF PageInv
<1>7. AllTyped
  BY <1>1, <1>2, <1>3, <1>4, <1>6 DEF AllTyped, OauthInv, OthersTyped, PageInv
<1>8. DeskInv
  <2>1. DeskTyped
    BY NothingIsView, NoCallIsRequest DEF DeskTyped, Typed
  <2>2. DialogsOnPages /\ OutOfDate /\ AnnouncedOnce
    BY DEF DialogsOnPages, OutOfDate, AnnouncedOnce
  <2> QED
    BY <2>1, <2>2 DEF DeskInv
<1> QED
  BY <1>1, <1>2, <1>4, <1>6, <1>7, <1>8 DEF AllInv, ClientInv

\* What each kind of step does.
LEMMA CashierKeeps ==
  ASSUME AllInv, Next, UNCHANGED deskVars
  PROVE  AllInv' /\ OauthMove /\ LeftToDesks
<1> USE AllTypes DEF AllInv
<1>1. Moved /\ LeftToDesks /\ ServerTyped
  BY ServerStep, TypeParts
<1>2. SimTyped' /\ UNCHANGED world
  BY SimStep
<1>3. ServerInv' /\ ServerTyped'
  BY <1>1, MovedKeeps DEF Moved
<1>4. ClientInv' /\ OauthMove
  BY <1>1, ClientStep
<1>5. OauthInv'
  BY <1>4, OauthKept
<1>6. AllTyped'
  BY <1>2, <1>3, <1>4, <1>5
  DEF AllTyped, OauthInv, ClientInv, OthersTyped, PageInv
<1>7. DeskInv'
  BY <1>1, <1>2, DesksStand
<1> QED
  BY <1>1, <1>3, <1>4, <1>5, <1>6, <1>7

LEMMA HandlingKeeps ==
  ASSUME AllInv, NEW c \in Calls, Handle(c)
  PROVE  AllInv' /\ UNCHANGED oauthVars
<1> USE AllTypes DEF AllInv
<1>1. UNCHANGED <<world, simVars, pageVars, wechatVars>>
  BY DEF Handle
<1>2. Moved /\ ServerTyped
  BY HandleMoves, TypeParts
<1>3. ServerInv' /\ ServerTyped' /\ had \subseteq had'
  BY <1>2, MovedKeeps DEF Moved
<1>4. UNCHANGED <<oauthVars, sdkVars, ticketVars, keyVars>>
  BY <1>1 DEF wechatVars
<1>5. OauthInv'
  BY <1>4, OauthKept DEF OauthMove
<1>6. ClientInv'
  BY <1>1, <1>3, <1>4, PageStands, OthersStand DEF ClientInv
<1>7. SimTyped'
  BY <1>1, TypeParts DEF SimTyped, simVars
<1>8. AllTyped'
  BY <1>1, <1>3, <1>5, <1>6, <1>7
  DEF AllTyped, OauthInv, ClientInv, OthersTyped, PageInv
<1> QED
  BY <1>3, <1>4, <1>5, <1>6, <1>8, HandleKeeps

\* Without a move of the shop, only the desks count.
LEMMA RestStands ==
  ASSUME AllInv, UNCHANGED vars
  PROVE  AllTyped' /\ ServerInv' /\ OauthInv' /\ ClientInv' /\ UNCHANGED oauthVars
<1> USE AllTypes DEF AllInv
<1>1. UNCHANGED <<world, serverVars, simVars, pageVars, wechatVars>>
  BY DEF vars
<1>2. UNCHANGED <<oauthVars, sdkVars, ticketVars, keyVars>>
  BY <1>1 DEF wechatVars
<1>3. ServerTyped' /\ ServerInv' /\ had \subseteq had'
  BY <1>1, TypeParts, StandsStill, MovedKeeps DEF Moved
<1>4. OauthInv'
  BY <1>2, OauthKept DEF OauthMove
<1>5. ClientInv'
  BY <1>1, <1>2, <1>3, PageStands, OthersStand DEF ClientInv
<1>6. SimTyped'
  BY <1>1, TypeParts DEF SimTyped, simVars
<1>7. AllTyped'
  BY <1>1, <1>3, <1>4, <1>5, <1>6
  DEF AllTyped, OauthInv, ClientInv, OthersTyped, PageInv
<1> QED
  BY <1>2, <1>3, <1>4, <1>5, <1>7

LEMMA AllStep == AllInv /\ [DeskNext]_allVars => AllInv' /\ OauthMove
<1> SUFFICES ASSUME AllInv, [DeskNext]_allVars PROVE AllInv' /\ OauthMove
  OBVIOUS
<1>0. UNCHANGED oauthVars => OauthMove
  BY DEF OauthMove
<1>1. CASE Next /\ UNCHANGED deskVars
  BY <1>1, CashierKeeps
<1>2. ASSUME NEW d \in world.desks, DeskStep(d) PROVE AllInv' /\ OauthMove
  <2>1. DeskInv' /\ UNCHANGED vars
    BY <1>2, DeskStepKeeps, AllTypes DEF AllInv
  <2> QED
    BY <1>0, <2>1, RestStands DEF AllInv
<1>3. ASSUME NEW c \in Calls, Handle(c) PROVE AllInv' /\ OauthMove
  BY <1>0, <1>3, HandlingKeeps
<1>4. ASSUME NEW c \in Calls, CallLost(c) \/ Refusal(c) \/ Success(c)
      PROVE  AllInv' /\ OauthMove
  <2>1. DeskInv' /\ UNCHANGED vars
    BY <1>4, AnswerKeeps, AllTypes DEF AllInv
  <2> QED
    BY <1>0, <2>1, RestStands DEF AllInv
<1>5. CASE UNCHANGED allVars
  <2>1. UNCHANGED <<vars, deskVars>>
    BY <1>5 DEF allVars
  <2>2. DeskInv'
    BY <2>1 DEF AllInv, DeskInv, DeskTyped, DialogsOnPages, OutOfDate, AnnouncedOnce,
       deskVars, vars, serverVars
  <2> QED
    BY <1>0, <2>1, <2>2, RestStands DEF AllInv
<1> QED
  BY <1>1, <1>2, <1>3, <1>4, <1>5 DEF DeskNext, CallStep

LEMMA AllHolds == DeskSpec => []AllInv
BY AllInit, AllStep, PTL DEF DeskSpec

\* Every state of the tabs and the desks is of its type.
THEOREM DeskIsTyped == DeskSpec => []DeskTypeOK
<1>1. AllInv => DeskTypeOK
  BY DeskParts, AllTypes DEF AllInv, DeskInv
<1> QED
  BY <1>1, AllHolds, PTL

\* Every page shows a status its order has had, however its answers are lost
\* or overtaken, and whenever the pay page calls itself paid.
THEOREM PagesAreTrue == DeskSpec => []ShownWasTrue
<1>1. AllInv => ShownWasTrue
  BY DEF AllInv, ClientInv, PageInv, Told, ShownWasTrue
<1> QED
  BY <1>1, AllHolds, PTL

\* An accepted callback brings a tab back to the page it left, though the tabs
\* of a browser share the cookie of the state.
THEOREM TabsReturn == DeskSpec => []AuthorisedTabReturns
<1>1. AllInv => AuthorisedTabReturns
  BY DEF AllInv, OauthInv
<1> QED
  BY <1>1, AllHolds, PTL

\* The nonce of a callback that was answered is not accepted again, whatever a
\* tab loads again. One whose answer was lost, or is still to come, may be.
THEOREM NoncesAreSpent == DeskSpec => SpentNonceIsRefused
<1> DEFINE Refuses ==
      \A t \in Tabs :
        trip[t].head \in {Unsent, Done} /\ trip'[t].head \in Tabs
          => trip[t].nonce \notin spent
<1>1. AllInv /\ [DeskNext]_allVars => [Refuses]_wechatVars
  BY AllStep, OauthAccepts DEF AllInv
<1> QED
  BY <1>1, AllHolds, PTL DEF DeskSpec, SpentNonceIsRefused

\* An order that administrators shipped was announced once, however often
\* pages that are out of date and lost answers have it shipped again.
THEOREM ShippingAnnouncedOnce == DeskSpec => []AnnouncedOnce
<1>1. AllInv => AnnouncedOnce
  BY DEF AllInv, DeskInv
<1> QED
  BY <1>1, AllHolds, PTL

\* An order is shipped into a refund only by a request of a page that was
\* loaded before the refund began: the page forbids it, and the api does not.
THEOREM OnlyBlindShipments == DeskSpec => ShippedBlindly
<1> DEFINE Blind ==
      underway /\ order = "paid" /\ order' = "shipped" /\ world.desks # {}
        => \E c \in Calls : call[c].kind = "ship" /\ call[c].outcome = "sent"
                            /\ call'[c].outcome = "ok" /\ ~call[c].fresh
<1>1. AllInv /\ [DeskNext]_allVars => [Blind]_allVars
  <2> SUFFICES ASSUME AllInv, [DeskNext]_allVars, underway, order = "paid",
                      order' = "shipped", world.desks # {}
               PROVE  \E c \in Calls : call[c].kind = "ship" /\ call[c].outcome = "sent"
                        /\ call'[c].outcome = "ok" /\ ~call[c].fresh
    OBVIOUS
  <2>1. \A c \in Calls : ~call[c].fresh
    BY DEF AllInv, DeskInv, OutOfDate
  <2>2. ~(Next /\ UNCHANGED deskVars)
    BY CashierKeeps DEF LeftToDesks
  <2>3. ~UNCHANGED vars
    BY DEF vars, serverVars
  <2>4. ASSUME NEW d \in world.desks, DeskStep(d) PROVE FALSE
    BY <2>3, <2>4, DeskStepKeeps, AllTypes DEF AllInv
  <2>5. PICK c \in Calls : Handle(c)
    <3>1. ASSUME NEW c \in Calls, CallLost(c) \/ Refusal(c) \/ Success(c) PROVE FALSE
      BY <2>3, <3>1, AnswerKeeps, AllTypes DEF AllInv
    <3> QED
      BY <2>2, <2>3, <2>4, <3>1 DEF DeskNext, CallStep, allVars
  <2>6. PostShip(c)
    BY <2>5 DEF Handle, PatchCancelled, PatchCompleted, PostRefund, CancelOrder, MoveOrder,
       serverVars
  <2>7. call'[c].outcome = "ok"
    <3>1. Answers(c, "ok") /\ call \in [Calls -> Requests]
      BY <2>6 DEF PostShip, AllInv, DeskInv, DeskTyped
    <3> QED
      BY <3>1 DEF Answers, Requests
  <2> QED
    BY <2>1, <2>5, <2>6, <2>7 DEF Handle, PostShip
<1> QED
  BY <1>1, AllHolds, PTL DEF DeskSpec, ShippedBlindly
=============================================================================

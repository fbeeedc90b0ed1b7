------------------------------ MODULE OrderDesk ------------------------------
(***************************************************************************)
(* The administrators' desks beside the customer's tabs: the order page of *)
(* the admin console with its ship dialog, the list it is opened from, and *)
(* the routes of the admin api, on the order of Cashier. A page shows what *)
(* its loader read, its buttons go by that, and their requests reach the   *)
(* api, and their answers the page, some time later or never.              *)
(***************************************************************************)
EXTENDS Cashier

CONSTANTS
  Desks,     \* administrators, each with a page of the console
  Calls,     \* requests of the desks that can be under way at a time
  Waybills,  \* tracking numbers, each with its courier
  NoWaybill, NoDesk

ASSUME DeskAssumption ==
  /\ NoWaybill \notin Waybills /\ NoDesk \notin Desks
  /\ \A w \in Scenarios : w.desks \subseteq Desks

VARIABLES
  waybill,    \* orders.tracking_number with orders.courier_company
  announced,  \* order.shipped events written
  place,      \* whether a desk is on the page, or on the list, or on an error
  seen,       \* what its page was told of the order
  dialog,     \* whether the ship dialog is open
  call        \* its requests

deskVars == <<waybill, announced, place, seen, dialog, call>>
allVars == <<vars, deskVars>>

Typed == Waybills \cup {NoWaybill}
Actions == {"cancel", "complete", "refund", "ship"}
Seen(s, r, f) == [status |-> s, refunding |-> r, fresh |-> f]
Nothing == Seen("pending", FALSE, FALSE)
Request(d, k, n, f) ==
  [desk |-> d, kind |-> k, number |-> n, outcome |-> "sent", asked |-> "buttons", fresh |-> f]
NoCall == [Request(NoDesk, "ship", NoWaybill, FALSE) EXCEPT !.outcome = "none"]

DeskTypeOK ==
  /\ TypeOK
  /\ waybill \in Typed
  /\ announced \in Nat
  /\ place \in [Desks -> {"off", "detail", "problem"}]
  /\ seen \in [Desks -> [status: OrderStatus, refunding: BOOLEAN, fresh: BOOLEAN]]
  /\ dialog \in [Desks -> BOOLEAN]
  /\ call \in [Calls -> [desk: Desks \cup {NoDesk}, kind: Actions, number: Typed,
                         outcome: {"none", "sent", "ok", "error"},
                         asked: {"buttons", "page", "gone"}, fresh: BOOLEAN]]

DeskInit ==
  /\ Init
  /\ waybill = NoWaybill /\ announced = 0
  /\ place = [d \in Desks |-> "off"]
  /\ seen = [d \in Desks |-> Nothing]
  /\ dialog = [d \in Desks |-> FALSE]
  /\ call = [c \in Calls |-> NoCall]

-----------------------------------------------------------------------------
(* The page *)

\* GET /admin/orders/:id
OrderRead == order

\* GET /admin/orders/:id/payments
Refunding == RefundUnderway

\* The loader of the page, which wants all of it; "fresh" until a refund begins.
Loaded(d) == Set(seen, d, Seen(OrderRead, Refunding, TRUE))

\* The requests of a desk whose buttons, or whose page, are gone.
Outlived(d, left) ==
  call' = [c \in Calls |->
    IF call[c].desk = d /\ call[c].asked # "gone" THEN [call[c] EXCEPT !.asked = left]
                                                  ELSE call[c]]

OpenDesk(d) ==
  /\ place[d] = "off"
  /\ Set(place, d, "detail") /\ Loaded(d)
  /\ UNCHANGED <<vars, waybill, announced, dialog, call>>

\* GET /admin/orders, the list the page is opened from again.
OpenList(d) ==
  /\ place[d] # "off"
  /\ Set(place, d, "off") /\ Set(seen, d, Nothing)
  /\ Set(dialog, d, FALSE) /\ Outlived(d, "gone")
  /\ UNCHANGED <<vars, waybill, announced>>

\* An error takes the place of the page until it is closed, and the buttons
\* come back without their state.
CloseProblem(d) ==
  /\ place[d] = "problem"
  /\ Set(place, d, "detail")
  /\ UNCHANGED <<vars, waybill, announced, seen, dialog, call>>

\* OrderActions and ShipButton each know of a request of their own.
Busy(d, kinds) ==
  \E c \in Calls :
    call[c].desk = d /\ call[c].kind \in kinds /\ call[c].asked = "buttons"

Free(c) == c \in world.calls /\ call[c].outcome = "none"

\* Fault: the buttons go by the status alone.
OffersWhateverRefund(d) ==
  CASE seen[d].status = "pending" -> {"cancel"}
    [] seen[d].status = "paid" -> {"ship", "refund", "cancel"}
    [] seen[d].status = "shipped" -> {"complete"}
    [] OTHER -> {}

\* OrderActions: none while a refund is shown as processing.
Offers(d) ==
  IF seen[d].refunding THEN {}
  ELSE CASE seen[d].status = "pending" -> {"cancel"}
         [] seen[d].status = "paid" -> {"ship", "refund", "cancel"}
         [] seen[d].status = "shipped" -> {"complete"}
         [] OTHER -> {}

\* run: one of the buttons that ask at once.
RunAction(d, c, kind) ==
  /\ place[d] = "detail" /\ ~dialog[d] /\ kind \in Offers(d) \ {"ship"} /\ Free(c)
  /\ ~Busy(d, Actions \ {"ship"})
  /\ Set(call, c, Request(d, kind, NoWaybill, seen[d].fresh))
  /\ UNCHANGED <<vars, waybill, announced, place, seen, dialog>>

OpenDialog(d) ==
  /\ place[d] = "detail" /\ "ship" \in Offers(d)
  /\ Set(dialog, d, TRUE)
  /\ UNCHANGED <<vars, waybill, announced, place, seen, call>>

CloseDialog(d) ==
  /\ dialog[d] /\ Set(dialog, d, FALSE)
  /\ UNCHANGED <<vars, waybill, announced, place, seen, call>>

\* The courier and the number, or neither.
Incomplete(courier, n) == courier # (n # NoWaybill)

ShipClick(d, c) ==
  /\ dialog[d] /\ ~Busy(d, {"ship"}) /\ Free(c)
  /\ \E courier \in BOOLEAN, n \in Typed :
       /\ ~Incomplete(courier, n)
       /\ Set(call, c, Request(d, "ship", n, seen[d].fresh))
  /\ UNCHANGED <<vars, waybill, announced, place, seen, dialog>>

-----------------------------------------------------------------------------
(* The admin api: a request that was sent is handled *)

\* What the request asked for does not matter any more.
Answers(c, outcome) ==
  call' = [call EXCEPT ![c].outcome = outcome, ![c].number = NoWaybill, ![c].fresh = FALSE]

\* PATCH /admin/orders/:id/status with cancelled: a paid order may have its
\* refund refused by the channel.
PatchCancelled(c) ==
  /\ call[c].kind = "cancel"
  /\ \/ Cancellable /\ CancelOrder /\ Answers(c, "ok")
     \/ (~Cancellable \/ order = "paid") /\ UNCHANGED serverVars /\ Answers(c, "error")
  /\ UNCHANGED <<waybill, announced, seen>>

\* ... and with completed.
PatchCompleted(c) ==
  /\ call[c].kind = "complete"
  /\ IF order = "shipped" THEN MoveOrder("completed") /\ UNCHANGED pay /\ Answers(c, "ok")
                          ELSE UNCHANGED serverVars /\ Answers(c, "error")
  /\ UNCHANGED <<waybill, announced, seen>>

Returnable == order \in Refundable /\ With("succeeded") # {} /\ ~underway

\* POST /admin/orders/:id/refund: refused, or done at once, or underway, and
\* then no page that is open has seen it.
PostRefund(c) ==
  /\ call[c].kind = "refund"
  /\ \/ /\ UNCHANGED <<serverVars, seen>> /\ Answers(c, "error")
     \/ /\ Returnable
        /\ MoveOrder("refunded") /\ SetPay(With("succeeded"), "refunded")
        /\ UNCHANGED seen /\ Answers(c, "ok")
     \/ /\ Returnable /\ world.refunds
        /\ underway' = TRUE /\ UNCHANGED <<order, had, pay>>
        /\ seen' = [d \in Desks |-> [seen[d] EXCEPT !.fresh = FALSE]]
        /\ call' = [e \in Calls |-> [call[e] EXCEPT !.fresh = FALSE,
                                       !.outcome = IF e = c THEN "ok" ELSE @]]
  /\ UNCHANGED <<waybill, announced>>

\* Fault: what is not given is written as a word.
WrittenAsText(old, given) == IF given = NoWaybill THEN "undefined" ELSE given

\* trackingNumber ?? order.trackingNumber
Kept(old, given) == IF given = NoWaybill THEN old ELSE given

\* Fault: a correction of the number is announced too.
AnnouncesAlways(from) == 1

\* Only the step from paid to shipped is announced.
Announces(from) == IF from = "paid" THEN 1 ELSE 0

\* POST /admin/orders/:id/ship: nothing here asks for a refund underway.
PostShip(c) ==
  /\ call[c].kind = "ship"
  /\ IF order \in {"paid", "shipped"}
     THEN /\ MoveOrder("shipped") /\ UNCHANGED pay
          /\ waybill' = Kept(waybill, call[c].number)
          /\ announced' = announced + Announces(order)
          /\ Answers(c, "ok")
     ELSE UNCHANGED <<serverVars, waybill, announced>> /\ Answers(c, "error")
  /\ UNCHANGED seen

Handle(c) ==
  /\ call[c].outcome = "sent"
  /\ PatchCancelled(c) \/ PatchCompleted(c) \/ PostRefund(c) \/ PostShip(c)
  /\ UNCHANGED <<world, simVars, pageVars, wechatVars, place, dialog>>

\* The request or its answer is lost, whatever the api did.
CallLost(c) ==
  /\ call[c].outcome \in {"sent", "ok"}
  /\ Answers(c, "error")
  /\ UNCHANGED <<vars, waybill, announced, place, seen, dialog>>

-----------------------------------------------------------------------------
(* The answer reaches the page *)

Heard(c) == call' = [call EXCEPT ![c] = NoCall]

\* The buttons of a desk, or of them the one that ships, go with their dialog
\* and the busy flags they held.
ButtonsGo(d, c, kinds, left) ==
  /\ Set(dialog, d, FALSE)
  /\ call' = [e \in Calls |->
       IF e = c THEN NoCall
       ELSE IF call[e].desk = d /\ call[e].kind \in kinds /\ call[e].asked # "gone"
       THEN [call[e] EXCEPT !.asked = left] ELSE call[e]]

\* onError: the message replaces the page.
Refusal(c) ==
  LET d == call[c].desk IN
  /\ call[c].outcome = "error"
  /\ IF call[c].asked = "gone" THEN Heard(c) /\ UNCHANGED <<place, dialog>>
     ELSE Set(place, d, "problem") /\ ButtonsGo(d, c, Actions, "page")
  /\ UNCHANGED <<vars, waybill, announced, seen>>

\* router.invalidate: the loader again, of the page the desk is on by now.
Success(c) ==
  LET d == call[c].desk IN
  /\ call[c].outcome = "ok"
  /\ \/ /\ place[d] \notin {"detail", "problem"}
        /\ Heard(c) /\ UNCHANGED <<place, seen, dialog>>
     \/ /\ place[d] \in {"detail", "problem"} /\ Loaded(d) /\ UNCHANGED place
        /\ IF OrderRead = "paid" /\ ~Refunding THEN Heard(c) /\ UNCHANGED dialog
           ELSE ButtonsGo(d, c, {"ship"}, "page")
     \/ /\ place[d] \in {"detail", "problem"}
        /\ Set(place, d, "off") /\ Set(seen, d, Nothing)
        /\ ButtonsGo(d, c, Actions, "gone")
  /\ UNCHANGED <<vars, waybill, announced>>

-----------------------------------------------------------------------------
DeskStep(d) ==
  \/ OpenDesk(d) \/ OpenList(d) \/ CloseProblem(d) \/ OpenDialog(d) \/ CloseDialog(d)
  \/ \E c \in Calls : ShipClick(d, c) \/ \E k \in Actions : RunAction(d, c, k)

CallStep(c) == Handle(c) \/ CallLost(c) \/ Refusal(c) \/ Success(c)

DeskNext ==
  \/ Next /\ UNCHANGED deskVars
  \/ \E d \in world.desks : DeskStep(d)
  \/ \E c \in Calls : CallStep(c)

DeskSpec == DeskInit /\ [][DeskNext]_allVars /\ Fairness

-----------------------------------------------------------------------------
(* What holds *)

\* "No entry to shipping can leave the event out, and a correction does not
\* send the email again" (ship-order): an order the desks shipped was announced
\* once, however often stale pages and lost answers have it shipped again.
AnnouncedOnce ==
  world.desks # {} => announced = (IF "shipped" \in had THEN 1 ELSE 0)

\* The page forbids to ship while a refund is processing (the api does not): an
\* order is shipped into a refund only from a page loaded before the refund.
ShippedBlindly ==
  [][underway /\ order = "paid" /\ order' = "shipped" /\ world.desks # {}
       => \E c \in Calls : call[c].kind = "ship" /\ call[c].outcome = "sent"
                           /\ call'[c].outcome = "ok" /\ ~call[c].fresh]_allVars

-----------------------------------------------------------------------------
(* What a comment says, and the code does not keep *)

\* orders/$id.tsx: "the backend has the same guard" against shipping an order
\* whose refund is being processed.
NoShipmentDuringRefund ==
  [][underway => ~(order = "paid" /\ order' = "shipped")]_allVars
==============================================================================

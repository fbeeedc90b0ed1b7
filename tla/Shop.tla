-------------------------------- MODULE Shop --------------------------------
(***************************************************************************)
(* A customer's tabs on the product, cart and checkout pages, the calls    *)
(* they make, and the cart behind them (domains/cart, usecases/cart-ops).  *)
(* A page shows what it loaded; a call is served and answered at any later *)
(* time, or the browser gives up on it while the server may still serve    *)
(* it. A call is served in one step: what interleaves inside a checkout is *)
(* Checkout's. An amount of stock is reduced to "some" and "none".         *)
(***************************************************************************)
EXTENDS Naturals, FiniteSets

CONSTANTS
  Skus, Tabs, Addresses,
  Slots,         \* calls under way at once
  MaxQuantity,   \* 9999
  MaxKeys,       \* bounds the idempotency keys made
  None

ASSUME ShopAssumption ==
  /\ MaxQuantity \in Nat \ {0} /\ MaxKeys \in Nat
  /\ None \notin Skus \cup Tabs \cup Addresses \cup 1..MaxKeys

VARIABLES
  avail,      \* what became of a SKU
  cart,       \* cart_items: the quantity of a SKU, 0 without a row
  orders,     \* checkout_idempotency_keys: the body of the order under a key
  signedIn,   \* the session cookie is valid
  page, calls, nextKey,
  wanted, muddled, givenUp, sent, resent   \* history

cartHistory == <<wanted, muddled>>
keyHistory == <<givenUp, sent, resent>>
history == <<cartHistory, keyHistory>>
vars == <<avail, cart, orders, signedIn, page, calls, nextKey, history>>

Keys == 1..MaxKeys
Lines == [Skus -> 0..MaxQuantity]
NoLines == [s \in Skus |-> 0]
Only(s, n) == [NoLines EXCEPT ![s] = n]
In(lines) == {s \in Skus : lines[s] > 0}

Least(m, n) == IF m < n THEN m ELSE n

NoCall == [op |-> "none"]
Ops == {"add", "change", "remove", "order", "login"}
Answers == {"none", "ok", "refused", "unauthorized"}

Page(at) == [at |-> at, sku |-> None, lines |-> NoLines, soldOut |-> {}, busy |-> {},
             key |-> None, address |-> None, direct |-> FALSE]

\* The SKUs a call is about, and the calls about a SKU.
About(c) == IF c.op \in {"none", "login"} THEN {} ELSE IF c.op = "order" THEN In(c.lines) ELSE {c.sku}
InFlight(s) == {i \in Slots : s \in About(calls[i])}

TypeOK ==
  /\ avail \in [Skus -> {"onSale", "soldOut", "offSale", "deleted"}]
  /\ cart \in Lines /\ signedIn \in BOOLEAN /\ nextKey \in 1..(MaxKeys + 1)
  /\ \A k \in Keys : orders[k] # None =>
       orders[k].lines \in Lines /\ In(orders[k].lines) # {} /\ orders[k].address \in Addresses
  /\ \A t \in Tabs :
       /\ page[t].at \in {"home", "product", "cart", "checkout", "pay", "login"}
       /\ page[t].lines \in Lines /\ page[t].soldOut \subseteq Skus /\ page[t].busy \subseteq Skus
       /\ page[t].key \in Keys \cup {None} /\ page[t].address \in Addresses \cup {None}
       /\ page[t].at = "checkout" => page[t].key # None /\ In(page[t].lines) # {}
  /\ \A i \in Slots : calls[i] # NoCall =>
       /\ calls[i].op \in Ops /\ calls[i].answer \in Answers /\ calls[i].lines \in Lines
       /\ About(calls[i]) \subseteq Skus /\ calls[i].tab \in Tabs \cup {None} /\ calls[i].here \in BOOLEAN
  /\ wanted \in Lines /\ muddled \subseteq Skus
  /\ givenUp \cup resent \subseteq sent /\ sent \subseteq Keys

Init ==
  /\ avail = [s \in Skus |-> "onSale"] /\ cart = NoLines /\ orders = [k \in Keys |-> None]
  /\ signedIn = TRUE /\ page = [t \in Tabs |-> Page("home")]
  /\ calls = [i \in Slots |-> NoCall] /\ nextKey = 1
  /\ wanted = NoLines /\ muddled = {} /\ givenUp = {} /\ sent = {} /\ resent = {}

-----------------------------------------------------------------------------
(* Pages and the calls they make *)

\* A tab leaves its page: the answers of its calls find it gone.
Left(t) == [i \in Slots |-> IF calls[i] # NoCall /\ calls[i].tab = t
                            THEN [calls[i] EXCEPT !.here = FALSE] ELSE calls[i]]

\* What products and carts show of a SKU: viewCart leaves no line out.
Listed(s) == avail[s] \in {"onSale", "soldOut"}
SoldOut == {s \in Skus : avail[s] = "soldOut"}
CartView(p) == [p EXCEPT !.lines = cart, !.soldOut = SoldOut]

Show(t, p) == page' = [page EXCEPT ![t] = p] /\ calls' = Left(t)

\* A loader that is told 401 leads to the login page.
Refused(t) == ~signedIn /\ Show(t, Page("login"))

Send(t, op, sku, lines) ==
  \E i \in {j \in Slots : calls[j] = NoCall} :
    calls' = [calls EXCEPT ![i] = [tab |-> t, here |-> TRUE, op |-> op, sku |-> sku, lines |-> lines,
                                   key |-> page[t].key, address |-> page[t].address,
                                   direct |-> page[t].direct, answer |-> "none"]]

\* The customer's choice for a SKU. A call that overlaps another one on the SKU
\* muddles it, but for the call the page's lock is for: the lock excludes it.
Choose(t, s, n) ==
  /\ wanted' = [wanted EXCEPT ![s] = n]
  /\ muddled' = IF \A i \in InFlight(s) : calls[i].tab = t /\ calls[i].here /\ page[t].busy = {s}
                THEN muddled ELSE muddled \cup {s}

InTheTab == UNCHANGED <<avail, cart, orders, signedIn>>

\* Opening a product that is published, or choosing another of its SKUs.
OpenProduct(t, s) ==
  /\ Listed(s)
  /\ Show(t, [Page("product") EXCEPT !.sku = s, !.lines = Only(s, 1), !.soldOut = SoldOut])
  /\ InTheTab /\ UNCHANGED <<nextKey, history>>

SelectSku(t, s) ==
  /\ page[t].at = "product" /\ s # page[t].sku
  /\ page' = [page EXCEPT ![t].sku = s, ![t].lines = Only(s, 1)]
  /\ InTheTab /\ UNCHANGED <<calls, nextKey, history>>

\* The buttons and the field of the stepper: clamped to what is in stock, so
\* to 0 for a SKU that was sold out when the page loaded.
Steps(p, s) == (IF s \in p.soldOut THEN {0} ELSE 1..MaxQuantity) \ {p.lines[s]}

SetQuantity(t, n) ==
  LET s == page[t].sku IN
  /\ page[t].at = "product" /\ n \in Steps(page[t], s)
  /\ page' = [page EXCEPT ![t].lines = Only(s, n)]
  /\ InTheTab /\ UNCHANGED <<calls, nextKey, history>>

AddToCart(t) ==
  LET p == page[t] s == p.sku IN
  /\ p.at = "product" /\ p.busy = {} /\ s \notin p.soldOut
  /\ Send(t, "add", s, p.lines)
  /\ page' = [page EXCEPT ![t].busy = {s}]
  /\ Choose(t, s, Least(wanted[s] + p.lines[s], MaxQuantity))
  /\ InTheTab /\ UNCHANGED <<nextKey, keyHistory>>

\* The cart page, loaded first or again after a change.
OpenCart(t) ==
  /\ IF signedIn THEN Show(t, CartView(Page("cart"))) ELSE Refused(t)
  /\ InTheTab /\ UNCHANGED <<nextKey, history>>

ReloadCart(t) ==
  /\ page[t].at = "cart" /\ signedIn /\ page[t].lines # cart
  /\ page' = [page EXCEPT ![t] = CartView(@)]
  /\ InTheTab /\ UNCHANGED <<calls, nextKey, history>>

\* Fault: no lock.
ChangeAnyway(t, s) == page[t].at = "cart" /\ page[t].lines[s] > 0

\* One lock for the page: it holds the SKU changed last.
Unlocked(t, s) == page[t].at = "cart" /\ page[t].lines[s] > 0 /\ s \notin page[t].busy

ChangeQuantity(t, s, n) ==
  /\ Unlocked(t, s) /\ n \in Steps(page[t], s)
  /\ Send(t, "change", s, Only(s, n))
  /\ page' = [page EXCEPT ![t].busy = {s}]
  /\ Choose(t, s, n)
  /\ InTheTab /\ UNCHANGED <<nextKey, keyHistory>>

Remove(t, s) ==
  /\ Unlocked(t, s)
  /\ Send(t, "remove", s, NoLines)
  /\ page' = [page EXCEPT ![t].busy = {s}]
  /\ Choose(t, s, 0)
  /\ InTheTab /\ UNCHANGED <<nextKey, keyHistory>>

\* The checkout page makes a key when it is entered. Bought directly, it shows
\* the SKU and quantity of the product page, and the cart otherwise.
OpenCheckout(t, direct) ==
  LET lines == IF direct THEN page[t].lines ELSE cart IN
  /\ page[t].at \in {"product", "cart"} /\ (direct => page[t].at = "product" /\ page[t].sku \notin page[t].soldOut)
  /\ signedIn => In(lines) # {} /\ nextKey \in Keys /\ \A s \in In(lines) : direct => Listed(s)
  /\ \/ /\ signedIn
        /\ \E a \in Addresses :
             Show(t, [Page("checkout") EXCEPT !.lines = lines, !.key = nextKey, !.address = a, !.direct = direct])
        /\ nextKey' = nextKey + 1
     \/ Refused(t) /\ UNCHANGED nextKey
  /\ InTheTab /\ UNCHANGED history

\* The address goes into the URL: the page may load again, and keeps its key.
SelectAddress(t, a) ==
  LET p == page[t] IN
  /\ p.at = "checkout" /\ a # p.address
  /\ \E lines \in {p.lines} \cup (IF p.direct \/ In(cart) = {} \/ ~signedIn THEN {} ELSE {cart}) :
       page' = [page EXCEPT ![t].address = a, ![t].lines = lines]
  /\ InTheTab /\ UNCHANGED <<calls, nextKey, history>>

Submit(t) ==
  /\ page[t].at = "checkout" /\ page[t].busy = {}
  /\ Send(t, "order", None, page[t].lines)
  /\ page' = [page EXCEPT ![t].busy = Skus]
  /\ sent' = sent \cup {page[t].key} /\ resent' = resent \cup ({page[t].key} \cap sent)
  /\ InTheTab /\ UNCHANGED <<nextKey, cartHistory, givenUp>>

Login(t) ==
  /\ page[t].at = "login" /\ page[t].busy = {}
  /\ Send(t, "login", None, NoLines)
  /\ page' = [page EXCEPT ![t].busy = Skus]
  /\ InTheTab /\ UNCHANGED <<nextKey, history>>

-----------------------------------------------------------------------------
(* The server *)

Answer(i, a) == calls' = [calls EXCEPT ![i] = IF @.tab = None THEN NoCall ELSE [@ EXCEPT !.answer = a]]

Waits(i, op) == calls[i] # NoCall /\ calls[i].op = op /\ calls[i].answer = "none"

Unauthorized(i) ==
  /\ calls[i] # NoCall /\ calls[i].op # "login" /\ calls[i].answer = "none" /\ ~signedIn
  /\ Answer(i, "unauthorized")
  /\ muddled' = muddled \cup (IF calls[i].op = "order" THEN {} ELSE About(calls[i]))
  /\ InTheTab /\ UNCHANGED <<page, nextKey, wanted, keyHistory>>

\* A change of the cart that is refused leaves the customer's choice undone.
Decline(i) ==
  /\ Answer(i, "refused")
  /\ muddled' = muddled \cup {calls[i].sku}
  /\ UNCHANGED cart

\* The writes of domains/cart: a line is merged up to the limit, set or deleted.
UpsertCartItem(s, n) == cart' = [cart EXCEPT ![s] = Least(@ + n, MaxQuantity)]
UpdateCartItem(s, n) == cart' = [cart EXCEPT ![s] = n]
DeleteCartItem(s) == cart' = [cart EXCEPT ![s] = 0]

Purchasable(s) == Listed(s)

\* addItemToCart: 404 or 409 for what is not on offer.
AddItemToCart(i) ==
  LET s == calls[i].sku IN
  /\ Waits(i, "add") /\ signedIn
  /\ IF Purchasable(s)
     THEN UpsertCartItem(s, calls[i].lines[s]) /\ Answer(i, "ok") /\ UNCHANGED muddled
     ELSE Decline(i)
  /\ UNCHANGED <<avail, orders, signedIn, page, nextKey, wanted, keyHistory>>

\* changeCartItemQuantity: 422 for a quantity of 0, 404 without the line.
ChangeCartItemQuantity(i) ==
  LET s == calls[i].sku n == calls[i].lines[s] IN
  /\ Waits(i, "change") /\ signedIn
  /\ IF n > 0 /\ cart[s] > 0
     THEN UpdateCartItem(s, n) /\ Answer(i, "ok") /\ UNCHANGED muddled
     ELSE Decline(i)
  /\ UNCHANGED <<avail, orders, signedIn, page, nextKey, wanted, keyHistory>>

RemoveCartItem(i) ==
  LET s == calls[i].sku IN
  /\ Waits(i, "remove") /\ signedIn
  /\ IF cart[s] > 0 THEN DeleteCartItem(s) /\ Answer(i, "ok") /\ UNCHANGED muddled
     ELSE Decline(i)
  /\ UNCHANGED <<avail, orders, signedIn, page, nextKey, wanted, keyHistory>>

\* removeCartItems: the lines of the order go, whatever they hold.
RemoveCartItems(lines) == [s \in Skus |-> IF lines[s] > 0 THEN 0 ELSE cart[s]]

\* The body a key stands for.
BodyOf(c) == [lines |-> c.lines, address |-> c.address]

\* A known key repeats its order or, with another body, is refused.
Replay(i) ==
  /\ orders[calls[i].key] # None
  /\ Answer(i, IF orders[calls[i].key] = BodyOf(calls[i]) THEN "ok" ELSE "refused")
  /\ UNCHANGED <<cart, orders, wanted, muddled>>

\* An order takes other units from the cart than it buys when the line was
\* changed since the page loaded, or when it was bought directly.
Place(i) ==
  LET c == calls[i]
      other == {s \in In(c.lines) : cart[s] # 0 /\ (c.direct \/ cart[s] # c.lines[s])}
      racing == {s \in In(c.lines) : InFlight(s) # {i}} IN
  /\ orders[c.key] = None /\ \A s \in In(c.lines) : avail[s] = "onSale"
  /\ orders' = [orders EXCEPT ![c.key] = BodyOf(c)]
  /\ cart' = RemoveCartItems(c.lines)
  /\ wanted' = IF c.direct THEN wanted ELSE [s \in Skus |-> IF c.lines[s] > 0 THEN 0 ELSE wanted[s]]
  /\ muddled' = muddled \cup other \cup racing
  /\ Answer(i, "ok")

CheckoutOrder(i) ==
  LET c == calls[i] IN
  /\ Waits(i, "order") /\ signedIn
  /\ \/ Replay(i)
     \/ Place(i)
     \/ /\ orders[c.key] = None /\ \E s \in In(c.lines) : avail[s] # "onSale"
        /\ Answer(i, "refused")
        /\ UNCHANGED <<cart, orders, wanted, muddled>>
  /\ UNCHANGED <<avail, signedIn, page, nextKey, keyHistory>>

ServeLogin(i) ==
  /\ Waits(i, "login") /\ signedIn' = TRUE /\ Answer(i, "ok")
  /\ UNCHANGED <<avail, cart, orders, page, nextKey, history>>

-----------------------------------------------------------------------------
(* Answers *)

Done(i) == calls' = [calls EXCEPT ![i] = NoCall]

\* setBusySkuId(null), whichever line the answer is about.
Release(i) == page' = IF calls[i].here THEN [page EXCEPT ![calls[i].tab].busy = {}] ELSE page

\* A page that was left navigates all the same.
GoTo(i, at) ==
  /\ page' = [page EXCEPT ![calls[i].tab] = Page(at)]
  /\ calls' = [Left(calls[i].tab) EXCEPT ![i] = NoCall]

LineAnswered(i) ==
  /\ calls[i] # NoCall /\ calls[i].op \in {"add", "change", "remove"} /\ calls[i].answer # "none"
  /\ IF calls[i].answer = "unauthorized" THEN GoTo(i, "login") ELSE Done(i) /\ Release(i)
  /\ InTheTab /\ UNCHANGED <<nextKey, history>>

\* Fault: every answer but a success ends the attempt.
EndsAlways(answer) == TRUE

\* Told 4xx the page takes a new key; told nothing it keeps the key.
EndsAttempt(answer) == answer \in {"refused", "unauthorized"}

OrderUnsettled(i, answer) ==
  LET c == calls[i] IN
  /\ c.here /\ EndsAttempt(answer) => nextKey \in Keys
  /\ IF c.here /\ EndsAttempt(answer)
     THEN /\ page' = [page EXCEPT ![c.tab].busy = {}, ![c.tab].key = nextKey]
          /\ nextKey' = nextKey + 1 /\ givenUp' = givenUp \cup {c.key}
     ELSE Release(i) /\ UNCHANGED <<nextKey, givenUp>>

OrderAnswered(i) ==
  /\ calls[i] # NoCall /\ calls[i].op = "order" /\ calls[i].answer # "none"
  /\ \/ calls[i].answer = "ok" /\ GoTo(i, "pay") /\ UNCHANGED <<nextKey, givenUp>>
     \/ calls[i].answer # "ok" /\ Done(i) /\ OrderUnsettled(i, calls[i].answer)
  /\ InTheTab /\ UNCHANGED <<cartHistory, sent, resent>>

LoginAnswered(i) ==
  /\ calls[i] # NoCall /\ calls[i].op = "login" /\ calls[i].answer = "ok"
  /\ GoTo(i, "home")
  /\ InTheTab /\ UNCHANGED <<nextKey, history>>

\* The browser gives up: the answer was lost, or the server has yet to serve
\* the call, or will never see it.
GiveUp(i) ==
  LET c == calls[i] IN
  /\ c # NoCall /\ c.tab # None
  /\ \/ Done(i)
     \/ c.answer = "none" /\ calls' = [calls EXCEPT ![i].tab = None, ![i].here = FALSE]
  /\ \/ c.op = "order" /\ OrderUnsettled(i, "lost") /\ UNCHANGED muddled
     \/ c.op # "order" /\ Release(i) /\ muddled' = muddled \cup About(c) /\ UNCHANGED <<nextKey, givenUp>>
  /\ InTheTab /\ UNCHANGED <<wanted, sent, resent>>

-----------------------------------------------------------------------------
(* The rest of the shop *)

\* Others buy, the stock is refilled, a product is withdrawn or deleted with
\* the lines it has in carts.
ChangeOffer(s, a) ==
  /\ avail[s] # a /\ avail[s] # "deleted" /\ a \in {"onSale", "soldOut", "offSale", "deleted"}
  /\ avail' = [avail EXCEPT ![s] = a]
  /\ IF a = "deleted"
     THEN /\ cart' = [cart EXCEPT ![s] = 0] /\ wanted' = [wanted EXCEPT ![s] = 0]
          /\ muddled' = muddled \cup (IF InFlight(s) # {} THEN {s} ELSE {})
     ELSE UNCHANGED <<cart, wanted, muddled>>
  /\ UNCHANGED <<orders, signedIn, page, calls, nextKey, keyHistory>>

SessionEnds ==
  /\ signedIn /\ signedIn' = FALSE
  /\ UNCHANGED <<avail, cart, orders, page, calls, nextKey, history>>

Next ==
  \/ \E t \in Tabs :
       \/ OpenCart(t) \/ ReloadCart(t) \/ AddToCart(t) \/ Submit(t) \/ Login(t)
       \/ \E direct \in BOOLEAN : OpenCheckout(t, direct)
       \/ \E n \in 0..MaxQuantity : SetQuantity(t, n)
       \/ \E a \in Addresses : SelectAddress(t, a)
       \/ \E s \in Skus :
            \/ OpenProduct(t, s) \/ SelectSku(t, s) \/ Remove(t, s)
            \/ \E n \in 0..MaxQuantity : ChangeQuantity(t, s, n)
  \/ \E i \in Slots :
       \/ Unauthorized(i) \/ AddItemToCart(i) \/ ChangeCartItemQuantity(i) \/ RemoveCartItem(i)
       \/ CheckoutOrder(i) \/ ServeLogin(i)
       \/ LineAnswered(i) \/ OrderAnswered(i) \/ LoginAnswered(i) \/ GiveUp(i)
  \/ \E s \in Skus, a \in {"onSale", "soldOut", "offSale", "deleted"} : ChangeOffer(s, a)
  \/ SessionEnds

Spec == Init /\ [][Next]_vars

-----------------------------------------------------------------------------
(* Properties *)

\* When no call on a SKU is under way the cart holds what the customer chose
\* last, unless calls on it overlapped (from two tabs, across two visits of
\* the page, or because another line took the page's one lock), one of them
\* was refused or lost, or an order removed a line it did not hold (bought
\* directly, or changed since the checkout page loaded).
LastChoiceStands == \A s \in Skus : InFlight(s) = {} => s \in muddled \/ cart[s] = wanted[s]

\* A key the checkout page replaced after an answer has no order under it,
\* unless the answer to an earlier submission under the key was lost.
KeyGivenUpHasNoOrder == \A k \in givenUp : orders[k] # None => k \in resent

\* Refuted: a 4xx answer means that no order was made.
RefusalMeansNoOrder == \A k \in givenUp : orders[k] = None

\* Refuted: changes of one SKU from one page follow each other.
OneChangePerSku ==
  \A i, j \in Slots :
    i # j /\ calls[i] # NoCall /\ calls[j] # NoCall /\ calls[i].here /\ calls[j].here
      /\ calls[i].tab = calls[j].tab /\ calls[i].op = "change" /\ calls[j].op = "change"
      => calls[i].sku # calls[j].sku
=============================================================================

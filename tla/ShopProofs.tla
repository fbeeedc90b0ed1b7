----------------------------- MODULE ShopProofs -----------------------------
(***************************************************************************)
(* What TLAPS proves of Shop, for every set of SKUs, tabs, addresses and   *)
(* slots and every bound: types, that the cart holds what the customer     *)
(* chose last unless one of the named mishaps muddled the choice, and that *)
(* a key the checkout page replaced has no order unless it was resent; and *)
(* of Addresses, for every set of addresses and requests: types, and that  *)
(* one address is the default, the one that was asked for.                 *)
(***************************************************************************)
EXTENDS Shop, Addresses, TLAPS

USE DEF cartHistory, keyHistory, history

-----------------------------------------------------------------------------
(* Types *)

\* What a page and a call are.
Pages == [at : {"home", "product", "cart", "checkout", "pay", "login"},
          sku : Skus \cup {None}, lines : Lines, soldOut : SUBSET Skus, busy : SUBSET Skus,
          key : Keys \cup {None}, address : Addresses \cup {None}, direct : BOOLEAN]

Calls == [tab : Tabs \cup {None}, here : BOOLEAN, op : Ops, sku : Skus \cup {None},
          lines : Lines, key : Keys \cup {None}, address : Addresses \cup {None},
          direct : BOOLEAN, answer : Answers]

Bodies == [lines : Lines, address : Addresses]

LineOps == {"add", "change", "remove"}

\* TypeOK alone is not inductive: a call is made from what its page shows, and
\* only a call that its tab still waits for has an answer.
PageGood(p) ==
  /\ p.at = "product" => p.sku \in Skus
  /\ p.at = "checkout" => p.key \in Keys /\ p.address \in Addresses /\ In(p.lines) # {}

CallGood(c) ==
  /\ c.op \in LineOps => c.sku \in Skus
  /\ c.op = "order" => c.key \in Keys /\ c.address \in Addresses /\ In(c.lines) # {}
  /\ c.tab = None => ~c.here /\ c.answer = "none"

PagesOK == page \in [Tabs -> Pages] /\ \A t \in Tabs : PageGood(page[t])

CallsOK == calls \in [Slots -> Calls \cup {NoCall}] /\ \A i \in Slots : calls[i] \in Calls => CallGood(calls[i])

OrdersOK ==
  /\ orders \in [Keys -> Bodies \cup {None}]
  /\ \A k \in Keys : orders[k] # None => orders[k] \in Bodies /\ In(orders[k].lines) # {}

\* A key under which an order is asked for was sent, and is counted as sent.
SentOK ==
  /\ sent \subseteq Keys /\ givenUp \subseteq sent /\ resent \subseteq sent
  /\ \A i \in Slots : calls[i].op = "order" => calls[i].key \in sent

CartOK ==
  /\ avail \in [Skus -> {"onSale", "soldOut", "offSale", "deleted"}]
  /\ cart \in Lines /\ wanted \in Lines /\ muddled \subseteq Skus

TypeInv ==
  PagesOK /\ CallsOK /\ OrdersOK /\ SentOK /\ CartOK /\ signedIn \in BOOLEAN /\ nextKey \in 1..(MaxKeys + 1)

\* A call is not the mark of a free slot.
LEMMA CallIsSome ==
  (\A c \in Calls : c # NoCall /\ c.op # "none") /\ NoCall \notin Calls /\ NoCall.op = "none"
BY DEF Calls, Ops, NoCall

LEMMA LinesTyped ==
  /\ NoLines \in Lines
  /\ \A s \in Skus, n \in 0..MaxQuantity : Only(s, n) \in Lines
  /\ \A at \in {"home", "product", "cart", "checkout", "pay", "login"} : Page(at) \in Pages
<1>1. NoLines \in Lines
  BY ShopAssumption DEF NoLines, Lines
<1>2. QED
  BY <1>1 DEF Only, Lines, Page, Pages, NoLines

\* The types say what TypeOK says.
LEMMA TypeInvTypes == TypeInv => TypeOK
<1> SUFFICES ASSUME TypeInv PROVE TypeOK
  OBVIOUS
<1>1. ASSUME NEW i \in Slots, calls[i] # NoCall
      PROVE  /\ calls[i].op \in Ops /\ calls[i].answer \in Answers /\ calls[i].lines \in Lines
             /\ About(calls[i]) \subseteq Skus /\ calls[i].tab \in Tabs \cup {None} /\ calls[i].here \in BOOLEAN
  <2>1. calls[i] \in Calls /\ CallGood(calls[i])
    BY <1>1 DEF TypeInv, CallsOK
  <2>2. QED
    BY <2>1 DEF Calls, CallGood, About, In, Ops, LineOps
<1>2. ASSUME NEW t \in Tabs
      PROVE  /\ page[t].at \in {"home", "product", "cart", "checkout", "pay", "login"}
             /\ page[t].lines \in Lines /\ page[t].soldOut \subseteq Skus /\ page[t].busy \subseteq Skus
             /\ page[t].key \in Keys \cup {None} /\ page[t].address \in Addresses \cup {None}
             /\ page[t].at = "checkout" => page[t].key # None /\ In(page[t].lines) # {}
  <2>1. page[t] \in Pages /\ PageGood(page[t])
    BY DEF TypeInv, PagesOK
  <2>2. QED
    BY <2>1, ShopAssumption DEF Pages, PageGood, Keys
<1>3. QED
  BY <1>1, <1>2 DEF TypeInv, TypeOK, OrdersOK, SentOK, CartOK, Bodies

\* What the steps of the calls do: a page is shown or left, a call is sent,
\* answered or done with, an answer leads to another page.
LEMMA LeftTyped ==
  ASSUME TypeInv, NEW t \in Tabs
  PROVE  /\ Left(t) \in [Slots -> Calls \cup {NoCall}]
         /\ \A i \in Slots :
              \/ Left(t)[i] = calls[i]
              \/ /\ calls[i] \in Calls /\ Left(t)[i] \in Calls /\ calls[i].tab = t
                 /\ Left(t)[i] = [calls[i] EXCEPT !.here = FALSE]
         /\ \A i \in Slots : Left(t)[i] \in Calls => CallGood(Left(t)[i])
<1>1. ASSUME NEW i \in Slots
      PROVE  /\ Left(t)[i] = IF calls[i] # NoCall /\ calls[i].tab = t
                             THEN [calls[i] EXCEPT !.here = FALSE] ELSE calls[i]
             /\ calls[i] \in Calls \cup {NoCall} /\ (calls[i] \in Calls => CallGood(calls[i]))
  BY DEF Left, TypeInv, CallsOK
<1>2. ASSUME NEW c \in Calls, CallGood(c)
      PROVE  [c EXCEPT !.here = FALSE] \in Calls /\ CallGood([c EXCEPT !.here = FALSE])
  BY <1>2 DEF Calls, CallGood
<1>3. ASSUME NEW i \in Slots
      PROVE  /\ Left(t)[i] \in Calls \cup {NoCall}
             /\ \/ Left(t)[i] = calls[i]
                \/ /\ calls[i] \in Calls /\ Left(t)[i] \in Calls /\ calls[i].tab = t
                   /\ Left(t)[i] = [calls[i] EXCEPT !.here = FALSE]
             /\ Left(t)[i] \in Calls => CallGood(Left(t)[i])
  <2>1. CASE calls[i] # NoCall /\ calls[i].tab = t
    BY <2>1, <1>1, <1>2
  <2>2. CASE ~(calls[i] # NoCall /\ calls[i].tab = t)
    BY <2>2, <1>1
  <2>3. QED
    BY <2>1, <2>2
<1>4. Left(t) = [i \in Slots |-> Left(t)[i]]
  BY DEF Left
<1>5. QED
  BY <1>3, <1>4

\* The typing that a change of pages or of calls alone can disturb.
ShopOK == PagesOK /\ CallsOK /\ SentOK

LEMMA ShowTyped ==
  ASSUME TypeInv, NEW t \in Tabs, NEW p \in Pages, PageGood(p), Show(t, p),
         UNCHANGED <<sent, givenUp, resent>>
  PROVE  ShopOK'
<1>1. page' = [page EXCEPT ![t] = p] /\ calls' = Left(t)
  BY DEF Show
<1>2. PagesOK'
  BY <1>1 DEF TypeInv, PagesOK
<1>3. CallsOK'
  BY <1>1, LeftTyped DEF CallsOK
<1>4. SentOK'
  <2>1. \A i \in Slots : calls'[i].op = calls[i].op /\ (calls'[i].op = "order" => calls'[i].key = calls[i].key)
    <3> SUFFICES ASSUME NEW i \in Slots
                 PROVE  calls'[i].op = calls[i].op /\ (calls'[i].op = "order" => calls'[i].key = calls[i].key)
      OBVIOUS
    <3>1. calls'[i] = Left(t)[i]
      BY <1>1
    <3>2. \/ Left(t)[i] = calls[i]
          \/ calls[i] \in Calls /\ Left(t)[i] = [calls[i] EXCEPT !.here = FALSE]
      BY LeftTyped
    <3>3. QED
      BY <3>1, <3>2 DEF Calls
  <2>2. QED
    BY <2>1 DEF SentOK, TypeInv
<1>5. QED
  BY <1>2, <1>3, <1>4 DEF ShopOK

\* What a call that is sent says.
Sent(t, op, sku, lines) ==
  [tab |-> t, here |-> TRUE, op |-> op, sku |-> sku, lines |-> lines, key |-> page[t].key,
   address |-> page[t].address, direct |-> page[t].direct, answer |-> "none"]

LEMMA SendTyped ==
  ASSUME TypeInv, NEW t \in Tabs, NEW op \in Ops, NEW sku \in Skus \cup {None}, NEW lines \in Lines,
         op \in LineOps => sku \in Skus,
         op = "order" => page[t].at = "checkout" /\ lines = page[t].lines,
         Send(t, op, sku, lines)
  PROVE  /\ CallsOK'
         /\ \E i \in Slots : /\ calls[i] = NoCall /\ calls' = [calls EXCEPT ![i] = Sent(t, op, sku, lines)]
                             /\ Sent(t, op, sku, lines) \in Calls
<1>1. PICK i \in Slots : calls[i] = NoCall /\ calls' = [calls EXCEPT ![i] = Sent(t, op, sku, lines)]
  BY DEF Send, Sent
<1>2. page[t] \in Pages /\ PageGood(page[t])
  BY DEF TypeInv, PagesOK
<1>3. Sent(t, op, sku, lines) \in Calls
  BY <1>2 DEF Sent, Calls, Pages, Answers
<1>4. CallGood(Sent(t, op, sku, lines))
  BY <1>2, ShopAssumption DEF Sent, CallGood, PageGood
<1> HIDE DEF Sent
<1>5. QED
  BY <1>1, <1>3, <1>4 DEF CallsOK, TypeInv

LEMMA AnswerTyped ==
  ASSUME TypeInv, NEW i \in Slots, calls[i] # NoCall, NEW a \in Answers, Answer(i, a)
  PROVE  /\ CallsOK'
         /\ calls[i] \in Calls /\ CallGood(calls[i])
         /\ \/ calls[i].tab = None /\ calls' = [calls EXCEPT ![i] = NoCall]
            \/ /\ calls[i].tab \in Tabs /\ calls' = [calls EXCEPT ![i] = [calls[i] EXCEPT !.answer = a]]
               /\ [calls[i] EXCEPT !.answer = a] \in Calls
         /\ \A j \in Slots : calls'[j].op = "order" => calls[j].op = "order" /\ calls'[j].key = calls[j].key
<1>1. calls[i] \in Calls /\ CallGood(calls[i]) /\ calls[i].tab \in Tabs \cup {None}
  BY DEF TypeInv, CallsOK, Calls
<1>2. CASE calls[i].tab = None
  <2>1. calls' = [calls EXCEPT ![i] = NoCall]
    BY <1>2 DEF Answer
  <2>2. QED
    BY <1>1, <1>2, <2>1, CallIsSome DEF TypeInv, CallsOK
<1>3. CASE calls[i].tab # None
  <2> DEFINE d == [calls[i] EXCEPT !.answer = a]
  <2>1. calls' = [calls EXCEPT ![i] = d]
    BY <1>3 DEF Answer
  <2>2. d \in Calls /\ CallGood(d) /\ d.op = calls[i].op /\ d.key = calls[i].key
    BY <1>1, <1>3 DEF Calls, CallGood
  <2> HIDE DEF d
  <2>3. CallsOK' /\ \A j \in Slots : calls'[j].op = "order" => calls[j].op = "order" /\ calls'[j].key = calls[j].key
    BY <2>1, <2>2 DEF TypeInv, CallsOK
  <2>4. QED
    BY <1>1, <1>3, <2>1, <2>2, <2>3 DEF d
<1>4. QED
  BY <1>2, <1>3

LEMMA DoneTyped ==
  ASSUME TypeInv, NEW i \in Slots, Done(i)
  PROVE  CallsOK' /\ \A j \in Slots : calls'[j].op = "order" => calls'[j] = calls[j]
BY CallIsSome DEF TypeInv, CallsOK, Done

LEMMA ReleaseTyped ==
  ASSUME TypeInv, NEW i \in Slots, calls[i] # NoCall, Release(i)
  PROVE  PagesOK'
<1>1. calls[i] \in Calls /\ CallGood(calls[i])
  BY DEF TypeInv, CallsOK
<1>2. CASE calls[i].here
  <2>1. PICK t \in Tabs : t = calls[i].tab
    BY <1>1, <1>2 DEF Calls, CallGood
  <2>2. page' = [page EXCEPT ![t].busy = {}]
    BY <1>2, <2>1 DEF Release
  <2>3. [page[t] EXCEPT !.busy = {}] \in Pages /\ PageGood([page[t] EXCEPT !.busy = {}])
    BY DEF TypeInv, PagesOK, Pages, PageGood
  <2>4. QED
    BY <2>2, <2>3 DEF TypeInv, PagesOK
<1>3. CASE ~calls[i].here
  BY <1>3 DEF Release, TypeInv, PagesOK
<1>4. QED
  BY <1>2, <1>3

LEMMA GoToTyped ==
  ASSUME TypeInv, NEW i \in Slots, calls[i] # NoCall, calls[i].answer # "none",
         NEW at \in {"login", "pay", "home"}, GoTo(i, at), UNCHANGED <<sent, givenUp, resent>>
  PROVE  /\ ShopOK'
         /\ calls[i].tab \in Tabs
         /\ page' = [page EXCEPT ![calls[i].tab] = Page(at)]
         /\ calls' = [Left(calls[i].tab) EXCEPT ![i] = NoCall]
<1>1. calls[i] \in Calls /\ CallGood(calls[i])
  BY DEF TypeInv, CallsOK
<1>2. PICK t \in Tabs : t = calls[i].tab
  BY <1>1 DEF Calls, CallGood
<1>3. page' = [page EXCEPT ![t] = Page(at)] /\ calls' = [Left(t) EXCEPT ![i] = NoCall]
  BY <1>2 DEF GoTo
<1>4. Page(at) \in Pages /\ PageGood(Page(at))
  BY LinesTyped DEF Page, PageGood
<1>5. PagesOK'
  BY <1>3, <1>4 DEF TypeInv, PagesOK
<1>6. CallsOK'
  BY <1>3, LeftTyped, CallIsSome DEF CallsOK
<1>7. SentOK'
  <2>1. \A j \in Slots : calls'[j].op = "order" => calls[j].op = "order" /\ calls'[j].key = calls[j].key
    <3> SUFFICES ASSUME NEW j \in Slots, calls'[j].op = "order"
                 PROVE  calls[j].op = "order" /\ calls'[j].key = calls[j].key
      OBVIOUS
    <3>1. calls'[j] = Left(t)[j]
      BY <1>3, LeftTyped, CallIsSome
    <3>2. \/ Left(t)[j] = calls[j]
          \/ calls[j] \in Calls /\ Left(t)[j] = [calls[j] EXCEPT !.here = FALSE]
      BY LeftTyped
    <3>3. QED
      BY <3>1, <3>2 DEF Calls
  <2>2. QED
    BY <2>1 DEF SentOK, TypeInv
<1>8. QED
  BY <1>2, <1>3, <1>5, <1>6, <1>7 DEF ShopOK

\* A call that is sent by a page that then is busy.
LEMMA SentBusyTyped ==
  ASSUME TypeInv, NEW t \in Tabs, NEW op \in Ops, NEW sku \in Skus \cup {None}, NEW lines \in Lines,
         op \in LineOps => sku \in Skus,
         op = "order" => page[t].at = "checkout" /\ lines = page[t].lines /\ sent' = sent \cup {page[t].key},
         op # "order" => sent' = sent,
         Send(t, op, sku, lines), UNCHANGED givenUp, resent' \subseteq sent',
         NEW busy \in SUBSET Skus, page' = [page EXCEPT ![t].busy = busy]
  PROVE  ShopOK'
<1>0. page[t] \in Pages /\ PageGood(page[t])
  BY DEF TypeInv, PagesOK
<1>1. [page[t] EXCEPT !.busy = busy] \in Pages /\ PageGood([page[t] EXCEPT !.busy = busy])
  BY <1>0 DEF Pages, PageGood
<1>2. PagesOK'
  BY <1>1 DEF TypeInv, PagesOK
<1>3. CallsOK'
  BY SendTyped
<1>4. PICK i \in Slots : calls[i] = NoCall /\ calls' = [calls EXCEPT ![i] = Sent(t, op, sku, lines)]
  BY SendTyped
<1>5. Sent(t, op, sku, lines).op = op /\ Sent(t, op, sku, lines).key = page[t].key
  BY DEF Sent
<1> HIDE DEF Sent
<1>6. SentOK'
  BY <1>0, <1>4, <1>5 DEF TypeInv, CallsOK, SentOK, PageGood
<1>7. QED
  BY <1>2, <1>3, <1>6 DEF ShopOK

\* The steps of a tab keep the types.
LEMMA TabTypes ==
  ASSUME TypeInv, NEW t \in Tabs,
         \/ OpenCart(t) \/ ReloadCart(t) \/ AddToCart(t) \/ Submit(t) \/ Login(t)
         \/ \E direct \in BOOLEAN : OpenCheckout(t, direct)
         \/ \E n \in 0..MaxQuantity : SetQuantity(t, n)
         \/ \E a \in Addresses : SelectAddress(t, a)
         \/ \E s \in Skus : \/ OpenProduct(t, s) \/ SelectSku(t, s) \/ Remove(t, s)
                            \/ \E n \in 0..MaxQuantity : ChangeQuantity(t, s, n)
  PROVE  TypeInv'
<1>0. page[t] \in Pages /\ PageGood(page[t]) /\ cart \in Lines /\ SoldOut \subseteq Skus
  BY DEF TypeInv, PagesOK, CartOK, SoldOut
<1>a. ASSUME NEW p \in Pages, PageGood(p), page' = [page EXCEPT ![t] = p], UNCHANGED <<calls, keyHistory>>
      PROVE  ShopOK'
  BY <1>a DEF TypeInv, ShopOK, PagesOK, CallsOK, SentOK
<1>b. ASSUME Refused(t), UNCHANGED keyHistory PROVE ShopOK'
  <2>1. Page("login") \in Pages /\ PageGood(Page("login"))
    BY LinesTyped DEF Page, PageGood
  <2>2. QED
    BY <1>b, <2>1, ShowTyped DEF Refused
<1>1. ASSUME OpenCart(t) PROVE TypeInv'
  <2>1. CartView(Page("cart")) \in Pages /\ PageGood(CartView(Page("cart")))
    BY <1>0, LinesTyped DEF CartView, Page, Pages, PageGood
  <2>2. ShopOK'
    BY <1>1, <1>b, <2>1, ShowTyped DEF OpenCart
  <2>3. QED
    BY <1>1, <2>2 DEF OpenCart, InTheTab, TypeInv, ShopOK, OrdersOK, CartOK
<1>2. ASSUME ReloadCart(t) PROVE TypeInv'
  <2>1. CartView(page[t]) \in Pages /\ PageGood(CartView(page[t]))
    BY <1>0, <1>2 DEF CartView, Pages, PageGood, ReloadCart
  <2>2. ShopOK'
    BY <1>2, <1>a, <2>1 DEF ReloadCart
  <2>3. QED
    BY <1>2, <2>2 DEF ReloadCart, InTheTab, TypeInv, ShopOK, OrdersOK, CartOK
<1>3. ASSUME AddToCart(t) PROVE TypeInv'
  <2>1. page[t].sku \in Skus /\ page[t].lines \in Lines
    BY <1>0, <1>3 DEF AddToCart, Pages, PageGood
  <2>2. ShopOK'
    <3>1. Send(t, "add", page[t].sku, page[t].lines) /\ page' = [page EXCEPT ![t].busy = {page[t].sku}]
      BY <1>3 DEF AddToCart
    <3>2. sent' = sent /\ givenUp' = givenUp /\ resent' \subseteq sent'
      BY <1>3 DEF AddToCart, TypeInv, SentOK
    <3>3. "add" \in Ops /\ "add" # "order" /\ {page[t].sku} \in SUBSET Skus /\ page[t].sku \in Skus \cup {None}
      BY <2>1,  LinesTyped DEF Ops
    <3>4. QED
      BY <2>1, <3>1, <3>2, <3>3, LinesTyped, SentBusyTyped
  <2>3. Least(wanted[page[t].sku] + page[t].lines[page[t].sku], MaxQuantity) \in 0..MaxQuantity
    BY <2>1, ShopAssumption DEF Least, Lines, TypeInv, CartOK
  <2>4. CartOK'
    BY <1>3, <2>1, <2>3 DEF AddToCart, Choose, InTheTab, Lines, TypeInv, CartOK
  <2>5. QED
    BY <1>3, <2>2, <2>4 DEF AddToCart, InTheTab, TypeInv, ShopOK, OrdersOK
<1>4. ASSUME Submit(t) PROVE TypeInv'
  <2>1. page[t].lines \in Lines /\ page[t].key \in Keys
    BY <1>0, <1>4 DEF Submit, Pages, PageGood
  <2>2. ShopOK'
    BY <1>4, <2>1, SentBusyTyped DEF Submit, Ops, LineOps, TypeInv, SentOK
  <2>3. QED
    BY <1>4, <2>2 DEF Submit, InTheTab, TypeInv, ShopOK, OrdersOK, CartOK
<1>5. ASSUME Login(t) PROVE TypeInv'
  <2>1. ShopOK'
    BY <1>5, LinesTyped, SentBusyTyped DEF Login, Ops, LineOps, TypeInv, SentOK
  <2>2. QED
    BY <1>5, <2>1 DEF Login, InTheTab, TypeInv, ShopOK, OrdersOK, CartOK
<1>6. ASSUME NEW direct \in BOOLEAN, OpenCheckout(t, direct) PROVE TypeInv'
  <2> DEFINE lines == IF direct THEN page[t].lines ELSE cart
  <2>1. lines \in Lines /\ (signedIn => In(lines) # {} /\ nextKey \in Keys)
    BY <1>0, <1>6 DEF OpenCheckout, Pages
  <2>2. CASE /\ signedIn /\ nextKey' = nextKey + 1
             /\ \E a \in Addresses :
                  Show(t, [Page("checkout") EXCEPT !.lines = lines, !.key = nextKey, !.address = a,
                                                   !.direct = direct])
    <3> DEFINE p(a) == [Page("checkout") EXCEPT !.lines = lines, !.key = nextKey, !.address = a,
                                                !.direct = direct]
    <3>1. PICK a \in Addresses : Show(t, p(a))
      BY <2>2
    <3> HIDE DEF lines
    <3>2. p(a) \in Pages /\ PageGood(p(a))
      BY <2>1, <2>2, LinesTyped DEF Page, Pages, PageGood
    <3> HIDE DEF p
    <3>3. ShopOK'
      BY <1>6, <3>1, <3>2, ShowTyped DEF OpenCheckout
    <3>4. nextKey' \in 1..(MaxKeys + 1)
      BY <2>1, <2>2, ShopAssumption DEF Keys
    <3>5. QED
      BY <1>6, <3>3, <3>4 DEF OpenCheckout, InTheTab, TypeInv, ShopOK, OrdersOK, CartOK
  <2>3. CASE Refused(t) /\ UNCHANGED nextKey
    <3>1. ShopOK'
      BY <1>6, <1>b, <2>3 DEF OpenCheckout
    <3>2. QED
      BY <1>6, <2>3, <3>1 DEF OpenCheckout, InTheTab, TypeInv, ShopOK, OrdersOK, CartOK
  <2>4. QED
    BY <1>6, <2>2, <2>3 DEF OpenCheckout
<1>7. ASSUME NEW n \in 0..MaxQuantity, SetQuantity(t, n) PROVE TypeInv'
  <2>1. page[t].sku \in Skus /\ page[t].at = "product"
    BY <1>0, <1>7 DEF SetQuantity, PageGood
  <2>2. [page[t] EXCEPT !.lines = Only(page[t].sku, n)] \in Pages
        /\ PageGood([page[t] EXCEPT !.lines = Only(page[t].sku, n)])
    BY <1>0, <2>1, LinesTyped DEF Pages, PageGood
  <2>3. ShopOK'
    BY <1>7, <1>a, <2>2 DEF SetQuantity
  <2>4. QED
    BY <1>7, <2>3 DEF SetQuantity, InTheTab, TypeInv, ShopOK, OrdersOK, CartOK
<1>8. ASSUME NEW a \in Addresses, SelectAddress(t, a) PROVE TypeInv'
  <2>1. PICK lines \in {page[t].lines} \cup (IF page[t].direct \/ In(cart) = {} \/ ~signedIn THEN {} ELSE {cart}) :
          page' = [page EXCEPT ![t].address = a, ![t].lines = lines]
    BY <1>8 DEF SelectAddress
  <2>2. lines \in Lines /\ In(lines) # {} /\ page[t].at = "checkout"
    BY <1>0, <1>8, <2>1 DEF SelectAddress, Pages, PageGood
  <2> DEFINE p == [page[t] EXCEPT !.address = a, !.lines = lines]
  <2>3. p \in Pages /\ PageGood(p)
    BY <1>0, <2>2 DEF Pages, PageGood
  <2>4. page' = [page EXCEPT ![t] = p]
    BY <1>0, <2>1 DEF TypeInv, PagesOK
  <2> HIDE DEF p
  <2>5. ShopOK'
    BY <1>8, <1>a, <2>3, <2>4 DEF SelectAddress
  <2>6. QED
    BY <1>8, <2>5 DEF SelectAddress, InTheTab, TypeInv, ShopOK, OrdersOK, CartOK
<1>9. ASSUME NEW s \in Skus, OpenProduct(t, s) PROVE TypeInv'
  <2> DEFINE p == [Page("product") EXCEPT !.sku = s, !.lines = Only(s, 1), !.soldOut = SoldOut]
  <2>1. p \in Pages /\ PageGood(p)
    <3>1. Only(s, 1) \in Lines
      BY LinesTyped, ShopAssumption
    <3>2. QED
      BY <1>0, <3>1, LinesTyped DEF Page, Pages, PageGood
  <2>2. ShopOK'
    BY <1>9, <2>1, ShowTyped DEF OpenProduct
  <2>3. QED
    BY <1>9, <2>2 DEF OpenProduct, InTheTab, TypeInv, ShopOK, OrdersOK, CartOK
<1>10. ASSUME NEW s \in Skus, SelectSku(t, s) PROVE TypeInv'
  <2> DEFINE p == [page[t] EXCEPT !.sku = s, !.lines = Only(s, 1)]
  <2>1. p \in Pages /\ PageGood(p)
    <3>1. Only(s, 1) \in Lines
      BY LinesTyped, ShopAssumption
    <3>2. QED
      BY <1>0, <1>10, <3>1 DEF SelectSku, Pages, PageGood
  <2>2. page' = [page EXCEPT ![t] = p]
    BY <1>0, <1>10 DEF SelectSku, TypeInv, PagesOK
  <2> HIDE DEF p
  <2>3. ShopOK'
    BY <1>10, <1>a, <2>1, <2>2 DEF SelectSku
  <2>4. QED
    BY <1>10, <2>3 DEF SelectSku, InTheTab, TypeInv, ShopOK, OrdersOK, CartOK
<1>11. ASSUME NEW s \in Skus, Remove(t, s) PROVE TypeInv'
  <2>1. ShopOK'
    <3>1. Send(t, "remove", s, NoLines) /\ page' = [page EXCEPT ![t].busy = {s}]
      BY <1>11 DEF Remove
    <3>2. sent' = sent /\ givenUp' = givenUp /\ resent' \subseteq sent'
      BY <1>11 DEF Remove, TypeInv, SentOK
    <3>3. "remove" \in Ops /\ "remove" # "order" /\ {s} \in SUBSET Skus /\ s \in Skus \cup {None}
      BY  LinesTyped DEF Ops
    <3>4. QED
      BY <3>1, <3>2, <3>3, LinesTyped, SentBusyTyped
  <2>2. CartOK'
    BY <1>11, ShopAssumption DEF Remove, Choose, InTheTab, Lines, TypeInv, CartOK
  <2>3. QED
    BY <1>11, <2>1, <2>2 DEF Remove, InTheTab, TypeInv, ShopOK, OrdersOK
<1>12. ASSUME NEW s \in Skus, NEW n \in 0..MaxQuantity, ChangeQuantity(t, s, n) PROVE TypeInv'
  <2>1. ShopOK'
    <3>1. Send(t, "change", s, Only(s, n)) /\ page' = [page EXCEPT ![t].busy = {s}]
      BY <1>12 DEF ChangeQuantity
    <3>2. sent' = sent /\ givenUp' = givenUp /\ resent' \subseteq sent'
      BY <1>12 DEF ChangeQuantity, TypeInv, SentOK
    <3>3. "change" \in Ops /\ "change" # "order" /\ {s} \in SUBSET Skus /\ s \in Skus \cup {None}
      BY  LinesTyped DEF Ops
    <3>4. QED
      BY <3>1, <3>2, <3>3, LinesTyped, SentBusyTyped
  <2>2. CartOK'
    BY <1>12 DEF ChangeQuantity, Choose, InTheTab, Lines, TypeInv, CartOK
  <2>3. QED
    BY <1>12, <2>1, <2>2 DEF ChangeQuantity, InTheTab, TypeInv, ShopOK, OrdersOK
<1>13. QED
  BY <1>1, <1>2, <1>3, <1>4, <1>5, <1>6, <1>7, <1>8, <1>9, <1>10, <1>11, <1>12

\* The steps of the server keep the types.
LEMMA ServerTypes ==
  ASSUME TypeInv, NEW i \in Slots,
         \/ Unauthorized(i) \/ AddItemToCart(i) \/ ChangeCartItemQuantity(i) \/ RemoveCartItem(i)
         \/ CheckoutOrder(i) \/ ServeLogin(i)
  PROVE  TypeInv'
<1>a. ASSUME NEW a \in Answers, calls[i] # NoCall, Answer(i, a), UNCHANGED <<page, keyHistory>>
      PROVE  ShopOK' /\ calls[i] \in Calls /\ CallGood(calls[i])
  <2>1. PagesOK'
    BY <1>a DEF TypeInv, PagesOK
  <2>2. SentOK'
    BY <1>a, AnswerTyped DEF TypeInv, SentOK
  <2>3. QED
    BY <1>a, <2>1, <2>2, AnswerTyped DEF ShopOK
<1>b. {"ok", "refused", "unauthorized"} \subseteq Answers
  BY DEF Answers
<1>c. ASSUME CartOK, NEW s \in Skus, NEW n \in 0..MaxQuantity, cart' = [cart EXCEPT ![s] = n],
             UNCHANGED <<avail, wanted, muddled>>
      PROVE  CartOK'
  BY <1>c DEF CartOK, Lines
<1>d. ASSUME NEW s \in Skus, calls[i].sku = s, Decline(i), UNCHANGED <<avail, wanted>>
      PROVE  CartOK'
  BY <1>d DEF Decline, TypeInv, CartOK
<1>1. ASSUME Unauthorized(i) PROVE TypeInv'
  <2>1. ShopOK' /\ calls[i] \in Calls /\ CallGood(calls[i])
    BY <1>1, <1>a, <1>b DEF Unauthorized
  <2>2. About(calls[i]) \subseteq Skus
    BY <2>1 DEF About, In, Calls, Ops, CallGood, LineOps
  <2>3. muddled' \subseteq Skus
    BY <1>1, <2>2 DEF Unauthorized, TypeInv, CartOK
  <2>4. QED
    BY <1>1, <2>1, <2>3 DEF Unauthorized, InTheTab, TypeInv, ShopOK, OrdersOK, CartOK
<1>2. ASSUME AddItemToCart(i) PROVE TypeInv'
  <2>1. calls[i] # NoCall /\ calls[i].op = "add" /\ UNCHANGED <<page, keyHistory>>
        /\ \E a \in {"ok", "refused"} : Answer(i, a)
    BY <1>2 DEF AddItemToCart, Waits, Decline
  <2>2. ShopOK' /\ calls[i] \in Calls /\ calls[i].sku \in Skus
    BY <2>1, <1>a, <1>b DEF CallGood, LineOps
  <2> DEFINE s == calls[i].sku
             n == Least(cart[s] + calls[i].lines[s], MaxQuantity)
  <2>3. n \in 0..MaxQuantity
    BY <2>2, ShopAssumption DEF Least, TypeInv, CartOK, Lines, Calls
  <2>4. Decline(i) \/ (cart' = [cart EXCEPT ![s] = n] /\ UNCHANGED muddled)
    BY <1>2 DEF AddItemToCart, UpsertCartItem
  <2> HIDE DEF n, s
  <2>5. CartOK'
    <3>1. avail' = avail /\ wanted' = wanted /\ s \in Skus /\ s = calls[i].sku
      BY <1>2, <2>2 DEF AddItemToCart, s
    <3>2. QED
      BY <2>3, <2>4, <3>1, <1>c, <1>d DEF TypeInv
  <2>6. QED
    BY <1>2, <2>2, <2>5 DEF AddItemToCart, TypeInv, ShopOK, OrdersOK
<1>3. ASSUME ChangeCartItemQuantity(i) PROVE TypeInv'
  <2>1. calls[i] # NoCall /\ calls[i].op = "change" /\ UNCHANGED <<page, keyHistory>>
        /\ \E a \in {"ok", "refused"} : Answer(i, a)
    BY <1>3 DEF ChangeCartItemQuantity, Waits, Decline
  <2>2. ShopOK' /\ calls[i] \in Calls /\ calls[i].sku \in Skus
    BY <2>1, <1>a, <1>b DEF CallGood, LineOps
  <2> DEFINE s == calls[i].sku
             n == calls[i].lines[s]
  <2>3. n \in 0..MaxQuantity
    BY <2>2 DEF Lines, Calls
  <2>4. Decline(i) \/ (cart' = [cart EXCEPT ![s] = n] /\ UNCHANGED muddled)
    BY <1>3 DEF ChangeCartItemQuantity, UpdateCartItem
  <2> HIDE DEF n, s
  <2>5. CartOK'
    <3>1. avail' = avail /\ wanted' = wanted /\ s \in Skus /\ s = calls[i].sku
      BY <1>3, <2>2 DEF ChangeCartItemQuantity, s
    <3>2. QED
      BY <2>3, <2>4, <3>1, <1>c, <1>d DEF TypeInv
  <2>6. QED
    BY <1>3, <2>2, <2>5 DEF ChangeCartItemQuantity, TypeInv, ShopOK, OrdersOK
<1>4. ASSUME RemoveCartItem(i) PROVE TypeInv'
  <2>1. calls[i] # NoCall /\ calls[i].op = "remove" /\ UNCHANGED <<page, keyHistory>>
        /\ \E a \in {"ok", "refused"} : Answer(i, a)
    BY <1>4 DEF RemoveCartItem, Waits, Decline
  <2>2. ShopOK' /\ calls[i] \in Calls /\ calls[i].sku \in Skus
    BY <2>1, <1>a, <1>b DEF CallGood, LineOps
  <2> DEFINE s == calls[i].sku
  <2>3. Decline(i) \/ (cart' = [cart EXCEPT ![s] = 0] /\ UNCHANGED muddled)
    BY <1>4 DEF RemoveCartItem, DeleteCartItem
  <2> HIDE DEF s
  <2>4. CartOK'
    <3>1. avail' = avail /\ wanted' = wanted /\ s \in Skus /\ s = calls[i].sku /\ 0 \in 0..MaxQuantity
      BY <1>4, <2>2, ShopAssumption DEF RemoveCartItem, s
    <3>2. QED
      BY <2>3, <3>1, <1>c, <1>d DEF TypeInv
  <2>5. QED
    BY <1>4, <2>2, <2>4 DEF RemoveCartItem, TypeInv, ShopOK, OrdersOK
<1>5. ASSUME CheckoutOrder(i) PROVE TypeInv'
  <2>1. calls[i] # NoCall /\ calls[i].op = "order" /\ UNCHANGED <<page, keyHistory>>
        /\ \E a \in {"ok", "refused"} : Answer(i, a)
    BY <1>5 DEF CheckoutOrder, Waits, Replay, Place
  <2>2. ShopOK' /\ calls[i] \in Calls /\ calls[i].key \in Keys
        /\ calls[i].address \in Addresses /\ In(calls[i].lines) # {}
    BY <2>1, <1>a, <1>b DEF CallGood
  <2>3. CASE Place(i)
    <3>1. BodyOf(calls[i]) \in Bodies /\ In(BodyOf(calls[i]).lines) # {}
      BY <2>2 DEF BodyOf, Bodies, Calls
    <3>2. orders' = [orders EXCEPT ![calls[i].key] = BodyOf(calls[i])]
      BY <2>3 DEF Place
    <3>3. OrdersOK'
      BY <2>2, <3>1, <3>2 DEF TypeInv, OrdersOK
    <3>4. cart' \in Lines /\ wanted' \in Lines /\ muddled' \subseteq Skus
      BY <2>3, ShopAssumption DEF Place, RemoveCartItems, In, Lines, TypeInv, CartOK
    <3>5. QED
      BY <1>5, <2>2, <3>3, <3>4 DEF CheckoutOrder, TypeInv, ShopOK, CartOK
  <2>4. CASE ~Place(i)
    BY <1>5, <2>2, <2>4 DEF CheckoutOrder, Replay, TypeInv, ShopOK, OrdersOK, CartOK
  <2>5. QED
    BY <2>3, <2>4
<1>6. ASSUME ServeLogin(i) PROVE TypeInv'
  <2>1. ShopOK'
    BY <1>6, <1>a, <1>b DEF ServeLogin, Waits
  <2>2. QED
    BY <1>6, <2>1 DEF ServeLogin, TypeInv, ShopOK, OrdersOK, CartOK
<1>7. QED
  BY <1>1, <1>2, <1>3, <1>4, <1>5, <1>6

\* The page takes a new key, or keeps its own and is released.
LEMMA UnsettledTyped ==
  ASSUME TypeInv, NEW i \in Slots, calls[i] # NoCall, calls[i].op = "order",
         NEW answer, OrderUnsettled(i, answer), UNCHANGED <<sent, resent>>
  PROVE  /\ PagesOK' /\ nextKey' \in 1..(MaxKeys + 1) /\ givenUp' \subseteq sent'
<1>1. calls[i] \in Calls /\ CallGood(calls[i]) /\ calls[i].key \in sent
  BY DEF TypeInv, CallsOK, SentOK
<1>2. CASE calls[i].here /\ EndsAttempt(answer)
  <2>1. PICK t \in Tabs : t = calls[i].tab
    BY <1>1, <1>2 DEF Calls, CallGood
  <2>2. page' = [page EXCEPT ![t].busy = {}, ![t].key = nextKey] /\ nextKey \in Keys
        /\ nextKey' = nextKey + 1 /\ givenUp' = givenUp \cup {calls[i].key}
    BY <1>2, <2>1 DEF OrderUnsettled
  <2> DEFINE p == [page[t] EXCEPT !.busy = {}, !.key = nextKey]
  <2>3. p \in Pages /\ PageGood(p)
    BY <2>2 DEF TypeInv, PagesOK, Pages, PageGood
  <2>4. page' = [page EXCEPT ![t] = p]
    BY <2>2 DEF TypeInv, PagesOK
  <2> HIDE DEF p
  <2>5. PagesOK'
    BY <2>3, <2>4 DEF TypeInv, PagesOK
  <2>6. QED
    BY <1>1, <2>2, <2>5, ShopAssumption DEF Keys, TypeInv, SentOK
<1>3. CASE ~(calls[i].here /\ EndsAttempt(answer))
  BY <1>3, ReleaseTyped DEF OrderUnsettled, TypeInv, SentOK
<1>4. QED
  BY <1>2, <1>3

\* The steps in which a tab learns of an answer, or gives up on it.
LEMMA AnsweredTypes ==
  ASSUME TypeInv, NEW i \in Slots,
         LineAnswered(i) \/ OrderAnswered(i) \/ LoginAnswered(i) \/ GiveUp(i)
  PROVE  TypeInv'
<1>1. ASSUME LineAnswered(i) PROVE TypeInv'
  <2>1. CASE GoTo(i, "login")
    <3>1. ShopOK'
      BY <1>1, <2>1, GoToTyped DEF LineAnswered
    <3>2. QED
      BY <1>1, <3>1 DEF LineAnswered, InTheTab, TypeInv, ShopOK, OrdersOK, CartOK
  <2>2. CASE Done(i) /\ Release(i)
    <3>1. CallsOK' /\ PagesOK'
      BY <1>1, <2>2, DoneTyped, ReleaseTyped DEF LineAnswered
    <3>2. SentOK'
      BY <1>1, <2>2, DoneTyped DEF LineAnswered, TypeInv, SentOK
    <3>3. QED
      BY <1>1, <3>1, <3>2 DEF LineAnswered, InTheTab, TypeInv, OrdersOK, CartOK
  <2>3. QED
    BY <1>1, <2>1, <2>2 DEF LineAnswered
<1>2. ASSUME OrderAnswered(i) PROVE TypeInv'
  <2>1. CASE GoTo(i, "pay") /\ UNCHANGED <<nextKey, givenUp>>
    <3>1. ShopOK'
      BY <1>2, <2>1, GoToTyped DEF OrderAnswered
    <3>2. QED
      BY <1>2, <2>1, <3>1 DEF OrderAnswered, InTheTab, TypeInv, ShopOK, OrdersOK, CartOK
  <2>2. CASE Done(i) /\ OrderUnsettled(i, calls[i].answer)
    <3>1. CallsOK' /\ PagesOK' /\ nextKey' \in 1..(MaxKeys + 1) /\ givenUp' \subseteq sent'
      BY <1>2, <2>2, DoneTyped, UnsettledTyped DEF OrderAnswered
    <3>2. SentOK'
      BY <1>2, <2>2, <3>1, DoneTyped DEF OrderAnswered, TypeInv, SentOK
    <3>3. QED
      BY <1>2, <3>1, <3>2 DEF OrderAnswered, InTheTab, TypeInv, OrdersOK, CartOK
  <2>3. QED
    BY <1>2, <2>1, <2>2 DEF OrderAnswered
<1>3. ASSUME LoginAnswered(i) PROVE TypeInv'
  <2>1. ShopOK'
    BY <1>3, GoToTyped DEF LoginAnswered
  <2>2. QED
    BY <1>3, <2>1 DEF LoginAnswered, InTheTab, TypeInv, ShopOK, OrdersOK, CartOK
<1>4. ASSUME GiveUp(i) PROVE TypeInv'
  <2>0. calls[i] \in Calls /\ CallGood(calls[i]) /\ About(calls[i]) \subseteq Skus
    <3>1. calls[i] \in Calls /\ CallGood(calls[i])
      BY <1>4 DEF GiveUp, TypeInv, CallsOK
    <3>2. QED
      BY <3>1 DEF About, In, Calls, Ops, CallGood, LineOps
  <2>1. CallsOK' /\ \A j \in Slots : calls'[j].op = "order" => calls[j].op = "order" /\ calls'[j].key = calls[j].key
    <3>1. CASE Done(i)
      BY <3>1, DoneTyped
    <3>2. CASE calls[i].answer = "none" /\ calls' = [calls EXCEPT ![i].tab = None, ![i].here = FALSE]
      <4> DEFINE d == [calls[i] EXCEPT !.tab = None, !.here = FALSE]
      <4>1. d \in Calls /\ CallGood(d) /\ d.op = calls[i].op /\ d.key = calls[i].key
        BY <2>0, <3>2 DEF Calls, CallGood
      <4>2. calls' = [calls EXCEPT ![i] = d]
        BY <2>0, <3>2 DEF TypeInv, CallsOK
      <4> HIDE DEF d
      <4>3. QED
        BY <4>1, <4>2 DEF TypeInv, CallsOK
    <3>3. QED
      BY <1>4, <3>1, <3>2 DEF GiveUp
  <2>2. CASE calls[i].op = "order" /\ OrderUnsettled(i, "lost") /\ UNCHANGED muddled
    <3>1. PagesOK' /\ nextKey' \in 1..(MaxKeys + 1) /\ givenUp' \subseteq sent'
      BY <1>4, <2>2, UnsettledTyped DEF GiveUp
    <3>2. SentOK'
      BY <1>4, <2>1, <3>1 DEF GiveUp, TypeInv, SentOK
    <3>3. QED
      BY <1>4, <2>1, <2>2, <3>1, <3>2 DEF GiveUp, InTheTab, TypeInv, OrdersOK, CartOK
  <2>3. CASE Release(i) /\ muddled' = muddled \cup About(calls[i]) /\ UNCHANGED <<nextKey, givenUp>>
    <3>1. PagesOK'
      BY <1>4, <2>3, ReleaseTyped DEF GiveUp
    <3>2. SentOK'
      BY <1>4, <2>1, <2>3 DEF GiveUp, TypeInv, SentOK
    <3>3. QED
      BY <1>4, <2>0, <2>1, <2>3, <3>1, <3>2 DEF GiveUp, InTheTab, TypeInv, OrdersOK, CartOK
  <2>4. QED
    BY <1>4, <2>2, <2>3 DEF GiveUp
<1>5. QED
  BY <1>1, <1>2, <1>3, <1>4

LEMMA TypeInit == Init => TypeInv
<1> SUFFICES ASSUME Init PROVE TypeInv
  OBVIOUS
<1>1. Page("home") \in Pages /\ PageGood(Page("home"))
  BY LinesTyped DEF Page, PageGood
<1>2. PagesOK /\ CallsOK
  BY <1>1, CallIsSome DEF Init, PagesOK, CallsOK
<1>3. OrdersOK /\ SentOK /\ CartOK
  BY LinesTyped, CallIsSome DEF Init, OrdersOK, SentOK, CartOK
<1>4. QED
  BY <1>2, <1>3, ShopAssumption DEF Init, TypeInv

LEMMA TypeStep == TypeInv /\ [Next]_vars => TypeInv'
<1> SUFFICES ASSUME TypeInv, [Next]_vars PROVE TypeInv'
  OBVIOUS
<1>1. ASSUME NEW s \in Skus, NEW a \in {"onSale", "soldOut", "offSale", "deleted"}, ChangeOffer(s, a)
      PROVE  TypeInv'
  <2>1. CartOK'
    BY <1>1, ShopAssumption DEF ChangeOffer, TypeInv, CartOK, Lines
  <2>2. QED
    BY <1>1, <2>1 DEF ChangeOffer, TypeInv, PagesOK, CallsOK, OrdersOK, SentOK
<1>2. ASSUME SessionEnds PROVE TypeInv'
  BY <1>2 DEF SessionEnds, TypeInv, PagesOK, CallsOK, OrdersOK, SentOK, CartOK
<1>3. ASSUME UNCHANGED vars PROVE TypeInv'
  BY <1>3 DEF vars, TypeInv, PagesOK, CallsOK, OrdersOK, SentOK, CartOK
<1>4. QED
  BY <1>1, <1>2, <1>3, TabTypes, ServerTypes, AnsweredTypes DEF Next

\* The types of Shop's variables in every reachable state: what pages, calls
\* and orders hold, and that a checkout page has a key and something to buy.
THEOREM ShopTyped == Spec => []TypeOK
<1>1. Spec => []TypeInv
  BY TypeInit, TypeStep, PTL DEF Spec
<1>2. QED
  BY <1>1, TypeInvTypes, PTL

-----------------------------------------------------------------------------
(* The two invariants *)

\* A key is on one page, with the orders that page sent, or on none once it was
\* given up. Only a resubmission puts two orders on their way under a key: until
\* then the one that has yet to be served, or was refused, made no order.
PageKeys ==
  \A t \in Tabs : page[t].key \in Keys =>
    /\ page[t].key < nextKey /\ page[t].key \notin givenUp
    /\ \A u \in Tabs : page[u].key = page[t].key => u = t
    /\ \A i \in Slots : calls[i].op = "order" /\ calls[i].key = page[t].key => calls[i].tab \in {t, None}

SentKeys ==
  /\ \A k \in sent : k < nextKey
  /\ \A k \in Keys : orders[k] # None => k \in sent

OnceSent ==
  /\ \A i \in Slots : calls[i].op = "order" /\ calls[i].key \notin resent =>
       /\ \A j \in Slots : calls[j].op = "order" /\ calls[j].key = calls[i].key => i = j
       /\ orders[calls[i].key] = None \/ calls[i].answer = "ok"
       /\ calls[i].key \notin givenUp
  /\ \A k \in givenUp \ resent : orders[k] = None

KeyInv == PageKeys /\ SentKeys /\ OnceSent

\* The calls on the line of a SKU that the server has yet to serve, and what
\* serving one makes of the line.
Outstanding(s) ==
  {i \in Slots : calls[i].op \in LineOps /\ calls[i].sku = s /\ calls[i].answer = "none"}

Served(c, n) ==
  CASE c.op = "add" -> Least(n + c.lines[c.sku], MaxQuantity)
    [] c.op = "change" -> c.lines[c.sku]
    [] OTHER -> 0

\* Until a choice is muddled the line holds it, or one call will set it.
ChoiceInv ==
  \A s \in Skus \ muddled :
    \/ Outstanding(s) = {} /\ cart[s] = wanted[s]
    \/ \E i \in Slots : Outstanding(s) = {i} /\ wanted[s] = Served(calls[i], cart[s])

-----------------------------------------------------------------------------
(* Keys *)

\* No page keeps a key but its own, and no order on its way changes but to
\* lose its tab, or to be answered as its key allows.
KeysKept ==
  /\ \A t \in Tabs : page'[t].key \in {page[t].key, None}
  /\ nextKey' = nextKey /\ UNCHANGED <<keyHistory, orders>>
  /\ \A i \in Slots : calls'[i].op = "order" =>
       /\ calls[i].op = "order" /\ calls'[i].key = calls[i].key
       /\ calls'[i].tab \in {calls[i].tab, None}
       /\ \/ calls'[i].answer \in {"ok", calls[i].answer}
          \/ orders[calls[i].key] = None \/ calls[i].key \in resent

LEMMA KeptKeys ==
  ASSUME TypeInv, KeyInv, KeysKept
  PROVE  KeyInv'
<1>1. None \notin Keys
  BY ShopAssumption DEF Keys
<1>2. PageKeys'
  <2> SUFFICES ASSUME NEW t \in Tabs, page'[t].key \in Keys
               PROVE  /\ page'[t].key < nextKey' /\ page'[t].key \notin givenUp'
                      /\ \A u \in Tabs : page'[u].key = page'[t].key => u = t
                      /\ \A i \in Slots : calls'[i].op = "order" /\ calls'[i].key = page'[t].key
                                            => calls'[i].tab \in {t, None}
    BY DEF PageKeys
  <2>1. page'[t].key = page[t].key
    BY <1>1 DEF KeysKept
  <2>2. ASSUME NEW u \in Tabs, page'[u].key = page'[t].key PROVE u = t
    <3>1. page[u].key = page'[t].key
      BY <1>1, <2>2 DEF KeysKept
    <3>2. QED
      BY <2>1, <3>1 DEF KeyInv, PageKeys
  <2>3. ASSUME NEW i \in Slots, calls'[i].op = "order", calls'[i].key = page'[t].key
        PROVE  calls'[i].tab \in {t, None}
    BY <2>1, <2>3 DEF KeyInv, PageKeys, KeysKept
  <2>4. QED
    BY <2>1, <2>2, <2>3 DEF KeyInv, PageKeys, KeysKept
<1>3. SentKeys' /\ OnceSent'
  BY DEF KeyInv, SentKeys, OnceSent, KeysKept
<1>4. QED
  BY <1>2, <1>3 DEF KeyInv

\* The page of a tab takes the next key, which no order carries yet.
LEMMA NextKeyTaken ==
  ASSUME TypeInv, KeyInv, NEW t \in Tabs, NEW p, p.key = nextKey, nextKey \in Keys,
         page' = [page EXCEPT ![t] = p], nextKey' = nextKey + 1,
         UNCHANGED <<sent, resent, orders>>,
         \A i \in Slots : calls'[i].op = "order" =>
           /\ calls[i].op = "order" /\ calls'[i].key = calls[i].key
           /\ calls'[i].tab = calls[i].tab /\ calls'[i].answer = calls[i].answer,
         \/ givenUp' = givenUp
         \/ \E i \in Slots :
              /\ calls[i].op = "order" /\ calls[i].tab = t /\ calls[i].answer # "ok"
              /\ calls'[i].op # "order" /\ givenUp' = givenUp \cup {calls[i].key}
  PROVE  KeyInv'
<1>0. /\ None \notin Keys /\ nextKey \in Nat /\ nextKey < nextKey + 1 /\ nextKey \notin sent
      /\ \A k \in Keys : k < nextKey => k < nextKey + 1 /\ k # nextKey
      /\ givenUp \subseteq sent /\ sent \subseteq Keys
      /\ \A i \in Slots : calls[i].op = "order" => calls[i].key \in sent
      /\ t # None
  BY ShopAssumption DEF Keys, TypeInv, SentOK, KeyInv, SentKeys
<1>1. \A u \in Tabs : page'[u].key = IF u = t THEN nextKey ELSE page[u].key
  BY DEF TypeInv, PagesOK
<1>2. PageKeys'
  <2> SUFFICES ASSUME NEW u \in Tabs, page'[u].key \in Keys
               PROVE  /\ page'[u].key < nextKey' /\ page'[u].key \notin givenUp'
                      /\ \A v \in Tabs : page'[v].key = page'[u].key => v = u
                      /\ \A i \in Slots : calls'[i].op = "order" /\ calls'[i].key = page'[u].key
                                            => calls'[i].tab \in {u, None}
    BY DEF PageKeys
  <2>1. CASE u = t
    <3>1. page'[u].key = nextKey
      BY <1>1, <2>1
    <3>2. \A v \in Tabs : page'[v].key = nextKey => v = t
      BY <1>0, <1>1 DEF KeyInv, PageKeys
    <3>3. nextKey \notin givenUp'
      BY <1>0
    <3>4. QED
      BY <1>0, <2>1, <3>1, <3>2, <3>3
  <2>2. CASE u # t
    <3>1. page'[u].key = page[u].key
      BY <1>1, <2>2
    <3>2. page[u].key < nextKey /\ page[u].key \notin givenUp
          /\ \A i \in Slots : calls[i].op = "order" /\ calls[i].key = page[u].key => calls[i].tab \in {u, None}
      BY <3>1 DEF KeyInv, PageKeys
    <3>3. page[u].key \notin givenUp'
      BY <1>0, <2>2, <3>2
    <3>4. \A v \in Tabs : page'[v].key = page[u].key => v = u
      BY <1>0, <1>1, <3>1, <3>2 DEF KeyInv, PageKeys
    <3>5. QED
      BY <1>0, <3>1, <3>2, <3>3, <3>4
  <2>3. QED
    BY <2>1, <2>2
<1>3. SentKeys'
  BY <1>0 DEF KeyInv, SentKeys
<1>4. CASE givenUp' = givenUp
  BY <1>2, <1>3, <1>4 DEF KeyInv, OnceSent
<1>5. CASE \E i \in Slots : /\ calls[i].op = "order" /\ calls[i].tab = t /\ calls[i].answer # "ok"
                            /\ calls'[i].op # "order" /\ givenUp' = givenUp \cup {calls[i].key}
  <2>1. PICK i \in Slots : /\ calls[i].op = "order" /\ calls[i].tab = t /\ calls[i].answer # "ok"
                           /\ calls'[i].op # "order" /\ givenUp' = givenUp \cup {calls[i].key}
    BY <1>5
  <2>2. calls[i].key \notin resent => orders[calls[i].key] = None
    BY <2>1 DEF KeyInv, OnceSent
  <2>3. \A k \in givenUp' \ resent' : orders'[k] = None
    BY <2>1, <2>2 DEF KeyInv, OnceSent
  <2>4. ASSUME NEW j \in Slots, calls'[j].op = "order", calls'[j].key \notin resent'
        PROVE  /\ \A l \in Slots : calls'[l].op = "order" /\ calls'[l].key = calls'[j].key => j = l
               /\ orders'[calls'[j].key] = None \/ calls'[j].answer = "ok"
               /\ calls'[j].key \notin givenUp'
    BY <2>1, <2>4 DEF KeyInv, OnceSent
  <2>5. OnceSent'
    BY <2>3, <2>4 DEF OnceSent
  <2>6. QED
    BY <1>2, <1>3, <2>5 DEF KeyInv
<1>6. QED
  BY <1>4, <1>5

\* Leaving a page changes no order but that its page is gone.
LEMMA LeftKeepsOrders ==
  ASSUME TypeInv, NEW t \in Tabs, NEW i \in Slots
  PROVE  /\ Left(t)[i].op = calls[i].op
         /\ Left(t)[i].op = "order" =>
              /\ Left(t)[i].key = calls[i].key /\ Left(t)[i].tab = calls[i].tab
              /\ Left(t)[i].answer = calls[i].answer
<1>1. \/ Left(t)[i] = calls[i]
      \/ calls[i] \in Calls /\ Left(t)[i] = [calls[i] EXCEPT !.here = FALSE]
  BY LeftTyped
<1>2. QED
  BY <1>1 DEF Calls

\* The steps of a tab keep what is said of keys.
LEMMA TabKeys ==
  ASSUME TypeInv, KeyInv, NEW t \in Tabs,
         \/ OpenCart(t) \/ ReloadCart(t) \/ AddToCart(t) \/ Submit(t) \/ Login(t)
         \/ \E direct \in BOOLEAN : OpenCheckout(t, direct)
         \/ \E n \in 0..MaxQuantity : SetQuantity(t, n)
         \/ \E a \in Addresses : SelectAddress(t, a)
         \/ \E s \in Skus : \/ OpenProduct(t, s) \/ SelectSku(t, s) \/ Remove(t, s)
                            \/ \E n \in 0..MaxQuantity : ChangeQuantity(t, s, n)
  PROVE  KeyInv'
<1>0. page \in [Tabs -> Pages] /\ page[t] \in Pages /\ PageGood(page[t]) /\ calls \in [Slots -> Calls \cup {NoCall}]
  BY DEF TypeInv, PagesOK, CallsOK
<1>a. ASSUME NEW p \in Pages, p.key = None, Show(t, p), UNCHANGED <<nextKey, keyHistory, orders>>
      PROVE  KeyInv'
  <2>1. KeysKept
    BY <1>0, <1>a, LeftKeepsOrders DEF Show, KeysKept
  <2>2. QED
    BY <2>1, KeptKeys
<1>b. ASSUME Refused(t), UNCHANGED <<nextKey, keyHistory, orders>> PROVE KeyInv'
  <2>1. Page("login") \in Pages /\ Page("login").key = None
    BY LinesTyped DEF Page
  <2>2. QED
    BY <1>b, <2>1, <1>a DEF Refused
<1>c. ASSUME NEW p, p.key = page[t].key, page' = [page EXCEPT ![t] = p],
             UNCHANGED <<calls, nextKey, keyHistory, orders>>
      PROVE  KeyInv'
  <2>1. KeysKept
    BY <1>0, <1>c DEF KeysKept
  <2>2. QED
    BY <2>1, KeptKeys
<1>d. ASSUME NEW op \in Ops, op # "order", NEW sku, NEW lines, Send(t, op, sku, lines),
             NEW busy, page' = [page EXCEPT ![t].busy = busy], UNCHANGED <<nextKey, keyHistory, orders>>
      PROVE  KeyInv'
  <2>1. PICK i \in Slots : calls[i] = NoCall /\ calls' = [calls EXCEPT ![i] = Sent(t, op, sku, lines)]
    BY <1>d DEF Send, Sent
  <2>2. Sent(t, op, sku, lines).op # "order"
    BY <1>d DEF Sent
  <2> HIDE DEF Sent
  <2>3. \A u \in Tabs : page'[u].key = page[u].key
    BY <1>0, <1>d DEF Pages
  <2>4. KeysKept
    BY <1>0, <1>d, <2>1, <2>2, <2>3 DEF KeysKept
  <2>5. QED
    BY <2>4, KeptKeys
<1>1. ASSUME OpenCart(t) PROVE KeyInv'
  <2>1. CartView(Page("cart")) \in Pages /\ CartView(Page("cart")).key = None
    BY LinesTyped DEF CartView, Page, Pages, TypeInv, CartOK, SoldOut
  <2>2. QED
    BY <1>1, <1>a, <1>b, <2>1 DEF OpenCart, InTheTab
<1>2. ASSUME ReloadCart(t) PROVE KeyInv'
  <2>1. CartView(page[t]).key = page[t].key
    BY <1>0 DEF CartView, Pages
  <2>2. QED
    BY <1>2, <1>c, <2>1 DEF ReloadCart, InTheTab
<1>3. ASSUME AddToCart(t) PROVE KeyInv'
  <2>1. Send(t, "add", page[t].sku, page[t].lines) /\ page' = [page EXCEPT ![t].busy = {page[t].sku}]
        /\ UNCHANGED <<nextKey, keyHistory, orders>>
    BY <1>3 DEF AddToCart, InTheTab
  <2>2. "add" \in Ops /\ "add" # "order"
    BY DEF Ops
  <2>3. QED
    BY <2>1, <2>2, <1>d
<1>4. ASSUME Submit(t) PROVE KeyInv'
  <2> DEFINE k == page[t].key
  <2>1. k \in Keys /\ sent' = sent \cup {k} /\ resent' = resent \cup ({k} \cap sent)
        /\ UNCHANGED <<nextKey, givenUp, orders>> /\ page' = [page EXCEPT ![t].busy = Skus]
    BY <1>0, <1>4 DEF Submit, InTheTab, PageGood
  <2>2. PICK i \in Slots : calls[i] = NoCall /\ calls' = [calls EXCEPT ![i] = Sent(t, "order", None, page[t].lines)]
    BY <1>4 DEF Submit, Send, Sent
  <2>3. calls'[i].op = "order" /\ calls'[i].key = k /\ calls'[i].tab = t
    BY <1>0, <2>2 DEF Sent
  <2> HIDE DEF Sent
  <2>4. \A j \in Slots : j # i => calls'[j] = calls[j]
    BY <1>0, <2>2
  <2>5. \A u \in Tabs : page'[u].key = page[u].key
    BY <1>0, <2>1 DEF Pages
  <2>6. k < nextKey /\ k \notin givenUp /\ \A u \in Tabs : page[u].key = k => u = t
    BY <2>1 DEF KeyInv, PageKeys
  <2> HIDE DEF k
  <2>7. PageKeys'
    <3> SUFFICES ASSUME NEW u \in Tabs, page[u].key \in Keys
                 PROVE  /\ page[u].key < nextKey /\ page[u].key \notin givenUp
                        /\ \A v \in Tabs : page[v].key = page[u].key => v = u
                        /\ \A j \in Slots : calls'[j].op = "order" /\ calls'[j].key = page[u].key
                                              => calls'[j].tab \in {u, None}
      BY <2>1, <2>5 DEF PageKeys
    <3>1. \A j \in Slots : calls'[j].op = "order" /\ calls'[j].key = page[u].key => calls'[j].tab \in {u, None}
      BY <2>3, <2>4, <2>6 DEF KeyInv, PageKeys
    <3>2. QED
      BY <3>1 DEF KeyInv, PageKeys
  <2>8. SentKeys'
    BY <2>1, <2>6 DEF KeyInv, SentKeys
  <2>9. OnceSent'
    <3>1. k \notin sent => orders[k] = None /\ \A j \in Slots : calls[j].op = "order" => calls[j].key # k
      BY <2>1 DEF KeyInv, SentKeys, TypeInv, SentOK
    <3>2. ASSUME NEW j \in Slots, calls'[j].op = "order", calls'[j].key \notin resent'
          PROVE  /\ \A l \in Slots : calls'[l].op = "order" /\ calls'[l].key = calls'[j].key => j = l
                 /\ orders'[calls'[j].key] = None \/ calls'[j].answer = "ok"
                 /\ calls'[j].key \notin givenUp'
      <4>1. CASE j = i
        BY <2>1, <2>3, <2>4, <2>6, <3>1, <3>2, <4>1
      <4>2. CASE j # i
        <5>1. calls'[j] = calls[j] /\ calls[j].key \notin resent /\ calls[j].key \in sent
          BY <2>1, <2>4, <3>2, <4>2 DEF TypeInv, SentOK
        <5>2. calls[j].key # k
          BY <2>1, <3>2, <5>1
        <5>3. QED
          BY <2>1, <2>3, <2>4, <3>2, <4>2, <5>1, <5>2 DEF KeyInv, OnceSent
      <4>3. QED
        BY <4>1, <4>2
    <3>3. \A l \in givenUp' \ resent' : orders'[l] = None
      BY <2>1 DEF KeyInv, OnceSent
    <3>4. QED
      BY <3>2, <3>3 DEF OnceSent
  <2>10. QED
    BY <2>7, <2>8, <2>9 DEF KeyInv
<1>5. ASSUME Login(t) PROVE KeyInv'
  <2>1. "login" \in Ops /\ "login" # "order"
    BY DEF Ops
  <2>2. QED
    BY <1>5, <2>1, <1>d DEF Login, InTheTab
<1>6. ASSUME NEW direct \in BOOLEAN, OpenCheckout(t, direct) PROVE KeyInv'
  <2>1. CASE Refused(t) /\ UNCHANGED nextKey
    BY <1>6, <2>1, <1>b DEF OpenCheckout, InTheTab
  <2>2. CASE ~(Refused(t) /\ UNCHANGED nextKey)
    <3> DEFINE lines == IF direct THEN page[t].lines ELSE cart
               p(a) == [Page("checkout") EXCEPT !.lines = lines, !.key = nextKey, !.address = a,
                                                !.direct = direct]
    <3>1. PICK a \in Addresses : Show(t, p(a)) /\ signedIn /\ nextKey \in Keys /\ nextKey' = nextKey + 1
      BY <1>6, <2>2 DEF OpenCheckout
    <3> HIDE DEF lines
    <3>2. p(a).key = nextKey
      BY DEF Page
    <3> HIDE DEF p
    <3>3. page' = [page EXCEPT ![t] = p(a)] /\ calls' = Left(t) /\ UNCHANGED <<sent, resent, givenUp, orders>>
      BY <1>6, <3>1 DEF Show, OpenCheckout, InTheTab
    <3>4. \A i \in Slots : calls'[i].op = "order" =>
            /\ calls[i].op = "order" /\ calls'[i].key = calls[i].key
            /\ calls'[i].tab = calls[i].tab /\ calls'[i].answer = calls[i].answer
      BY <3>3, LeftKeepsOrders
    <3>5. QED
      BY <3>1, <3>2, <3>3, <3>4, NextKeyTaken
  <2>3. QED
    BY <2>1, <2>2
<1>7. ASSUME NEW n \in 0..MaxQuantity, SetQuantity(t, n) PROVE KeyInv'
  <2>1. [page[t] EXCEPT !.lines = Only(page[t].sku, n)].key = page[t].key
    BY <1>0 DEF Pages
  <2>2. QED
    BY <1>7, <1>c, <2>1 DEF SetQuantity, InTheTab
<1>8. ASSUME NEW a \in Addresses, SelectAddress(t, a) PROVE KeyInv'
  <2>1. PICK lines : page' = [page EXCEPT ![t].address = a, ![t].lines = lines]
    BY <1>8 DEF SelectAddress
  <2> DEFINE p == [page[t] EXCEPT !.address = a, !.lines = lines]
  <2>2. p.key = page[t].key /\ page' = [page EXCEPT ![t] = p]
    BY <1>0, <2>1 DEF Pages
  <2> HIDE DEF p
  <2>3. QED
    BY <1>8, <1>c, <2>2 DEF SelectAddress, InTheTab
<1>9. ASSUME NEW s \in Skus, OpenProduct(t, s) PROVE KeyInv'
  <2> DEFINE p == [Page("product") EXCEPT !.sku = s, !.lines = Only(s, 1), !.soldOut = SoldOut]
  <2>1. Only(s, 1) \in Lines
    BY LinesTyped, ShopAssumption
  <2>2. p \in Pages /\ p.key = None
    BY <2>1, LinesTyped DEF Page, Pages, SoldOut
  <2>3. QED
    BY <1>9, <1>a, <2>2 DEF OpenProduct, InTheTab
<1>10. ASSUME NEW s \in Skus, SelectSku(t, s) PROVE KeyInv'
  <2> DEFINE p == [page[t] EXCEPT !.sku = s, !.lines = Only(s, 1)]
  <2>1. p.key = page[t].key /\ page' = [page EXCEPT ![t] = p]
    BY <1>0, <1>10 DEF SelectSku, Pages
  <2> HIDE DEF p
  <2>2. QED
    BY <1>10, <1>c, <2>1 DEF SelectSku, InTheTab
<1>11. ASSUME NEW s \in Skus, Remove(t, s) PROVE KeyInv'
  <2>1. Send(t, "remove", s, NoLines) /\ page' = [page EXCEPT ![t].busy = {s}]
        /\ UNCHANGED <<nextKey, keyHistory, orders>>
    BY <1>11 DEF Remove, InTheTab
  <2>2. "remove" \in Ops /\ "remove" # "order"
    BY DEF Ops
  <2>3. QED
    BY <2>1, <2>2, <1>d
<1>12. ASSUME NEW s \in Skus, NEW n \in 0..MaxQuantity, ChangeQuantity(t, s, n) PROVE KeyInv'
  <2>1. Send(t, "change", s, Only(s, n)) /\ page' = [page EXCEPT ![t].busy = {s}]
        /\ UNCHANGED <<nextKey, keyHistory, orders>>
    BY <1>12 DEF ChangeQuantity, InTheTab
  <2>2. "change" \in Ops /\ "change" # "order"
    BY DEF Ops
  <2>3. QED
    BY <2>1, <2>2, <1>d
<1>13. QED
  BY <1>1, <1>2, <1>3, <1>4, <1>5, <1>6, <1>7, <1>8, <1>9, <1>10, <1>11, <1>12

\* An order that is answered is placed under a key that had none, or its
\* answer is one that its key allows.
LEMMA ServerKeys ==
  ASSUME TypeInv, KeyInv, NEW i \in Slots,
         \/ Unauthorized(i) \/ AddItemToCart(i) \/ ChangeCartItemQuantity(i) \/ RemoveCartItem(i)
         \/ CheckoutOrder(i) \/ ServeLogin(i)
  PROVE  KeyInv'
<1>0. {"ok", "refused", "unauthorized"} \subseteq Answers
  BY DEF Answers
<1>a. ASSUME NEW a \in Answers, calls[i] # NoCall, Answer(i, a)
      PROVE  \A j \in Slots :
               /\ j # i => calls'[j] = calls[j]
               /\ calls'[j].op = "order" => /\ calls[j].op = "order" /\ calls'[j].key = calls[j].key
                                            /\ calls'[j].tab = calls[j].tab
                                            /\ j = i => calls'[j].answer = a
  <2>1. calls[i] \in Calls /\ calls \in [Slots -> Calls \cup {NoCall}]
    BY <1>a DEF TypeInv, CallsOK
  <2>2. CASE calls' = [calls EXCEPT ![i] = NoCall]
    BY <2>1, <2>2, CallIsSome
  <2>3. CASE calls' = [calls EXCEPT ![i] = [calls[i] EXCEPT !.answer = a]]
    BY <2>1, <2>3 DEF Calls
  <2>4. QED
    BY <1>a, <2>2, <2>3, AnswerTyped
<1>b. ASSUME NEW a \in Answers, calls[i] # NoCall, calls[i].answer = "none", Answer(i, a),
             UNCHANGED <<page, nextKey, keyHistory, orders>>,
             calls[i].op = "order" => \/ a = "ok" \/ orders[calls[i].key] = None \/ calls[i].key \in resent
      PROVE  KeyInv'
  <2>1. KeysKept
    BY <1>a, <1>b DEF KeysKept
  <2>2. QED
    BY <2>1, KeptKeys
<1>c. calls[i].op = "order" /\ calls[i].answer = "none" /\ calls[i].key \notin resent => orders[calls[i].key] = None
  BY DEF KeyInv, OnceSent
<1>1. ASSUME Unauthorized(i) PROVE KeyInv'
  BY <1>1, <1>0, <1>b, <1>c DEF Unauthorized, InTheTab
<1>2. ASSUME AddItemToCart(i) PROVE KeyInv'
  <2>1. /\ calls[i] # NoCall /\ calls[i].answer = "none" /\ UNCHANGED <<page, nextKey, keyHistory, orders>>
        /\ calls[i].op # "order" /\ \E a \in {"ok", "refused"} : Answer(i, a)
    BY <1>2 DEF AddItemToCart, Waits, Decline
  <2>2. QED
    BY <2>1, <1>0, <1>b
<1>3. ASSUME ChangeCartItemQuantity(i) PROVE KeyInv'
  <2>1. /\ calls[i] # NoCall /\ calls[i].answer = "none" /\ UNCHANGED <<page, nextKey, keyHistory, orders>>
        /\ calls[i].op # "order" /\ \E a \in {"ok", "refused"} : Answer(i, a)
    BY <1>3 DEF ChangeCartItemQuantity, Waits, Decline
  <2>2. QED
    BY <2>1, <1>0, <1>b
<1>4. ASSUME RemoveCartItem(i) PROVE KeyInv'
  <2>1. /\ calls[i] # NoCall /\ calls[i].answer = "none" /\ UNCHANGED <<page, nextKey, keyHistory, orders>>
        /\ calls[i].op # "order" /\ \E a \in {"ok", "refused"} : Answer(i, a)
    BY <1>4 DEF RemoveCartItem, Waits, Decline
  <2>2. QED
    BY <2>1, <1>0, <1>b
<1>5. ASSUME CheckoutOrder(i), ~Place(i) PROVE KeyInv'
  <2>1. /\ calls[i] # NoCall /\ calls[i].answer = "none" /\ UNCHANGED <<page, nextKey, keyHistory, orders>>
        /\ calls[i].op = "order" /\ \E a \in {"ok", "refused"} : Answer(i, a)
    BY <1>5 DEF CheckoutOrder, Waits, Replay
  <2>2. QED
    BY <2>1, <1>0, <1>b, <1>c
<1>6. ASSUME CheckoutOrder(i), Place(i) PROVE KeyInv'
  <2> DEFINE k == calls[i].key
  <2>1. /\ calls[i] # NoCall /\ calls[i].op = "order" /\ UNCHANGED <<page, nextKey, keyHistory>>
        /\ Answer(i, "ok") /\ orders' = [orders EXCEPT ![k] = BodyOf(calls[i])]
    BY <1>6 DEF CheckoutOrder, Waits, Place
  <2>2. \A j \in Slots :
          /\ j # i => calls'[j] = calls[j]
          /\ calls'[j].op = "order" => /\ calls[j].op = "order" /\ calls'[j].key = calls[j].key
                                       /\ calls'[j].tab = calls[j].tab
                                       /\ j = i => calls'[j].answer = "ok"
    BY <2>1, <1>0, <1>a
  <2>3. /\ k \in sent /\ k \in Keys
        /\ \A l \in Keys : l # k => orders'[l] = orders[l]
        /\ k \notin resent => k \notin givenUp /\ \A j \in Slots : calls[j].op = "order" /\ calls[j].key = k => j = i
    BY <2>1 DEF TypeInv, OrdersOK, SentOK, KeyInv, OnceSent
  <2>4. \A j \in Slots : calls[j].op = "order" => calls[j].key \in Keys
    BY DEF TypeInv, SentOK
  <2> HIDE DEF k
  <2>5. PageKeys'
    BY <2>1, <2>2 DEF KeyInv, PageKeys
  <2>6. SentKeys'
    BY <2>1, <2>3 DEF KeyInv, SentKeys
  <2>7. ASSUME NEW j \in Slots, calls'[j].op = "order", calls'[j].key \notin resent'
        PROVE  /\ \A l \in Slots : calls'[l].op = "order" /\ calls'[l].key = calls'[j].key => j = l
               /\ orders'[calls'[j].key] = None \/ calls'[j].answer = "ok"
               /\ calls'[j].key \notin givenUp'
    <3>1. calls[j].op = "order" /\ calls'[j].key = calls[j].key /\ calls[j].key \notin resent
      BY <2>1, <2>2, <2>7
    <3>2. CASE j = i
      BY <2>1, <2>2, <2>7, <3>1, <3>2 DEF KeyInv, OnceSent
    <3>3. CASE j # i
      <4>1. calls[j].key # k
        BY <2>3, <3>1, <3>3
      <4>2. orders'[calls[j].key] = orders[calls[j].key]
        BY <2>3, <2>4, <3>1, <4>1
      <4>3. QED
        BY <2>1, <2>2, <3>1, <3>3, <4>2 DEF KeyInv, OnceSent
    <3>4. QED
      BY <3>2, <3>3
  <2>8. \A l \in givenUp' \ resent' : orders'[l] = None
    BY <2>1, <2>3 DEF KeyInv, OnceSent, TypeInv, SentOK
  <2>9. QED
    BY <2>5, <2>6, <2>7, <2>8 DEF KeyInv, OnceSent
<1>7. ASSUME ServeLogin(i) PROVE KeyInv'
  BY <1>7, <1>0, <1>b DEF ServeLogin, Waits
<1>8. QED
  BY <1>1, <1>2, <1>3, <1>4, <1>5, <1>6, <1>7

\* A key is given up with the one order that went out under it, which was
\* refused, or after it was resent.
LEMMA AnsweredKeys ==
  ASSUME TypeInv, KeyInv, NEW i \in Slots,
         LineAnswered(i) \/ OrderAnswered(i) \/ LoginAnswered(i) \/ GiveUp(i)
  PROVE  KeyInv'
<1>0. page \in [Tabs -> Pages] /\ calls \in [Slots -> Calls \cup {NoCall}]
  BY DEF TypeInv, PagesOK, CallsOK
<1>a. ASSUME NEW at \in {"login", "pay", "home"}, calls[i] # NoCall, calls[i].answer # "none", GoTo(i, at),
             UNCHANGED <<nextKey, keyHistory, orders>>
      PROVE  KeyInv'
  <2>1. /\ calls[i].tab \in Tabs /\ page' = [page EXCEPT ![calls[i].tab] = Page(at)]
        /\ calls' = [Left(calls[i].tab) EXCEPT ![i] = NoCall]
    BY <1>a, GoToTyped
  <2>2. Page(at).key = None
    BY DEF Page
  <2>3. \A u \in Tabs : page'[u].key \in {page[u].key, None}
    BY <1>0, <2>1, <2>2
  <2>4. ASSUME NEW j \in Slots, calls'[j].op = "order"
        PROVE  /\ calls[j].op = "order" /\ calls'[j].key = calls[j].key
               /\ calls'[j].tab = calls[j].tab /\ calls'[j].answer = calls[j].answer
    <3>1. Left(calls[i].tab) \in [Slots -> Calls \cup {NoCall}]
      BY <2>1, LeftTyped
    <3>2. calls'[j] = Left(calls[i].tab)[j]
      BY <2>1, <2>4, <3>1, CallIsSome
    <3>3. QED
      BY <2>1, <2>4, <3>2, LeftKeepsOrders
  <2>5. KeysKept
    BY <1>a, <2>3, <2>4 DEF KeysKept
  <2>6. QED
    BY <2>5, KeptKeys
<1>b. ASSUME Release(i), calls[i] # NoCall PROVE \A u \in Tabs : page'[u].key = page[u].key
  <2>1. calls[i] \in Calls /\ CallGood(calls[i])
    BY <1>b DEF TypeInv, CallsOK
  <2>2. QED
    BY <1>0, <1>b, <2>1 DEF Release, Pages
<1>c. ASSUME \A u \in Tabs : page'[u].key = page[u].key, Done(i), UNCHANGED <<nextKey, keyHistory, orders>>
      PROVE  KeyInv'
  <2>1. KeysKept
    BY <1>0, <1>c, DoneTyped DEF KeysKept
  <2>2. QED
    BY <2>1, KeptKeys
<1>1. ASSUME LineAnswered(i) PROVE KeyInv'
  <2>1. CASE GoTo(i, "login")
    BY <1>1, <1>a, <2>1 DEF LineAnswered, InTheTab
  <2>2. CASE Done(i) /\ Release(i)
    BY <1>1, <1>b, <1>c, <2>2 DEF LineAnswered, InTheTab
  <2>3. QED
    BY <1>1, <2>1, <2>2 DEF LineAnswered
<1>2. ASSUME OrderAnswered(i) PROVE KeyInv'
  <2>1. CASE GoTo(i, "pay") /\ UNCHANGED <<nextKey, givenUp>>
    BY <1>2, <1>a, <2>1 DEF OrderAnswered, InTheTab
  <2>2. CASE /\ calls[i].answer # "ok" /\ Done(i) /\ OrderUnsettled(i, calls[i].answer)
             /\ ~(calls[i].here /\ EndsAttempt(calls[i].answer))
    <3>1. Release(i) /\ UNCHANGED <<nextKey, keyHistory, orders>> /\ Done(i) /\ calls[i] # NoCall
      BY <1>2, <2>2 DEF OrderAnswered, OrderUnsettled, InTheTab
    <3>2. QED
      BY <1>b, <1>c, <3>1
  <2>3. CASE /\ calls[i].answer # "ok" /\ Done(i) /\ OrderUnsettled(i, calls[i].answer)
             /\ calls[i].here /\ EndsAttempt(calls[i].answer)
    <3>1. calls[i] \in Calls /\ CallGood(calls[i])
      BY <1>2 DEF OrderAnswered, TypeInv, CallsOK
    <3>2. PICK t \in Tabs : t = calls[i].tab
      BY <2>3, <3>1 DEF Calls, CallGood
    <3> DEFINE p == [page[t] EXCEPT !.busy = {}, !.key = nextKey]
    <3>a. /\ page' = [page EXCEPT ![calls[i].tab].busy = {}, ![calls[i].tab].key = nextKey]
          /\ nextKey \in Keys /\ nextKey' = nextKey + 1 /\ givenUp' = givenUp \cup {calls[i].key}
      BY <2>3 DEF OrderUnsettled
    <3>b. calls[i].op = "order" /\ UNCHANGED <<sent, resent, orders>>
      BY <1>2 DEF OrderAnswered, InTheTab
    <3>d. page' = [page EXCEPT ![t].busy = {}, ![t].key = nextKey] /\ page[t] \in Pages
      BY <1>0, <3>a, <3>2
    <3>c. page' = [page EXCEPT ![t] = p] /\ p.key = nextKey
      BY <1>0, <3>d DEF Pages
    <3>3. /\ page' = [page EXCEPT ![t] = p] /\ nextKey \in Keys /\ nextKey' = nextKey + 1
          /\ givenUp' = givenUp \cup {calls[i].key} /\ p.key = nextKey
          /\ calls[i].op = "order" /\ UNCHANGED <<sent, resent, orders>>
      BY <3>a, <3>b, <3>c
    <3> HIDE DEF p
    <3>4. calls'[i] = NoCall /\ \A j \in Slots : calls'[j].op = "order" => calls'[j] = calls[j]
      BY <1>0, <2>3, DoneTyped DEF Done
    <3>5. \E j \in Slots : /\ calls[j].op = "order" /\ calls[j].tab = t /\ calls[j].answer # "ok"
                           /\ calls'[j].op # "order" /\ givenUp' = givenUp \cup {calls[j].key}
      BY <2>3, <3>2, <3>3, <3>4, CallIsSome
    <3>6. QED
      BY <3>3, <3>4, <3>5, NextKeyTaken
  <2>4. QED
    BY <1>2, <2>1, <2>2, <2>3 DEF OrderAnswered
<1>3. ASSUME LoginAnswered(i) PROVE KeyInv'
  BY <1>3, <1>a DEF LoginAnswered, InTheTab
<1>4. ASSUME GiveUp(i) PROVE KeyInv'
  <2>1. Release(i) /\ UNCHANGED <<nextKey, keyHistory, orders>> /\ calls[i] # NoCall
    BY <1>4 DEF GiveUp, OrderUnsettled, EndsAttempt, InTheTab
  <2>2. CASE Done(i)
    BY <1>b, <1>c, <2>1, <2>2
  <2>3. CASE calls' = [calls EXCEPT ![i].tab = None, ![i].here = FALSE]
    <3>1. calls[i] \in Calls
      BY <2>1 DEF TypeInv, CallsOK
    <3>2. KeysKept
      BY <1>0, <1>b, <2>1, <2>3, <3>1 DEF KeysKept, Calls
    <3>3. QED
      BY <3>2, KeptKeys
  <2>4. QED
    BY <1>4, <2>2, <2>3 DEF GiveUp
<1>5. QED
  BY <1>1, <1>2, <1>3, <1>4

LEMMA KeyInit == Init => KeyInv
<1>1. None \notin Keys
  BY ShopAssumption DEF Keys
<1>2. QED
  BY <1>1, CallIsSome DEF Init, KeyInv, PageKeys, SentKeys, OnceSent, Page

LEMMA KeyStep == TypeInv /\ KeyInv /\ [Next]_vars => KeyInv'
<1> SUFFICES ASSUME TypeInv, KeyInv, [Next]_vars PROVE KeyInv'
  OBVIOUS
<1>1. ASSUME UNCHANGED <<page, calls, nextKey, keyHistory, orders>> PROVE KeyInv'
  <2>1. KeysKept
    BY <1>1 DEF KeysKept
  <2>2. QED
    BY <2>1, KeptKeys
<1>2. ASSUME NEW s, NEW a, ChangeOffer(s, a) PROVE KeyInv'
  BY <1>1, <1>2 DEF ChangeOffer
<1>3. ASSUME SessionEnds \/ UNCHANGED vars PROVE KeyInv'
  BY <1>1, <1>3 DEF SessionEnds, vars
<1>4. QED
  BY <1>2, <1>3, TabKeys, ServerKeys, AnsweredKeys DEF Next

\* A key that the checkout page replaced after a 4xx answer has no order under
\* it unless it was sent more than once: the attempt under the new key does not
\* buy again what a refused one has bought.
THEOREM GivenUpKeyIsFree == Spec => []KeyGivenUpHasNoOrder
<1>1. KeyInv => KeyGivenUpHasNoOrder
  BY DEF KeyInv, OnceSent, KeyGivenUpHasNoOrder
<1>2. QED
  BY <1>1, TypeInit, TypeStep, KeyInit, KeyStep, PTL DEF Spec

-----------------------------------------------------------------------------
(* The customer's choice *)

\* What is outstanding on a line is on its way.
LEMMA OutstandingIsInFlight ==
  ASSUME TypeInv, NEW s \in Skus
  PROVE  Outstanding(s) \subseteq InFlight(s)
<1>1. ASSUME NEW i \in Outstanding(s) PROVE i \in InFlight(s)
  BY <1>1 DEF Outstanding, InFlight, About, LineOps
<1>2. QED
  BY <1>1

\* A line whose choice is not muddled stays as it is when the calls on it do:
\* none is sent, answered with a change of the line, or lost.
LineKept(s) ==
  /\ cart'[s] = cart[s] /\ wanted'[s] = wanted[s]
  /\ \A i \in Slots : (calls'[i].op \in LineOps /\ calls'[i].sku = s /\ calls'[i].answer = "none") <=> i \in Outstanding(s)
  /\ \A i \in Outstanding(s) : calls'[i].op = calls[i].op /\ calls'[i].sku = s /\ calls'[i].lines = calls[i].lines

\* What the invariant says of one line.
LineGood(s) ==
  \/ Outstanding(s) = {} /\ cart[s] = wanted[s]
  \/ \E i \in Slots : Outstanding(s) = {i} /\ wanted[s] = Served(calls[i], cart[s])

LEMMA KeptLine ==
  ASSUME TypeInv, ChoiceInv, NEW s \in Skus \ muddled, LineKept(s)
  PROVE  LineGood(s)'
<1>1. Outstanding(s)' = Outstanding(s)
  BY DEF Outstanding, LineKept
<1>2. CASE Outstanding(s) = {} /\ cart[s] = wanted[s]
  BY <1>1, <1>2 DEF LineGood, LineKept
<1>3. ASSUME NEW i \in Slots, Outstanding(s) = {i}, wanted[s] = Served(calls[i], cart[s])
      PROVE  LineGood(s)'
  <2>1. calls'[i].op = calls[i].op /\ calls'[i].sku = s /\ calls[i].sku = s /\ calls'[i].lines = calls[i].lines
    BY <1>3 DEF LineKept, Outstanding
  <2>2. Served(calls'[i], cart'[s]) = Served(calls[i], cart[s])
    BY <2>1 DEF Served, LineKept
  <2>3. wanted'[s] = Served(calls'[i], cart'[s])
    BY <1>3, <2>2 DEF LineKept
  <2>4. QED
    BY <1>1, <1>3, <2>3 DEF LineGood
<1>4. QED
  BY <1>2, <1>3 DEF ChoiceInv

\* The choice of a SKU that no call is about becomes what its one call sets.
LEMMA ChosenLine ==
  ASSUME TypeInv, ChoiceInv, NEW t \in Tabs, NEW s \in Skus, NEW n \in 0..MaxQuantity, NEW op \in LineOps,
         NEW lines \in Lines, Send(t, op, s, lines), Choose(t, s, n), cart' = cart,
         page[t].busy # {s}, n = Served([op |-> op, sku |-> s, lines |-> lines], wanted[s])
  PROVE  ChoiceInv'
<1>0. calls \in [Slots -> Calls \cup {NoCall}] /\ wanted \in [Skus -> 0..MaxQuantity]
  BY DEF TypeInv, CallsOK, CartOK, Lines
<1>1. PICK i \in Slots : calls[i] = NoCall /\ calls' = [calls EXCEPT ![i] = Sent(t, op, s, lines)]
  BY DEF Send, Sent
<1>2. /\ calls'[i] = Sent(t, op, s, lines) /\ \A j \in Slots : j # i => calls'[j] = calls[j]
      /\ i \notin Outstanding(s) /\ \A r \in Skus : i \notin Outstanding(r)
  BY <1>0, <1>1, CallIsSome DEF Outstanding, LineOps
<1>3. /\ calls'[i].op = op /\ calls'[i].sku = s /\ calls'[i].lines = lines /\ calls'[i].answer = "none"
  BY <1>2 DEF Sent
<1>4. ASSUME NEW r \in Skus \ muddled', r # s PROVE LineGood(r)'
  <2>1. r \notin muddled /\ wanted'[r] = wanted[r]
    BY <1>0, <1>4 DEF Choose
  <2>2. LineKept(r)
    BY <1>2, <1>3, <1>4, <2>1 DEF LineKept, Outstanding
  <2>3. QED
    BY <2>1, <2>2, KeptLine
<1>5. ASSUME s \notin muddled' PROVE LineGood(s)'
  <2>1. InFlight(s) = {} /\ s \notin muddled /\ wanted'[s] = n
    BY <1>0, <1>5 DEF Choose
  <2>2. Outstanding(s) = {} /\ cart[s] = wanted[s]
    BY <2>1, OutstandingIsInFlight DEF ChoiceInv
  <2>3. Outstanding(s)' = {i}
    BY <1>2, <1>3, <2>2 DEF Outstanding
  <2>4. Served(calls'[i], cart'[s]) = n
    BY <1>3, <2>2 DEF Served
  <2>5. QED
    BY <2>1, <2>3, <2>4 DEF LineGood
<1>6. QED
  BY <1>4, <1>5 DEF ChoiceInv, LineGood

\* Every line that is not muddled was not, and is kept.
LEMMA ChoiceKept ==
  ASSUME TypeInv, ChoiceInv, \A s \in Skus \ muddled' : s \notin muddled /\ LineKept(s)
  PROVE  ChoiceInv'
<1>1. \A s \in Skus \ muddled' : LineGood(s)'
  <2> SUFFICES ASSUME NEW s \in Skus \ muddled' PROVE LineGood(s)'
    OBVIOUS
  <2>1. s \in Skus \ muddled /\ LineKept(s)
    OBVIOUS
  <2>2. QED
    BY <2>1, KeptLine
<1>2. QED
  BY <1>1 DEF ChoiceInv, LineGood

\* The calls of a page that is left stay what they ask for.
LEMMA LeftKeepsLines ==
  ASSUME TypeInv, NEW t \in Tabs, NEW i \in Slots
  PROVE  /\ Left(t)[i].op = calls[i].op
         /\ Left(t)[i].op \in LineOps =>
              /\ Left(t)[i].sku = calls[i].sku /\ Left(t)[i].lines = calls[i].lines
              /\ Left(t)[i].answer = calls[i].answer
<1>1. \/ Left(t)[i] = calls[i]
      \/ calls[i] \in Calls /\ Left(t)[i] = [calls[i] EXCEPT !.here = FALSE]
  BY LeftTyped
<1>2. QED
  BY <1>1 DEF Calls

\* The steps of a tab keep what is said of the lines.
LEMMA TabChoice ==
  ASSUME TypeInv, ChoiceInv, NEW t \in Tabs,
         \/ OpenCart(t) \/ ReloadCart(t) \/ AddToCart(t) \/ Submit(t) \/ Login(t)
         \/ \E direct \in BOOLEAN : OpenCheckout(t, direct)
         \/ \E n \in 0..MaxQuantity : SetQuantity(t, n)
         \/ \E a \in Addresses : SelectAddress(t, a)
         \/ \E s \in Skus : \/ OpenProduct(t, s) \/ SelectSku(t, s) \/ Remove(t, s)
                            \/ \E n \in 0..MaxQuantity : ChangeQuantity(t, s, n)
  PROVE  ChoiceInv'
<1>0. /\ page[t] \in Pages /\ PageGood(page[t]) /\ calls \in [Slots -> Calls \cup {NoCall}]
      /\ wanted \in [Skus -> 0..MaxQuantity]
  BY DEF TypeInv, PagesOK, CallsOK, CartOK, Lines
<1>a. ASSUME UNCHANGED <<calls, cart, wanted, muddled>> PROVE ChoiceInv'
  BY <1>a DEF ChoiceInv, Outstanding
<1>b. ASSUME NEW p, Show(t, p), UNCHANGED <<cart, wanted, muddled>> PROVE ChoiceInv'
  <2>1. \A s \in Skus \ muddled' : s \notin muddled /\ LineKept(s)
    BY <1>b, LeftKeepsLines DEF Show, LineKept, Outstanding
  <2>2. QED
    BY <2>1, ChoiceKept
<1>c. ASSUME NEW op, op \notin LineOps, NEW sku, NEW lines, Send(t, op, sku, lines), UNCHANGED <<cart, wanted, muddled>>
      PROVE  ChoiceInv'
  <2>1. PICK i \in Slots : calls[i] = NoCall /\ calls' = [calls EXCEPT ![i] = Sent(t, op, sku, lines)]
    BY <1>c DEF Send, Sent
  <2>2. Sent(t, op, sku, lines).op \notin LineOps
    BY <1>c DEF Sent
  <2> HIDE DEF Sent
  <2>3. \A s \in Skus : i \notin Outstanding(s)
    BY <2>1, CallIsSome DEF Outstanding, LineOps
  <2>4. \A s \in Skus \ muddled' : s \notin muddled /\ LineKept(s)
    BY <1>0, <1>c, <2>1, <2>2, <2>3 DEF LineKept, Outstanding
  <2>5. QED
    BY <2>4, ChoiceKept
<1>1. ASSUME OpenCart(t) PROVE ChoiceInv'
  BY <1>1, <1>b DEF OpenCart, Refused, InTheTab
<1>2. ASSUME ReloadCart(t) PROVE ChoiceInv'
  BY <1>2, <1>a DEF ReloadCart, InTheTab
<1>3. ASSUME AddToCart(t) PROVE ChoiceInv'
  <2> DEFINE s == page[t].sku
             lines == page[t].lines
             n == Least(wanted[s] + lines[s], MaxQuantity)
  <2>1. s \in Skus /\ lines \in Lines /\ page[t].busy # {s}
    BY <1>0, <1>3 DEF AddToCart, Pages, PageGood
  <2>2. n \in 0..MaxQuantity
    BY <1>0, <2>1, ShopAssumption DEF Least, Lines
  <2>3. Send(t, "add", s, lines) /\ Choose(t, s, n) /\ cart' = cart
    BY <1>3 DEF AddToCart, InTheTab
  <2> HIDE DEF s, lines
  <2>4. n = Served([op |-> "add", sku |-> s, lines |-> lines], wanted[s]) /\ "add" \in LineOps
    BY DEF Served, LineOps
  <2> HIDE DEF n
  <2>5. QED
    BY <2>1, <2>2, <2>3, <2>4, ChosenLine
<1>4. ASSUME Submit(t) PROVE ChoiceInv'
  <2>1. "order" \notin LineOps
    BY DEF LineOps
  <2>2. QED
    BY <1>4, <1>c, <2>1 DEF Submit, InTheTab
<1>5. ASSUME Login(t) PROVE ChoiceInv'
  <2>1. "login" \notin LineOps
    BY DEF LineOps
  <2>2. QED
    BY <1>5, <1>c, <2>1 DEF Login, InTheTab
<1>6. ASSUME NEW direct \in BOOLEAN, OpenCheckout(t, direct) PROVE ChoiceInv'
  BY <1>6, <1>b DEF OpenCheckout, Refused, InTheTab
<1>7. ASSUME NEW n \in 0..MaxQuantity, SetQuantity(t, n) PROVE ChoiceInv'
  BY <1>7, <1>a DEF SetQuantity, InTheTab
<1>8. ASSUME NEW a \in Addresses, SelectAddress(t, a) PROVE ChoiceInv'
  BY <1>8, <1>a DEF SelectAddress, InTheTab
<1>9. ASSUME NEW s \in Skus, OpenProduct(t, s) PROVE ChoiceInv'
  BY <1>9, <1>b DEF OpenProduct, InTheTab
<1>10. ASSUME NEW s \in Skus, SelectSku(t, s) PROVE ChoiceInv'
  BY <1>10, <1>a DEF SelectSku, InTheTab
<1>11. ASSUME NEW s \in Skus, Remove(t, s) PROVE ChoiceInv'
  <2>1. Send(t, "remove", s, NoLines) /\ Choose(t, s, 0) /\ cart' = cart /\ page[t].busy # {s}
    BY <1>11 DEF Remove, Unlocked, InTheTab
  <2>2. 0 = Served([op |-> "remove", sku |-> s, lines |-> NoLines], wanted[s]) /\ "remove" \in LineOps
    BY DEF Served, LineOps
  <2>3. 0 \in 0..MaxQuantity /\ NoLines \in Lines
    BY ShopAssumption, LinesTyped
  <2>4. QED
    BY <2>1, <2>2, <2>3, ChosenLine
<1>12. ASSUME NEW s \in Skus, NEW n \in 0..MaxQuantity, ChangeQuantity(t, s, n) PROVE ChoiceInv'
  <2> DEFINE lines == Only(s, n)
  <2>1. Send(t, "change", s, lines) /\ Choose(t, s, n) /\ cart' = cart /\ page[t].busy # {s}
    BY <1>12 DEF ChangeQuantity, Unlocked, InTheTab
  <2>2. lines \in Lines /\ lines[s] = n
    BY LinesTyped DEF Only, NoLines
  <2> HIDE DEF lines
  <2>3. n = Served([op |-> "change", sku |-> s, lines |-> lines], wanted[s]) /\ "change" \in LineOps
    BY <2>2 DEF Served, LineOps
  <2>4. QED
    BY <2>1, <2>2, <2>3, ChosenLine
<1>13. QED
  BY <1>1, <1>2, <1>3, <1>4, <1>5, <1>6, <1>7, <1>8, <1>9, <1>10, <1>11, <1>12

\* A call that is served sets its line to what was chosen, or muddles it.
LEMMA LineServed ==
  ASSUME TypeInv, ChoiceInv, NEW i \in Slots, NEW a \in Answers, a # "none", Answer(i, a),
         calls[i] # NoCall, calls[i].op \in LineOps, calls[i].answer = "none",
         wanted' = wanted, muddled \subseteq muddled', \A r \in Skus \ {calls[i].sku} : cart'[r] = cart[r],
         calls[i].sku \notin muddled' => cart'[calls[i].sku] = Served(calls[i], cart[calls[i].sku])
  PROVE  ChoiceInv'
<1>1. calls \in [Slots -> Calls \cup {NoCall}] /\ calls[i] \in Calls /\ calls[i].sku \in Skus
  BY DEF TypeInv, CallsOK, CallGood
<1>2. /\ \A j \in Slots : j # i => calls'[j] = calls[j]
      /\ calls'[i].op \in LineOps => calls'[i].answer # "none"
  <2>1. CASE calls' = [calls EXCEPT ![i] = NoCall]
    BY <1>1, <2>1, CallIsSome DEF LineOps
  <2>2. CASE calls' = [calls EXCEPT ![i] = [calls[i] EXCEPT !.answer = a]]
    BY <1>1, <2>2 DEF Calls
  <2>3. QED
    BY <2>1, <2>2, AnswerTyped
<1>3. ASSUME NEW r \in Skus \ muddled', r # calls[i].sku PROVE LineGood(r)'
  <2>1. i \notin Outstanding(r) /\ r \notin muddled
    BY <1>3 DEF Outstanding
  <2>2. LineKept(r)
    BY <1>2, <1>3, <2>1 DEF LineKept, Outstanding
  <2>3. QED
    BY <2>1, <2>2, KeptLine
<1>4. ASSUME NEW s \in Skus \ muddled', s = calls[i].sku PROVE LineGood(s)'
  <2>1. i \in Outstanding(s) /\ s \notin muddled
    BY <1>4 DEF Outstanding
  <2>2. Outstanding(s) = {i} /\ wanted[s] = Served(calls[i], cart[s])
    BY <2>1 DEF ChoiceInv
  <2>3. Outstanding(s)' = {}
    BY <1>2, <2>2 DEF Outstanding
  <2>4. cart'[s] = wanted'[s]
    BY <1>4, <2>2
  <2>5. QED
    BY <2>3, <2>4 DEF LineGood
<1>5. \A s \in Skus \ muddled' : LineGood(s)'
  BY <1>3, <1>4
<1>6. QED
  BY <1>5 DEF ChoiceInv, LineGood

\* Serving a call keeps what is said of the lines: an order takes its lines
\* from the cart and from what was wanted, unless it is muddled.
LEMMA ServerChoice ==
  ASSUME TypeInv, ChoiceInv, NEW i \in Slots,
         \/ Unauthorized(i) \/ AddItemToCart(i) \/ ChangeCartItemQuantity(i) \/ RemoveCartItem(i)
         \/ CheckoutOrder(i) \/ ServeLogin(i)
  PROVE  ChoiceInv'
<1>0. /\ {"ok", "refused", "unauthorized"} \subseteq Answers \ {"none"}
      /\ cart \in [Skus -> 0..MaxQuantity] /\ wanted \in [Skus -> 0..MaxQuantity]
      /\ calls \in [Slots -> Calls \cup {NoCall}]
  BY DEF Answers, TypeInv, CartOK, CallsOK, Lines
\* The answer to an order or a login changes no call on a line.
<1>a. ASSUME NEW a \in Answers, calls[i] # NoCall, calls[i].op \notin LineOps, Answer(i, a), NEW s \in Skus,
             cart'[s] = cart[s], wanted'[s] = wanted[s]
      PROVE  LineKept(s)
  <2>1. calls[i] \in Calls
    BY <1>0, <1>a
  <2>2. \A j \in Slots : j # i => calls'[j] = calls[j]
    BY <1>0, <1>a DEF Answer
  <2>3. calls'[i].op \notin LineOps
    <3>1. CASE calls' = [calls EXCEPT ![i] = NoCall]
      BY <1>0, <3>1, CallIsSome DEF LineOps
    <3>2. CASE calls' = [calls EXCEPT ![i] = [calls[i] EXCEPT !.answer = a]]
      BY <1>0, <1>a, <2>1, <3>2 DEF Calls
    <3>3. QED
      BY <1>a, <3>1, <3>2, AnswerTyped
  <2>4. i \notin Outstanding(s)
    BY <1>a DEF Outstanding
  <2>5. QED
    BY <1>a, <2>2, <2>3, <2>4 DEF LineKept, Outstanding
<1>b. ASSUME NEW a \in Answers, calls[i] # NoCall, calls[i].op \notin LineOps, Answer(i, a),
             UNCHANGED <<cart, wanted>>, muddled \subseteq muddled'
      PROVE  ChoiceInv'
  <2>1. \A s \in Skus \ muddled' : s \notin muddled /\ LineKept(s)
    BY <1>a, <1>b
  <2>2. QED
    BY <2>1, ChoiceKept
<1>1. ASSUME Unauthorized(i) PROVE ChoiceInv'
  <2>1. /\ calls[i] # NoCall /\ calls[i].answer = "none" /\ Answer(i, "unauthorized")
        /\ UNCHANGED <<cart, wanted>> /\ muddled \subseteq muddled'
        /\ calls[i].op \in LineOps => calls[i].sku \in muddled'
    BY <1>1 DEF Unauthorized, InTheTab, About, LineOps
  <2>2. QED
    BY <1>0, <1>b, <2>1, LineServed
<1>2. ASSUME AddItemToCart(i) PROVE ChoiceInv'
  <2>1. /\ calls[i] # NoCall /\ calls[i].op = "add" /\ calls[i].answer = "none" /\ wanted' = wanted
        /\ muddled \subseteq muddled'
    BY <1>2 DEF AddItemToCart, Waits, Decline
  <2>2. CASE Decline(i)
    BY <1>0, <2>1, <2>2, LineServed DEF Decline, LineOps
  <2>3. CASE ~Decline(i)
    <3>1. UpsertCartItem(calls[i].sku, calls[i].lines[calls[i].sku]) /\ Answer(i, "ok")
      BY <1>2, <2>3 DEF AddItemToCart
    <3>2. calls[i].sku \in Skus
      BY <1>0, <2>1 DEF TypeInv, CallsOK, CallGood, LineOps
    <3>3. cart'[calls[i].sku] = Served(calls[i], cart[calls[i].sku])
          /\ \A r \in Skus \ {calls[i].sku} : cart'[r] = cart[r]
      BY <1>0, <2>1, <3>1, <3>2 DEF UpsertCartItem, Served
    <3>4. QED
      BY <1>0, <2>1, <3>1, <3>3, LineServed DEF LineOps
  <2>4. QED
    BY <2>2, <2>3
<1>3. ASSUME ChangeCartItemQuantity(i) PROVE ChoiceInv'
  <2>1. /\ calls[i] # NoCall /\ calls[i].op = "change" /\ calls[i].answer = "none" /\ wanted' = wanted
        /\ muddled \subseteq muddled'
    BY <1>3 DEF ChangeCartItemQuantity, Waits, Decline
  <2>2. CASE Decline(i)
    BY <1>0, <2>1, <2>2, LineServed DEF Decline, LineOps
  <2>3. CASE ~Decline(i)
    <3>1. UpdateCartItem(calls[i].sku, calls[i].lines[calls[i].sku]) /\ Answer(i, "ok")
      BY <1>3, <2>3 DEF ChangeCartItemQuantity
    <3>2. calls[i].sku \in Skus
      BY <1>0, <2>1 DEF TypeInv, CallsOK, CallGood, LineOps
    <3>3. cart'[calls[i].sku] = Served(calls[i], cart[calls[i].sku])
          /\ \A r \in Skus \ {calls[i].sku} : cart'[r] = cart[r]
      BY <1>0, <2>1, <3>1, <3>2 DEF UpdateCartItem, Served
    <3>4. QED
      BY <1>0, <2>1, <3>1, <3>3, LineServed DEF LineOps
  <2>4. QED
    BY <2>2, <2>3
<1>4. ASSUME RemoveCartItem(i) PROVE ChoiceInv'
  <2>1. /\ calls[i] # NoCall /\ calls[i].op = "remove" /\ calls[i].answer = "none" /\ wanted' = wanted
        /\ muddled \subseteq muddled'
    BY <1>4 DEF RemoveCartItem, Waits, Decline
  <2>2. CASE Decline(i)
    BY <1>0, <2>1, <2>2, LineServed DEF Decline, LineOps
  <2>3. CASE ~Decline(i)
    <3>1. DeleteCartItem(calls[i].sku) /\ Answer(i, "ok")
      BY <1>4, <2>3 DEF RemoveCartItem
    <3>2. calls[i].sku \in Skus
      BY <1>0, <2>1 DEF TypeInv, CallsOK, CallGood, LineOps
    <3>3. cart'[calls[i].sku] = Served(calls[i], cart[calls[i].sku])
          /\ \A r \in Skus \ {calls[i].sku} : cart'[r] = cart[r]
      BY <1>0, <2>1, <3>1, <3>2 DEF DeleteCartItem, Served
    <3>4. QED
      BY <1>0, <2>1, <3>1, <3>3, LineServed DEF LineOps
  <2>4. QED
    BY <2>2, <2>3
<1>5. ASSUME CheckoutOrder(i) PROVE ChoiceInv'
  <2>1. calls[i] # NoCall /\ calls[i].op = "order" /\ calls[i].op \notin LineOps
    BY <1>5 DEF CheckoutOrder, Waits, LineOps
  <2>2. CASE ~Place(i)
    BY <1>0, <1>5, <1>b, <2>1, <2>2 DEF CheckoutOrder, Replay
  <2>3. CASE Place(i)
    <3> DEFINE lines == calls[i].lines
    <3>1. /\ cart' = [s \in Skus |-> IF lines[s] > 0 THEN 0 ELSE cart[s]]
          /\ wanted' = IF calls[i].direct THEN wanted ELSE [s \in Skus |-> IF lines[s] > 0 THEN 0 ELSE wanted[s]]
          /\ muddled' = (muddled \cup {s \in In(lines) : cart[s] # 0 /\ (calls[i].direct \/ cart[s] # lines[s])})
                          \cup {s \in In(lines) : InFlight(s) # {i}}
          /\ Answer(i, "ok")
      BY <2>3 DEF Place, RemoveCartItems
    <3> HIDE DEF lines
    <3>2. ASSUME NEW s \in Skus \ muddled', ~(lines[s] > 0) PROVE s \notin muddled /\ LineGood(s)'
      <4>1. cart'[s] = cart[s] /\ wanted'[s] = wanted[s] /\ s \notin muddled
        BY <3>1, <3>2
      <4>2. QED
        BY <1>0, <1>a, <2>1, <3>1, <4>1, KeptLine
    <3>3. ASSUME NEW s \in Skus \ muddled', lines[s] > 0 PROVE s \notin muddled /\ LineGood(s)'
      <4>1. /\ s \notin muddled /\ InFlight(s) = {i} /\ (cart[s] = 0 \/ ~calls[i].direct)
        BY <3>1, <3>3 DEF In
      <4>2. Outstanding(s) = {} /\ cart[s] = wanted[s]
        BY <2>1, <4>1, OutstandingIsInFlight DEF ChoiceInv, Outstanding
      <4>3. cart'[s] = 0 /\ wanted'[s] = 0
        BY <3>1, <3>3, <4>1, <4>2
      <4>4. Outstanding(s)' = {}
        <5>1. \A j \in Slots : j # i => calls'[j] = calls[j]
          BY <1>0, <3>1 DEF Answer
        <5>2. calls'[i].op \notin LineOps
          <6>1. CASE calls' = [calls EXCEPT ![i] = NoCall]
            BY <1>0, <6>1, CallIsSome DEF LineOps
          <6>2. CASE calls' = [calls EXCEPT ![i] = [calls[i] EXCEPT !.answer = "ok"]]
            BY <1>0, <2>1, <6>2 DEF Calls
          <6>3. QED
            BY <1>0, <2>1, <3>1, <6>1, <6>2, AnswerTyped
        <5>3. QED
          BY <4>2, <5>1, <5>2 DEF Outstanding
      <4>5. QED
        BY <4>1, <4>3, <4>4 DEF LineGood
    <3>4. \A s \in Skus \ muddled' : LineGood(s)'
      BY <3>2, <3>3
    <3>5. QED
      BY <3>4 DEF ChoiceInv, LineGood
  <2>4. QED
    BY <2>2, <2>3
<1>6. ASSUME ServeLogin(i) PROVE ChoiceInv'
  BY <1>6, <1>0, <1>b DEF ServeLogin, Waits, LineOps
<1>7. QED
  BY <1>1, <1>2, <1>3, <1>4, <1>5, <1>6

\* An answer that arrives changes no line: it was served before.
LEMMA AnsweredChoice ==
  ASSUME TypeInv, ChoiceInv, NEW i \in Slots,
         LineAnswered(i) \/ OrderAnswered(i) \/ LoginAnswered(i) \/ GiveUp(i)
  PROVE  ChoiceInv'
<1>0. calls \in [Slots -> Calls \cup {NoCall}]
  BY DEF TypeInv, CallsOK
<1>a. ASSUME NEW at \in {"login", "pay", "home"}, calls[i] # NoCall, calls[i].answer # "none", GoTo(i, at),
             UNCHANGED <<cart, wanted, muddled, keyHistory>>
      PROVE  ChoiceInv'
  <2>1. calls[i].tab \in Tabs /\ calls' = [Left(calls[i].tab) EXCEPT ![i] = NoCall]
    BY <1>a, GoToTyped
  <2>2. PICK t \in Tabs : t = calls[i].tab
    BY <2>1
  <2>3. calls'[i].op \notin LineOps /\ \A j \in Slots : j # i => calls'[j] = Left(t)[j]
    BY <2>1, <2>2, LeftTyped, CallIsSome DEF LineOps
  <2>4. \A s \in Skus : i \notin Outstanding(s)
    BY <1>a DEF Outstanding
  <2>5. \A s \in Skus \ muddled' : s \notin muddled /\ LineKept(s)
    BY <1>a, <2>3, <2>4, LeftKeepsLines DEF LineKept, Outstanding
  <2>6. QED
    BY <2>5, ChoiceKept
<1>b. ASSUME Done(i), UNCHANGED <<cart, wanted>>, muddled \subseteq muddled',
             calls[i].op \in LineOps => calls[i].answer # "none" \/ calls[i].sku \in muddled'
      PROVE  ChoiceInv'
  <2>1. calls'[i].op \notin LineOps /\ \A j \in Slots : j # i => calls'[j] = calls[j]
    BY <1>0, <1>b, CallIsSome DEF Done, LineOps
  <2>2. \A s \in Skus \ muddled' : i \notin Outstanding(s)
    BY <1>b DEF Outstanding
  <2>3. \A s \in Skus \ muddled' : s \notin muddled /\ LineKept(s)
    BY <1>b, <2>1, <2>2 DEF LineKept, Outstanding
  <2>4. QED
    BY <2>3, ChoiceKept
<1>1. ASSUME LineAnswered(i) PROVE ChoiceInv'
  <2>1. CASE GoTo(i, "login")
    BY <1>1, <1>a, <2>1 DEF LineAnswered, InTheTab
  <2>2. CASE Done(i)
    BY <1>1, <1>b, <2>2 DEF LineAnswered, InTheTab
  <2>3. QED
    BY <1>1, <2>1, <2>2 DEF LineAnswered
<1>2. ASSUME OrderAnswered(i) PROVE ChoiceInv'
  <2>1. CASE GoTo(i, "pay") /\ UNCHANGED <<nextKey, givenUp>>
    BY <1>2, <1>a, <2>1 DEF OrderAnswered, InTheTab
  <2>2. CASE Done(i)
    BY <1>2, <1>b, <2>2 DEF OrderAnswered, InTheTab, LineOps
  <2>3. QED
    BY <1>2, <2>1, <2>2 DEF OrderAnswered
<1>3. ASSUME LoginAnswered(i) PROVE ChoiceInv'
  BY <1>3, <1>a DEF LoginAnswered, InTheTab
<1>4. ASSUME GiveUp(i) PROVE ChoiceInv'
  <2>1. /\ calls[i] # NoCall /\ UNCHANGED <<cart, wanted>> /\ muddled \subseteq muddled'
        /\ calls[i].op \in LineOps => calls[i].sku \in muddled'
    BY <1>4 DEF GiveUp, InTheTab, About, LineOps
  <2>2. CASE Done(i)
    BY <1>b, <2>1, <2>2
  <2>3. CASE calls' = [calls EXCEPT ![i].tab = None, ![i].here = FALSE]
    <3>1. calls[i] \in Calls
      BY <1>0, <2>1
    <3>2. /\ \A j \in Slots : j # i => calls'[j] = calls[j]
          /\ calls'[i].op = calls[i].op /\ calls'[i].sku = calls[i].sku
      BY <1>0, <2>3, <3>1 DEF Calls
    <3>3. \A s \in Skus \ muddled' : s \notin muddled /\ LineKept(s)
      BY <2>1, <3>2 DEF LineKept, Outstanding
    <3>4. QED
      BY <3>3, ChoiceKept
  <2>4. QED
    BY <1>4, <2>2, <2>3 DEF GiveUp
<1>5. QED
  BY <1>1, <1>2, <1>3, <1>4

LEMMA ChoiceInit == Init => ChoiceInv
BY CallIsSome DEF Init, ChoiceInv, Outstanding, LineOps, NoLines

LEMMA ChoiceStep == TypeInv /\ ChoiceInv /\ [Next]_vars => ChoiceInv'
<1> SUFFICES ASSUME TypeInv, ChoiceInv, [Next]_vars PROVE ChoiceInv'
  OBVIOUS
<1>1. ASSUME NEW s \in Skus, NEW a \in {"onSale", "soldOut", "offSale", "deleted"}, ChangeOffer(s, a)
      PROVE  ChoiceInv'
  <2>0. cart \in [Skus -> 0..MaxQuantity] /\ wanted \in [Skus -> 0..MaxQuantity]
    BY DEF TypeInv, CartOK, Lines
  <2>1. CASE a # "deleted"
    BY <1>1, <2>1 DEF ChangeOffer, ChoiceInv, Outstanding
  <2>2. CASE a = "deleted"
    <3>1. /\ cart' = [cart EXCEPT ![s] = 0] /\ wanted' = [wanted EXCEPT ![s] = 0] /\ calls' = calls
          /\ muddled \subseteq muddled' /\ (InFlight(s) # {} => s \in muddled')
      BY <1>1, <2>2 DEF ChangeOffer
    <3>2. ASSUME NEW r \in Skus \ muddled', r # s PROVE LineGood(r)'
      <4>1. r \notin muddled /\ LineKept(r)
        BY <2>0, <3>1, <3>2 DEF LineKept, Outstanding
      <4>2. QED
        BY <4>1, KeptLine
    <3>3. ASSUME s \notin muddled' PROVE LineGood(s)'
      <4>1. Outstanding(s) = {} /\ Outstanding(s)' = Outstanding(s)
        BY <3>1, <3>3, OutstandingIsInFlight DEF Outstanding
      <4>2. cart'[s] = 0 /\ wanted'[s] = 0
        BY <2>0, <3>1
      <4>3. QED
        BY <4>1, <4>2 DEF LineGood
    <3>4. QED
      BY <3>2, <3>3 DEF ChoiceInv, LineGood
  <2>3. QED
    BY <2>1, <2>2
<1>2. ASSUME SessionEnds \/ UNCHANGED vars PROVE ChoiceInv'
  BY <1>2 DEF SessionEnds, vars, ChoiceInv, Outstanding
<1>3. QED
  BY <1>1, <1>2, TabChoice, ServerChoice, AnsweredChoice DEF Next

\* The cart holds what the customer chose last for a SKU once nothing is under
\* way on it, unless one of the mishaps the model names muddled the choice.
THEOREM CartIsAsChosen == Spec => []LastChoiceStands
<1>1. TypeInv /\ ChoiceInv => LastChoiceStands
  BY OutstandingIsInFlight DEF ChoiceInv, LastChoiceStands
<1>2. QED
  BY <1>1, TypeInit, TypeStep, ChoiceInit, ChoiceStep, PTL DEF Spec

-----------------------------------------------------------------------------
(* The address book of Addresses, which the checkout page chooses from: types *)

\* What a transaction may have written, and what a request in flight is.
Written == UNION {[S -> Live] : S \in SUBSET Ids}

Entry == [at : {"idle", "begin", "clear", "waiting", "write", "commit", "failed"},
          op : {"create", "update"}, id : Ids \cup {NoId}, flag : Flags, retried : BOOLEAN,
          saw : Live, seen : SUBSET Ids, writes : Written]

BookOK ==
  /\ row \in [Ids -> {"absent", "deleted"} \cup Live]
  /\ call \in [Callers -> Entry]
  /\ \A h \in Callers : call[h].at # "idle" => call[h].id \in Ids

LEMMA WrittenTyped ==
  /\ \A w \in Written : DOMAIN w \subseteq Ids /\ \A i \in DOMAIN w : w[i] \in Live
  /\ \A S \in SUBSET Ids : \A w \in [S -> Live] : w \in Written
  /\ NoWrites \in Written /\ DOMAIN NoWrites = {}
  /\ Idle \in Entry
<1>1. \A w \in Written : DOMAIN w \subseteq Ids /\ \A i \in DOMAIN w : w[i] \in Live
  BY DEF Written
<1>2. \A S \in SUBSET Ids : \A w \in [S -> Live] : w \in Written
  BY DEF Written
<1>3. NoWrites \in [{} -> Live] /\ DOMAIN NoWrites = {} /\ {} \in SUBSET Ids
  BY DEF NoWrites
<1>4. NoWrites \in Written
  BY <1>2, <1>3
<1>5. Idle \in Entry
  BY <1>4 DEF Idle, Entry, Flags, Live
<1>6. QED
  BY <1>1, <1>2, <1>3, <1>4, <1>5

\* A statement writes its rows and keeps what was written.
LEMMA WriteTyped ==
  ASSUME BookOK, NEW h \in Callers, NEW S \in SUBSET Ids, NEW value \in Live
  PROVE  /\ Write(h, S, value) \in Written
         /\ DOMAIN Write(h, S, value) = WrittenBy(h) \cup S
         /\ \A i \in WrittenBy(h) \cup S : Write(h, S, value)[i] = IF i \in S THEN value ELSE call[h].writes[i]
<1>1. WrittenBy(h) \subseteq Ids /\ \A i \in WrittenBy(h) : call[h].writes[i] \in Live
  BY WrittenTyped DEF WrittenBy, BookOK, Entry
<1>2. Write(h, S, value) \in [WrittenBy(h) \cup S -> Live]
  BY <1>1 DEF Write
<1>3. QED
  BY <1>1, <1>2, WrittenTyped DEF Write

\* What the flag of a call makes of its row.
LEMMA BecomesTyped ==
  ASSUME NEW c, c.saw \in Live
  PROVE  Becomes(c) \in Live /\ (c.flag = "true" => Becomes(c) = "default")
BY DEF Becomes, Live

LEMMA BookTypes == BookOK => BookTypeOK
BY WrittenTyped DEF BookOK, BookTypeOK, Entry

LEMMA BookStep == BookOK /\ [BookNext]_bookVars => BookOK'
<1> SUFFICES ASSUME BookOK, [BookNext]_bookVars PROVE BookOK'
  OBVIOUS
<1> USE WrittenTyped
<1>0. row \in [Ids -> {"absent", "deleted"} \cup Live] /\ call \in [Callers -> Entry]
      /\ \A h \in Callers : call[h].at # "idle" => call[h].id \in Ids
  BY DEF BookOK
<1>1. ASSUME NEW h \in Callers, NEW r \in Entry, r.at # "idle" => r.id \in Ids,
             call' = [call EXCEPT ![h] = r], row' = row
      PROVE  BookOK'
  BY <1>0, <1>1 DEF BookOK
<1>2. ASSUME NEW h \in Callers, NEW op \in {"create", "update"}, NEW i \in Ids, NEW flag \in Flags, Request(h, op, i, flag)
      PROVE  BookOK'
  <2> DEFINE r == [Idle EXCEPT !.at = "begin", !.op = op, !.id = i, !.flag = flag]
  <2>1. r \in Entry /\ r.id \in Ids
    BY DEF Entry, Idle
  <2>2. call' = [call EXCEPT ![h] = r] /\ row' = row
    BY <1>2 DEF Request
  <2> HIDE DEF r
  <2>3. QED
    BY <1>1, <2>1, <2>2
<1>3. ASSUME NEW h \in Callers, Begin(h) PROVE BookOK'
  <2> DEFINE saw == IF call[h].op = "create" THEN (IF Rows = {} THEN "default" ELSE "plain") ELSE row[call[h].id]
             clears == Becomes([call[h] EXCEPT !.saw = saw]) = "default" /\ (call[h].op = "update" => saw = "plain")
             at == IF clears THEN "clear" ELSE "write"
             r == [call[h] EXCEPT !.saw = saw, !.at = at]
  <2>1. call' = [call EXCEPT ![h] = IF NotFound(call[h]) THEN Idle ELSE r] /\ row' = row
    BY <1>3 DEF Begin
  <2>2. ~NotFound(call[h]) => saw \in Live
    BY <1>0 DEF NotFound, Rows, Live, Entry
  <2>3. at \in {"clear", "write"}
    OBVIOUS
  <2> HIDE DEF at, saw
  <2>4. ~NotFound(call[h]) => r \in Entry /\ r.id \in Ids
    BY <1>0, <1>3, <2>2, <2>3 DEF Entry, Begin
  <2> HIDE DEF r
  <2>5. QED
    BY <1>1, <2>1, <2>4 DEF Idle
<1>4. ASSUME NEW h \in Callers, ClearStarts(h) PROVE BookOK'
  <2> DEFINE r == [call[h] EXCEPT !.at = "waiting", !.seen = Rows]
  <2>1. r \in Entry /\ r.id \in Ids
    BY <1>0, <1>4 DEF Entry, Rows, ClearStarts
  <2>2. call' = [call EXCEPT ![h] = r] /\ row' = row
    BY <1>4 DEF ClearStarts
  <2> HIDE DEF r
  <2>3. QED
    BY <1>1, <2>1, <2>2
<1>5. ASSUME NEW h \in Callers, Clear(h) PROVE BookOK'
  <2> DEFINE w == Write(h, call[h].seen \cap Rows, "plain")
             r == [call[h] EXCEPT !.at = "write", !.seen = {}, !.writes = w]
  <2>1. w \in Written
    <3>1. call[h].seen \cap Rows \in SUBSET Ids /\ "plain" \in Live
      BY DEF Rows, Live
    <3>2. QED
      BY <3>1, WriteTyped
  <2>2. call' = [call EXCEPT ![h] = r] /\ row' = row
    BY <1>5 DEF Clear
  <2> HIDE DEF w
  <2>3. r \in Entry /\ r.id \in Ids
    BY <1>0, <1>5, <2>1 DEF Entry, Clear
  <2> HIDE DEF r
  <2>4. QED
    BY <1>1, <2>2, <2>3
<1>6. ASSUME NEW h \in Callers, WriteRow(h) PROVE BookOK'
  <2> DEFINE w == Write(h, {call[h].id}, Becomes(call[h]))
             r == [call[h] EXCEPT !.at = "commit", !.writes = w]
             q == [call[h] EXCEPT !.at = "commit"]
  <2>0. call[h].id \in Ids /\ {call[h].id} \in SUBSET Ids
    BY <1>0, <1>6 DEF WriteRow
  <2>1. CASE call' = [call EXCEPT ![h] = r]
    <3>0. Becomes(call[h]) \in Live
      BY <1>0, BecomesTyped DEF Entry
    <3>1. w \in Written
      BY <2>0, <3>0, WriteTyped
    <3> HIDE DEF w
    <3>2. r \in Entry /\ r.id = call[h].id
      BY <1>0, <3>1 DEF Entry
    <3> HIDE DEF r
    <3>3. QED
      BY <1>1, <1>6, <2>0, <2>1, <3>2 DEF WriteRow
  <2>2. CASE call' = [call EXCEPT ![h] = q]
    <3>1. q \in Entry /\ q.id = call[h].id
      BY <1>0 DEF Entry
    <3>2. QED
      BY <1>1, <1>6, <2>0, <2>2, <3>1 DEF WriteRow
  <2>3. QED
    BY <1>6, <2>1, <2>2 DEF WriteRow
<1>7. ASSUME NEW h \in Callers, UniqueViolation(h) PROVE BookOK'
  <2> DEFINE at == IF call[h].retried THEN "failed" ELSE "begin"
             r == [Idle EXCEPT !.at = at, !.retried = TRUE, !.op = call[h].op, !.id = call[h].id, !.flag = call[h].flag]
  <2>1. call' = [call EXCEPT ![h] = r] /\ row' = row
    BY <1>7 DEF UniqueViolation, DefaultRetry
  <2>2. at \in {"failed", "begin"}
    OBVIOUS
  <2> HIDE DEF at
  <2>3. r \in Entry /\ r.id \in Ids
    BY <1>0, <1>7, <2>2 DEF Entry, UniqueViolation, Idle
  <2> HIDE DEF r
  <2>4. QED
    BY <1>1, <2>1, <2>3
<1>8. ASSUME NEW h \in Callers, Commit(h) PROVE BookOK'
  <2>1. row' \in [Ids -> {"absent", "deleted"} \cup Live]
    BY <1>0, <1>8 DEF Commit, WrittenBy, Entry
  <2>2. QED
    BY <1>0, <1>8, <2>1 DEF Commit, BookOK, Idle
<1>9. ASSUME NEW h \in Callers, Fails(h) \/ Crash(h) PROVE BookOK'
  BY <1>1, <1>9 DEF Fails, Crash, Idle
<1>10. ASSUME NEW i \in Ids, DeleteAddress(i) PROVE BookOK'
  BY <1>0, <1>10 DEF DeleteAddress, BookOK
<1>11. ASSUME UNCHANGED bookVars PROVE BookOK'
  BY <1>11 DEF bookVars, BookOK
<1>12. QED
  BY <1>2, <1>3, <1>4, <1>5, <1>6, <1>7, <1>8, <1>9, <1>10, <1>11 DEF BookNext, Progress

-----------------------------------------------------------------------------
(* One default, as asked *)

\* What a transaction wrote is there and stays its own.
WritesHeld ==
  \A h \in Callers : \A i \in WrittenBy(h) :
    /\ \A g \in Callers \ {h} : i \notin WrittenBy(g)
    /\ row[i] \in Live \/ (call[h].op = "create" /\ call[h].id = i /\ call[h].at = "commit")

\* Nobody else knows the address that a call creates; the address of an update
\* was there.
IdsKnown ==
  \A h \in Callers :
    /\ call[h].at = "idle" => call[h] = Idle
    /\ call[h].at # "idle" /\ call[h].op = "update" => row[call[h].id] # "absent"
    /\ call[h].at # "idle" /\ call[h].op = "create" =>
         row[call[h].id] = "absent" /\ \A g \in Callers \ {h} : call[g].id # call[h].id

\* A default that is about to be committed is the only one: the transaction
\* wrote every other row that is the default now.
OneDefault ==
  /\ \A i, j \in Defaults(row) : i = j
  /\ \A h \in Callers : \A i \in WrittenBy(h) : call[h].writes[i] = "default" =>
       /\ call[h].at = "commit" /\ i = call[h].id
       /\ Defaults(row) \ {i} \subseteq WrittenBy(h)
       /\ \A g \in Callers \ {h} : \A j \in WrittenBy(g) : call[g].writes[j] # "default"

\* A call that asked for the default has written it, or its row is gone.
AskedIsWritten ==
  \A h \in Callers : call[h].at = "commit" /\ call[h].flag = "true" =>
    \/ call[h].id \in WrittenBy(h) /\ call[h].writes[call[h].id] = "default"
    \/ row[call[h].id] = "deleted" /\ call[h].id \notin WrittenBy(h)

DefaultInv == WritesHeld /\ IdsKnown /\ OneDefault /\ AskedIsWritten

\* A call goes on without a write, starts again or ends.
Quiet(h) ==
  \/ call'[h] = call[h] \/ call'[h] = Idle
  \/ /\ call[h].at \notin {"idle", "commit"} /\ call'[h].at \notin {"idle", "commit"}
     /\ call'[h].op = call[h].op /\ call'[h].id = call[h].id /\ call'[h].flag = call[h].flag
     /\ call'[h].writes \in {call[h].writes, NoWrites}

LEMMA QuietStep ==
  ASSUME BookOK, DefaultInv, row' = row, \A h \in Callers : Quiet(h)
  PROVE  DefaultInv'
<1>0. /\ DOMAIN NoWrites = {} /\ Idle.at = "idle" /\ Idle.writes = NoWrites /\ Idle.id = NoId
      /\ \A h \in Callers : call[h].at # "idle" => call[h].id \in Ids /\ call[h].id # NoId
  BY WrittenTyped, AddressesAssumption DEF Idle, BookOK
<1>1. ASSUME NEW h \in Callers, NEW i \in DOMAIN call'[h].writes
      PROVE  /\ i \in WrittenBy(h) /\ call'[h].writes = call[h].writes
             /\ call'[h].id = call[h].id /\ call'[h].op = call[h].op /\ call'[h].flag = call[h].flag
             /\ call'[h].at = call[h].at \/ call[h].at # "commit"
  BY <1>0, <1>1 DEF Quiet, WrittenBy
<1>2. WritesHeld'
  BY <1>1 DEF DefaultInv, WritesHeld, WrittenBy
<1>3. IdsKnown'
  BY <1>0 DEF DefaultInv, IdsKnown, Quiet
<1>4. OneDefault'
  <2>1. \A i, j \in Defaults(row)' : i = j
    BY DEF DefaultInv, OneDefault, Defaults
  <2>2. ASSUME NEW h \in Callers, NEW i \in DOMAIN call'[h].writes, call'[h].writes[i] = "default"
        PROVE  /\ call'[h].at = "commit" /\ i = call'[h].id
               /\ Defaults(row)' \ {i} \subseteq DOMAIN call'[h].writes
               /\ \A g \in Callers \ {h} : \A j \in DOMAIN call'[g].writes : call'[g].writes[j] # "default"
    BY <1>1, <2>2 DEF DefaultInv, OneDefault, Defaults, WrittenBy
  <2>3. QED
    BY <2>1, <2>2 DEF OneDefault, WrittenBy
<1>5. AskedIsWritten'
  BY <1>0 DEF DefaultInv, AskedIsWritten, Quiet, WrittenBy
<1>6. QED
  BY <1>2, <1>3, <1>4, <1>5 DEF DefaultInv

\* The writes of one transaction, on rows that no other one holds, leave the
\* others what they have.
LEMMA WroteStep ==
  ASSUME BookOK, BookOK', DefaultInv, row' = row, NEW h \in Callers, call[h].at \in {"waiting", "write"},
         \A g \in Callers \ {h} : call'[g] = call[g],
         call'[h].at \in {"write", "commit"},
         call'[h].op = call[h].op, call'[h].id = call[h].id, call'[h].flag = call[h].flag,
         NEW S, S \subseteq Ids, NEW value \in Live,
         \A i \in S : ~LockedFor(h, i)
           /\ (i \in Rows \/ (call[h].op = "create" /\ i = call[h].id /\ call'[h].at = "commit")),
         DOMAIN call'[h].writes = WrittenBy(h) \cup S,
         \A i \in WrittenBy(h) \cup S : call'[h].writes[i] = IF i \in S THEN value ELSE call[h].writes[i],
         value = "default" =>
           S = {call[h].id} /\ call'[h].at = "commit" /\ ~IndexWaits(h, call[h].id) /\ ~IndexRefuses(h, call[h].id),
         call'[h].at = "commit" /\ call[h].flag = "true" =>
           \/ value = "default"
           \/ row[call[h].id] = "deleted" /\ call[h].id \notin WrittenBy(h) \cup S
  PROVE  DefaultInv'
<1>0. \A i \in WrittenBy(h) : call[h].writes[i] # "default" /\ row[i] \in Live
  BY DEF DefaultInv, OneDefault, WritesHeld
<1>1. \A g \in Callers \ {h} : DOMAIN call'[g].writes = WrittenBy(g) /\ S \cap WrittenBy(g) = {}
  BY DEF WrittenBy, LockedFor
<1>2. WritesHeld'
  <2> SUFFICES ASSUME NEW k \in Callers, NEW i \in DOMAIN call'[k].writes
               PROVE  /\ \A g \in Callers \ {k} : i \notin DOMAIN call'[g].writes
                      /\ row[i] \in Live \/ (call'[k].op = "create" /\ call'[k].id = i /\ call'[k].at = "commit")
    BY DEF WritesHeld, WrittenBy
  <2>1. CASE k = h
    BY <1>0, <1>1, <2>1 DEF DefaultInv, WritesHeld, Rows
  <2>2. CASE k # h
    BY <1>1, <2>2 DEF DefaultInv, WritesHeld
  <2>3. QED
    BY <2>1, <2>2
<1>3. IdsKnown'
  BY DEF DefaultInv, IdsKnown
<1>4. OneDefault'
  <2>1. \A i, j \in Defaults(row)' : i = j
    BY DEF DefaultInv, OneDefault, Defaults
  <2>2. ASSUME NEW k \in Callers, NEW i \in DOMAIN call'[k].writes, call'[k].writes[i] = "default"
        PROVE  /\ call'[k].at = "commit" /\ i = call'[k].id
               /\ Defaults(row) \ {i} \subseteq DOMAIN call'[k].writes
               /\ \A g \in Callers \ {k} : \A j \in DOMAIN call'[g].writes : call'[g].writes[j] # "default"
    <3>1. CASE k = h
      <4>1. i \in S /\ value = "default" /\ i = call[h].id /\ call'[h].at = "commit"
        BY <1>0, <2>2, <3>1
      <4>2. \A g \in Callers \ {h} : \A j \in WrittenBy(g) \ {i} : row[j] # "default" /\ call[g].writes[j] # "default"
        BY <4>1 DEF IndexWaits
      <4>3. \A g \in Callers \ {h} : i \notin WrittenBy(g)
        BY <1>1, <4>1
      <4>4. ASSUME NEW j \in Defaults(row), j # i PROVE j \in WrittenBy(h)
        <5>1. j \in Rows /\ row[j] = "default"
          BY DEF Defaults, Rows, Live
        <5>2. ~LockedFor(h, j)
          BY <4>2, <4>4, <5>1 DEF LockedFor
        <5>3. QED
          BY <4>1, <4>4, <5>1, <5>2 DEF IndexRefuses
      <4>5. QED
        BY <1>1, <3>1, <4>1, <4>2, <4>3, <4>4
    <3>2. CASE k # h
      <4>1. /\ i \in WrittenBy(k) /\ call[k].writes[i] = "default" /\ call'[k] = call[k]
            /\ \A j \in WrittenBy(h) : call[h].writes[j] # "default"
        BY <1>0, <1>1, <2>2, <3>2
      <4>2. /\ call[k].at = "commit" /\ i = call[k].id /\ Defaults(row) \ {i} \subseteq WrittenBy(k)
            /\ \A g \in Callers \ {k} : \A j \in WrittenBy(g) : call[g].writes[j] # "default"
        BY <4>1 DEF DefaultInv, OneDefault
      <4>3. value # "default"
        <5>1. SUFFICES ASSUME value = "default" PROVE FALSE
          OBVIOUS
        <5>2. i = call[h].id
          BY <3>2, <4>1, <5>1 DEF IndexWaits
        <5>3. QED
          BY <1>1, <3>2, <4>1, <5>1, <5>2
      <4>4. QED
        BY <1>1, <3>2, <4>1, <4>2, <4>3
    <3>3. QED
      BY <3>1, <3>2
  <2>3. Defaults(row)' = Defaults(row)
    BY DEF Defaults
  <2>4. QED
    BY <2>1, <2>2, <2>3 DEF OneDefault, WrittenBy
<1>5. AskedIsWritten'
  <2> SUFFICES ASSUME NEW k \in Callers, call'[k].at = "commit", call'[k].flag = "true"
               PROVE  \/ call'[k].id \in DOMAIN call'[k].writes /\ call'[k].writes[call'[k].id] = "default"
                      \/ row[call'[k].id] = "deleted" /\ call'[k].id \notin DOMAIN call'[k].writes
    BY DEF AskedIsWritten, WrittenBy
  <2>1. CASE k = h
    BY <2>1
  <2>2. CASE k # h
    BY <2>2 DEF DefaultInv, AskedIsWritten, WrittenBy
  <2>3. QED
    BY <2>1, <2>2
<1>6. QED
  BY <1>2, <1>3, <1>4, <1>5 DEF DefaultInv

\* A commit leaves the default it wrote alone, and otherwise no new one.
LEMMA CommitDefaults ==
  ASSUME BookOK, DefaultInv, NEW h \in Callers, Commit(h)
  PROVE  /\ \/ Defaults(row') \subseteq Defaults(row)
            \/ Defaults(row') = {call[h].id}
         /\ call[h].flag = "true" /\ call[h].id \in Rows' => Defaults(row') = {call[h].id}
         /\ \A i \in Ids : row'[i] = IF i \in WrittenBy(h) THEN call[h].writes[i] ELSE row[i]
<1>0. /\ \A i \in Ids : row'[i] = IF i \in WrittenBy(h) THEN call[h].writes[i] ELSE row[i]
      /\ call[h].at = "commit" /\ call[h].id \in Ids
  BY DEF Commit, BookOK
<1>1. CASE \E i \in WrittenBy(h) : call[h].writes[i] = "default"
  <2>1. PICK i \in WrittenBy(h) : call[h].writes[i] = "default"
    BY <1>1
  <2>2. i = call[h].id /\ Defaults(row) \ {i} \subseteq WrittenBy(h)
        /\ \A j \in WrittenBy(h) : call[h].writes[j] = "default" => j = i
    BY <2>1 DEF DefaultInv, OneDefault
  <2>3. Defaults(row') = {i}
    BY <1>0, <2>1, <2>2 DEF Defaults
  <2>4. QED
    BY <1>0, <2>2, <2>3
<1>2. CASE ~\E i \in WrittenBy(h) : call[h].writes[i] = "default"
  <2>1. Defaults(row') \subseteq Defaults(row)
    BY <1>0, <1>2 DEF Defaults
  <2>2. ASSUME call[h].flag = "true" PROVE call[h].id \notin Rows'
    <3>1. row[call[h].id] = "deleted" /\ call[h].id \notin WrittenBy(h)
      BY <1>0, <1>2, <2>2 DEF DefaultInv, AskedIsWritten
    <3>2. row'[call[h].id] = "deleted"
      BY <1>0, <3>1
    <3>3. \A i \in Rows' : row'[i] \in Live
      BY DEF Rows
    <3>4. QED
      BY <3>2, <3>3 DEF Live
  <2>3. QED
    BY <1>0, <2>1, <2>2
<1>3. QED
  BY <1>1, <1>2

LEMMA DefaultStep == BookOK /\ DefaultInv /\ [BookNext]_bookVars => DefaultInv'
<1> SUFFICES ASSUME BookOK, DefaultInv, [BookNext]_bookVars PROVE DefaultInv'
  OBVIOUS
<1>0. /\ row \in [Ids -> {"absent", "deleted"} \cup Live] /\ call \in [Callers -> Entry]
      /\ \A g \in Callers : WrittenBy(g) \subseteq Ids /\ (call[g].at # "idle" => call[g].id \in Ids)
      /\ BookOK'
  BY WrittenTyped, BookStep DEF BookOK, WrittenBy, Entry
<1>a. ASSUME NEW h \in Callers, row' = row, \A g \in Callers \ {h} : call'[g] = call[g], Quiet(h)
      PROVE  DefaultInv'
  BY <1>a, QuietStep DEF Quiet
<1>b. ASSUME NEW h \in Callers, row' = row, call' = [call EXCEPT ![h] = Idle]
      PROVE  DefaultInv'
  BY <1>0, <1>a, <1>b DEF Quiet
<1>1. ASSUME NEW h \in Callers, NEW op \in {"create", "update"}, NEW i \in Ids, NEW flag \in Flags, Request(h, op, i, flag)
      PROVE  DefaultInv'
  <2> DEFINE r == [Idle EXCEPT !.at = "begin", !.op = op, !.id = i, !.flag = flag]
  <2>1. /\ r.at = "begin" /\ r.op = op /\ r.id = i /\ r.writes = NoWrites
        /\ DOMAIN NoWrites = {} /\ call[h].at = "idle" /\ row' = row
        /\ op = "create" => row[i] = "absent" /\ \A g \in Callers : call[g].id # i
        /\ op = "update" => row[i] # "absent"
    BY <1>1, WrittenTyped DEF Request, Idle
  <2>2. call' = [call EXCEPT ![h] = r]
    BY <1>1 DEF Request
  <2> HIDE DEF r
  <2>3. call'[h] = r /\ \A g \in Callers \ {h} : call'[g] = call[g]
    BY <1>0, <2>2
  <2>4. WritesHeld'
    BY <2>1, <2>3 DEF DefaultInv, WritesHeld, WrittenBy
  <2>5. IdsKnown'
    <3> SUFFICES ASSUME NEW k \in Callers
                 PROVE  /\ call'[k].at = "idle" => call'[k] = Idle
                        /\ call'[k].at # "idle" /\ call'[k].op = "update" => row[call'[k].id] # "absent"
                        /\ call'[k].at # "idle" /\ call'[k].op = "create" =>
                             row[call'[k].id] = "absent" /\ \A g \in Callers \ {k} : call'[g].id # call'[k].id
      BY <2>1 DEF IdsKnown
    <3>1. CASE k = h
      BY <2>1, <2>3, <3>1
    <3>2. CASE k # h
      BY <2>1, <2>3, <3>2 DEF DefaultInv, IdsKnown
    <3>3. QED
      BY <3>1, <3>2
  <2>6. OneDefault'
    BY <2>1, <2>3 DEF DefaultInv, OneDefault, Defaults, WrittenBy
  <2>7. AskedIsWritten'
    BY <2>1, <2>3 DEF DefaultInv, AskedIsWritten, WrittenBy
  <2>8. QED
    BY <2>4, <2>5, <2>6, <2>7 DEF DefaultInv
<1>2. ASSUME NEW h \in Callers, Begin(h) PROVE DefaultInv'
  <2>1. CASE call' = [call EXCEPT ![h] = Idle]
    BY <1>2, <1>b, <2>1 DEF Begin
  <2>2. ASSUME NEW saw, NEW at \in {"clear", "write"}, call' = [call EXCEPT ![h] = [@ EXCEPT !.saw = saw, !.at = at]]
        PROVE  DefaultInv'
    <3>1. Quiet(h) /\ \A g \in Callers \ {h} : call'[g] = call[g]
      BY <1>0, <1>2, <2>2 DEF Begin, Quiet, Entry
    <3>2. QED
      BY <1>2, <1>a, <3>1 DEF Begin
  <2>3. QED
    BY <1>2, <2>1, <2>2 DEF Begin
<1>3. ASSUME NEW h \in Callers, ClearStarts(h) PROVE DefaultInv'
  <2>1. Quiet(h) /\ \A g \in Callers \ {h} : call'[g] = call[g]
    BY <1>0, <1>3 DEF ClearStarts, Quiet, Entry
  <2>2. QED
    BY <1>3, <1>a, <2>1 DEF ClearStarts
<1>4. ASSUME NEW h \in Callers, Clear(h) PROVE DefaultInv'
  <2> DEFINE S == call[h].seen \cap Rows
             w == Write(h, S, "plain")
             r == [call[h] EXCEPT !.at = "write", !.seen = {}, !.writes = w]
  <2>1. S \in SUBSET Ids /\ "plain" \in Live /\ \A i \in S : ~LockedFor(h, i) /\ i \in Rows
    BY <1>4 DEF Rows, Live, Clear
  <2>2. call' = [call EXCEPT ![h] = r] /\ row' = row /\ call[h].at = "waiting"
    BY <1>4 DEF Clear
  <2> HIDE DEF S
  <2>3. DOMAIN w = WrittenBy(h) \cup S
        /\ \A i \in WrittenBy(h) \cup S : w[i] = IF i \in S THEN "plain" ELSE call[h].writes[i]
    BY <2>1, WriteTyped
  <2> HIDE DEF w
  <2>4. /\ r.at = "write" /\ r.op = call[h].op /\ r.id = call[h].id /\ r.flag = call[h].flag /\ r.writes = w
    BY <1>0 DEF Entry
  <2> HIDE DEF r
  <2>5. call'[h] = r /\ \A g \in Callers \ {h} : call'[g] = call[g]
    BY <1>0, <2>2
  <2>6. QED
    BY <1>0, <2>1, <2>2, <2>3, <2>4, <2>5, WroteStep
<1>5. ASSUME NEW h \in Callers, WriteRow(h) PROVE DefaultInv'
  <2>0. /\ call[h].at = "write" /\ row' = row /\ ~LockedFor(h, call[h].id) /\ call[h].id \in Ids
        /\ Becomes(call[h]) \in Live /\ (call[h].flag = "true" => Becomes(call[h]) = "default")
    BY <1>0, <1>5, BecomesTyped DEF WriteRow, Entry
  <2>1. ASSUME call[h].op = "create" \/ call[h].id \in Rows,
               Becomes(call[h]) = "default" => ~IndexWaits(h, call[h].id) /\ ~IndexRefuses(h, call[h].id),
               call' = [call EXCEPT ![h] = [@ EXCEPT !.at = "commit", !.writes = Write(h, {call[h].id}, Becomes(call[h]))]]
        PROVE  DefaultInv'
    <3>1. PICK S \in SUBSET Ids, value \in Live : S = {call[h].id} /\ value = Becomes(call[h])
      BY <2>0
    <3>2. PICK w : w = Write(h, S, value)
      OBVIOUS
    <3>3. /\ DOMAIN w = WrittenBy(h) \cup S
          /\ \A i \in WrittenBy(h) \cup S : w[i] = IF i \in S THEN value ELSE call[h].writes[i]
      BY <3>2, WriteTyped
    <3>4. call' = [call EXCEPT ![h] = [@ EXCEPT !.at = "commit", !.writes = w]]
      BY <2>1, <3>1, <3>2
    <3>5. /\ call'[h].at = "commit" /\ call'[h].op = call[h].op /\ call'[h].id = call[h].id
          /\ call'[h].flag = call[h].flag /\ call'[h].writes = w
          /\ \A g \in Callers \ {h} : call'[g] = call[g]
      BY <1>0, <3>4 DEF Entry
    <3>6. \A i \in S : ~LockedFor(h, i)
            /\ (i \in Rows \/ (call[h].op = "create" /\ i = call[h].id /\ call'[h].at = "commit"))
      BY <2>0, <2>1, <3>1, <3>5
    <3>7. value = "default" =>
            S = {call[h].id} /\ call'[h].at = "commit" /\ ~IndexWaits(h, call[h].id) /\ ~IndexRefuses(h, call[h].id)
      BY <2>1, <3>1, <3>5
    <3>8. /\ call'[h].at \in {"write", "commit"} /\ call[h].at \in {"waiting", "write"} /\ S \subseteq Ids
          /\ DOMAIN call'[h].writes = WrittenBy(h) \cup S
          /\ \A i \in WrittenBy(h) \cup S : call'[h].writes[i] = IF i \in S THEN value ELSE call[h].writes[i]
      BY <2>0, <3>3, <3>5
    <3>9. call'[h].at = "commit" /\ call[h].flag = "true" => value = "default"
      BY <2>0, <3>1
    <3>10. QED
      BY <1>0, <2>0, <3>5, <3>6, <3>7, <3>8, <3>9, WroteStep
  <2>2. ASSUME call[h].op = "update", call[h].id \notin Rows, call' = [call EXCEPT ![h].at = "commit"]
        PROVE  DefaultInv'
    <3>1. /\ call'[h].at = "commit" /\ call'[h].op = call[h].op /\ call'[h].id = call[h].id
          /\ call'[h].flag = call[h].flag /\ call'[h].writes = call[h].writes
          /\ \A g \in Callers \ {h} : call'[g] = call[g]
      BY <1>0, <2>2 DEF Entry
    <3>2. row[call[h].id] = "deleted"
      BY <1>0, <2>0, <2>2 DEF DefaultInv, IdsKnown, Rows
    <3>3. call[h].id \notin WrittenBy(h)
      BY <2>0, <2>2, <3>2 DEF DefaultInv, WritesHeld, Live
    <3>4. PICK S \in SUBSET Ids, value \in Live : S = {} /\ value = "plain"
      BY DEF Live
    <3>5. \A i \in S : ~LockedFor(h, i)
            /\ (i \in Rows \/ (call[h].op = "create" /\ i = call[h].id /\ call'[h].at = "commit"))
      BY <3>4
    <3>6. value = "default" =>
            S = {call[h].id} /\ call'[h].at = "commit" /\ ~IndexWaits(h, call[h].id) /\ ~IndexRefuses(h, call[h].id)
      BY <3>4
    <3>7. /\ call'[h].at \in {"write", "commit"} /\ call[h].at \in {"waiting", "write"} /\ S \subseteq Ids
          /\ DOMAIN call'[h].writes = WrittenBy(h) \cup S
          /\ \A i \in WrittenBy(h) \cup S : call'[h].writes[i] = IF i \in S THEN value ELSE call[h].writes[i]
      BY <2>0, <3>1, <3>4 DEF WrittenBy
    <3>8. call[h].id \notin WrittenBy(h) \cup S
      BY <3>3, <3>4
    <3>9. QED
      BY <1>0, <2>0, <3>1, <3>2, <3>5, <3>6, <3>7, <3>8, WroteStep
  <2>3. QED
    BY <1>5, <2>1, <2>2 DEF WriteRow
<1>6. ASSUME NEW h \in Callers, UniqueViolation(h) PROVE DefaultInv'
  <2> DEFINE at == IF call[h].retried THEN "failed" ELSE "begin"
             r == [Idle EXCEPT !.at = at, !.retried = TRUE, !.op = call[h].op, !.id = call[h].id, !.flag = call[h].flag]
  <2>1. call' = [call EXCEPT ![h] = r] /\ row' = row /\ call[h].at = "write"
    BY <1>6 DEF UniqueViolation, DefaultRetry
  <2>2. at \in {"failed", "begin"}
    OBVIOUS
  <2> HIDE DEF at
  <2>3. r.at = at /\ r.op = call[h].op /\ r.id = call[h].id /\ r.flag = call[h].flag /\ r.writes = NoWrites
    BY DEF Idle
  <2> HIDE DEF r
  <2>4. Quiet(h) /\ \A g \in Callers \ {h} : call'[g] = call[g]
    BY <1>0, <2>1, <2>2, <2>3 DEF Quiet
  <2>5. QED
    BY <1>a, <2>1, <2>4
<1>7. ASSUME NEW h \in Callers, Commit(h) PROVE DefaultInv'
  <2>1. /\ call[h].at = "commit" /\ call'[h] = Idle /\ \A g \in Callers \ {h} : call'[g] = call[g]
        /\ \A i \in Ids : row'[i] = IF i \in WrittenBy(h) THEN call[h].writes[i] ELSE row[i]
        /\ \A i \in WrittenBy(h) : call[h].writes[i] \in Live
    BY <1>0, <1>7, CommitDefaults, WrittenTyped DEF Commit, WrittenBy, Entry
  <2>2. DOMAIN Idle.writes = {} /\ Idle.at = "idle" /\ Idle.id = NoId
    BY WrittenTyped DEF Idle
  <2>3. \A g \in Callers \ {h} : \A i \in WrittenBy(g) : row'[i] = row[i]
    BY <1>0, <2>1 DEF DefaultInv, WritesHeld
  <2>4. WritesHeld'
    BY <1>0, <2>1, <2>2, <2>3 DEF DefaultInv, WritesHeld, WrittenBy
  <2>5. IdsKnown'
    <3> SUFFICES ASSUME NEW k \in Callers
                 PROVE  /\ call'[k].at = "idle" => call'[k] = Idle
                        /\ call'[k].at # "idle" /\ call'[k].op = "update" => row'[call'[k].id] # "absent"
                        /\ call'[k].at # "idle" /\ call'[k].op = "create" =>
                             row'[call'[k].id] = "absent" /\ \A g \in Callers \ {k} : call'[g].id # call'[k].id
      BY DEF IdsKnown
    <3>1. CASE k = h
      BY <2>1, <2>2, <3>1
    <3>2. CASE k # h
      <4>1. call'[k] = call[k]
        BY <2>1, <3>2
      <4>2. ASSUME call[k].at # "idle" PROVE call[k].op = "update" => row'[call[k].id] # "absent"
        BY <1>0, <2>1, <4>2 DEF DefaultInv, IdsKnown, Live
      <4>3. ASSUME call[k].at # "idle", call[k].op = "create"
            PROVE  row'[call[k].id] = "absent" /\ \A g \in Callers \ {k} : call'[g].id # call[k].id
        <5>1. row[call[k].id] = "absent" /\ (\A g \in Callers \ {k} : call[g].id # call[k].id) /\ call[k].id \in Ids
          BY <1>0, <4>3 DEF DefaultInv, IdsKnown
        <5>2. call[k].id \notin WrittenBy(h)
          BY <3>2, <5>1 DEF DefaultInv, WritesHeld, Live
        <5>3. QED
          BY <2>1, <2>2, <5>1, <5>2, AddressesAssumption
      <4>4. call[k].at = "idle" => call[k] = Idle
        BY DEF DefaultInv, IdsKnown
      <4>5. QED
        BY <4>1, <4>2, <4>3, <4>4
    <3>3. QED
      BY <3>1, <3>2
  <2>6. OneDefault'
    <3>1. \A i, j \in Defaults(row') : i = j
      BY <1>7, CommitDefaults DEF DefaultInv, OneDefault
    <3>2. ASSUME NEW k \in Callers, NEW i \in DOMAIN call'[k].writes, call'[k].writes[i] = "default"
          PROVE  /\ call'[k].at = "commit" /\ i = call'[k].id
                 /\ Defaults(row') \ {i} \subseteq DOMAIN call'[k].writes
                 /\ \A g \in Callers \ {k} : \A j \in DOMAIN call'[g].writes : call'[g].writes[j] # "default"
      <4>1. k # h /\ call'[k] = call[k] /\ i \in WrittenBy(k)
        BY <2>1, <2>2, <3>2 DEF WrittenBy
      <4>2. /\ call[k].at = "commit" /\ i = call[k].id /\ Defaults(row) \ {i} \subseteq WrittenBy(k)
            /\ \A g \in Callers \ {k} : \A j \in WrittenBy(g) : call[g].writes[j] # "default"
        BY <3>2, <4>1 DEF DefaultInv, OneDefault
      <4>3. Defaults(row') \subseteq Defaults(row)
        BY <2>1, <4>1, <4>2 DEF Defaults
      <4>4. QED
        BY <2>1, <2>2, <4>1, <4>2, <4>3 DEF WrittenBy
    <3>3. \A i, j \in Defaults(row)' : i = j
      BY <3>1 DEF Defaults
    <3>4. QED
      BY <3>2, <3>3 DEF OneDefault, WrittenBy, Defaults
  <2>7. AskedIsWritten'
    <3> SUFFICES ASSUME NEW k \in Callers, call'[k].at = "commit", call'[k].flag = "true"
                 PROVE  \/ call'[k].id \in DOMAIN call'[k].writes /\ call'[k].writes[call'[k].id] = "default"
                        \/ row'[call'[k].id] = "deleted" /\ call'[k].id \notin DOMAIN call'[k].writes
      BY DEF AskedIsWritten, WrittenBy
    <3>1. k # h /\ call'[k] = call[k]
      BY <2>1, <2>2
    <3>2. \/ call[k].id \in WrittenBy(k) /\ call[k].writes[call[k].id] = "default"
          \/ row[call[k].id] = "deleted" /\ call[k].id \notin WrittenBy(k)
      BY <3>1 DEF DefaultInv, AskedIsWritten
    <3>3. call[k].id \in Ids /\ (row[call[k].id] = "deleted" => call[k].id \notin WrittenBy(h))
      BY <1>0, <3>1 DEF DefaultInv, WritesHeld, IdsKnown, Live
    <3>4. QED
      BY <2>1, <3>1, <3>2, <3>3 DEF WrittenBy
  <2>8. QED
    BY <2>4, <2>5, <2>6, <2>7 DEF DefaultInv
<1>8. ASSUME NEW h \in Callers, Fails(h) \/ Crash(h) PROVE DefaultInv'
  BY <1>8, <1>b DEF Fails, Crash
<1>9. ASSUME NEW i \in Ids, DeleteAddress(i) PROVE DefaultInv'
  <2>1. /\ row[i] \in Live /\ \A h \in Callers : i \notin WrittenBy(h)
        /\ call' = call /\ row'[i] = "deleted" /\ \A j \in Ids \ {i} : row'[j] = row[j]
    BY <1>0, <1>9 DEF DeleteAddress, Rows
  <2>2. WritesHeld'
    BY <1>0, <2>1 DEF DefaultInv, WritesHeld, WrittenBy
  <2>3. IdsKnown'
    BY <1>0, <2>1 DEF DefaultInv, IdsKnown, Live
  <2>4. Defaults(row') \subseteq Defaults(row)
    BY <2>1 DEF Defaults
  <2>5. OneDefault'
    BY <2>1, <2>4 DEF DefaultInv, OneDefault, WrittenBy, Defaults
  <2>6. AskedIsWritten'
    BY <1>0, <2>1 DEF DefaultInv, AskedIsWritten, WrittenBy
  <2>7. QED
    BY <2>2, <2>3, <2>5, <2>6 DEF DefaultInv
<1>10. ASSUME UNCHANGED bookVars PROVE DefaultInv'
  BY <1>10, QuietStep DEF bookVars, Quiet
<1>11. QED
  BY <1>1, <1>2, <1>3, <1>4, <1>5, <1>6, <1>7, <1>8, <1>9, <1>10 DEF BookNext, Progress

LEMMA DefaultInit == BookInit => BookOK /\ DefaultInv
<1> SUFFICES ASSUME BookInit PROVE BookOK /\ DefaultInv
  OBVIOUS
<1>0. /\ Idle \in Entry /\ Idle.at = "idle" /\ Idle.writes = NoWrites /\ DOMAIN NoWrites = {}
      /\ row = [i \in Ids |-> "absent"] /\ call = [h \in Callers |-> Idle]
  BY WrittenTyped DEF BookInit, Idle
<1>1. BookOK
  BY <1>0 DEF BookOK
<1>2. \A h \in Callers : call[h] = Idle /\ WrittenBy(h) = {}
  BY <1>0 DEF WrittenBy
<1>3. WritesHeld /\ IdsKnown /\ AskedIsWritten
  BY <1>0, <1>2 DEF WritesHeld, IdsKnown, AskedIsWritten
<1>4. Defaults(row) = {}
  BY <1>0 DEF Defaults
<1>5. OneDefault
  BY <1>2, <1>4 DEF OneDefault
<1>6. QED
  BY <1>1, <1>3, <1>5 DEF DefaultInv

LEMMA BookReachable == BookSpec => [](BookOK /\ DefaultInv)
<1>1. (BookOK /\ DefaultInv) /\ [BookNext]_bookVars => (BookOK /\ DefaultInv)'
  BY BookStep, DefaultStep
<1>2. QED
  BY <1>1, DefaultInit, PTL DEF BookSpec

\* The rows and the requests in flight (domains/address) keep their types.
THEOREM BookTyped == BookSpec => []BookTypeOK
BY BookReachable, BookTypes, PTL

\* A call that is at its commit and succeeds is the one whose writes were taken.
LEMMA CommitsItself ==
  ASSUME BookOK, DefaultInv, [BookNext]_bookVars, row' # row, NEW h \in Callers,
         call[h].at = "commit", call'[h] = Idle
  PROVE  Commit(h)
<1>1. call \in [Callers -> Entry] /\ Idle.at = "idle"
  BY DEF BookOK, Idle
<1>2. ASSUME NEW g \in Callers, Commit(g) PROVE Commit(h)
  BY <1>1, <1>2 DEF Commit
<1>3. ASSUME NEW i \in Ids, DeleteAddress(i) PROVE FALSE
  BY <1>1, <1>3 DEF DeleteAddress
<1>4. ASSUME NEW g \in Callers, Progress(g) PROVE Commit(g)
  BY <1>4 DEF Progress, Begin, ClearStarts, Clear, WriteRow, UniqueViolation, Fails
<1>5. ASSUME NEW g \in Callers, NEW op, NEW i, NEW flag, Crash(g) \/ Request(g, op, i, flag) PROVE FALSE
  BY <1>5 DEF Crash, Request
<1>6. QED
  BY <1>2, <1>3, <1>4, <1>5 DEF BookNext, bookVars

\* At most one address is the default, and a call that asked for the default
\* and succeeds has it, alone: the index, the clearing statement and the retry
\* of domains/address, for every number of requests that race.
THEOREM DefaultAsAsked == BookSpec => DefaultIsAsAsked
<1>1. ASSUME BookOK, BookOK', DefaultInv, DefaultInv', [BookNext]_bookVars
      PROVE  [/\ \A i, j \in Defaults(row') : i = j
              /\ \A h \in Callers :
                   call[h].at = "commit" /\ call[h].flag = "true" /\ call'[h] = Idle /\ row' # row
                     /\ call[h].id \in Rows'
                     => Defaults(row') = {call[h].id}]_bookVars
  <2>1. \A i, j \in Defaults(row') : i = j
    BY <1>1 DEF DefaultInv, OneDefault, Defaults
  <2>3. ASSUME NEW h \in Callers, call[h].at = "commit", call[h].flag = "true", call'[h] = Idle, row' # row,
               call[h].id \in Rows'
        PROVE  Defaults(row') = {call[h].id}
    BY <1>1, <2>3, CommitsItself, CommitDefaults
  <2>4. QED
    BY <2>1, <2>3
<1>2. QED
  BY <1>1, BookReachable, PTL DEF BookSpec, DefaultIsAsAsked
=============================================================================

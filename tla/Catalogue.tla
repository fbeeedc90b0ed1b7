----------------------------- MODULE Catalogue -----------------------------
(***************************************************************************)
(* Products and their SKUs (domains/product) under the admin's list and    *)
(* product form, while customers buy. A form is a snapshot: it is loaded   *)
(* once and sends every row back, the stock included, however long it was  *)
(* open. A save is one transaction that first writes the row of its        *)
(* product, so saves of one product follow each other, and its row locks   *)
(* put it before or after each sale: it is one step. What is typed into a  *)
(* form is chosen when it is sent. A save refused because a sku_code is in *)
(* use changes nothing and is left out.                                    *)
(***************************************************************************)
EXTENDS Naturals, FiniteSets

CONSTANTS
  Products, Skus,   \* ids, each handed out once
  Admins,           \* browser tabs of administrators
  Buyers,           \* checkouts in flight
  Typed,            \* the statuses chosen on a form
  MaxStock,         \* the largest stock typed into a form
  MaxOrdered,       \* the most units of a SKU in orders
  None

PRODUCT_STATUS == {"draft", "published", "archived"}

ASSUME CatalogueAssumption ==
  /\ None \notin Products \cup Skus
  /\ Products \cap Skus = {}
  /\ Typed \subseteq PRODUCT_STATUS
  /\ MaxStock \in Nat \ {0} /\ MaxOrdered \in Nat \ {0}

VARIABLES
  status,                            \* products.status, "absent" without a row
  productOf, stock, withdrawn,       \* product_skus: productOf None before the insert
  ordered, referenced,               \* units in orders that stand, SKUs in order_items
  page,                              \* what the tab of an administrator shows
  buying,                            \* the checked items of a checkout
  supplied, chosen, takenOff, lost   \* history

skus == <<productOf, stock, withdrawn>>
orders == <<ordered, referenced>>
history == <<supplied, chosen, takenOff, lost>>
vars == <<status, skus, orders, page, buying, history>>

Statuses == PRODUCT_STATUS \cup {"absent"}

NoItems == {}

Exists(p) == status[p] # "absent"
Ever == {s \in Skus : productOf[s] # None}  \* ids handed out
HasRow(s) == s \in Ever /\ Exists(productOf[s])
ActiveSkus(p) == {s \in Skus : productOf[s] = p /\ s \notin withdrawn}

\* The list of products, of every status.
List(statuses) == [at |-> "list", shown |-> statuses, product |-> None,
                   stock |-> [s \in {} |-> 0], touched |-> {}]
EmptyForm == [List([p \in Products |-> "absent"]) EXCEPT !.at = "new"]

Amounts == 0..(MaxStock + MaxOrdered)

\* What a tab shows: the rows of a form are any SKUs, with their stock.
Page == [at: {"list", "new", "edit"}, shown: [Products -> Statuses],
         product: Products \cup {None}, stock: UNION {[S -> Amounts] : S \in SUBSET Skus},
         touched: SUBSET (Products \cup Skus)]

TypeOK ==
  /\ status \in [Products -> Statuses]
  /\ productOf \in [Skus -> Products \cup {None}]
  /\ stock \in [Skus -> Amounts] /\ withdrawn \subseteq Skus
  /\ ordered \in [Skus -> 0..MaxOrdered] /\ referenced \subseteq Skus
  /\ page \in [Admins -> Page]
  /\ buying \in [Buyers -> SUBSET Skus]
  /\ supplied \in [Skus -> Amounts] /\ chosen \in [Products -> Statuses]
  /\ takenOff \subseteq Skus /\ lost \subseteq Products \cup Skus

\* One product on sale with one SKU, as the seed leaves it.
InitWith(p, s) ==
  /\ status = [q \in Products |-> IF q = p THEN "published" ELSE "absent"]
  /\ productOf = [x \in Skus |-> IF x = s THEN p ELSE None]
  /\ stock = [x \in Skus |-> IF x = s THEN 1 ELSE 0] /\ withdrawn = {}
  /\ ordered = [x \in Skus |-> 0] /\ referenced = {}
  /\ page = [a \in Admins |-> List(status)]
  /\ buying = [b \in Buyers |-> NoItems]
  /\ supplied = stock /\ chosen = status
  /\ takenOff = {} /\ lost = {}

Init == \E p \in Products, s \in Skus : InitWith(p, s)

\* What a change touches is noted on every open form.
Touch(changed) ==
  [a \in Admins |-> IF page[a].at = "edit" THEN [page[a] EXCEPT !.touched = @ \cup (changed \ lost)]
                    ELSE page[a]]

-----------------------------------------------------------------------------
(* The pages of an administrator *)

\* Opening the list, leaving a form for it, or loading it again.
LoadList(a) ==
  /\ page[a] # List(status)
  /\ page' = [page EXCEPT ![a] = List(status)]
  /\ UNCHANGED <<status, skus, orders, buying, history>>

OpenNewForm(a) ==
  /\ page[a].at = "list"
  /\ page' = [page EXCEPT ![a] = EmptyForm]
  /\ UNCHANGED <<status, skus, orders, buying, history>>

\* The rows of the form: the SKUs that are not withdrawn, with their stock.
Snapshot(p) == [at |-> "edit", shown |-> [q \in Products |-> IF q = p THEN status[p] ELSE "absent"],
                product |-> p, stock |-> [s \in ActiveSkus(p) |-> stock[s]], touched |-> {}]

OpenForm(a, p) ==
  /\ page[a].at = "list" /\ page[a].shown[p] # "absent" /\ Exists(p)
  /\ page' = [page EXCEPT ![a] = Snapshot(p)]
  /\ UNCHANGED <<status, skus, orders, buying, history>>

\* The rows sent: those left on the form, and perhaps a new one. The last row
\* has no delete button.
RowsSent(a, kept, new) ==
  /\ kept \subseteq DOMAIN page[a].stock
  /\ kept = {} /\ new = {} => DOMAIN page[a].stock = {}

\* An answer leads to the list, which is loaded; without one the form stays.
Answered(a, touched) ==
  LET seen == Touch(touched) IN
  page' = [seen EXCEPT ![a] = List(status')] \/ page' = seen

-----------------------------------------------------------------------------
(* createProduct *)

\* The rows of a form without an id: none or one.
NewIds == {{}} \cup {{s} : s \in Skus \ Ever}

InsertSkus(p, new) == productOf' = [s \in Skus |-> IF s \in new THEN p ELSE productOf[s]]

CreateProduct(a, p, new, amount, newStatus) ==
  /\ page[a].at = "new" /\ chosen[p] = "absent"
  /\ new # {}
  /\ status' = [status EXCEPT ![p] = newStatus]
  /\ InsertSkus(p, new)
  /\ stock' = [s \in Skus |-> IF s \in new THEN amount ELSE stock[s]]
  /\ supplied' = [s \in Skus |-> IF s \in new THEN amount ELSE supplied[s]]
  /\ chosen' = [chosen EXCEPT ![p] = newStatus]
  /\ Answered(a, {})
  /\ UNCHANGED <<withdrawn, orders, buying, takenOff, lost>>

-----------------------------------------------------------------------------
(* updateProduct *)

\* Every row with an id must belong to the product, withdrawn or not.
Owned(p, kept) == \A s \in kept : productOf[s] = p

\* Fault: the new rows are in the table when it is compared with the form.
WithdrawnAfterInsert(p, kept, new) == IF kept = {} THEN {} ELSE (ActiveSkus(p) \cup new) \ kept

\* SKUs that are not sent are withdrawn, but only when some row has an id.
WithdrawnBySave(p, kept, new) == IF kept = {} THEN {} ELSE ActiveSkus(p) \ kept

\* Fault: a status that was not changed on the form is not sent.
StatusOrDefault(shown, typed) == IF typed = shown THEN "draft" ELSE typed

StatusWritten(shown, typed) == typed

\* The stock of every row sent is written as the form has it, "amount" where
\* it was typed over.
StockWritten(was, kept, edited, new, amount) ==
  [s \in Skus |-> IF s \in new \cup edited THEN amount
                  ELSE IF s \in kept THEN was[s] ELSE stock[s]]

\* PUT with the whole form: a refused save changes nothing.
UpdateProduct(a, kept, edited, new, amount, newStatus) ==
  LET p == page[a].product
      was == page[a].stock
      gone == WithdrawnBySave(p, kept, new)
      stale == page[a].touched
      shown == page[a].shown[p] IN
  /\ page[a].at = "edit" /\ Exists(p) /\ newStatus \in Typed \cup {shown} /\ RowsSent(a, kept, new)
  /\ Owned(p, kept)
  /\ InsertSkus(p, new)
  /\ stock' = StockWritten(was, kept, edited, new, amount)
  /\ withdrawn' = withdrawn \cup gone
  /\ status' = [status EXCEPT ![p] = StatusWritten(shown, newStatus)]
  /\ Answered(a, kept \cup new \cup gone \cup {p})
  /\ lost' = lost \cup ((kept \cup gone \cup {p}) \cap stale)
  /\ supplied' = [s \in Skus |-> IF s \in new THEN amount
                                 ELSE IF s \in lost' THEN 0
                                 ELSE IF s \in edited THEN (supplied[s] + amount) - was[s]
                                 ELSE supplied[s]]
  /\ chosen' = [chosen EXCEPT ![p] = IF p \in lost' THEN shown
                                     ELSE IF newStatus = shown THEN @ ELSE newStatus]
  /\ takenOff' = takenOff \cup (gone \cap DOMAIN was)
  /\ UNCHANGED <<orders, buying>>

\* The button of the list: PUT with the status alone.
ToggledTo(shown) == IF shown = "archived" THEN "published" ELSE "archived"

SetProductStatus(a, p) ==
  LET next == ToggledTo(page[a].shown[p]) IN
  /\ page[a].at = "list" /\ page[a].shown[p] # "absent" /\ Exists(p)
  /\ status' = [status EXCEPT ![p] = next]
  /\ chosen' = [chosen EXCEPT ![p] = next]
  /\ page' = Touch({p})
  /\ UNCHANGED <<skus, orders, buying, supplied, takenOff, lost>>

\* Fault: only orders that stand keep their products.
NotInStandingOrder(p) == \A s \in Skus : productOf[s] = p => ordered[s] = 0

\* order_items refer to their SKU (onDelete restrict), also those of an order
\* that was cancelled: the DELETE of removeProduct fails.
Removable(p) == \A s \in referenced : productOf[s] # p

\* removeProduct looks at nothing; SKUs go with their product.
RemoveProduct(a, p) ==
  /\ page[a].at = "list" /\ page[a].shown[p] # "absent" /\ Exists(p)
  /\ Removable(p)
  /\ status' = [status EXCEPT ![p] = "absent"]
  /\ UNCHANGED <<skus, orders, page, buying, history>>

-----------------------------------------------------------------------------
(* Orders *)

\* getSkusByIds and the check of the product's status.
Offered(s) == HasRow(s) /\ s \notin withdrawn /\ status[productOf[s]] = "published"

CheckItems(b, items) ==
  /\ buying[b] = NoItems /\ items # {} /\ \A s \in items : Offered(s)
  /\ buying' = [buying EXCEPT ![b] = items]
  /\ UNCHANGED <<status, skus, orders, page, history>>

Enough(s) == HasRow(s) /\ stock[s] >= 1

\* reduceProductStock of every item, without another look at the offer.
PlaceOrder(b) ==
  LET items == buying[b] IN
  /\ items # {} /\ \A s \in items : Enough(s) /\ ordered[s] < MaxOrdered
  /\ stock' = [s \in Skus |-> IF s \in items THEN stock[s] - 1 ELSE stock[s]]
  /\ ordered' = [s \in Skus |-> IF s \in items THEN ordered[s] + 1 ELSE ordered[s]]
  /\ referenced' = referenced \cup items
  /\ buying' = [buying EXCEPT ![b] = NoItems]
  /\ page' = Touch(items)
  /\ UNCHANGED <<status, productOf, withdrawn, history>>

\* Fault: what the first items took is not given back.
RefuseAndKeep(b) ==
  LET items == buying[b] IN
  /\ \E s \in items : ~Enough(s)
  /\ stock' = [s \in Skus |-> IF s \in items /\ Enough(s) THEN stock[s] - 1 ELSE stock[s]]
  /\ buying' = [buying EXCEPT ![b] = NoItems]
  /\ UNCHANGED <<status, productOf, withdrawn, orders, page, history>>

\* An item is short or its row is gone: the transaction rolls back.
RefuseOrder(b) ==
  /\ \E s \in buying[b] : ~Enough(s)
  /\ buying' = [buying EXCEPT ![b] = NoItems]
  /\ UNCHANGED <<status, skus, orders, page, history>>

\* A cancelled order gives its units back, to a withdrawn SKU too, but not to
\* one without a row (restoreProductStock).
CancelOrder(s) ==
  /\ ordered[s] > 0 /\ HasRow(s) /\ stock[s] < MaxStock + MaxOrdered
  /\ stock' = [stock EXCEPT ![s] = @ + 1]
  /\ ordered' = [ordered EXCEPT ![s] = @ - 1]
  /\ page' = Touch({s})
  /\ UNCHANGED <<status, productOf, withdrawn, referenced, buying, history>>

-----------------------------------------------------------------------------

Next ==
  \/ \E a \in Admins :
       \/ LoadList(a) \/ OpenNewForm(a)
       \/ \E p \in Products :
            \/ OpenForm(a, p) \/ SetProductStatus(a, p) \/ RemoveProduct(a, p)
            \/ \E new \in NewIds, n \in 0..MaxStock, st \in Typed : CreateProduct(a, p, new, n, st)
       \/ \E kept \in SUBSET DOMAIN page[a].stock :
            \E edited \in {{}, kept}, new \in NewIds, n \in 0..MaxStock, st \in PRODUCT_STATUS :
              (edited \cup new = {} => n = 0) /\ UpdateProduct(a, kept, edited, new, n, st)
  \/ \E b \in Buyers :
       \/ \E items \in SUBSET Skus : CheckItems(b, items)
       \/ PlaceOrder(b) \/ RefuseOrder(b)
  \/ \E s \in Skus : CancelOrder(s)

Spec == Init /\ [][Next]_vars

-----------------------------------------------------------------------------
(* Properties *)

\* The stock on the shelf and the units in standing orders are what the
\* administrators supplied, until a form overwrites a row whose stock moved
\* while the form was open (updateProduct writes an absolute stock).
StockAccounted ==
  \A s \in Skus : HasRow(s) => s \in lost \/ stock[s] + ordered[s] = supplied[s]

\* A SKU is withdrawn only because an administrator took its row off a form,
\* or because it was added while the form that withdrew it was open.
WithdrawnByHand == withdrawn \subseteq takenOff \cup lost

\* A product has the status an administrator last chose for it, unless a form
\* opened before that choice was saved after it.
StatusAsChosen == \A p \in Products : Exists(p) => p \in lost \/ status[p] = chosen[p]

\* A SKU of an order keeps its row, so that a cancel can give its units
\* back and the order its lines: a checkout that was checked before its
\* product was removed is refused (reduceProductStock), and a product is not
\* removed under an order, whatever a list shows and has become of the order.
OrderedSkusRemain == \A s \in referenced : HasRow(s)

\* Editing anything but the stock leaves the stock accounted for (refuted: the
\* form sends the stock it was loaded with).
EditKeepsStock == \A s \in Skus : HasRow(s) => stock[s] + ordered[s] = supplied[s]
=============================================================================

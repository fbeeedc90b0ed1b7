--------------------------- MODULE CatalogueProofs ---------------------------
(***************************************************************************)
(* What TLAPS proves of Catalogue, for every set of products, SKUs,        *)
(* administrators and buyers and all bounds: types, and the four           *)
(* invariants of the catalogue under stale forms, late orders and removed  *)
(* products; and of CategoryTree, for every set of categories: types, and  *)
(* that updates that never ran beside each other leave no category below   *)
(* itself.                                                                 *)
(***************************************************************************)
EXTENDS Catalogue, CategoryTree, TLAPS

\* An id that was handed out belongs to a product that had a status, and one
\* that was not is in no order.
IdsKept ==
  /\ \A p \in Products : Exists(p) => chosen[p] # "absent"
  /\ \A s \in Ever : chosen[productOf[s]] # "absent"
  /\ \A s \in Skus \ Ever : ordered[s] = 0 /\ s \notin withdrawn

\* The rows of a form are SKUs of its product. What was neither touched while
\* the form was open nor overwritten before is as the form shows it.
FormIsRecent(seen) ==
  seen.at = "edit" =>
    /\ seen.product \in Products /\ seen.shown[seen.product] # "absent"
    /\ chosen[seen.product] # "absent"
    /\ \A s \in DOMAIN seen.stock : productOf[s] = seen.product
    /\ \A s \in DOMAIN seen.stock : s \in seen.touched \cup lost \/ seen.stock[s] = stock[s]
    /\ \A s \in ActiveSkus(seen.product) : s \in DOMAIN seen.stock \cup seen.touched \cup lost
    /\ Exists(seen.product) =>
         seen.product \in seen.touched \cup lost \/ seen.shown[seen.product] = status[seen.product]

FormsAreRecent == \A a \in Admins : FormIsRecent(page[a])

TypeInv == TypeOK /\ IdsKept
FormInv == FormsAreRecent /\ StockAccounted /\ WithdrawnByHand /\ StatusAsChosen

-----------------------------------------------------------------------------
(* Pages *)

\* The list, an empty form and a form of a product are well typed.
LEMMA ListTyped == ASSUME NEW st \in [Products -> Statuses] PROVE List(st) \in Page
<1>1. [s \in {} |-> 0] \in [{} -> Amounts] /\ {} \in SUBSET Skus
  OBVIOUS
<1>2. QED
  BY <1>1 DEF List, Page

LEMMA FormsTyped ==
  ASSUME TypeOK
  PROVE  EmptyForm \in Page /\ \A p \in Products : Snapshot(p) \in Page
<1>1. [p \in Products |-> "absent"] \in [Products -> Statuses]
  BY DEF Statuses
<1>2. EmptyForm \in Page
  BY <1>1, ListTyped DEF EmptyForm, List, Page
<1>3. ASSUME NEW p \in Products PROVE Snapshot(p) \in Page
  <2>1. ActiveSkus(p) \in SUBSET Skus /\ [s \in ActiveSkus(p) |-> stock[s]] \in [ActiveSkus(p) -> Amounts]
    BY DEF TypeOK, ActiveSkus
  <2>2. [q \in Products |-> IF q = p THEN status[p] ELSE "absent"] \in [Products -> Statuses]
    BY DEF TypeOK, Statuses
  <2>3. QED
    BY <2>1, <2>2 DEF Snapshot, Page
<1>4. QED
  BY <1>2, <1>3

\* A change is noted on the forms that are open, and nothing else is.
LEMMA TouchNotes ==
  ASSUME TypeOK, NEW changed \in SUBSET (Products \cup Skus)
  PROVE  /\ Touch(changed) \in [Admins -> Page]
         /\ \A a \in Admins :
              /\ Touch(changed)[a].at = page[a].at /\ Touch(changed)[a].shown = page[a].shown
              /\ Touch(changed)[a].product = page[a].product
              /\ Touch(changed)[a].stock = page[a].stock
              /\ page[a].at = "edit" =>
                   Touch(changed)[a].touched = page[a].touched \cup (changed \ lost)
<1> SUFFICES ASSUME NEW a \in Admins
             PROVE  /\ Touch(changed)[a] \in Page
                    /\ Touch(changed)[a].at = page[a].at /\ Touch(changed)[a].shown = page[a].shown
                    /\ Touch(changed)[a].product = page[a].product
                    /\ Touch(changed)[a].stock = page[a].stock
                    /\ page[a].at = "edit" =>
                         Touch(changed)[a].touched = page[a].touched \cup (changed \ lost)
  BY DEF Touch
<1>1. page[a] \in Page
  BY DEF TypeOK
<1>2. QED
  BY <1>1 DEF Touch, Page

\* After a save a tab shows the list, or what it showed with the notes of the save.
LEMMA AnsweredTyped ==
  ASSUME TypeOK, NEW a \in Admins, NEW touched \in SUBSET (Products \cup Skus),
         status' \in [Products -> Statuses], Answered(a, touched)
  PROVE  /\ page' \in [Admins -> Page]
         /\ \A x \in Admins : page'[x] = Touch(touched)[x] \/ page'[x].at = "list"
<1>1. List(status') \in Page /\ List(status').at = "list"
  BY ListTyped DEF List
<1>2. Touch(touched) \in [Admins -> Page]
  BY TouchNotes
<1>3. QED
  BY <1>1, <1>2 DEF Answered

-----------------------------------------------------------------------------
(* Type correctness *)

\* The actions, one disjunct for each.
LEMMA NextCases ==
  ASSUME [Next]_vars
  PROVE  \/ \E a \in Admins : LoadList(a) \/ OpenNewForm(a)
         \/ \E a \in Admins, p \in Products : OpenForm(a, p)
         \/ \E a \in Admins, p \in Products : SetProductStatus(a, p)
         \/ \E a \in Admins, p \in Products : RemoveProduct(a, p)
         \/ \E a \in Admins, p \in Products, new \in NewIds, n \in 0..MaxStock, st \in Typed :
              CreateProduct(a, p, new, n, st)
         \/ \E a \in Admins, new \in NewIds, n \in 0..MaxStock, st \in PRODUCT_STATUS :
              \E kept \in SUBSET DOMAIN page[a].stock : \E edited \in {{}, kept} :
                UpdateProduct(a, kept, edited, new, n, st)
         \/ \E b \in Buyers : \E items \in SUBSET Skus : CheckItems(b, items)
         \/ \E b \in Buyers : PlaceOrder(b)
         \/ \E b \in Buyers : RefuseOrder(b)
         \/ \E s \in Skus : CancelOrder(s)
         \/ UNCHANGED vars
BY DEF Next

\* The new rows of a form are SKUs whose id was never handed out.
LEMMA NewRows == ASSUME NEW new \in NewIds PROVE new \subseteq Skus /\ new \cap Ever = {}
BY DEF NewIds

\* What a save writes is well typed; the supply is so as long as the stock was
\* accounted for.
LEMMA SaveTyped ==
  ASSUME TypeInv, FormsAreRecent, StockAccounted,
         NEW a \in Admins, NEW kept \in SUBSET DOMAIN page[a].stock, NEW edited \in {{}, kept},
         NEW new \in NewIds, NEW n \in 0..MaxStock, NEW st \in PRODUCT_STATUS,
         UpdateProduct(a, kept, edited, new, n, st)
  PROVE  TypeOK'
<1> DEFINE p == page[a].product
           was == page[a].stock
           gone == WithdrawnBySave(p, kept, new)
<1>1. page[a] \in Page /\ page[a].at = "edit" /\ p \in Products
  BY DEF TypeOK, TypeInv, UpdateProduct, FormsAreRecent, FormIsRecent
<1>2. kept \subseteq Skus /\ edited \subseteq kept /\ new \subseteq Skus /\ gone \subseteq Skus
  BY <1>1, NewRows DEF Page, WithdrawnBySave, ActiveSkus
<1>3. n \in Amounts /\ MaxStock \in Nat /\ MaxOrdered \in Nat
  BY CatalogueAssumption DEF Amounts
<1>4. status' \in [Products -> Statuses] /\ chosen' \in [Products -> Statuses]
  BY <1>1 DEF UpdateProduct, StatusWritten, TypeInv, TypeOK, Statuses, Page
<1>5. productOf' \in [Skus -> Products \cup {None}]
  BY <1>1 DEF UpdateProduct, InsertSkus, TypeInv, TypeOK
<1>6. \A s \in kept : was[s] \in Amounts
  BY <1>1 DEF Page
<1>7. stock' \in [Skus -> Amounts]
  BY <1>2, <1>3, <1>6 DEF UpdateProduct, StockWritten, TypeInv, TypeOK
<1>8. withdrawn' \subseteq Skus /\ takenOff' \subseteq Skus /\ lost' \subseteq Products \cup Skus
  BY <1>1, <1>2 DEF UpdateProduct, TypeInv, TypeOK, Page
<1>9. supplied' \in [Skus -> Amounts]
  <2>1. \A s \in edited \ (new \cup lost') :
          supplied[s] = was[s] + ordered[s] /\ ordered[s] \in 0..MaxOrdered
    <3> SUFFICES ASSUME NEW s \in edited, s \notin lost'
                 PROVE  supplied[s] = was[s] + ordered[s] /\ ordered[s] \in 0..MaxOrdered
      OBVIOUS
    <3>1. s \notin page[a].touched \cup lost
      BY <1>2 DEF UpdateProduct
    <3>2. productOf[s] = p /\ Exists(p) /\ s \in DOMAIN was
      BY <1>2 DEF UpdateProduct, Owned
    <3>3. HasRow(s) /\ was[s] = stock[s]
      BY <1>1, <1>2, <3>1, <3>2, CatalogueAssumption
      DEF HasRow, Ever, FormsAreRecent, FormIsRecent
    <3>4. stock[s] + ordered[s] = supplied[s]
      BY <1>2, <3>1, <3>3 DEF StockAccounted
    <3>5. QED
      BY <1>2, <3>3, <3>4 DEF TypeInv, TypeOK
  <2>2. \A s \in edited \ (new \cup lost') : (supplied[s] + n) - was[s] \in Amounts
    BY <1>2, <1>3, <1>6, <2>1 DEF Amounts
  <2>3. supplied' = [s \in Skus |-> IF s \in new THEN n
                                    ELSE IF s \in lost' THEN 0
                                    ELSE IF s \in edited THEN (supplied[s] + n) - was[s]
                                    ELSE supplied[s]]
    BY DEF UpdateProduct
  <2>4. 0 \in Amounts /\ supplied \in [Skus -> Amounts]
    BY <1>3 DEF Amounts, TypeInv, TypeOK
  <2>5. QED
    BY <1>3, <2>2, <2>3, <2>4
<1>10. page' \in [Admins -> Page]
  <2>1. Answered(a, kept \cup new \cup gone \cup {p})
    BY DEF UpdateProduct
  <2>2. kept \cup new \cup gone \cup {p} \in SUBSET (Products \cup Skus)
    BY <1>1, <1>2
  <2>3. QED
    BY <1>4, <2>1, <2>2, AnsweredTyped DEF TypeInv
<1>11. QED
  BY <1>4, <1>5, <1>7, <1>8, <1>9, <1>10 DEF UpdateProduct, TypeInv, TypeOK, orders

\* A product that is created is well typed with its row.
LEMMA CreateTyped ==
  ASSUME TypeOK, NEW a \in Admins, NEW p \in Products, NEW new \in NewIds,
         NEW n \in 0..MaxStock, NEW st \in Typed, CreateProduct(a, p, new, n, st)
  PROVE  TypeOK'
<1>1. new \subseteq Skus /\ n \in Amounts /\ st \in Statuses
  BY NewRows, CatalogueAssumption DEF Amounts, Statuses
<1>2. status' \in [Products -> Statuses] /\ chosen' \in [Products -> Statuses]
  BY <1>1 DEF CreateProduct, TypeOK
<1>3. productOf' \in [Skus -> Products \cup {None}]
  BY DEF CreateProduct, InsertSkus, TypeOK
<1>4. stock' \in [Skus -> Amounts] /\ supplied' \in [Skus -> Amounts]
  BY <1>1 DEF CreateProduct, TypeOK
<1>5. page' \in [Admins -> Page]
  BY <1>2, AnsweredTyped DEF CreateProduct
<1>6. QED
  BY <1>2, <1>3, <1>4, <1>5 DEF CreateProduct, TypeOK, orders

\* The inductive step of type correctness.
LEMMA TypeStep ==
  TypeInv /\ FormInv /\ [Next]_vars => TypeOK'
<1> SUFFICES ASSUME TypeInv, FormInv, [Next]_vars PROVE TypeOK'
  OBVIOUS
<1>a. TypeOK /\ FormsAreRecent /\ StockAccounted
  BY DEF TypeInv, FormInv
<1>1. ASSUME NEW a \in Admins, LoadList(a) \/ OpenNewForm(a) PROVE TypeOK'
  <2>1. List(status) \in Page /\ EmptyForm \in Page
    BY <1>a, ListTyped, FormsTyped DEF TypeOK
  <2>2. QED
    BY <1>a, <1>1, <2>1 DEF LoadList, OpenNewForm, TypeOK, skus, orders, history
<1>2. ASSUME NEW a \in Admins, NEW p \in Products, OpenForm(a, p) PROVE TypeOK'
  <2>1. Snapshot(p) \in Page
    BY <1>a, FormsTyped
  <2>2. QED
    BY <1>a, <1>2, <2>1 DEF OpenForm, TypeOK, skus, orders, history
<1>3. ASSUME NEW a \in Admins, NEW p \in Products, SetProductStatus(a, p) PROVE TypeOK'
  <2>1. ToggledTo(page[a].shown[p]) \in Statuses
    BY DEF ToggledTo, Statuses, PRODUCT_STATUS
  <2>2. Touch({p}) \in [Admins -> Page]
    BY <1>a, TouchNotes
  <2>3. status' \in [Products -> Statuses] /\ chosen' \in [Products -> Statuses]
    BY <1>a, <1>3, <2>1 DEF SetProductStatus, TypeOK
  <2>4. QED
    BY <1>a, <1>3, <2>2, <2>3 DEF SetProductStatus, TypeOK, skus, orders
<1>4. ASSUME NEW a \in Admins, NEW p \in Products, RemoveProduct(a, p) PROVE TypeOK'
  BY <1>a, <1>4 DEF RemoveProduct, TypeOK, Statuses, skus, orders, history
<1>5. ASSUME NEW a \in Admins, NEW p \in Products, NEW new \in NewIds, NEW n \in 0..MaxStock,
             NEW st \in Typed, CreateProduct(a, p, new, n, st)
      PROVE  TypeOK'
  BY <1>a, <1>5, CreateTyped
<1>6. ASSUME NEW a \in Admins, NEW new \in NewIds, NEW n \in 0..MaxStock, NEW st \in PRODUCT_STATUS,
             NEW kept \in SUBSET DOMAIN page[a].stock, NEW edited \in {{}, kept},
             UpdateProduct(a, kept, edited, new, n, st)
      PROVE  TypeOK'
  BY <1>a, <1>6, SaveTyped
<1>7. ASSUME NEW b \in Buyers, NEW items \in SUBSET Skus, CheckItems(b, items) PROVE TypeOK'
  BY <1>a, <1>7 DEF CheckItems, TypeOK, skus, orders, history
<1>8. ASSUME NEW b \in Buyers, PlaceOrder(b) PROVE TypeOK'
  <2> DEFINE items == buying[b]
  <2>1. items \subseteq Skus
    BY <1>a DEF TypeOK
  <2>2. Touch(items) \in [Admins -> Page]
    BY <1>a, <2>1, TouchNotes
  <2>3. \A s \in items : stock[s] - 1 \in Amounts /\ ordered[s] + 1 \in 0..MaxOrdered
    BY <1>a, <1>8, <2>1, CatalogueAssumption DEF PlaceOrder, Enough, TypeOK, Amounts
  <2>4. stock' \in [Skus -> Amounts] /\ ordered' \in [Skus -> 0..MaxOrdered]
    BY <1>a, <1>8, <2>3 DEF PlaceOrder, TypeOK
  <2>5. QED
    BY <1>a, <1>8, <2>1, <2>2, <2>4 DEF PlaceOrder, NoItems, TypeOK, history
<1>9. ASSUME NEW b \in Buyers, RefuseOrder(b) PROVE TypeOK'
  BY <1>a, <1>9 DEF RefuseOrder, NoItems, TypeOK, skus, orders, history
<1>10. ASSUME NEW s \in Skus, CancelOrder(s) PROVE TypeOK'
  <2>1. Touch({s}) \in [Admins -> Page]
    BY <1>a, TouchNotes
  <2>2. stock[s] + 1 \in Amounts /\ ordered[s] - 1 \in 0..MaxOrdered
    BY <1>a, <1>10, CatalogueAssumption DEF CancelOrder, TypeOK, Amounts
  <2>3. QED
    BY <1>a, <1>10, <2>1, <2>2 DEF CancelOrder, TypeOK, history
<1>11. CASE UNCHANGED vars
  BY <1>a, <1>11 DEF vars, TypeOK, skus, orders, history
<1>12. QED
  BY <1>1, <1>2, <1>3, <1>4, <1>5, <1>6, <1>7, <1>8, <1>9, <1>10, <1>11, NextCases

-----------------------------------------------------------------------------
(* Forms *)

\* A form stays recent through a change that is noted on it: nothing else on it
\* moves, and what was overwritten stays so.
LEMMA FormKept ==
  ASSUME TypeOK, NEW changed \in SUBSET (Products \cup Skus), NEW a \in Admins,
         FormIsRecent(page[a]), page'[a] = Touch(changed)[a], lost \subseteq lost',
         \A q \in Products : chosen[q] # "absent" => chosen'[q] # "absent",
         \A s \in Ever : productOf'[s] = productOf[s],
         \A s \in Ever \ changed : stock'[s] = stock[s],
         \A s \in Skus \ changed :
           chosen[productOf'[s]] # "absent" /\ s \notin withdrawn' =>
             productOf[s] = productOf'[s] /\ s \notin withdrawn,
         \A q \in Products \ changed :
           chosen[q] # "absent" /\ status'[q] # "absent" => status'[q] = status[q]
  PROVE  FormIsRecent(page[a])'
<1> SUFFICES ASSUME page[a].at = "edit" PROVE FormIsRecent(page[a])'
  BY TouchNotes DEF FormIsRecent
<1> DEFINE q == page[a].product
<1>1. /\ page'[a].shown = page[a].shown /\ page'[a].product = q /\ page'[a].stock = page[a].stock
      /\ page'[a].touched = page[a].touched \cup (changed \ lost)
  BY TouchNotes
<1>2. /\ q \in Products /\ page[a].shown[q] # "absent" /\ chosen[q] # "absent" /\ chosen'[q] # "absent"
      /\ q # None
  BY CatalogueAssumption DEF FormIsRecent
<1>3. ASSUME NEW s \in DOMAIN page[a].stock
      PROVE  /\ productOf'[s] = q
             /\ s \in page'[a].touched \cup lost' \/ page'[a].stock[s] = stock'[s]
  <2>1. s \in Ever
    BY <1>2 DEF TypeOK, Page, FormIsRecent, Ever
  <2>2. QED
    BY <1>1, <2>1 DEF FormIsRecent
<1>4. ASSUME NEW s \in Skus, productOf'[s] = q, s \notin withdrawn'
      PROVE  s \in DOMAIN page[a].stock \cup page'[a].touched \cup lost'
  <2>1. CASE s \in changed
    BY <1>1, <2>1
  <2>2. CASE s \notin changed
    <3>1. s \in ActiveSkus(q)
      BY <1>2, <1>4, <2>2 DEF ActiveSkus
    <3>2. QED
      BY <1>1, <3>1 DEF FormIsRecent
  <2>3. QED
    BY <2>1, <2>2
<1>5. ASSUME status'[q] # "absent"
      PROVE  q \in page'[a].touched \cup lost' \/ page'[a].shown[q] = status'[q]
  <2>1. CASE q \in changed
    BY <1>1, <2>1
  <2>2. CASE q \notin changed
    <3>1. status'[q] = status[q]
      BY <1>2, <1>5, <2>2
    <3>2. QED
      BY <1>1, <1>5, <3>1 DEF FormIsRecent, Exists
  <2>3. QED
    BY <2>1, <2>2
<1>6. QED
  BY <1>1, <1>2, <1>3, <1>4, <1>5 DEF FormIsRecent, ActiveSkus, Exists

\* A form is recent when it is opened.
LEMMA FormOpened ==
  ASSUME TypeOK, IdsKept, NEW p \in Products, Exists(p)
  PROVE  FormIsRecent(Snapshot(p))
BY DEF TypeOK, IdsKept, FormIsRecent, Snapshot, ActiveSkus, Exists

\* The inductive step of what is known of ids.
LEMMA IdsStep == TypeInv /\ FormInv /\ [Next]_vars => IdsKept'
<1> SUFFICES ASSUME TypeInv, FormInv, [Next]_vars PROVE IdsKept'
  OBVIOUS
<1>a. TypeOK /\ FormsAreRecent /\ IdsKept
  BY DEF TypeInv, FormInv
<1>b. None \notin Products /\ "absent" \notin PRODUCT_STATUS /\ Typed \subseteq PRODUCT_STATUS
  BY CatalogueAssumption DEF PRODUCT_STATUS
<1>1. ASSUME NEW a \in Admins, LoadList(a) \/ OpenNewForm(a) PROVE IdsKept'
  BY <1>a, <1>1 DEF LoadList, OpenNewForm, IdsKept, Ever, Exists, skus, orders, history
<1>2. ASSUME NEW a \in Admins, NEW p \in Products, OpenForm(a, p) PROVE IdsKept'
  BY <1>a, <1>2 DEF OpenForm, IdsKept, Ever, Exists, skus, orders, history
<1>3. ASSUME NEW a \in Admins, NEW p \in Products, SetProductStatus(a, p) PROVE IdsKept'
  BY <1>a, <1>3 DEF SetProductStatus, ToggledTo, TypeOK, IdsKept, Ever, Exists, skus, orders, history
<1>4. ASSUME NEW a \in Admins, NEW p \in Products, RemoveProduct(a, p) PROVE IdsKept'
  BY <1>a, <1>4 DEF RemoveProduct, TypeOK, IdsKept, Ever, Exists, skus, orders, history
<1>5. ASSUME NEW a \in Admins, NEW p \in Products, NEW new \in NewIds, NEW n \in 0..MaxStock,
             NEW st \in Typed, CreateProduct(a, p, new, n, st)
      PROVE  IdsKept'
  BY <1>a, <1>b, <1>5, NewRows DEF CreateProduct, InsertSkus, TypeOK, IdsKept, Ever, Exists, orders
<1>6. ASSUME NEW a \in Admins, NEW new \in NewIds, NEW n \in 0..MaxStock, NEW st \in PRODUCT_STATUS,
             NEW kept \in SUBSET DOMAIN page[a].stock, NEW edited \in {{}, kept},
             UpdateProduct(a, kept, edited, new, n, st)
      PROVE  IdsKept'
  <2> DEFINE p == page[a].product
             gone == WithdrawnBySave(p, kept, new)
  <2>1. p \in Products /\ p # None /\ page[a].shown[p] # "absent" /\ page[a].shown[p] \in Statuses
    BY <1>a, <1>b, <1>6 DEF UpdateProduct, FormsAreRecent, FormIsRecent, TypeOK, Page
  <2>2. \A q \in Products : chosen[q] # "absent" \/ q = p => chosen'[q] # "absent"
    BY <1>a, <1>b, <1>6, <2>1 DEF UpdateProduct, TypeOK, FormsAreRecent, FormIsRecent
  <2>3. \A q \in Products : q # p => status'[q] = status[q]
    BY <1>a, <1>6 DEF UpdateProduct, TypeOK
  <2>4. \A s \in Skus : productOf'[s] = IF s \in new THEN p ELSE productOf[s]
    BY <1>6 DEF UpdateProduct, InsertSkus
  <2>5. gone \subseteq Ever
    BY <2>1 DEF WithdrawnBySave, ActiveSkus, Ever
  <2>6. withdrawn' = withdrawn \cup gone /\ ordered' = ordered
    BY <1>6 DEF UpdateProduct, orders
  <2>7. QED
    BY <1>a, <2>1, <2>2, <2>3, <2>4, <2>5, <2>6 DEF TypeOK, IdsKept, Ever, Exists
<1>7. ASSUME NEW b \in Buyers, NEW items \in SUBSET Skus, CheckItems(b, items) PROVE IdsKept'
  BY <1>a, <1>7 DEF CheckItems, IdsKept, Ever, Exists, skus, orders, history
<1>8. ASSUME NEW b \in Buyers, PlaceOrder(b) PROVE IdsKept'
  BY <1>a, <1>8 DEF PlaceOrder, Enough, HasRow, TypeOK, IdsKept, Ever, Exists, history
<1>9. ASSUME NEW b \in Buyers, RefuseOrder(b) PROVE IdsKept'
  BY <1>a, <1>9 DEF RefuseOrder, IdsKept, Ever, Exists, skus, orders, history
<1>10. ASSUME NEW s \in Skus, CancelOrder(s) PROVE IdsKept'
  BY <1>a, <1>10 DEF CancelOrder, TypeOK, IdsKept, Ever, Exists, history
<1>11. CASE UNCHANGED vars
  BY <1>a, <1>11 DEF vars, IdsKept, Ever, Exists, skus, orders, history
<1>12. QED
  BY <1>1, <1>2, <1>3, <1>4, <1>5, <1>6, <1>7, <1>8, <1>9, <1>10, <1>11, NextCases

\* The inductive step of the forms.
LEMMA FormsStep == TypeInv /\ FormInv /\ [Next]_vars => FormsAreRecent'
<1> SUFFICES ASSUME TypeInv, FormInv, [Next]_vars, NEW x \in Admins
             PROVE  FormIsRecent(page[x])'
  BY DEF FormsAreRecent
<1>a. TypeOK /\ IdsKept /\ FormIsRecent(page[x])
  BY DEF TypeInv, FormInv, FormsAreRecent
<1>b. None \notin Products /\ "absent" \notin PRODUCT_STATUS /\ Typed \subseteq PRODUCT_STATUS
  BY CatalogueAssumption DEF PRODUCT_STATUS
<1>c. ASSUME page' = page, UNCHANGED <<skus, history>>,
             \A q \in Products : status'[q] \in {status[q], "absent"}
      PROVE  FormIsRecent(page[x])'
  BY <1>a, <1>c DEF FormIsRecent, ActiveSkus, Exists, skus, history
<1>d. ASSUME page'[x].at # "edit" PROVE FormIsRecent(page[x])'
  BY <1>d DEF FormIsRecent
<1>1. ASSUME NEW a \in Admins, LoadList(a) \/ OpenNewForm(a) PROVE FormIsRecent(page[x])'
  <2>1. CASE x = a
    BY <1>a, <1>1, <1>d, <2>1 DEF LoadList, OpenNewForm, List, EmptyForm, TypeOK
  <2>2. CASE x # a
    BY <1>a, <1>1, <2>2
    DEF LoadList, OpenNewForm, TypeOK, FormIsRecent, ActiveSkus, Exists, skus, history
  <2>3. QED
    BY <2>1, <2>2
<1>2. ASSUME NEW a \in Admins, NEW p \in Products, OpenForm(a, p) PROVE FormIsRecent(page[x])'
  <2>1. CASE x = a
    <3>1. page'[x] = Snapshot(p) /\ FormIsRecent(Snapshot(p))
      BY <1>a, <1>2, <2>1, FormOpened DEF OpenForm, TypeOK
    <3>2. QED
      BY <1>2, <3>1 DEF OpenForm, FormIsRecent, ActiveSkus, Exists, skus, history
  <2>2. CASE x # a
    BY <1>a, <1>2, <2>2 DEF OpenForm, TypeOK, FormIsRecent, ActiveSkus, Exists, skus, history
  <2>3. QED
    BY <2>1, <2>2
<1>3. ASSUME NEW a \in Admins, NEW p \in Products, SetProductStatus(a, p)
      PROVE  FormIsRecent(page[x])'
  <2>1. page'[x] = Touch({p})[x] /\ UNCHANGED <<productOf, stock, withdrawn, lost>>
    BY <1>3 DEF SetProductStatus, skus
  <2>2. \A q \in Products : chosen[q] # "absent" => chosen'[q] # "absent"
    BY <1>a, <1>3 DEF SetProductStatus, ToggledTo, TypeOK
  <2>3. \A q \in Products \ {p} : status'[q] = status[q]
    BY <1>a, <1>3 DEF SetProductStatus, TypeOK
  <2>4. QED
    BY <1>a, <2>1, <2>2, <2>3, FormKept
<1>4. ASSUME NEW a \in Admins, NEW p \in Products, RemoveProduct(a, p)
      PROVE  FormIsRecent(page[x])'
  BY <1>a, <1>4, <1>c DEF RemoveProduct, TypeOK
<1>5. ASSUME NEW a \in Admins, NEW p \in Products, NEW new \in NewIds, NEW n \in 0..MaxStock,
             NEW st \in Typed, CreateProduct(a, p, new, n, st)
      PROVE  FormIsRecent(page[x])'
  <2>1. page'[x] = Touch({})[x] \/ page'[x].at = "list"
    BY <1>5, <1>a, AnsweredTyped, CreateTyped DEF CreateProduct, TypeOK
  <2>2. CASE page'[x] = Touch({})[x]
    <3>1. new \subseteq Skus /\ new \cap Ever = {} /\ chosen[p] = "absent" /\ lost' = lost
      BY <1>5, NewRows DEF CreateProduct
    <3>2. \A s \in Skus : productOf'[s] = (IF s \in new THEN p ELSE productOf[s])
                          /\ stock'[s] = (IF s \in new THEN n ELSE stock[s])
      BY <1>5 DEF CreateProduct, InsertSkus
    <3>3. \A q \in Products : q # p => status'[q] = status[q] /\ chosen'[q] = chosen[q]
      BY <1>a, <1>5 DEF CreateProduct, TypeOK
    <3>4. withdrawn' = withdrawn
      BY <1>5 DEF CreateProduct
    <3>5. \A q \in Products : chosen[q] # "absent" => chosen'[q] # "absent"
      BY <3>1, <3>3
    <3>6. \A s \in Ever : productOf'[s] = productOf[s] /\ stock'[s] = stock[s]
      BY <3>1, <3>2 DEF Ever
    <3>7. \A s \in Skus : chosen[productOf'[s]] # "absent" /\ s \notin withdrawn' =>
                            productOf[s] = productOf'[s] /\ s \notin withdrawn
      BY <3>1, <3>2, <3>4
    <3>8. \A q \in Products : chosen[q] # "absent" => status'[q] = status[q]
      BY <3>1, <3>3
    <3>9. QED
      BY <1>a, <2>2, <3>1, <3>5, <3>6, <3>7, <3>8, FormKept
  <2>3. QED
    BY <1>d, <2>1, <2>2
<1>6. ASSUME NEW a \in Admins, NEW new \in NewIds, NEW n \in 0..MaxStock, NEW st \in PRODUCT_STATUS,
             NEW kept \in SUBSET DOMAIN page[a].stock, NEW edited \in {{}, kept},
             UpdateProduct(a, kept, edited, new, n, st)
      PROVE  FormIsRecent(page[x])'
  <2> DEFINE p == page[a].product
             gone == WithdrawnBySave(p, kept, new)
             changed == kept \cup new \cup gone \cup {p}
  <2>1. /\ p \in Products /\ kept \subseteq Skus /\ new \subseteq Skus /\ gone \subseteq Skus
        /\ new \cap Ever = {} /\ edited \subseteq kept
    BY <1>6, NewRows
    DEF UpdateProduct, FormInv, FormsAreRecent, FormIsRecent, WithdrawnBySave, ActiveSkus,
        TypeInv, TypeOK, Page
  <2>2. status' \in [Products -> Statuses]
    BY <1>6, SaveTyped DEF FormInv, TypeInv, TypeOK
  <2>3. Answered(a, changed) /\ changed \in SUBSET (Products \cup Skus)
    BY <1>6, <2>1 DEF UpdateProduct
  <2>4. page'[x] = Touch(changed)[x] \/ page'[x].at = "list"
    BY <1>a, <2>2, <2>3, AnsweredTyped
  <2>5. CASE page'[x] = Touch(changed)[x]
    <3>1. lost \subseteq lost'
      BY <1>6 DEF UpdateProduct
    <3>2. \A s \in Skus : productOf'[s] = (IF s \in new THEN p ELSE productOf[s])
                          /\ (s \notin changed => stock'[s] = stock[s])
      BY <1>6, <2>1 DEF UpdateProduct, InsertSkus, StockWritten
    <3>3. \A q \in Products : q # p => status'[q] = status[q]
      BY <1>a, <1>6 DEF UpdateProduct, TypeOK
    <3>4. withdrawn \subseteq withdrawn'
      BY <1>6 DEF UpdateProduct
    <3>5. page[a].shown[p] # "absent" /\ st # "absent"
      BY <1>b, <1>6 DEF UpdateProduct, FormInv, FormsAreRecent, FormIsRecent
    <3>6. \A q \in Products : chosen[q] # "absent" => chosen'[q] # "absent"
      BY <1>a, <1>6, <3>5 DEF UpdateProduct, TypeOK
    <3>7. \A s \in Ever : productOf'[s] = productOf[s]
      BY <2>1, <3>2 DEF Ever
    <3>8. \A s \in Skus \ changed : s \notin withdrawn' =>
                            productOf[s] = productOf'[s] /\ s \notin withdrawn
      BY <3>2, <3>4
    <3>9. \A s \in Ever \ changed : stock'[s] = stock[s]
      BY <3>2 DEF Ever
    <3>10. \A q \in Products \ changed : status'[q] = status[q]
      BY <3>3
    <3> HIDE DEF p, gone, changed
    <3>11. QED
      BY <1>a, <2>3, <2>5, <3>1, <3>6, <3>7, <3>8, <3>9, <3>10, FormKept
  <2>6. QED
    BY <1>d, <2>4, <2>5
<1>7. ASSUME NEW b \in Buyers, NEW items \in SUBSET Skus, CheckItems(b, items)
      PROVE  FormIsRecent(page[x])'
  BY <1>7, <1>c DEF CheckItems
<1>8. ASSUME NEW b \in Buyers, PlaceOrder(b) PROVE FormIsRecent(page[x])'
  <2> DEFINE items == buying[b]
  <2>1. items \in SUBSET (Products \cup Skus) /\ page'[x] = Touch(items)[x]
    BY <1>a, <1>8 DEF PlaceOrder, TypeOK
  <2>2. \A s \in Skus \ items : stock'[s] = stock[s]
    BY <1>8 DEF PlaceOrder
  <2>3. UNCHANGED <<status, productOf, withdrawn, chosen, lost>>
    BY <1>8 DEF PlaceOrder, history
  <2> HIDE DEF items
  <2>4. QED
    BY <1>a, <2>1, <2>2, <2>3, FormKept DEF Ever
<1>9. ASSUME NEW b \in Buyers, RefuseOrder(b) PROVE FormIsRecent(page[x])'
  BY <1>9, <1>c DEF RefuseOrder
<1>10. ASSUME NEW s \in Skus, CancelOrder(s) PROVE FormIsRecent(page[x])'
  <2>1. page'[x] = Touch({s})[x] /\ UNCHANGED <<status, productOf, withdrawn, chosen, lost>>
    BY <1>10 DEF CancelOrder, history
  <2>2. \A r \in Skus \ {s} : stock'[r] = stock[r]
    BY <1>a, <1>10 DEF CancelOrder, TypeOK
  <2>3. QED
    BY <1>a, <2>1, <2>2, FormKept DEF Ever
<1>11. CASE UNCHANGED vars
  BY <1>11, <1>c DEF vars, skus, history
<1>12. QED
  BY <1>1, <1>2, <1>3, <1>4, <1>5, <1>6, <1>7, <1>8, <1>9, <1>10, <1>11, NextCases

-----------------------------------------------------------------------------
(* What the administrators meant *)

\* What a save finds on a row that nobody touched since the form was opened.
LEMMA RowOfForm ==
  ASSUME TypeInv, FormInv, NEW a \in Admins, page[a].at = "edit", Exists(page[a].product),
         NEW s \in DOMAIN page[a].stock, s \notin page[a].touched \cup lost
  PROVE  /\ s \in Skus /\ page[a].stock[s] = stock[s]
         /\ stock[s] + ordered[s] = supplied[s]
         /\ stock[s] \in Amounts /\ ordered[s] \in Nat /\ supplied[s] \in Nat
<1>1. s \in Skus /\ page[a].product \in Products /\ page[a].product # None
  BY CatalogueAssumption DEF TypeInv, FormInv, FormsAreRecent, FormIsRecent, TypeOK, Page
<1>2. productOf[s] = page[a].product /\ page[a].stock[s] = stock[s]
  BY DEF FormInv, FormsAreRecent, FormIsRecent
<1>3. stock[s] + ordered[s] = supplied[s]
  BY <1>1, <1>2 DEF FormInv, StockAccounted, HasRow, Ever
<1>4. MaxStock \in Nat /\ MaxOrdered \in Nat
  BY CatalogueAssumption
<1>5. QED
  BY <1>1, <1>2, <1>3, <1>4 DEF TypeInv, TypeOK, Amounts

\* The inductive step of the stock.
LEMMA StockStep == TypeInv /\ FormInv /\ [Next]_vars => StockAccounted'
<1> SUFFICES ASSUME TypeInv, FormInv, [Next]_vars, NEW s \in Skus, HasRow(s)', s \notin lost'
             PROVE  stock'[s] + ordered'[s] = supplied'[s]
  BY DEF StockAccounted
<1>a. TypeOK /\ IdsKept /\ (HasRow(s) /\ s \notin lost => stock[s] + ordered[s] = supplied[s])
  BY DEF TypeInv, FormInv, StockAccounted
<1>b. None \notin Products /\ MaxStock \in Nat /\ MaxOrdered \in Nat
  BY CatalogueAssumption
<1>c. stock[s] \in Nat /\ ordered[s] \in Nat /\ supplied[s] \in Nat
  BY <1>a, <1>b DEF TypeOK, Amounts
<1>1. ASSUME NEW a \in Admins, LoadList(a) \/ OpenNewForm(a)
      PROVE  stock'[s] + ordered'[s] = supplied'[s]
  BY <1>a, <1>1 DEF LoadList, OpenNewForm, HasRow, Ever, Exists, skus, orders, history
<1>2. ASSUME NEW a \in Admins, NEW p \in Products, OpenForm(a, p)
      PROVE  stock'[s] + ordered'[s] = supplied'[s]
  BY <1>a, <1>2 DEF OpenForm, HasRow, Ever, Exists, skus, orders, history
<1>3. ASSUME NEW a \in Admins, NEW p \in Products, SetProductStatus(a, p)
      PROVE  stock'[s] + ordered'[s] = supplied'[s]
  BY <1>a, <1>3 DEF SetProductStatus, TypeOK, HasRow, Ever, Exists, skus, orders
<1>4. ASSUME NEW a \in Admins, NEW p \in Products, RemoveProduct(a, p)
      PROVE  stock'[s] + ordered'[s] = supplied'[s]
  BY <1>a, <1>4 DEF RemoveProduct, TypeOK, HasRow, Ever, Exists, skus, orders, history
<1>5. ASSUME NEW a \in Admins, NEW p \in Products, NEW new \in NewIds, NEW n \in 0..MaxStock,
             NEW st \in Typed, CreateProduct(a, p, new, n, st)
      PROVE  stock'[s] + ordered'[s] = supplied'[s]
  <2>1. CASE s \in new
    <3>1. ordered[s] = 0
      BY <1>a, <2>1, NewRows DEF IdsKept
    <3>2. QED
      BY <1>5, <2>1, <3>1 DEF CreateProduct, orders
  <2>2. CASE s \notin new
    <3>1. productOf[s] # p \/ s \notin Ever
      BY <1>a, <1>5 DEF CreateProduct, IdsKept
    <3>2. HasRow(s)
      BY <1>a, <1>b, <1>5, <2>2, <3>1
      DEF CreateProduct, InsertSkus, TypeOK, HasRow, Ever, Exists
    <3>3. QED
      BY <1>a, <1>5, <2>2, <3>2 DEF CreateProduct, orders
  <2>3. QED
    BY <2>1, <2>2
<1>6. ASSUME NEW a \in Admins, NEW new \in NewIds, NEW n \in 0..MaxStock, NEW st \in PRODUCT_STATUS,
             NEW kept \in SUBSET DOMAIN page[a].stock, NEW edited \in {{}, kept},
             UpdateProduct(a, kept, edited, new, n, st)
      PROVE  stock'[s] + ordered'[s] = supplied'[s]
  <2> DEFINE p == page[a].product
  <2>1. page[a].at = "edit" /\ Exists(p) /\ p \in Products /\ ordered' = ordered
    BY <1>6 DEF UpdateProduct, FormInv, FormsAreRecent, FormIsRecent, orders
  <2>2. stock'[s] = IF s \in new \cup edited THEN n
                    ELSE IF s \in kept THEN page[a].stock[s] ELSE stock[s]
    BY <1>6 DEF UpdateProduct, StockWritten
  <2>3. supplied'[s] = IF s \in new THEN n
                       ELSE IF s \in edited THEN (supplied[s] + n) - page[a].stock[s]
                       ELSE supplied[s]
    BY <1>6 DEF UpdateProduct
  <2>4. CASE s \in new
    <3>1. ordered[s] = 0
      BY <1>a, <2>4, NewRows DEF IdsKept
    <3>2. QED
      BY <2>1, <2>2, <2>3, <2>4, <3>1
  <2>5. CASE s \in kept \ new
    <3>1. s \notin page[a].touched \cup lost
      BY <1>6, <2>5 DEF UpdateProduct
    <3>2. page[a].stock[s] = stock[s] /\ stock[s] + ordered[s] = supplied[s]
      BY <2>1, <2>5, <3>1, RowOfForm
    <3>3. QED
      BY <1>c, <2>1, <2>2, <2>3, <2>5, <3>2
  <2>6. CASE s \notin kept \cup new
    <3>1. productOf'[s] = productOf[s] /\ s \notin lost
      BY <1>6, <2>6 DEF UpdateProduct, InsertSkus
    <3>2. \A q \in Products : q # p => status'[q] = status[q]
      BY <1>a, <1>6 DEF UpdateProduct, TypeOK
    <3>3. HasRow(s)
      BY <1>a, <2>1, <3>1, <3>2 DEF HasRow, Ever, Exists, TypeOK
    <3>4. QED
      BY <1>a, <2>1, <2>2, <2>3, <2>6, <3>1, <3>3
  <2>7. QED
    BY <2>4, <2>5, <2>6
<1>7. ASSUME NEW b \in Buyers, NEW items \in SUBSET Skus, CheckItems(b, items)
      PROVE  stock'[s] + ordered'[s] = supplied'[s]
  BY <1>a, <1>7 DEF CheckItems, HasRow, Ever, Exists, skus, orders, history
<1>8. ASSUME NEW b \in Buyers, PlaceOrder(b) PROVE stock'[s] + ordered'[s] = supplied'[s]
  <2>1. HasRow(s) /\ s \notin lost /\ supplied' = supplied
    BY <1>8 DEF PlaceOrder, HasRow, Ever, Exists, history
  <2>2. CASE s \in buying[b]
    BY <1>a, <1>c, <1>8, <2>1, <2>2 DEF PlaceOrder, Enough
  <2>3. CASE s \notin buying[b]
    BY <1>a, <1>8, <2>1, <2>3 DEF PlaceOrder
  <2>4. QED
    BY <2>2, <2>3
<1>9. ASSUME NEW b \in Buyers, RefuseOrder(b) PROVE stock'[s] + ordered'[s] = supplied'[s]
  BY <1>a, <1>9 DEF RefuseOrder, HasRow, Ever, Exists, skus, orders, history
<1>10. ASSUME NEW r \in Skus, CancelOrder(r) PROVE stock'[s] + ordered'[s] = supplied'[s]
  <2>1. HasRow(s) /\ s \notin lost /\ supplied' = supplied
    BY <1>10 DEF CancelOrder, HasRow, Ever, Exists, history
  <2>2. CASE s = r
    BY <1>a, <1>c, <1>10, <2>1, <2>2 DEF CancelOrder, TypeOK
  <2>3. CASE s # r
    BY <1>a, <1>10, <2>1, <2>3 DEF CancelOrder, TypeOK
  <2>4. QED
    BY <2>2, <2>3
<1>11. CASE UNCHANGED vars
  BY <1>a, <1>11 DEF vars, HasRow, Ever, Exists, skus, orders, history
<1>12. QED
  BY <1>1, <1>2, <1>3, <1>4, <1>5, <1>6, <1>7, <1>8, <1>9, <1>10, <1>11, NextCases

\* The inductive step of what is withdrawn: only a save withdraws.
LEMMA WithdrawnStep == TypeInv /\ FormInv /\ [Next]_vars => WithdrawnByHand'
<1> SUFFICES ASSUME TypeInv, FormInv, [Next]_vars PROVE WithdrawnByHand'
  OBVIOUS
<1>a. withdrawn \subseteq takenOff \cup lost
  BY DEF FormInv, WithdrawnByHand
<1>1. ASSUME NEW a \in Admins, NEW new \in NewIds, NEW n \in 0..MaxStock, NEW st \in PRODUCT_STATUS,
             NEW kept \in SUBSET DOMAIN page[a].stock, NEW edited \in {{}, kept},
             UpdateProduct(a, kept, edited, new, n, st)
      PROVE  WithdrawnByHand'
  <2> DEFINE p == page[a].product
             gone == WithdrawnBySave(p, kept, new)
  <2>1. gone \subseteq ActiveSkus(p)
    BY DEF WithdrawnBySave
  <2>2. gone \subseteq DOMAIN page[a].stock \cup page[a].touched \cup lost
    BY <1>1, <2>1 DEF UpdateProduct, FormInv, FormsAreRecent, FormIsRecent
  <2>3. /\ withdrawn' = withdrawn \cup gone
        /\ lost' = lost \cup ((kept \cup gone \cup {p}) \cap page[a].touched)
        /\ takenOff' = takenOff \cup (gone \cap DOMAIN page[a].stock)
    BY <1>1 DEF UpdateProduct
  <2> HIDE DEF gone, p
  <2>4. QED
    BY <1>a, <2>2, <2>3 DEF WithdrawnByHand
<1>2. CASE UNCHANGED <<withdrawn, takenOff, lost>>
  BY <1>a, <1>2 DEF WithdrawnByHand
<1>3. QED
  BY <1>1, <1>2, NextCases
  DEF LoadList, OpenNewForm, OpenForm, SetProductStatus, RemoveProduct, CreateProduct,
      CheckItems, PlaceOrder, RefuseOrder, CancelOrder, vars, skus, history

\* The inductive step of the statuses: a save, the button of the list, and a
\* new product write them.
LEMMA StatusStep == TypeInv /\ FormInv /\ [Next]_vars => StatusAsChosen'
<1> SUFFICES ASSUME TypeInv, FormInv, [Next]_vars, NEW q \in Products, Exists(q)', q \notin lost'
             PROVE  status'[q] = chosen'[q]
  BY DEF StatusAsChosen
<1>a. TypeOK /\ (Exists(q) /\ q \notin lost => status[q] = chosen[q])
  BY DEF TypeInv, FormInv, StatusAsChosen
<1>1. ASSUME NEW a \in Admins, NEW p \in Products, SetProductStatus(a, p)
      PROVE  status'[q] = chosen'[q]
  BY <1>a, <1>1 DEF SetProductStatus, TypeOK, Exists
<1>2. ASSUME NEW a \in Admins, NEW p \in Products, RemoveProduct(a, p)
      PROVE  status'[q] = chosen'[q]
  BY <1>a, <1>2 DEF RemoveProduct, TypeOK, Exists, history
<1>3. ASSUME NEW a \in Admins, NEW p \in Products, NEW new \in NewIds, NEW n \in 0..MaxStock,
             NEW st \in Typed, CreateProduct(a, p, new, n, st)
      PROVE  status'[q] = chosen'[q]
  BY <1>a, <1>3 DEF CreateProduct, TypeOK, Exists
<1>4. ASSUME NEW a \in Admins, NEW new \in NewIds, NEW n \in 0..MaxStock, NEW st \in PRODUCT_STATUS,
             NEW kept \in SUBSET DOMAIN page[a].stock, NEW edited \in {{}, kept},
             UpdateProduct(a, kept, edited, new, n, st)
      PROVE  status'[q] = chosen'[q]
  <2> DEFINE p == page[a].product
  <2>1. /\ page[a].at = "edit" /\ p \in Products /\ Exists(p) /\ lost \subseteq lost'
        /\ p \in page[a].touched => p \in lost'
    BY <1>4 DEF UpdateProduct, FormInv, FormsAreRecent, FormIsRecent
  <2>2. CASE q = p
    <3>1. q \notin page[a].touched \cup lost
      BY <2>1, <2>2
    <3>2. page[a].shown[p] = status[p] /\ status[p] = chosen[p]
      BY <1>a, <2>1, <2>2, <3>1 DEF FormInv, FormsAreRecent, FormIsRecent
    <3>3. QED
      BY <1>a, <1>4, <2>1, <2>2, <3>2 DEF UpdateProduct, StatusWritten, TypeOK
  <2>3. CASE q # p
    BY <1>a, <1>4, <2>1, <2>3 DEF UpdateProduct, TypeOK, Exists
  <2>4. QED
    BY <2>2, <2>3
<1>5. CASE UNCHANGED <<status, chosen, lost>>
  BY <1>a, <1>5 DEF Exists
<1>6. QED
  BY <1>1, <1>2, <1>3, <1>4, <1>5, NextCases
  DEF LoadList, OpenNewForm, OpenForm, CheckItems, PlaceOrder, RefuseOrder, CancelOrder,
      vars, skus, history

-----------------------------------------------------------------------------
(* The SKUs of orders *)

\* The inductive step: only a removed product takes rows away.
LEMMA OrderedStep == TypeInv /\ FormInv /\ OrderedSkusRemain /\ [Next]_vars => OrderedSkusRemain'
<1> SUFFICES ASSUME TypeInv, FormInv, OrderedSkusRemain, [Next]_vars,
                    NEW s \in referenced'
             PROVE  HasRow(s)'
  BY DEF OrderedSkusRemain
<1>a. TypeOK /\ IdsKept /\ referenced \subseteq Skus /\ (s \in referenced => HasRow(s))
  BY DEF TypeInv, TypeOK, OrderedSkusRemain
<1>b. None \notin Products /\ "absent" \notin PRODUCT_STATUS /\ Typed \subseteq PRODUCT_STATUS
  BY CatalogueAssumption DEF PRODUCT_STATUS
<1>c. CASE UNCHANGED <<status, productOf, referenced>>
  BY <1>a, <1>c DEF HasRow, Ever, Exists
<1>d. ASSUME NEW p \in Products, NEW new \in NewIds, referenced' = referenced,
             \A q \in Products : q # p => status'[q] = status[q], status'[p] # "absent",
             productOf' = [x \in Skus |-> IF x \in new THEN p ELSE productOf[x]]
      PROVE  HasRow(s)'
  <2>1. HasRow(s) /\ s \notin new /\ s \in Skus
    BY <1>a, <1>d, NewRows DEF HasRow
  <2>2. productOf'[s] = productOf[s] /\ productOf[s] \in Products
    BY <1>a, <1>d, <2>1 DEF HasRow, Ever, TypeOK
  <2>3. status'[productOf[s]] # "absent"
    BY <1>d, <2>1, <2>2 DEF HasRow, Exists
  <2>4. QED
    BY <1>b, <2>1, <2>2, <2>3 DEF HasRow, Ever, Exists
<1>1. ASSUME NEW a \in Admins, NEW p \in Products, SetProductStatus(a, p) PROVE HasRow(s)'
  <2>1. status' \in [Products -> Statuses] /\ status'[p] # "absent"
    BY <1>a, <1>1 DEF SetProductStatus, ToggledTo, TypeOK, Statuses, PRODUCT_STATUS
  <2>2. \A q \in Products : q # p => status'[q] = status[q]
    BY <1>a, <1>1 DEF SetProductStatus, TypeOK
  <2>3. HasRow(s) /\ productOf' = productOf /\ productOf[s] \in Products
    BY <1>a, <1>1 DEF SetProductStatus, HasRow, Ever, TypeOK, skus, orders
  <2>4. QED
    BY <2>1, <2>2, <2>3 DEF HasRow, Ever, Exists
<1>2. ASSUME NEW a \in Admins, NEW p \in Products, RemoveProduct(a, p) PROVE HasRow(s)'
  <2>1. HasRow(s) /\ productOf[s] # p /\ productOf' = productOf
    BY <1>a, <1>2 DEF RemoveProduct, Removable, skus, orders
  <2>2. \A q \in Products : q # p => status'[q] = status[q]
    BY <1>a, <1>2 DEF RemoveProduct, TypeOK
  <2>3. productOf[s] \in Products
    BY <1>a, <2>1 DEF HasRow, Ever, TypeOK
  <2>4. QED
    BY <2>1, <2>2, <2>3 DEF HasRow, Ever, Exists
<1>3. ASSUME NEW a \in Admins, NEW p \in Products, NEW new \in NewIds, NEW n \in 0..MaxStock,
             NEW st \in Typed, CreateProduct(a, p, new, n, st)
      PROVE  HasRow(s)'
  <2>1. \A q \in Products : q # p => status'[q] = status[q]
    BY <1>a, <1>3 DEF CreateProduct, TypeOK
  <2>2. status'[p] # "absent" /\ referenced' = referenced
    BY <1>a, <1>b, <1>3 DEF CreateProduct, TypeOK, orders
  <2>3. productOf' = [x \in Skus |-> IF x \in new THEN p ELSE productOf[x]]
    BY <1>3 DEF CreateProduct, InsertSkus
  <2>4. QED
    BY <1>d, <2>1, <2>2, <2>3
<1>4. ASSUME NEW a \in Admins, NEW new \in NewIds, NEW n \in 0..MaxStock, NEW st \in PRODUCT_STATUS,
             NEW kept \in SUBSET DOMAIN page[a].stock, NEW edited \in {{}, kept},
             UpdateProduct(a, kept, edited, new, n, st)
      PROVE  HasRow(s)'
  <2>1. PICK p \in Products : p = page[a].product
    BY <1>4 DEF UpdateProduct, FormInv, FormsAreRecent, FormIsRecent
  <2>2. \A q \in Products : q # p => status'[q] = status[q]
    BY <1>a, <1>4, <2>1 DEF UpdateProduct, TypeOK
  <2>3. status'[p] # "absent" /\ referenced' = referenced
    BY <1>a, <1>b, <1>4, <2>1 DEF UpdateProduct, StatusWritten, TypeOK, orders
  <2>4. productOf' = [x \in Skus |-> IF x \in new THEN p ELSE productOf[x]]
    BY <1>4, <2>1 DEF UpdateProduct, InsertSkus
  <2>5. QED
    BY <1>d, <2>2, <2>3, <2>4
<1>5. ASSUME NEW b \in Buyers, PlaceOrder(b) PROVE HasRow(s)'
  <2>1. HasRow(s)
    BY <1>a, <1>5 DEF PlaceOrder, Enough
  <2>2. QED
    BY <1>5, <2>1 DEF PlaceOrder, HasRow, Ever, Exists
<1>6. QED
  BY <1>c, <1>1, <1>2, <1>3, <1>4, <1>5, NextCases
  DEF LoadList, OpenNewForm, OpenForm, CheckItems, RefuseOrder, CancelOrder, vars, skus, orders

-----------------------------------------------------------------------------
(* Theorems *)

\* The seed data satisfy all of it.
LEMMA InitHolds == Init => TypeInv /\ FormInv /\ OrderedSkusRemain
<1> SUFFICES ASSUME NEW p \in Products, NEW x \in Skus, InitWith(p, x)
             PROVE  TypeInv /\ FormInv /\ OrderedSkusRemain
  BY DEF Init
<1>0. 0 \in Amounts /\ 1 \in Amounts /\ 0 \in 0..MaxOrdered /\ None \notin Products
  BY CatalogueAssumption DEF Amounts
<1>1. status \in [Products -> Statuses] /\ productOf \in [Skus -> Products \cup {None}]
  BY DEF InitWith, Statuses, PRODUCT_STATUS
<1>2. List(status) \in Page
  BY <1>1, ListTyped
<1>3. TypeOK
  BY <1>0, <1>1, <1>2 DEF InitWith, TypeOK, NoItems
<1>4. IdsKept
  BY <1>0 DEF InitWith, IdsKept, Ever, Exists
<1>5. FormInv
  BY DEF InitWith, FormInv, FormsAreRecent, FormIsRecent, List, StockAccounted, WithdrawnByHand,
         StatusAsChosen
<1>6. OrderedSkusRemain
  BY DEF InitWith, OrderedSkusRemain
<1>7. QED
  BY <1>3, <1>4, <1>5, <1>6 DEF TypeInv

\* The inductive step of all of it together.
LEMMA InvStep ==
  TypeInv /\ FormInv /\ OrderedSkusRemain /\ [Next]_vars
    => (TypeInv /\ FormInv /\ OrderedSkusRemain)'
BY TypeStep, IdsStep, FormsStep, StockStep, WithdrawnStep, StatusStep, OrderedStep
DEF TypeInv, FormInv

\* Rows, forms and checkouts stay well typed, whatever forms are saved late.
THEOREM CatalogueTyped == Spec => []TypeOK
<1>1. TypeInv => TypeOK
  BY DEF TypeInv
<1>2. QED
  BY <1>1, InitHolds, InvStep, PTL DEF Spec

\* For any number of administrators with forms of any age, and any number of
\* checkouts between them: the shelf and the standing orders add up to what was
\* supplied, but for a row that a form overwrote after it had moved.
THEOREM StockIsAccounted == Spec => []StockAccounted
<1>1. FormInv => StockAccounted
  BY DEF FormInv
<1>2. QED
  BY <1>1, InitHolds, InvStep, PTL DEF Spec

\* No save withdraws a SKU that its administrator did not take off the form,
\* but one that was added, or already overwritten, while the form was open.
THEOREM Withdrawn == Spec => []WithdrawnByHand
<1>1. FormInv => WithdrawnByHand
  BY DEF FormInv
<1>2. QED
  BY <1>1, InitHolds, InvStep, PTL DEF Spec

\* A product has the status that was last chosen, but for one that a form
\* opened before the choice wrote after it.
THEOREM StatusChosen == Spec => []StatusAsChosen
<1>1. FormInv => StatusAsChosen
  BY DEF FormInv
<1>2. QED
  BY <1>1, InitHolds, InvStep, PTL DEF Spec

\* However checkouts, removals and cancels follow each other, and however old
\* the list a product is removed from: a SKU that was ever ordered has a row.
THEOREM SkusRemain == Spec => []OrderedSkusRemain
<1>1. QED
  BY InitHolds, InvStep, PTL DEF Spec

-----------------------------------------------------------------------------
(* Type correctness *)

\* What a request in flight is.
Walk == [at : {"idle", "walk", "write"},
            id : Categories \cup {Root}, to : Categories \cup {Root},
            current : Categories \cup {Root}, visited : SUBSET Categories]

LEMMA IdleIsWalk == Idle \in Walk
BY DEF Idle, Walk

\* Every action keeps the types.
LEMMA CategoryTypeStep == TreeTypeOK /\ [TreeNext]_treeVars => TreeTypeOK'
<1> SUFFICES ASSUME TreeTypeOK, [TreeNext]_treeVars PROVE TreeTypeOK'
  OBVIOUS
<1> USE CategoryAssumption, IdleIsWalk
<1>0. call \in [Editors -> Walk]
  BY DEF TreeTypeOK, Walk
<1>1. ASSUME NEW h \in Editors, NEW c \in Categories, NEW p \in Categories,
             UpdateCategory(h, c, p)
      PROVE  TreeTypeOK'
  BY <1>0, <1>1 DEF UpdateCategory, TreeTypeOK, Walk, Existing
<1>2. ASSUME NEW h \in Editors, WalkRefuses(h) PROVE TreeTypeOK'
  BY <1>0, <1>2 DEF WalkRefuses, Return, TreeTypeOK, Walk, Existing
<1>3. ASSUME NEW h \in Editors, WalkUp(h) PROVE TreeTypeOK'
  <2> DEFINE up == IF call[h].current \in Existing
                   THEN parent[call[h].current] ELSE Root
  <2>1. up \in Categories \cup {Root} /\ call[h].current \in Categories
    BY <1>0, <1>3 DEF WalkUp, TreeTypeOK, Walk
  <2> DEFINE c == call[h]
             r == [c EXCEPT !.current = up, !.visited = c.visited \cup {c.current}]
  <2>2. call' = [call EXCEPT ![h] = r]
    BY <1>3 DEF WalkUp
  <2> HIDE DEF up
  <2>3. r \in Walk
    BY <1>0, <2>1 DEF Walk
  <2>4. call' \in [Editors -> Walk]
    <3> HIDE DEF r
    <3> QED
      BY <1>0, <2>2, <2>3
  <2> QED
    BY <1>3, <2>4 DEF WalkUp, TreeTypeOK, Walk, Existing
<1>4. ASSUME NEW h \in Editors, WalkEnds(h) PROVE TreeTypeOK'
  BY <1>0, <1>4 DEF WalkEnds, TreeTypeOK, Walk, Existing
<1>5. ASSUME NEW h \in Editors, WriteParent(h) PROVE TreeTypeOK'
  BY <1>0, <1>5 DEF WriteParent, Return, TreeTypeOK, Walk, Existing
<1>6. ASSUME NEW h \in Editors, Crash(h) PROVE TreeTypeOK'
  BY <1>0, <1>6 DEF Crash, Return, TreeTypeOK, Walk, Existing
<1>7. ASSUME NEW c \in Categories, RemoveCategory(c) PROVE TreeTypeOK'
  BY <1>7 DEF RemoveCategory, Remove, TreeTypeOK, Existing
<1>8. ASSUME NEW c \in Categories, NEW p \in Categories \cup {Root},
             CreateCategory(c, p)
      PROVE  TreeTypeOK'
  BY <1>8 DEF CreateCategory, TreeTypeOK, Existing
<1>9. CASE UNCHANGED treeVars
  BY <1>9 DEF treeVars, TreeTypeOK, Existing
<1> QED
  BY <1>1, <1>2, <1>3, <1>4, <1>5, <1>6, <1>7, <1>8, <1>9 DEF TreeNext, Progress

\* Every state of CategoryTree is of its type: the parent of a category exists
\* or is the root, which is what the foreign key of the table keeps.
THEOREM CategoryTyped == TreeSpec => []TreeTypeOK
<1>1. TreeInit => TreeTypeOK
  BY CategoryAssumption, IdleIsWalk DEF TreeInit, TreeTypeOK, Existing, Walk
<1> QED
  BY <1>1, CategoryTypeStep, PTL DEF TreeSpec

-----------------------------------------------------------------------------
(* The tree *)

\* Without an overlap, the only request in flight is h's.
OneAtATime ==
  ~overlap => \A g, h \in Editors :
                 call[g].at # "idle" /\ call[h].at # "idle" => g = h

\* What the walk of a request has shown: it started at the new parent, and the
\* way up from each category it passed stays among those, or goes on from
\* where it stands. The category to be moved is none of them.
Climbed(c) ==
  /\ c.id \in Categories /\ c.to \in Categories
  /\ c.id \notin c.visited
  /\ c.to \in c.visited \/ (c.at = "walk" /\ c.to = c.current)
  /\ \A v \in c.visited \cap Existing : parent[v] \in c.visited \cup {c.current, Root}
  /\ c.at = "write" => c.current = Root

WalksClimb == ~overlap => \A h \in Editors : call[h].at # "idle" => Climbed(call[h])

TreeInv == OneAtATime /\ WalksClimb /\ SerialUpdatesKeepTree

\* A removal leaves a tree: what had a parent within a set still has it.
LEMMA RemovalKeepsTree ==
  ASSUME TreeTypeOK, Acyclic, NEW c \in Categories, Remove(c)
  PROVE  Acyclic'
<1> SUFFICES ASSUME NEW S \in SUBSET Existing', S # {},
                    \A d \in S : parent'[d] \in S
             PROVE  FALSE
  BY DEF Acyclic
<1>1. S \subseteq Existing \ {c} /\ Root \notin S
  BY CategoryAssumption DEF Remove, Existing, TreeTypeOK
<1>2. \A d \in S : parent[d] \in S
  BY <1>1 DEF Remove, Existing
<1> QED
  BY <1>1, <1>2 DEF Acyclic

\* Nothing is below a category when it is created.
LEMMA CreationKeepsTree ==
  ASSUME TreeTypeOK, Acyclic, NEW c \in Categories, NEW p \in Categories \cup {Root},
         CreateCategory(c, p)
  PROVE  Acyclic'
<1> SUFFICES ASSUME NEW S \in SUBSET Existing', S # {},
                    \A d \in S : parent'[d] \in S
             PROVE  FALSE
  BY DEF Acyclic
<1> DEFINE T == S \ {c}
<1>1. T \subseteq Existing /\ Root \notin S /\ c \notin Existing
  BY CategoryAssumption DEF CreateCategory, Existing, TreeTypeOK
<1>2. \A d \in T : parent[d] \in T
  <2> SUFFICES ASSUME NEW d \in T PROVE parent[d] \in T
    OBVIOUS
  <2>1. parent'[d] = parent[d] /\ parent[d] \in Existing \cup {Root}
    BY <1>1 DEF CreateCategory, TreeTypeOK
  <2> QED
    BY <2>1, <1>1 DEF TreeTypeOK
<1>3. T # {}
  <2>1. CASE c \in S
    <3>1. parent'[c] = p /\ p \in S
      BY <2>1, <1>1 DEF CreateCategory, Existing
    <3>2. p # c
      BY <3>1, <1>1, CategoryAssumption DEF CreateCategory
    <3> QED
      BY <3>1, <3>2
  <2>2. CASE c \notin S
    BY <2>2
  <2> QED
    BY <2>1, <2>2
<1> QED
  BY <1>1, <1>2, <1>3 DEF Acyclic

\* A move after a walk leaves a tree: a set that is closed under the new
\* parents and holds the moved category would hold, with the new parent, a set
\* of passed categories that was closed before.
LEMMA MoveKeepsTree ==
  ASSUME TreeTypeOK, Acyclic, NEW h \in Editors, call[h].at = "write", Climbed(call[h]),
         WriteParent(h)
  PROVE  Acyclic'
<1> DEFINE id == call[h].id
           to == call[h].to
           V == call[h].visited
<1>1. CASE ~(id \in Existing /\ to \in Existing)
  BY <1>1 DEF WriteParent, Acyclic, Existing
<1>2. CASE id \in Existing /\ to \in Existing
  <2>1. parent' = [parent EXCEPT ![id] = to] /\ Existing' = Existing
    BY <1>2 DEF WriteParent, Existing
  <2> SUFFICES ASSUME NEW S \in SUBSET Existing, S # {},
                      \A d \in S : parent'[d] \in S
               PROVE  FALSE
    BY <2>1 DEF Acyclic
  <2>2. \A d \in S : d # id => parent[d] \in S
    BY <2>1 DEF Existing
  <2>3. CASE id \notin S
    BY <2>2, <2>3 DEF Acyclic
  <2>4. CASE id \in S
    <3> DEFINE T == S \cap V
    <3>1. id \notin V /\ to \in V /\ \A v \in V \cap Existing : parent[v] \in V \cup {Root}
      BY DEF Climbed
    <3>2. parent'[id] = to
      BY <1>2, <2>1 DEF Existing
    <3>3. to \in T
      BY <2>4, <3>1, <3>2
    <3>4. Root \notin S
      BY CategoryAssumption DEF TreeTypeOK
    <3>5. \A d \in T : parent[d] \in T
      BY <2>2, <3>1, <3>4
    <3>6. T \in SUBSET Existing
      OBVIOUS
    <3> QED
      BY <3>3, <3>5, <3>6 DEF Acyclic
  <2> QED
    BY <2>3, <2>4
<1> QED
  BY <1>1, <1>2

LEMMA TreeStep == TreeTypeOK /\ TreeInv /\ [TreeNext]_treeVars => TreeInv'
<1> SUFFICES ASSUME TreeTypeOK, TreeInv, [TreeNext]_treeVars PROVE TreeInv'
  OBVIOUS
<1>0. /\ overlap \in BOOLEAN /\ Root \notin Categories
      /\ call \in [Editors -> Walk] /\ Existing \subseteq Categories
      /\ parent \in [Existing -> Existing \cup {Root}]
  BY CategoryAssumption DEF TreeTypeOK, Walk
<1> USE DEF OneAtATime, WalksClimb, SerialUpdatesKeepTree
<1>1. ASSUME NEW h \in Editors, NEW c \in Categories, NEW p \in Categories,
             UpdateCategory(h, c, p)
      PROVE  TreeInv'
  <2>1. ~overlap' => ~overlap /\ \A g \in Editors : call[g].at = "idle"
    BY <1>1 DEF UpdateCategory
  <2>2. /\ \A g \in Editors : g # h => call'[g] = call[g]
        /\ call'[h] = [at |-> "walk", id |-> c, to |-> p, current |-> p, visited |-> {}]
        /\ parent' = parent
    BY <1>0, <1>1 DEF UpdateCategory
  <2>3. OneAtATime'
    BY <2>1, <2>2
  <2>4. Climbed(call[h])'
    BY <2>2 DEF Climbed
  <2>5. WalksClimb'
    BY <2>1, <2>2, <2>4
  <2>6. SerialUpdatesKeepTree'
    BY <2>1, <2>2 DEF TreeInv, Acyclic, Existing
  <2> QED
    BY <2>3, <2>5, <2>6 DEF TreeInv
<1>2. ASSUME NEW h \in Editors, call[h].at # "idle", Return(h), UNCHANGED overlap
      PROVE  OneAtATime' /\ (UNCHANGED parent => TreeInv')
  <2>1. /\ \A g \in Editors : g # h => call'[g] = call[g]
        /\ call'[h].at = "idle"
    BY <1>0, <1>2 DEF Return, Idle
  <2>2. OneAtATime'
    BY <2>1, <1>2 DEF TreeInv
  <2>3. UNCHANGED parent => SerialUpdatesKeepTree' /\ WalksClimb'
    BY <2>1, <1>2 DEF TreeInv, Acyclic, Existing, Climbed
  <2> QED
    BY <2>2, <2>3 DEF TreeInv
<1>3. ASSUME NEW h \in Editors, WalkUp(h) PROVE TreeInv'
  <2> DEFINE c == call[h]
             up == IF c.current \in Existing THEN parent[c.current] ELSE Root
  <2>1. /\ c.at = "walk" /\ c.current # Root /\ ~ClosesCycle(h)
        /\ UNCHANGED <<parent, overlap>>
        /\ \A g \in Editors : g # h => call'[g] = call[g]
        /\ c \in Walk
    BY <1>0, <1>3 DEF WalkUp
  <2> DEFINE r == [c EXCEPT !.current = up, !.visited = c.visited \cup {c.current}]
  <2>2. call' = [call EXCEPT ![h] = r]
    BY <1>3 DEF WalkUp
  <2>3. /\ call'[h].at = "walk" /\ call'[h].id = c.id /\ call'[h].to = c.to
        /\ call'[h].current = up /\ call'[h].visited = c.visited \cup {c.current}
    <3>1. call'[h] = r
      <4> HIDE DEF r
      <4> QED
        BY <1>0, <2>2
    <3> HIDE DEF up
    <3> QED
      BY <2>1, <3>1 DEF Walk
  <2>4. Climbed(c) => Climbed(call[h])'
    <3> SUFFICES ASSUME Climbed(c) PROVE Climbed(call[h])'
      OBVIOUS
    <3>1. Existing' = Existing
      BY <2>1 DEF Existing
    <3>2. \A v \in call'[h].visited \cap Existing :
             parent[v] \in call'[h].visited \cup {up, Root}
      BY <2>3 DEF Climbed
    <3>3. c.id # c.current
      BY <2>1 DEF ClosesCycle
    <3> QED
      BY <2>1, <2>3, <3>1, <3>2, <3>3 DEF Climbed
  <2>5. OneAtATime' /\ SerialUpdatesKeepTree'
    BY <2>1, <2>3 DEF TreeInv, Acyclic, Existing
  <2>6. WalksClimb'
    <3> SUFFICES ASSUME ~overlap', NEW g \in Editors, call'[g].at # "idle"
                 PROVE  Climbed(call[g])'
      OBVIOUS
    <3>1. CASE g = h
      BY <2>1, <2>4, <3>1 DEF TreeInv
    <3>2. CASE g # h
      BY <2>1, <2>3, <3>2 DEF TreeInv
    <3> QED
      BY <3>1, <3>2
  <2> QED
    BY <2>5, <2>6 DEF TreeInv
<1>4. ASSUME NEW h \in Editors, WalkEnds(h) PROVE TreeInv'
  <2>1. /\ call[h].at = "walk" /\ call[h].current = Root
        /\ UNCHANGED <<parent, overlap>>
        /\ \A g \in Editors : g # h => call'[g] = call[g]
        /\ call'[h].at = "write" /\ call'[h].id = call[h].id /\ call'[h].to = call[h].to
        /\ call'[h].current = Root /\ call'[h].visited = call[h].visited
    BY <1>0, <1>4 DEF WalkEnds, Walk
  <2>2. Climbed(call[h]) => Climbed(call[h])'
    BY <1>0, <2>1 DEF Climbed, Existing
  <2>3. OneAtATime' /\ SerialUpdatesKeepTree'
    BY <2>1 DEF TreeInv, Acyclic, Existing
  <2>4. WalksClimb'
    BY <2>1, <2>2 DEF TreeInv
  <2> QED
    BY <2>3, <2>4 DEF TreeInv
<1>5. ASSUME NEW h \in Editors, WriteParent(h) PROVE TreeInv'
  <2>1. call[h].at = "write" /\ Return(h) /\ UNCHANGED overlap
    BY <1>5 DEF WriteParent
  <2>2. OneAtATime'
    BY <1>2, <2>1
  <2>3. WalksClimb'
    BY <1>0, <2>1 DEF TreeInv, Return, Idle
  <2>4. SerialUpdatesKeepTree'
    BY <1>5, <2>1, MoveKeepsTree DEF TreeInv
  <2> QED
    BY <2>2, <2>3, <2>4 DEF TreeInv
<1>6. ASSUME NEW c \in Categories, RemoveCategory(c) PROVE TreeInv'
  <2>1. Remove(c) /\ UNCHANGED <<call, overlap>>
    BY <1>6 DEF RemoveCategory
  <2>2. ASSUME NEW h \in Editors, Climbed(call[h]) PROVE Climbed(call[h])'
    <3>1. \A v \in Existing' : v \in Existing /\ parent'[v] \in {parent[v], Root}
      BY <2>1 DEF Remove, Existing
    <3> QED
      BY <2>1, <2>2, <3>1 DEF Climbed
  <2>3. SerialUpdatesKeepTree'
    BY <2>1, RemovalKeepsTree DEF TreeInv
  <2> QED
    BY <2>1, <2>2, <2>3 DEF TreeInv
<1>7. ASSUME NEW c \in Categories, NEW p \in Categories \cup {Root},
             CreateCategory(c, p)
      PROVE  TreeInv'
  <2>1. /\ UNCHANGED <<call, overlap>>
        /\ \A h \in Editors : c \notin call[h].visited
        /\ \A v \in Existing' : v # c => v \in Existing /\ parent'[v] = parent[v]
    BY <1>7 DEF CreateCategory, Existing
  <2>2. ASSUME NEW h \in Editors, Climbed(call[h]) PROVE Climbed(call[h])'
    BY <2>1, <2>2 DEF Climbed
  <2>3. SerialUpdatesKeepTree'
    BY <1>7, <2>1, CreationKeepsTree DEF TreeInv
  <2> QED
    BY <2>1, <2>2, <2>3 DEF TreeInv
<1>8. CASE UNCHANGED treeVars
  BY <1>8 DEF treeVars, TreeInv, Acyclic, Existing, Climbed
<1>9. ASSUME NEW h \in Editors, WalkRefuses(h) PROVE TreeInv'
  BY <1>2, <1>9 DEF WalkRefuses
<1>10. ASSUME NEW h \in Editors, Crash(h) PROVE TreeInv'
  BY <1>2, <1>10 DEF Crash
<1> QED
  BY <1>1, <1>3, <1>4, <1>5, <1>6, <1>7, <1>8, <1>9, <1>10 DEF TreeNext, Progress

\* As long as no two updates ran beside each other, every category has a way
\* to the root: the query per level of updateCategory needs no lock against
\* creations and removals.
THEOREM SerialTree == TreeSpec => []SerialUpdatesKeepTree
<1>1. TreeInit => TreeInv
  <2> SUFFICES ASSUME TreeInit PROVE TreeInv
    OBVIOUS
  <2>1. \A h \in Editors : call[h].at = "idle"
    BY DEF TreeInit, Idle
  <2>2. Acyclic
    BY CategoryAssumption DEF TreeInit, Acyclic, Existing
  <2> QED
    BY <2>1, <2>2 DEF TreeInv, OneAtATime, WalksClimb, SerialUpdatesKeepTree
<1>2. TreeInv => SerialUpdatesKeepTree
  BY DEF TreeInv
<1> QED
  BY <1>1, <1>2, CategoryTyped, TreeStep, PTL DEF TreeSpec
=============================================================================

------------------------------ MODULE Checkout ------------------------------
(***************************************************************************)
(* usecases/checkout with the stock of domains/product: checkouts reserve  *)
(* the stock of their lines one UPDATE at a time, create the order and     *)
(* record the idempotency key, in one transaction; cancelling an order     *)
(* gives its stock back the same way. An UPDATE holds the lock of its row  *)
(* until the transaction ends, so transactions wait for each other, also   *)
(* in circles, which the database breaks by aborting one of them.          *)
(***************************************************************************)
EXTENDS Integers, Sequences, FiniteSets, Functions, SequencesExt

CONSTANTS
  Skus,
  Addresses,
  Bodies,       \* request bodies: an address and the items
  Keys,         \* idempotency keys, each of one user
  Callers,      \* requests being served
  Orders,       \* order ids
  InitialStock,
  NoKey, NoBody, NoOrder, Nobody

ASSUME CheckoutAssumption ==
  /\ IsFiniteSet(Orders) /\ IsFiniteSet(Callers)
  /\ \A b \in Bodies :
       /\ b.address \in Addresses
       /\ b.items \in Seq([sku : Skus, quantity : Nat \ {0}])
  /\ InitialStock \in [Skus -> Nat]
  /\ NoKey \notin Keys /\ NoBody \notin Bodies /\ NoOrder \notin Orders
  /\ Nobody \notin Callers

\* The SKUs of a body and what it asks of each: repeated lines are merged.
SkusOf ==
  [b \in Bodies |->
     FoldLeft(LAMBDA seen, item : IF Contains(seen, item.sku) THEN seen
                                  ELSE Append(seen, item.sku), <<>>, b.items)]

Quantity ==
  [b \in Bodies |-> [s \in Skus |->
     FoldLeft(LAMBDA sum, item : IF item.sku = s THEN sum + item.quantity
                                 ELSE sum, 0, b.items)]]

\* buildBodyHash sorts the items by SKU and does not merge them: the same for
\* the same items in another order.
BodyHash ==
  [b \in Bodies |->
     <<b.address, [s \in Skus |-> SelectSeq(b.items, LAMBDA item : item.sku = s)]>>]

VARIABLES
  stock,       \* product_skus.stock, as the next UPDATE of the row finds it
  locked,      \* the transaction that holds the row of a SKU
  orderStatus, \* absent, open, cancelling (its transaction is under way), cancelled
  orderBody,   \* the body an order was created from
  orderKey,    \* the idempotency key that stands for an order
  keyRow,      \* the order and body hash in checkout_idempotency_keys
  call         \* the requests being served

orderVars == <<orderStatus, orderBody, orderKey>>
vars == <<stock, locked, orderVars, keyRow, call>>

NoRow == [order |-> NoOrder, hash |-> NoBody]

\* "reserve" and "restore" are inside a transaction; todo is what it has still
\* to update. A finished call shows its answer until it is handed out.
Idle == [at |-> "idle", body |-> NoBody, key |-> NoKey, order |-> NoOrder,
         todo |-> <<>>, answer |-> "none"]

Call == [at : {"idle", "reserve", "reread", "restore", "done"},
         body : Bodies \cup {NoBody}, key : Keys \cup {NoKey},
         order : Orders \cup {NoOrder}, todo : Seq(Skus),
         answer : {"none", "created", "replayed", "mismatch", "cancelled", "error"}]

TypeOK ==
  /\ stock \in [Skus -> Nat]
  /\ locked \in [Skus -> Callers \cup {Nobody}]
  /\ orderStatus \in [Orders -> {"absent", "open", "cancelling", "cancelled"}]
  /\ orderBody \in [Orders -> Bodies \cup {NoBody}]
  /\ orderKey \in [Orders -> Keys \cup {NoKey}]
  /\ keyRow \in [Keys -> [order : Orders \cup {NoOrder},
                          hash : {BodyHash[b] : b \in Bodies} \cup {NoBody}]]
  /\ call \in [Callers -> Call]

Init ==
  /\ stock = InitialStock
  /\ locked = [s \in Skus |-> Nobody]
  /\ orderStatus = [o \in Orders |-> "absent"]
  /\ orderBody = [o \in Orders |-> NoBody]
  /\ orderKey = [o \in Orders |-> NoKey]
  /\ keyRow = [k \in Keys |-> NoRow]
  /\ call = [c \in Callers |-> Idle]

-----------------------------------------------------------------------------
(* Answers and transactions *)

Answer(c, answer, o) ==
  call' = [call EXCEPT ![c] = [@ EXCEPT !.at = "done", !.answer = answer,
                                        !.order = o, !.todo = <<>>]]

Unlock(c) == locked' = [s \in Skus |-> IF locked[s] = c THEN Nobody ELSE locked[s]]

\* What the transaction of c has done to the stock of the rows it holds.
Done(c, s) ==
  IF locked[s] # c THEN 0
  ELSE IF call[c].at = "reserve" THEN -Quantity[call[c].body][s]
                                 ELSE Quantity[call[c].body][s]

\* The committed stock of a SKU, which is what a statement finds first.
Committed(s) == stock[s] - (IF locked[s] = Nobody THEN 0 ELSE Done(locked[s], s))

Row(k) == IF k = NoKey THEN NoRow ELSE keyRow[k]

\* Fault: a transaction that returns an error commits what it has done.
CommitOnError(c) ==
  /\ UNCHANGED <<stock, keyRow>>
  /\ Unlock(c)
  /\ orderStatus' = [o \in Orders |-> IF call[c].at = "restore" /\ call[c].order = o
                                      THEN "open" ELSE orderStatus[o]]
  /\ UNCHANGED <<orderBody, orderKey>>

\* withTransaction turns an err() into a rollback of everything.
Rollback(c) ==
  /\ stock' = [s \in Skus |-> stock[s] - Done(c, s)]
  /\ Unlock(c)
  /\ orderStatus' = [o \in Orders |-> IF call[c].at = "restore" /\ call[c].order = o
                                      THEN "open" ELSE orderStatus[o]]
  /\ UNCHANGED <<orderBody, orderKey, keyRow>>

-----------------------------------------------------------------------------
(* Checkout *)

\* The orders there is room for: a bound of the model.
Room == Cardinality({o \in Orders : orderStatus[o] = "absent"})
          > Cardinality({c \in Callers : call[c].at = "reserve"})

\* Fault: the lines are taken as the query for their SKUs returned them.
BeginCheckoutAsRead(c, b, k) ==
  LET row == Row(k) IN
  /\ call[c].at = "idle" /\ Room /\ row = NoRow
  /\ \E lines \in SetToSeqs(Range(SkusOf[b])) :
       call' = [call EXCEPT ![c] = [Idle EXCEPT !.at = "reserve", !.body = b,
                                                !.key = k, !.todo = lines]]
  /\ UNCHANGED <<stock, locked, orderVars, keyRow>>

\* The lookup of the key: a replay, a mismatch, or the transaction begins.
BeginCheckout(c, b, k) ==
  LET row == Row(k) IN
  /\ call[c].at = "idle" /\ Room
  /\ \/ /\ row = NoRow
        /\ call' = [call EXCEPT ![c] = [Idle EXCEPT !.at = "reserve", !.body = b,
                                                    !.key = k, !.todo = SkusOf[b]]]
     \/ /\ row # NoRow
        /\ call' = [call EXCEPT ![c] =
             [Idle EXCEPT !.at = "done", !.body = b, !.key = k,
                !.order = IF row.hash = BodyHash[b] THEN row.order ELSE NoOrder,
                !.answer = IF row.hash = BodyHash[b] THEN "replayed" ELSE "mismatch"]]
  /\ UNCHANGED <<stock, locked, orderVars, keyRow>>

\* A SKU or the address does not exist, or a product is not published.
RefuseLines(c) ==
  /\ call[c].at = "reserve" /\ call[c].todo = SkusOf[call[c].body]
  /\ Rollback(c)
  /\ Answer(c, "error", NoOrder)

\* WHERE stock >= quantity.
Enough(s, q) == Committed(s) >= q

\* reduceProductStock: a row that matches is updated once it is not locked, and
\* compared again if it has changed by then; one that does not match is not
\* waited for.
ReduceProductStock(c) ==
  LET s == Head(call[c].todo)
      q == Quantity[call[c].body][s]
  IN
  /\ call[c].at = "reserve" /\ call[c].todo # <<>>
  /\ \/ /\ locked[s] = Nobody /\ Enough(s, q)
        /\ stock' = [stock EXCEPT ![s] = @ - q]
        /\ locked' = [locked EXCEPT ![s] = c]
        /\ call' = [call EXCEPT ![c].todo = Tail(@)]
        /\ UNCHANGED <<orderVars, keyRow>>
     \/ ~Enough(s, q) /\ Rollback(c) /\ Answer(c, "error", NoOrder)

\* Fault: a duplicate key is skipped (ON CONFLICT DO NOTHING), and commits.
CommitOrderTwice(c) ==
  LET k == call[c].key
      o == CHOOSE x \in Orders : orderStatus[x] = "absent"
  IN
  /\ call[c].at = "reserve" /\ call[c].todo = <<>>
  /\ orderStatus' = [orderStatus EXCEPT ![o] = "open"]
  /\ orderBody' = [orderBody EXCEPT ![o] = call[c].body]
  /\ orderKey' = [orderKey EXCEPT ![o] = k]
  /\ keyRow' = IF k = NoKey \/ Row(k) # NoRow THEN keyRow
               ELSE [keyRow EXCEPT ![k] = [order |-> o,
                                           hash |-> BodyHash[call[c].body]]]
  /\ Unlock(c)
  /\ Answer(c, "created", o)
  /\ UNCHANGED stock

\* createOrderRecord: a new order, pending, with the lines of the body.
CreateOrderRecord(o, b) ==
  /\ orderStatus' = [orderStatus EXCEPT ![o] = "open"]
  /\ orderBody' = [orderBody EXCEPT ![o] = b]

\* createOrderRecord and the insert of the key, then the commit. A key that is
\* there by now raises a unique violation, which rolls everything back.
CommitOrder(c) ==
  LET k == call[c].key
      o == CHOOSE x \in Orders : orderStatus[x] = "absent"
  IN
  /\ call[c].at = "reserve" /\ call[c].todo = <<>>
  /\ \/ /\ Row(k) = NoRow
        /\ CreateOrderRecord(o, call[c].body)
        /\ orderKey' = [orderKey EXCEPT ![o] = k]
        /\ keyRow' = IF k = NoKey THEN keyRow
                     ELSE [keyRow EXCEPT ![k] = [order |-> o,
                                                 hash |-> BodyHash[call[c].body]]]
        /\ Unlock(c)
        /\ Answer(c, "created", o)
        /\ UNCHANGED stock
     \/ /\ Row(k) # NoRow
        /\ Rollback(c)
        /\ call' = [call EXCEPT ![c].at = "reread"]

\* After the unique violation: the order of the key, whatever its body. The
\* key may be gone again, then the violation is thrown on.
RereadKey(c) ==
  LET row == keyRow[call[c].key] IN
  /\ call[c].at = "reread"
  /\ IF row = NoRow THEN Answer(c, "error", NoOrder)
                    ELSE Answer(c, "replayed", row.order)
  /\ UNCHANGED <<stock, locked, orderVars, keyRow>>

-----------------------------------------------------------------------------
(* Cancelling, the clean-up of keys, deadlocks and crashes *)

\* cancelOrder holds the order and restores its items, which it reads in no
\* particular order: they were all created in the same instant.
BeginCancel(c, o) ==
  /\ call[c].at = "idle" /\ orderStatus[o] = "open"
  /\ orderStatus' = [orderStatus EXCEPT ![o] = "cancelling"]
  /\ \E items \in SetToSeqs(Range(SkusOf[orderBody[o]])) :
       call' = [call EXCEPT ![c] = [Idle EXCEPT !.at = "restore", !.order = o,
                                      !.body = orderBody[o], !.todo = items]]
  /\ UNCHANGED <<stock, locked, orderBody, orderKey, keyRow>>

RestoreProductStock(c) ==
  LET s == Head(call[c].todo) IN
  /\ call[c].at = "restore" /\ call[c].todo # <<>>
  /\ locked[s] = Nobody
  /\ stock' = [stock EXCEPT ![s] = @ + Quantity[call[c].body][s]]
  /\ locked' = [locked EXCEPT ![s] = c]
  /\ call' = [call EXCEPT ![c].todo = Tail(@)]
  /\ UNCHANGED <<orderVars, keyRow>>

CommitCancel(c) ==
  /\ call[c].at = "restore" /\ call[c].todo = <<>>
  /\ orderStatus' = [orderStatus EXCEPT ![call[c].order] = "cancelled"]
  /\ Unlock(c)
  /\ Answer(c, "cancelled", call[c].order)
  /\ UNCHANGED <<stock, orderBody, orderKey, keyRow>>

\* pruneIdempotencyKeys: the key no longer stands for its order.
PruneIdempotencyKey(k) ==
  /\ keyRow[k] # NoRow
  /\ orderKey' = [orderKey EXCEPT ![keyRow[k].order] = NoKey]
  /\ keyRow' = [keyRow EXCEPT ![k] = NoRow]
  /\ UNCHANGED <<stock, locked, orderStatus, orderBody, call>>

InTransaction(c) == call[c].at \in {"reserve", "restore"}

\* The transaction whose lock c waits for, Nobody if it does not wait.
WaitsFor(c) ==
  LET s == Head(call[c].todo) IN
  IF \/ ~InTransaction(c) \/ call[c].todo = <<>>
     \/ call[c].at = "reserve" /\ ~Enough(s, Quantity[call[c].body][s])
  THEN Nobody ELSE locked[s]

\* A circle: calls that wait for each other and for nobody else.
Circle(S) == S # {} /\ {WaitsFor(c) : c \in S} = S

InCircle(c) == \E S \in SUBSET Callers : c \in S /\ Circle(S)

\* The database aborts one transaction of a circle; checkout and cancelOrder
\* let the error through.
DeadlockAbort(c) ==
  /\ InCircle(c)
  /\ Rollback(c)
  /\ Answer(c, "error", NoOrder)

\* The process dies: the database rolls back what was under way.
Crash(c) ==
  /\ call[c].at # "idle"
  /\ Rollback(c)
  /\ call' = [call EXCEPT ![c] = Idle]

Respond(c) ==
  /\ call[c].at = "done"
  /\ call' = [call EXCEPT ![c] = Idle]
  /\ UNCHANGED <<stock, locked, orderVars, keyRow>>

-----------------------------------------------------------------------------
Progress(c) ==
  \/ ReduceProductStock(c) \/ CommitOrder(c) \/ RereadKey(c)
  \/ RestoreProductStock(c) \/ CommitCancel(c) \/ DeadlockAbort(c)

Next ==
  \/ \E c \in Callers :
       \/ \E b \in Bodies, k \in Keys \cup {NoKey} : BeginCheckout(c, b, k)
       \/ \E o \in Orders : BeginCancel(c, o)
       \/ RefuseLines(c) \/ Progress(c) \/ Crash(c) \/ Respond(c)
  \/ \E k \in Keys : PruneIdempotencyKey(k)

Spec == Init /\ [][Next]_vars

-----------------------------------------------------------------------------
(* What holds *)

\* What the open orders hold of a SKU.
Held(s) ==
  [o \in Orders |-> IF orderStatus[o] \in {"open", "cancelling"}
                   THEN Quantity[orderBody[o]][s] ELSE 0]

Placed(s) == SumFunction(Held(s))

\* Nothing is sold twice or lost: the committed stock and what open orders hold
\* make up what the shop began with, whichever transactions roll back, collide
\* on a key, deadlock or crash.
StockConserved ==
  \A s \in Skus :
    Committed(s) + Placed(s) = InitialStock[s] /\ Committed(s) >= 0

\* "Otherwise concurrent requests with the same key would each commit an
\* order": a key stands for one order, the one its row names, made from a body
\* with the hash it recorded.
KeyStandsForOneOrder ==
  \A k \in Keys :
    /\ {o \in Orders : orderKey[o] = k}
         = IF keyRow[k] = NoRow THEN {} ELSE {keyRow[k].order}
    /\ keyRow[k] # NoRow =>
         /\ orderStatus[keyRow[k].order] # "absent"
         /\ BodyHash[orderBody[keyRow[k].order]] = keyRow[k].hash

\* The body of a checkout names s before t.
Before(c, s, t) ==
  LET lines == SkusOf[call[c].body] IN
  \E i, j \in DOMAIN lines : i < j /\ lines[i] = s /\ lines[j] = t

\* Of any SKUs there is one that none of the checkouts names before another.
NamedInOneOrder(S) ==
  \A T \in (SUBSET Skus) \ {{}} : \E s \in T : \A c \in S, t \in T : ~Before(c, s, t)

\* The loop of checkout over its lines (service.ts:102) takes rows in the order
\* of the request and no other: checkouts alone get into each other's way only
\* if their bodies name SKUs in opposite orders, however many they are and
\* whatever cancels wait beside them.
DeadlockNeedsOppositeOrders ==
  \A S \in SUBSET {c \in Callers : call[c].at = "reserve"} :
    Circle(S) => ~NamedInOneOrder(S)

-----------------------------------------------------------------------------
(* What comments say, and the code does not keep *)

\* checkout: the same key with another body is refused, never answered with
\* the order of the first body.
ReplayHasSameBody ==
  \A c \in Callers :
    call[c].answer = "replayed" =>
      BodyHash[orderBody[call[c].order]] = BodyHash[call[c].body]
=============================================================================

----------------------------- MODULE OrderStore -----------------------------
(***************************************************************************)
(* postgresTaskRepository.CreateOrder and the handlers around it: every    *)
(* request runs one READ COMMITTED transaction, statement by statement,    *)
(* interleaved with the transactions of the other requests.                *)
(*                                                                         *)
(* An uncommitted row lives in staged (inserts) and taken (the UPDATE of   *)
(* stock_qty); db and stock are what is committed.  The unique index on    *)
(* idempotency_keys makes an INSERT of a key wait while another open       *)
(* transaction has inserted it; FOR UPDATE locks a product row until the   *)
(* end of the transaction.                                                 *)
(***************************************************************************)
EXTENDS ShopData

CONSTANT Faulty   \* requests that may meet a failing statement, commit or connection

ASSUME FaultsAssumption == Faulty \subseteq Requests

\* The rows a transaction writes for its own order.  "response_order_id" is
\* the UPDATE of the key row, "idempotency_keys" its INSERT.
Tables == {"idempotency_keys", "orders", "order_items",
           "payment_transactions", "response_order_id", "outbox_events"}

VARIABLES
  listed,     \* products whose row is committed
  stock,      \* stock[p]: committed stock_qty
  db,         \* db[t]: the requests whose row of table t is committed
  rowLock,    \* rowLock[p]: the transaction that holds the row lock of p
  pc,         \* the statement request r executes next
  sawKey,     \* sawKey[r]: the key statement's snapshot contains a row for Key[r]
  next,       \* the line the loop over the items is at
  total,      \* total cents summed so far
  payStatus,  \* payment.Status
  staged,     \* tables r's open transaction has written
  taken,      \* taken[r][p]: what r's open transaction subtracted from stock_qty
  answer,     \* the status the client received
  shown       \* the order in the response body

store == <<listed, stock, db, rowLock>>
txn   == <<pc, sawKey, next, total, payStatus, staged, taken>>
reply == <<answer, shown>>
vars  == <<store, txn, reply>>

Answers == {"none", "created", "rejected", "validation_error", "product_not_found",
            "insufficient_stock", "idempotency_conflict", "internal_error"}

\* Between the INSERT of the key and the end of the transaction.
Holding == {"lockItems", "charge", "insertOrder", "insertItems",
            "insertPayment", "updateKey", "insertOutbox", "commit"}

Labels == Holding \cup {"new", "insertKey", "replay", "done"}

Nothing == [p \in Products |-> 0]

Init ==
  /\ listed = {}
  /\ stock = Nothing
  /\ db = [t \in Tables |-> {}]
  /\ rowLock = [p \in Products |-> None]
  /\ pc = [r \in Requests |-> "new"]
  /\ sawKey = [r \in Requests |-> FALSE]
  /\ next = [r \in Requests |-> 1]
  /\ total = [r \in Requests |-> 0]
  /\ payStatus = [r \in Requests |-> "none"]
  /\ staged = [r \in Requests |-> {}]
  /\ taken = [r \in Requests |-> Nothing]
  /\ answer = [r \in Requests |-> "none"]
  /\ shown = [r \in Requests |-> None]
-----------------------------------------------------------------------------
\* Requests whose committed row is the key row of k.
KeyRow(k) == {s \in db["idempotency_keys"] : Key[s] = k}

\* Mutant of KeyHolders: no unique index makes an INSERT wait for another's.
KeyHoldersUnseen(k) == {}

\* Open transactions that inserted key k.
KeyHolders(k) == {s \in Requests : Key[s] = k /\ "idempotency_keys" \in staged[s]}

\* The committed response_order_id of key k: an order, or NULL.
Response(k) ==
  IF KeyRow(k) \cap db["response_order_id"] = {} THEN None
  ELSE CHOOSE s \in KeyRow(k) \cap db["response_order_id"] : TRUE

\* The order line the loops are at.
Item(r) == Items[r][next[r]]

\* Mutant of RowFree: SELECT without FOR UPDATE.
RowFreeAlways(r, p) == TRUE

\* The row lock a FOR UPDATE of p by r needs is free or already r's.
RowFree(r, p) == rowLock[p] \in {None, r}

\* The locks of r's transaction are released.
Unlock(r) == rowLock' = [p \in Products |-> IF rowLock[p] = r THEN None ELSE rowLock[p]]

\* CreateOrder returns an error: the deferred Rollback undoes the transaction
\* and the handler maps the error to a status.
Rollback(r, err) ==
  /\ pc' = [pc EXCEPT ![r] = "done"]
  /\ answer' = [answer EXCEPT ![r] = err]
  /\ staged' = [staged EXCEPT ![r] = {}]
  /\ taken' = [taken EXCEPT ![r] = Nothing]
  /\ Unlock(r)
  /\ UNCHANGED <<listed, stock, db, sawKey, next, total, payStatus, shown>>

\* One INSERT or UPDATE of r's transaction, then on to the next statement.
Write(r, at, t, to) ==
  /\ pc[r] = at
  /\ staged' = [staged EXCEPT ![r] = @ \cup {t}]
  /\ pc' = [pc EXCEPT ![r] = to]
-----------------------------------------------------------------------------
\* POST /products by an admin, for an input that passes its validation.
CreateProduct(p) ==
  /\ p \notin listed
  /\ listed' = listed \cup {p}
  /\ stock' = [stock EXCEPT ![p] = StartStock[p]]
  /\ UNCHANGED <<db, rowLock, txn, reply>>

\* The handler refuses a request before it calls the store: no caller, no
\* Idempotency-Key, no JSON, no items.
Reject(r) ==
  /\ pc[r] = "new" /\ r \in Malformed
  /\ pc' = [pc EXCEPT ![r] = "done"]
  /\ answer' = [answer EXCEPT ![r] = "rejected"]
  /\ UNCHANGED <<store, sawKey, next, total, payStatus, staged, taken, shown>>

\* BeginTx, and the start of the key statement: its snapshot is taken now.
Begin(r) ==
  /\ pc[r] = "new" /\ r \notin Malformed
  /\ sawKey' = [sawKey EXCEPT ![r] = KeyRow(Key[r]) # {}]
  /\ pc' = [pc EXCEPT ![r] = "insertKey"]
  /\ UNCHANGED <<store, next, total, payStatus, staged, taken, reply>>

\* INSERT ... ON CONFLICT DO NOTHING finds no row and no open inserter of the key.
InsertKey(r) ==
  /\ KeyRow(Key[r]) = {} /\ KeyHolders(Key[r]) = {}
  /\ Write(r, "insertKey", "idempotency_keys", "lockItems")
  /\ UNCHANGED <<store, sawKey, next, total, payStatus, taken, reply>>

\* The key is committed and the snapshot has its row with an order to replay.
FindKey(r) ==
  /\ pc[r] = "insertKey"
  /\ KeyRow(Key[r]) # {} /\ sawKey[r] /\ Response(Key[r]) # None
  /\ pc' = [pc EXCEPT ![r] = "replay"]
  /\ UNCHANGED <<store, sawKey, next, total, payStatus, staged, taken, reply>>

\* The key is committed, so nothing is inserted.  Either the snapshot is older
\* than that commit, so the UNION's SELECT finds no row and Scan fails, or the
\* row holds a NULL order.
ConflictKey(r) ==
  /\ pc[r] = "insertKey"
  /\ KeyRow(Key[r]) # {} /\ (~sawKey[r] \/ Response(Key[r]) = None)
  /\ Rollback(r, IF sawKey[r] THEN "idempotency_conflict" ELSE "internal_error")

\* Mutant of Replay: the replayed response names the wrong order.
ReplayOwn(r) ==
  /\ pc[r] = "replay"
  /\ pc' = [pc EXCEPT ![r] = "done"]
  /\ answer' = [answer EXCEPT ![r] = "created"]
  /\ shown' = [shown EXCEPT ![r] = r]
  /\ UNCHANGED <<store, sawKey, next, total, payStatus, staged, taken>>

\* getOrderTx of the order the key answered with, then Commit.
Replay(r) ==
  /\ pc[r] = "replay"
  /\ Response(Key[r]) \in db["orders"]
  /\ pc' = [pc EXCEPT ![r] = "done"]
  /\ answer' = [answer EXCEPT ![r] = "created"]
  /\ shown' = [shown EXCEPT ![r] = Response(Key[r])]
  /\ UNCHANGED <<store, sawKey, next, total, payStatus, staged, taken>>

\* The loop over the items goes to the next line, or on to what follows it.
Advance(r, after) ==
  /\ next' = [next EXCEPT ![r] = @ + 1]
  /\ pc' = [pc EXCEPT ![r] = IF next[r] = Len(Items[r]) THEN after ELSE @]

\* The stock of the locked row covers the line.
Covers(r) == stock[Item(r).product] >= Item(r).qty

\* Mutant of AddLine: total = line instead of total += line.
AddLineOnly(r) == LineTotal(Item(r))

\* total += line
AddLine(r) == Wrap(total[r] + LineTotal(Item(r)))

\* SELECT ... FOR UPDATE of the item's product gets the row lock (the row is
\* read again once the lock is held) and the stock covers the line.
LockItem(r) ==
  /\ pc[r] = "lockItems"
  /\ Item(r).qty > 0 /\ Item(r).product \in listed
  /\ RowFree(r, Item(r).product)
  /\ Covers(r)
  /\ rowLock' = [rowLock EXCEPT ![Item(r).product] = r]
  /\ total' = [total EXCEPT ![r] = AddLine(r)]
  /\ Advance(r, "charge")
  /\ UNCHANGED <<listed, stock, db, sawKey, payStatus, staged, taken, reply>>

\* The loop's error returns: a quantity that is not positive, an unknown
\* product, a product whose stock is short once its row is locked.
RefuseItem(r) ==
  /\ pc[r] = "lockItems"
  /\ \/ Item(r).qty <= 0 /\ Rollback(r, "validation_error")
     \/ /\ Item(r).qty > 0 /\ Item(r).product \notin listed
        /\ Rollback(r, "product_not_found")
     \/ /\ Item(r).qty > 0 /\ Item(r).product \in listed
        /\ RowFree(r, Item(r).product)
        /\ ~Covers(r)
        /\ Rollback(r, "insufficient_stock")

\* r waits for the row lock of the item it is at.
Blocked(r) ==
  /\ pc[r] = "lockItems"
  /\ Item(r).qty > 0 /\ Item(r).product \in listed
  /\ ~RowFree(r, Item(r).product)

\* Mutant of OnCycle: deadlocks are not detected.
OnCycleUnseen(r) == FALSE

\* r is on a cycle of transactions that wait for each other.
OnCycle(r) ==
  \E S \in SUBSET {s \in Requests : Blocked(s)} :
    /\ r \in S
    /\ \A s \in S : rowLock[Item(s).product] \in S
    /\ \A s \in S : \E t \in S : rowLock[Item(t).product] = s

\* Postgres aborts a transaction of a deadlock.
DeadlockAbort(r) ==
  /\ OnCycle(r)
  /\ Rollback(r, "internal_error")

\* Charge: the mock provider declines pm_fail and captures anything else.
Charge(r) ==
  /\ pc[r] = "charge" /\ total[r] > 0
  /\ payStatus' = [payStatus EXCEPT ![r] = IF r \in Declined THEN "failed" ELSE "paid"]
  /\ pc' = [pc EXCEPT ![r] = "insertOrder"]
  /\ UNCHANGED <<store, sawKey, next, total, staged, taken, reply>>

\* Charge refuses an amount that is not positive (an overflowed total).
RefuseCharge(r) ==
  /\ pc[r] = "charge" /\ total[r] <= 0
  /\ Rollback(r, "internal_error")

\* Mutant of InsertOrder: the second loop starts one line early.
InsertOrderFromZero(r) ==
  /\ Write(r, "insertOrder", "orders", "insertItems")
  /\ next' = [next EXCEPT ![r] = 0]
  /\ UNCHANGED <<store, sawKey, total, payStatus, taken, reply>>

\* INSERT INTO orders; the second loop over the items starts.
InsertOrder(r) ==
  /\ Write(r, "insertOrder", "orders", "insertItems")
  /\ next' = [next EXCEPT ![r] = 1]
  /\ UNCHANGED <<store, sawKey, total, payStatus, taken, reply>>

\* Mutant of TakesStock: a declined order takes stock, too.
TakesStockAlways(r) == TRUE

\* Only a paid order updates stock_qty.
TakesStock(r) == payStatus[r] = "paid"

\* What r's transaction would leave of the stock of the item it is at.
Remaining(r) == stock[Item(r).product] - taken[r][Item(r).product] - Item(r).qty

\* CHECK (line_total_cents > 0) and, for a paid order, CHECK (stock_qty >= 0).
RowsAccepted(r) ==
  /\ LineTotal(Item(r)) > 0
  /\ TakesStock(r) => Remaining(r) >= 0

\* INSERT INTO order_items and, for a paid order, UPDATE products.
InsertItem(r) ==
  /\ pc[r] = "insertItems" /\ RowsAccepted(r)
  /\ staged' = [staged EXCEPT ![r] =
                  IF next[r] = Len(Items[r]) THEN @ \cup {"order_items"} ELSE @]
  /\ taken' = IF TakesStock(r)
              THEN [taken EXCEPT ![r][Item(r).product] = @ + Item(r).qty]
              ELSE taken
  /\ Advance(r, "insertPayment")
  /\ UNCHANGED <<store, sawKey, total, payStatus, reply>>

\* A CHECK constraint refuses the item or the new stock.
RefuseRow(r) ==
  /\ pc[r] = "insertItems" /\ ~RowsAccepted(r)
  /\ Rollback(r, "internal_error")

\* INSERT INTO payment_transactions.
InsertPayment(r) ==
  /\ Write(r, "insertPayment", "payment_transactions", "updateKey")
  /\ UNCHANGED <<store, sawKey, next, total, payStatus, taken, reply>>

\* Mutant of UpdateKey: the key's response is never stored.
UpdateKeyForgotten(r) ==
  /\ pc[r] = "updateKey"
  /\ pc' = [pc EXCEPT ![r] = "insertOutbox"]
  /\ UNCHANGED <<store, sawKey, next, total, payStatus, staged, taken, reply>>

\* UPDATE idempotency_keys SET response_order_id.
UpdateKey(r) ==
  /\ Write(r, "updateKey", "response_order_id", "insertOutbox")
  /\ UNCHANGED <<store, sawKey, next, total, payStatus, taken, reply>>

\* Mutant of InsertOutbox: the event is left out of the transaction.
InsertOutboxForgotten(r) ==
  /\ pc[r] = "insertOutbox"
  /\ pc' = [pc EXCEPT ![r] = "commit"]
  /\ UNCHANGED <<store, sawKey, next, total, payStatus, staged, taken, reply>>

\* INSERT INTO outbox_events, then getOrderTx of the new order.
InsertOutbox(r) ==
  /\ Write(r, "insertOutbox", "outbox_events", "commit")
  /\ UNCHANGED <<store, sawKey, next, total, payStatus, taken, reply>>

\* The transaction's rows become the committed ones and its locks are released.
Publish(r) ==
  /\ pc[r] = "commit"
  /\ db' = [t \in Tables |-> IF t \in staged[r] THEN db[t] \cup {r} ELSE db[t]]
  /\ stock' = [p \in Products |-> stock[p] - taken[r][p]]
  /\ staged' = [staged EXCEPT ![r] = {}]
  /\ taken' = [taken EXCEPT ![r] = Nothing]
  /\ pc' = [pc EXCEPT ![r] = "done"]
  /\ Unlock(r)
  /\ UNCHANGED <<listed, sawKey, next, total, payStatus>>

\* Commit succeeds and the client gets 201 with the order.
Commit(r) ==
  /\ Publish(r)
  /\ answer' = [answer EXCEPT ![r] = "created"]
  /\ shown' = [shown EXCEPT ![r] = r]

\* Commit takes effect but its acknowledgement is lost: the client gets a 500.
LoseCommitReply(r) ==
  /\ r \in Faulty
  /\ Publish(r)
  /\ answer' = [answer EXCEPT ![r] = "internal_error"]
  /\ UNCHANGED shown

\* A statement, a lock wait or a commit fails, or the server dies: the open
\* transaction is rolled back.
FailStatement(r) ==
  /\ r \in Faulty
  /\ pc[r] # "done" /\ r \notin Malformed
  /\ Rollback(r, "internal_error")

\* The steps the server takes for request r on its own.
Handle(r) ==
  \/ Reject(r) \/ Begin(r)
  \/ InsertKey(r) \/ FindKey(r) \/ ConflictKey(r) \/ Replay(r)
  \/ LockItem(r) \/ RefuseItem(r) \/ DeadlockAbort(r)
  \/ Charge(r) \/ RefuseCharge(r)
  \/ InsertOrder(r) \/ InsertItem(r) \/ RefuseRow(r)
  \/ InsertPayment(r) \/ UpdateKey(r) \/ InsertOutbox(r) \/ Commit(r)

Next ==
  \/ \E p \in Products : CreateProduct(p)
  \/ \E r \in Requests : Handle(r) \/ LoseCommitReply(r) \/ FailStatement(r)

\* While some handler, or Postgres behind it, can take a step, one of them does.
\* A request takes finitely many steps, so none of them is left waiting for that.
Fairness == WF_vars(\E r \in Requests : Handle(r))

Spec == Init /\ [][Next]_vars

FairSpec == Spec /\ Fairness
-----------------------------------------------------------------------------
\* The committed orders.
orders == db["orders"]

TypeOK ==
  /\ listed \subseteq Products
  /\ stock \in [Products -> Int]
  /\ db \in [Tables -> SUBSET Requests]
  /\ rowLock \in [Products -> Requests \cup {None}]
  /\ pc \in [Requests -> Labels]
  /\ sawKey \in [Requests -> BOOLEAN]
  /\ next \in [Requests -> Nat \ {0}]
  /\ total \in [Requests -> Int]
  /\ payStatus \in [Requests -> {"none", "paid", "failed"}]
  /\ staged \in [Requests -> SUBSET Tables]
  /\ taken \in [Requests -> [Products -> Int]]
  /\ answer \in [Requests -> Answers]
  /\ shown \in [Requests -> Requests \cup {None}]

\* The idempotency key does its work: concurrent or repeated requests with one
\* key never create two orders, whatever fails in between (CreateOrder's
\* INSERT ... ON CONFLICT DO NOTHING under READ COMMITTED).
AtMostOneOrderPerKey ==
  \A r, s \in orders : Key[r] = Key[s] => r = s

\* A committed key row always leads to a committed order of that key, so the
\* errIdempotencyKeyExists branch of CreateOrder is never taken.
KeysLeadToOrders ==
  /\ \A r \in db["idempotency_keys"] :
       Response(Key[r]) \in orders /\ Key[Response(Key[r])] = Key[r]
  /\ \A r \in Requests : answer[r] # "idempotency_conflict"

\* A client that got 201 was shown a committed order of its own key, and all
\* clients with one key were shown the same order (the replay branch).
AnswersAgree ==
  \A r \in Requests : answer[r] = "created" =>
    /\ shown[r] \in orders
    /\ \A s \in Requests :
         answer[s] = "created" /\ Key[s] = Key[r] => shown[s] = shown[r]

\* An order commits with its items, its payment, its key and its outbox event,
\* or none of them does: no step that fails leaves a part behind.
OrdersAreWhole ==
  \A t \in Tables : db[t] = orders

\* The units of p that paid orders have bought.
Sold(p) == UNION {{r} \X Units(r, p) : r \in {s \in orders : payStatus[s] = "paid"}}

\* The stock that left a product is exactly what the paid orders took, and it
\* never goes below zero (FOR UPDATE before the stock check, and the CHECK).
StockConserved ==
  \A p \in listed :
    /\ stock[p] >= 0
    /\ stock[p] + Cardinality(Sold(p)) = StartStock[p]

\* A captured payment has an order, once its request is answered, as long as
\* the request itself meets no fault, names no product twice and no line overflows:
\* after Charge the locked rows cannot lose the stock that was checked, whatever
\* fails in the other requests.
PaidRequestsHaveOrders ==
  \A r \in Requests \ Faulty :
    payStatus[r] = "paid" /\ answer[r] # "none" /\ DistinctLines(r) /\ LinesFit(r)
      => r \in orders

\* The total of an order is the exact sum of its lines whenever that sum fits
\* in an int64; only then, for the code does not detect overflow.
TotalsExact ==
  \A r \in orders : ExactCost(r) < IntHalf => total[r] = ExactCost(r)

\* Every request is answered: neither the wait for a key nor the row locks taken
\* in the order of the lines can block a handler for ever.
EveryRequestAnswered ==
  <>(\A r \in Requests : answer[r] # "none")

\* The transactions implement the atomic shop.
ShopView == INSTANCE Shop
ImplementsShop == ShopView!ShopSpec

\* "Repeated `Idempotency-Key` for same user returns the original order
\* response" (docs/projects/mini-ecommerce.md): a well-formed request whose key
\* has a committed order when it is answered is answered with that order.
RepeatedKeyReturnsOrder ==
  [][\A r \in Requests \ Malformed :
       answer[r] = "none" /\ answer'[r] # "none" /\ KeyRow(Key[r]) # {}
         => answer'[r] = "created"]_vars
=============================================================================

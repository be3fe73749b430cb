-------------------------- MODULE OrderStoreProofs --------------------------
(***************************************************************************)
(* Proofs about OrderStore for any number of requests, keys and products.  *)
(***************************************************************************)
EXTENDS OrderStore, SequenceTheorems, FiniteSetTheorems, TLAPS

\* The rows an open transaction has written when it is at a label.
StagedAt(label) ==
  CASE label \in {"lockItems", "charge", "insertOrder"} -> {"idempotency_keys"}
    [] label = "insertItems" -> {"idempotency_keys", "orders"}
    [] label = "insertPayment" -> {"idempotency_keys", "orders", "order_items"}
    [] label = "updateKey" ->
         {"idempotency_keys", "orders", "order_items", "payment_transactions"}
    [] label = "insertOutbox" -> Tables \ {"outbox_events"}
    [] label = "commit" -> Tables
    [] OTHER -> {}

\* What an open transaction has written is what its label says.
StagedInv == \A r \in Requests : staged[r] = StagedAt(pc[r])

\* Every request that reaches the store has lines, and the loops stay on them.
LoopInv ==
  \A r \in Requests :
    /\ pc[r] = "new" => next[r] = 1
    /\ pc[r] \notin {"new", "done"} => r \notin Malformed
    /\ pc[r] \in {"insertKey", "lockItems", "insertItems"} => next[r] <= Len(Items[r])

\* A transaction that inserted a key is the only open one that did, and no
\* order with that key is committed.
KeyInv ==
  \A r \in Requests : pc[r] \in Holding =>
    /\ \A s \in orders : Key[s] # Key[r]
    /\ \A s \in Requests : pc[s] \in Holding /\ Key[s] = Key[r] => s = r

\* Whoever was answered 201 was shown a committed order of its key.
AnswerInv ==
  \A r \in Requests :
    /\ answer[r] # "idempotency_conflict"
    /\ answer[r] = "created" => shown[r] \in orders /\ Key[shown[r]] = Key[r]

IInv ==
  /\ TypeOK /\ StagedInv /\ LoopInv
  /\ OrdersAreWhole /\ AtMostOneOrderPerKey /\ KeyInv /\ AnswerInv
-----------------------------------------------------------------------------
\* The key lookup of CreateOrder finds the order of a committed key.
LEMMA ResponseFound ==
  ASSUME OrdersAreWhole, AtMostOneOrderPerKey, NEW s \in orders
  PROVE  Response(Key[s]) = s
<1>1. s \in KeyRow(Key[s]) \cap db["response_order_id"]
  BY DEF OrdersAreWhole, Tables, KeyRow, orders
<1>2. KeyRow(Key[s]) \cap db["response_order_id"] = {s}
  BY <1>1 DEF OrdersAreWhole, Tables, KeyRow, orders, AtMostOneOrderPerKey
<1> QED  BY <1>2 DEF Response

\* A committed key row is a committed order.
LEMMA KeyRowIsOrder ==
  ASSUME OrdersAreWhole, NEW k, KeyRow(k) # {}
  PROVE  \E s \in orders : Key[s] = k
BY DEF OrdersAreWhole, Tables, KeyRow, orders

\* Wrapping always yields an integer.
LEMMA WrapInt ==
  ASSUME NEW n \in Int
  PROVE  Wrap(n) \in Int
BY ProductsAssumption DEF Wrap

\* The loops look at lines of the request.
LEMMA ItemType ==
  ASSUME TypeOK, LoopInv, NEW r \in Requests, pc[r] \in {"insertKey", "lockItems", "insertItems"}
  PROVE  /\ Len(Items[r]) \in Nat
         /\ Item(r).product \in Products
         /\ Item(r).qty \in Int
         /\ LineTotal(Item(r)) \in Int
<1>1. Items[r] \in Seq([product : Products, qty : Int])
  BY RequestsAssumption
<1>2. next[r] \in 1..Len(Items[r]) /\ Len(Items[r]) \in Nat
  BY <1>1 DEF TypeOK, LoopInv
<1>3. Item(r) \in [product : Products, qty : Int]
  BY <1>1, <1>2, ElementOfSeq DEF Item
<1>4. Price[Item(r).product] * Item(r).qty \in Int
  BY <1>3, ProductsAssumption
<1> QED  BY <1>2, <1>3, <1>4, WrapInt DEF LineTotal

\* No transaction is open and no row is committed at first.
LEMMA InitInv == Init => IInv
<1> SUFFICES ASSUME Init PROVE IInv
  OBVIOUS
<1>1. TypeOK
  BY DEF Init, TypeOK, Labels, Answers, Nothing
<1>2. StagedInv /\ LoopInv /\ KeyInv /\ AnswerInv
  BY DEF Init, StagedInv, StagedAt, LoopInv, KeyInv, AnswerInv, Holding
<1>3. OrdersAreWhole /\ AtMostOneOrderPerKey
  BY DEF Init, OrdersAreWhole, AtMostOneOrderPerKey, orders, Tables
<1> QED  BY <1>1, <1>2, <1>3 DEF IInv

-----------------------------------------------------------------------------
\* A transaction that ends with an error preserves the invariant.
LEMMA RollbackInv ==
  ASSUME IInv, NEW r \in Requests, pc[r] # "done",
         NEW err \in Answers \ {"created", "idempotency_conflict"}, Rollback(r, err)
  PROVE  IInv'
<1> USE DEF IInv, Rollback
<1>1. TypeOK'
  BY DEF TypeOK, Unlock, Nothing, Labels, Answers
<1>2. StagedInv'
  BY DEF StagedInv, StagedAt, TypeOK
<1>3. LoopInv' /\ KeyInv'
  BY DEF LoopInv, KeyInv, orders, Holding, TypeOK
<1>4. AnswerInv'
  BY DEF AnswerInv, orders, TypeOK, Answers
<1>5. OrdersAreWhole' /\ AtMostOneOrderPerKey'
  BY DEF OrdersAreWhole, AtMostOneOrderPerKey, orders
<1> QED  BY <1>1, <1>2, <1>3, <1>4, <1>5

\* A step that changes neither the committed rows nor what clients know
\* preserves what is said of them.
LEMMA QuietStep ==
  ASSUME IInv, UNCHANGED <<db, answer, shown>>
  PROVE  OrdersAreWhole' /\ AtMostOneOrderPerKey' /\ AnswerInv'
BY DEF IInv, OrdersAreWhole, AtMostOneOrderPerKey, AnswerInv, orders

\* A step of an open transaction that stays open preserves KeyInv.
LEMMA KeyKept ==
  ASSUME IInv, UNCHANGED db, NEW r \in Requests, pc[r] \in Holding,
         NEW to \in Labels, pc' = [pc EXCEPT ![r] = to]
  PROVE  KeyInv'
BY DEF IInv, TypeOK, KeyInv, orders, Holding

\* CreateProduct leaves every transaction alone.
LEMMA CreateProductInv ==
  ASSUME IInv, NEW p \in Products, CreateProduct(p)
  PROVE  IInv'
<1> USE DEF CreateProduct, txn, reply
<1>1. StartStock[p] \in Int
  BY ProductsAssumption
<1>2. TypeOK'
  BY <1>1 DEF IInv, TypeOK
<1>3. StagedInv' /\ LoopInv' /\ KeyInv'
  BY DEF IInv, StagedInv, LoopInv, KeyInv, orders
<1> QED  BY <1>2, <1>3, QuietStep DEF IInv

\* The two ways a new request leaves the label "new".
LEMMA StartInv ==
  ASSUME IInv, NEW r \in Requests, Reject(r) \/ Begin(r)
  PROVE  IInv'
<1>1. CASE Reject(r)
  <2> USE <1>1 DEF Reject, store
  <2>1. TypeOK'
    BY DEF IInv, TypeOK, Labels, Answers
  <2>2. StagedInv' /\ LoopInv' /\ KeyInv'
    BY DEF IInv, TypeOK, StagedInv, StagedAt, LoopInv, KeyInv, orders, Holding
  <2>3. OrdersAreWhole' /\ AtMostOneOrderPerKey' /\ AnswerInv'
    BY DEF IInv, TypeOK, OrdersAreWhole, AtMostOneOrderPerKey, AnswerInv, orders
  <2> QED  BY <2>1, <2>2, <2>3 DEF IInv
<1>2. CASE Begin(r)
  <2> USE <1>2 DEF Begin, store, reply
  <2>1. TypeOK'
    BY DEF IInv, TypeOK, Labels
  <2>2. Items[r] \in Seq([product : Products, qty : Int]) /\ Items[r] # <<>>
    BY RequestsAssumption
  <2>3. 1 <= Len(Items[r])
    BY <2>2, EmptySeq
  <2>4. StagedInv' /\ LoopInv' /\ KeyInv'
    BY <2>3 DEF IInv, TypeOK, StagedInv, StagedAt, LoopInv, KeyInv, orders, Holding
  <2> QED  BY <2>1, <2>4, QuietStep DEF IInv
<1> QED  BY <1>1, <1>2

\* Only a request whose key is neither committed nor being inserted goes on.
LEMMA InsertKeyInv ==
  ASSUME IInv, NEW r \in Requests, InsertKey(r)
  PROVE  IInv'
<1> USE DEF InsertKey, Write, store, reply
<1>1. TypeOK'
  BY DEF IInv, TypeOK, Labels, Holding, Tables
<1>2. StagedInv' /\ LoopInv'
  BY DEF IInv, TypeOK, StagedInv, StagedAt, LoopInv
<1>3. \A s \in orders : Key[s] # Key[r]
  BY DEF IInv, OrdersAreWhole, Tables, KeyRow, orders
<1>4. \A s \in Requests : pc[s] \in Holding => Key[s] # Key[r]
  <2> SUFFICES ASSUME NEW s \in Requests, pc[s] \in Holding, Key[s] = Key[r]
               PROVE  FALSE
    OBVIOUS
  <2>1. "idempotency_keys" \in staged[s]
    BY DEF IInv, StagedInv, StagedAt, Holding, Tables
  <2> QED  BY <2>1 DEF KeyHolders
<1>5. KeyInv'
  BY <1>3, <1>4 DEF IInv, TypeOK, KeyInv, orders, Holding
<1> QED  BY <1>1, <1>2, <1>5, QuietStep DEF IInv

\* The statement's three other outcomes: replay, and the two errors.
LEMMA FoundKeyInv ==
  ASSUME IInv, NEW r \in Requests, FindKey(r) \/ ConflictKey(r)
  PROVE  IInv'
<1>1. CASE FindKey(r)
  <2> USE <1>1 DEF FindKey, store, reply
  <2>1. TypeOK'
    BY DEF IInv, TypeOK, Labels
  <2>2. StagedInv' /\ LoopInv' /\ KeyInv'
    BY DEF IInv, TypeOK, StagedInv, StagedAt, LoopInv, KeyInv, orders, Holding
  <2> QED  BY <2>1, <2>2, QuietStep DEF IInv
<1>2. CASE ConflictKey(r)
  <2>1. PICK s \in orders : Key[s] = Key[r]
    BY <1>2, KeyRowIsOrder DEF ConflictKey, IInv
  <2>2. Response(Key[r]) = s
    BY <2>1, ResponseFound DEF IInv
  <2>3. Response(Key[r]) # None
    BY <2>2, RequestsAssumption DEF IInv, TypeOK, orders, Tables
  <2>4. Rollback(r, "internal_error")
    BY <1>2, <2>3 DEF ConflictKey
  <2> QED  BY <1>2, <2>4, RollbackInv DEF ConflictKey, Answers
<1> QED  BY <1>1, <1>2

\* A replay shows the order of the key.
LEMMA ReplayInv ==
  ASSUME IInv, NEW r \in Requests, Replay(r)
  PROVE  IInv'
<1> USE DEF Replay, store
<1>1. Response(Key[r]) \in orders /\ Key[Response(Key[r])] = Key[r]
  <2>1. KeyRow(Key[r]) \cap db["response_order_id"] # {}
    BY RequestsAssumption DEF Response, IInv, TypeOK, Tables, orders
  <2> QED  BY <2>1 DEF Response, KeyRow, orders
<1>2. TypeOK'
  BY <1>1 DEF IInv, TypeOK, Labels, Answers, orders, Tables
<1>3. StagedInv' /\ LoopInv' /\ KeyInv'
  BY DEF IInv, TypeOK, StagedInv, StagedAt, LoopInv, KeyInv, orders, Holding
<1>4. OrdersAreWhole' /\ AtMostOneOrderPerKey'
  BY DEF IInv, OrdersAreWhole, AtMostOneOrderPerKey, orders
<1>5. AnswerInv'
  BY <1>1 DEF IInv, TypeOK, AnswerInv, orders
<1> QED  BY <1>2, <1>3, <1>4, <1>5 DEF IInv

\* Locking an item touches only the loop, the lock and the total.
LEMMA LockItemInv ==
  ASSUME IInv, NEW r \in Requests, LockItem(r)
  PROVE  IInv'
<1> USE DEF LockItem, Advance, reply
<1>1. /\ Len(Items[r]) \in Nat
      /\ Item(r).product \in Products
      /\ LineTotal(Item(r)) \in Int
      /\ next[r] <= Len(Items[r])
  BY ItemType DEF IInv, LoopInv
<1>2. AddLine(r) \in Int
  BY <1>1, WrapInt DEF AddLine, IInv, TypeOK
<1>3. TypeOK'
  BY <1>1, <1>2 DEF IInv, TypeOK, Labels, Holding
<1>4. StagedInv' /\ LoopInv'
  BY <1>1 DEF IInv, TypeOK, StagedInv, StagedAt, LoopInv
<1>5. KeyInv'
  BY KeyKept DEF IInv, TypeOK, Holding, Labels
<1> QED  BY <1>3, <1>4, <1>5, QuietStep DEF IInv

\* Writing the rows of an order, one statement at a time.
LEMMA WriteInv ==
  ASSUME IInv, NEW r \in Requests,
         \/ Charge(r) \/ InsertOrder(r)
         \/ InsertPayment(r) \/ UpdateKey(r) \/ InsertOutbox(r)
  PROVE  IInv'
<1> USE DEF Charge, InsertOrder, InsertPayment, UpdateKey, InsertOutbox, Write, store, reply
<1>1. pc[r] \notin {"new", "done"}
  OBVIOUS
<1>2. 1 <= Len(Items[r])
  BY <1>1, RequestsAssumption, EmptySeq DEF IInv, LoopInv
<1>3. TypeOK' /\ StagedInv'
  <2>1. CASE Charge(r)
    <3>1. payStatus' \in [Requests -> {"none", "paid", "failed"}]
      BY <2>1 DEF IInv, TypeOK
    <3>2. pc' \in [Requests -> Labels]
      BY <2>1 DEF IInv, TypeOK, Labels, Holding
    <3>3. StagedInv'
      BY <2>1 DEF IInv, TypeOK, StagedInv, StagedAt
    <3> QED  BY <2>1, <3>1, <3>2, <3>3 DEF IInv, TypeOK
  <2>2. CASE InsertOrder(r)
    <3>1. TypeOK'
      BY <2>2 DEF IInv, TypeOK, Labels, Holding, Tables
    <3>2. StagedInv'
      BY <2>2 DEF IInv, TypeOK, StagedInv, StagedAt
    <3> QED  BY <3>1, <3>2
  <2>3. CASE InsertPayment(r)
    BY <2>3, ZenonT(60) DEF IInv, TypeOK, Labels, Holding, Tables, StagedInv, StagedAt
  <2>4. CASE UpdateKey(r)
    BY <2>4, ZenonT(60) DEF IInv, TypeOK, Labels, Holding, Tables, StagedInv, StagedAt
  <2>5. CASE InsertOutbox(r)
    BY <2>5, ZenonT(60) DEF IInv, TypeOK, Labels, Holding, Tables, StagedInv, StagedAt
  <2> QED  BY <2>1, <2>2, <2>3, <2>4, <2>5
<1>5. LoopInv'
  BY <1>2 DEF IInv, TypeOK, LoopInv
<1>6. KeyInv'
  BY KeyKept DEF IInv, TypeOK, Holding, Labels
<1> QED  BY <1>3, <1>5, <1>6, QuietStep DEF IInv

\* The second loop.
LEMMA InsertItemInv ==
  ASSUME IInv, NEW r \in Requests, InsertItem(r)
  PROVE  IInv'
<1> USE DEF InsertItem, Advance, store, reply
<1>1. /\ Len(Items[r]) \in Nat
      /\ Item(r).product \in Products
      /\ Item(r).qty \in Int
      /\ next[r] <= Len(Items[r])
  BY ItemType DEF IInv, LoopInv
<1>2. TypeOK'
  <2>1. taken' \in [Requests -> [Products -> Int]]
    BY <1>1 DEF IInv, TypeOK
  <2> QED  BY <1>1, <2>1, SMTT(30) DEF IInv, TypeOK, Labels, Holding, Tables
<1>3. StagedInv'
  <2>1. CASE next[r] = Len(Items[r])
    BY <2>1 DEF IInv, TypeOK, StagedInv, StagedAt
  <2>2. CASE next[r] # Len(Items[r])
    BY <2>2 DEF IInv, TypeOK, StagedInv, StagedAt
  <2> QED  BY <2>1, <2>2
<1>4. LoopInv'
  BY <1>1 DEF IInv, TypeOK, LoopInv
<1>5. KeyInv'
  BY KeyKept DEF IInv, TypeOK, Holding, Labels
<1> QED  BY <1>2, <1>3, <1>4, <1>5, QuietStep DEF IInv

\* A commit adds one whole order whose key no committed order has.
LEMMA PublishInv ==
  ASSUME IInv, NEW r \in Requests, Publish(r),
         \/ /\ answer' = [answer EXCEPT ![r] = "created"]
            /\ shown' = [shown EXCEPT ![r] = r]
         \/ /\ answer' = [answer EXCEPT ![r] = "internal_error"]
            /\ UNCHANGED shown
  PROVE  IInv'
<1> USE DEF Publish
<1>1. staged[r] = Tables
  BY DEF IInv, StagedInv, StagedAt
<1>2. db' = [t \in Tables |-> db[t] \cup {r}]
  BY <1>1 DEF IInv, TypeOK
<1>3. orders' = orders \cup {r}
  BY <1>2 DEF orders, Tables
<1>4. \A s \in orders : Key[s] # Key[r]
  BY DEF IInv, KeyInv, Holding
<1>5. TypeOK'
  <2>1. db' \in [Tables -> SUBSET Requests]
    BY <1>2 DEF IInv, TypeOK
  <2>2. stock' \in [Products -> Int] /\ taken' \in [Requests -> [Products -> Int]]
    BY DEF IInv, TypeOK, Nothing
  <2>3. rowLock' \in [Products -> Requests \cup {None}]
    BY DEF IInv, TypeOK, Unlock
  <2>4. staged' \in [Requests -> SUBSET Tables]
    BY DEF IInv, TypeOK
  <2>5. answer' \in [Requests -> Answers]
    <3>1. {"created", "internal_error"} \subseteq Answers
      BY DEF Answers
    <3>2. answer \in [Requests -> Answers]
      BY DEF IInv, TypeOK
    <3> QED  BY <3>1, <3>2
  <2>6. shown' \in [Requests -> Requests \cup {None}]
    BY DEF IInv, TypeOK
  <2> QED  BY <2>1, <2>2, <2>3, <2>4, <2>5, <2>6 DEF IInv, TypeOK, Labels
<1>6. StagedInv' /\ LoopInv'
  BY DEF IInv, TypeOK, StagedInv, StagedAt, LoopInv
<1>7. OrdersAreWhole'
  BY <1>2, <1>3 DEF IInv, OrdersAreWhole
<1>8. AtMostOneOrderPerKey'
  BY <1>3, <1>4 DEF IInv, AtMostOneOrderPerKey
<1>9. KeyInv'
  BY <1>3 DEF IInv, TypeOK, KeyInv, Holding
<1>10. AnswerInv'
  BY <1>3 DEF IInv, TypeOK, AnswerInv
<1> QED  BY <1>5, <1>6, <1>7, <1>8, <1>9, <1>10 DEF IInv

\* Every step preserves the invariant.
LEMMA NextInv == IInv /\ [Next]_vars => IInv'
<1> SUFFICES ASSUME IInv, [Next]_vars PROVE IInv'
  OBVIOUS
<1>1. CASE UNCHANGED vars
  BY <1>1 DEF vars, store, txn, reply, IInv, TypeOK, StagedInv, LoopInv, KeyInv,
       AnswerInv, OrdersAreWhole, AtMostOneOrderPerKey, orders
<1>2. CASE \E p \in Products : CreateProduct(p)
  BY <1>2, CreateProductInv
<1>3. ASSUME NEW r \in Requests, Handle(r) \/ LoseCommitReply(r) \/ FailStatement(r)
      PROVE  IInv'
  <2>1. CASE Reject(r) \/ Begin(r)
    BY <2>1, StartInv
  <2>2. CASE InsertKey(r)
    BY <2>2, InsertKeyInv
  <2>3. CASE FindKey(r) \/ ConflictKey(r)
    BY <2>3, FoundKeyInv
  <2>4. CASE Replay(r)
    BY <2>4, ReplayInv
  <2>5. CASE LockItem(r)
    BY <2>5, LockItemInv
  <2>6. CASE RefuseItem(r)
    BY <2>6, RollbackInv DEF RefuseItem, Answers
  <2>7. CASE DeadlockAbort(r)
    BY <2>7, RollbackInv DEF DeadlockAbort, OnCycle, Blocked, Answers
  <2>8. CASE RefuseCharge(r) \/ RefuseRow(r)
    BY <2>8, RollbackInv DEF RefuseCharge, RefuseRow, Answers
  <2>9. CASE \/ Charge(r) \/ InsertOrder(r)
             \/ InsertPayment(r) \/ UpdateKey(r) \/ InsertOutbox(r)
    BY <2>9, WriteInv
  <2>10. CASE InsertItem(r)
    BY <2>10, InsertItemInv
  <2>11. CASE Commit(r) \/ LoseCommitReply(r)
    BY <2>11, PublishInv DEF Commit, LoseCommitReply
  <2>12. CASE FailStatement(r)
    BY <2>12, RollbackInv DEF FailStatement, Answers
  <2> QED  BY <1>3, <2>1, <2>2, <2>3, <2>4, <2>5, <2>6, <2>7, <2>8, <2>9, <2>10,
              <2>11, <2>12 DEF Handle
<1> QED  BY <1>1, <1>2, <1>3 DEF Next

\* The inductive invariant holds throughout, for any requests and products.
THEOREM Invariance == Spec => []IInv
<1>1. Init => IInv
  BY InitInv
<1>2. IInv /\ [Next]_vars => IInv'
  BY NextInv
<1> QED  BY <1>1, <1>2, PTL DEF Spec

\* Type correctness of the order store.
THEOREM TypeCorrect == Spec => []TypeOK
<1>1. IInv => TypeOK
  BY DEF IInv
<1> QED  BY <1>1, Invariance, PTL

\* However requests with one key interleave and whatever fails, at most one of
\* them becomes an order.
THEOREM OneOrderPerKey == Spec => []AtMostOneOrderPerKey
<1>1. IInv => AtMostOneOrderPerKey
  BY DEF IInv
<1> QED  BY <1>1, Invariance, PTL

\* Order, items, payment, key and outbox event are committed together or not at all.
THEOREM WholeOrders == Spec => []OrdersAreWhole
<1>1. IInv => OrdersAreWhole
  BY DEF IInv
<1> QED  BY <1>1, Invariance, PTL

\* A committed key answers with a committed order of that key.
THEOREM KeysResolved == Spec => []KeysLeadToOrders
<1>1. IInv => KeysLeadToOrders
  <2> SUFFICES ASSUME IInv PROVE KeysLeadToOrders
    OBVIOUS
  <2>1. \A r \in db["idempotency_keys"] : r \in orders
    BY DEF IInv, OrdersAreWhole, Tables
  <2>2. \A r \in orders : Response(Key[r]) = r
    BY ResponseFound DEF IInv
  <2> QED  BY <2>1, <2>2 DEF KeysLeadToOrders, IInv, AnswerInv
<1> QED  BY <1>1, Invariance, PTL

\* All clients that use one key and get a 201 are shown the same committed order.
THEOREM SameAnswers == Spec => []AnswersAgree
<1>1. IInv => AnswersAgree
  BY DEF IInv, AnswersAgree, AnswerInv, AtMostOneOrderPerKey
<1> QED  BY <1>1, Invariance, PTL
-----------------------------------------------------------------------------
\* The units of product p, and the cents, of the first n lines of r.
UnitsTo(r, p, n) ==
  UNION {{i} \X (1..Items[r][i].qty) : i \in {j \in 1..n : Items[r][j].product = p}}

CentsTo(r, n) ==
  UNION {{i} \X ((1..Price[Items[r][i].product]) \X (1..Items[r][i].qty)) : i \in 1..n}

\* From INSERT INTO orders on; from Charge on.
Taking == {"insertItems", "insertPayment", "updateKey", "insertOutbox", "commit"}
Charged == {"insertOrder"} \cup Taking

\* How many lines r's open transaction has locked, and how many it has inserted.
Locked(r) ==
  IF pc[r] = "lockItems" THEN next[r] - 1
  ELSE IF pc[r] \in Holding THEN Len(Items[r]) ELSE 0

Inserted(r) == IF pc[r] = "insertItems" THEN next[r] - 1 ELSE Len(Items[r])

\* The rows of the locked lines are r's, and still have the stock that was checked.
LockOf(r) ==
  \A i \in 1..Locked(r) :
    /\ Items[r][i].qty > 0
    /\ Items[r][i].product \in listed
    /\ rowLock[Items[r][i].product] = r
    /\ Items[r][i].qty <= stock[Items[r][i].product]

\* A paid transaction has subtracted the units of the lines it has inserted, any
\* other nothing, and never more than there is.
TakenOf(r) ==
  /\ \A p \in Products : taken[r][p] <= stock[p]
  /\ IF pc[r] \in Taking /\ payStatus[r] = "paid"
     THEN \A p \in Products :
            /\ IsFiniteSet(UnitsTo(r, p, Inserted(r)))
            /\ taken[r][p] = Cardinality(UnitsTo(r, p, Inserted(r)))
     ELSE taken[r] = Nothing

\* The total is the sum of the locked lines, unless that sum does not fit.
CostOf(r) ==
  /\ pc[r] \in {"new", "insertKey"} => next[r] = 1 /\ total[r] = 0
  /\ pc[r] \in Holding =>
       /\ IsFiniteSet(CentsTo(r, Locked(r)))
       /\ Cardinality(CentsTo(r, Locked(r))) < IntHalf
            => total[r] = Cardinality(CentsTo(r, Locked(r)))

\* A payment is captured or declined by Charge alone, an answer is given at the end
\* alone, and a captured payment ends in an order as PaidRequestsHaveOrders says.
PayOf(r) ==
  /\ pc[r] \in {"new", "insertKey", "replay", "lockItems", "charge"} => payStatus[r] = "none"
  /\ pc[r] \in Charged => payStatus[r] = IF r \in Declined THEN "failed" ELSE "paid"
  /\ pc[r] # "done" => answer[r] = "none" /\ shown[r] = None
  /\ pc[r] = "done" /\ payStatus[r] = "paid" /\ r \notin Faulty
       /\ DistinctLines(r) /\ LinesFit(r) => r \in orders

RequestInv(r) == LockOf(r) /\ TakenOf(r) /\ CostOf(r) /\ PayOf(r)

\* The books balance: every unit is in stock or sold, and orders show what they cost.
LedgerInv ==
  /\ \A p \in Products :
       /\ stock[p] >= 0
       /\ IsFiniteSet(Sold(p))
       /\ p \notin listed => Sold(p) = {}
  /\ StockConserved /\ TotalsExact

ShopInv == IInv /\ LedgerInv /\ \A r \in Requests : RequestInv(r)
-----------------------------------------------------------------------------
\* A set of tuples grows by the pairs of a new first component.
LEMMA AddPairs ==
  \A U, x, S : IsFiniteSet(U) /\ IsFiniteSet(S) /\ (\A u \in U : u[1] # x) =>
    /\ IsFiniteSet(U \cup ({x} \X S))
    /\ Cardinality(U \cup ({x} \X S)) = Cardinality(U) + Cardinality(S)
<1> TAKE U, x, S
<1> HAVE IsFiniteSet(U) /\ IsFiniteSet(S) /\ \A u \in U : u[1] # x
<1>1. IsFiniteSet({x}) /\ Cardinality({x}) = 1
  BY FS_Singleton
<1>2. IsFiniteSet({x} \X S) /\ Cardinality({x} \X S) = Cardinality({x}) * Cardinality(S)
  BY <1>1, FS_Product
<1>3. Cardinality(S) \in Nat /\ Cardinality(U) \in Nat
  BY FS_CardinalityType
<1>4. Cardinality({x} \X S) = Cardinality(S)
  BY <1>1, <1>2, <1>3
<1>5. U \cap ({x} \X S) = {}
  OBVIOUS
<1>6. Cardinality(U \cap ({x} \X S)) = 0
  BY <1>5, FS_EmptySet
<1>7. /\ IsFiniteSet(U \cup ({x} \X S))
      /\ Cardinality(U \cup ({x} \X S)) =
           Cardinality(U) + Cardinality({x} \X S) - Cardinality(U \cap ({x} \X S))
  BY <1>2, FS_Union
<1> QED  BY <1>3, <1>4, <1>6, <1>7

\* Counting to n.
LEMMA CountTo ==
  ASSUME NEW n \in Int, n > 0
  PROVE  IsFiniteSet(1..n) /\ Cardinality(1..n) = n
<1>1. 1 \in Int /\ ~(1 > n)
  OBVIOUS
<1>2. IsFiniteSet(1..n) /\ Cardinality(1..n) = IF 1 > n THEN 0 ELSE n - 1 + 1
  BY FS_Interval
<1> QED  BY <1>1, <1>2

\* The lines of a request.
LEMMA LineType ==
  ASSUME NEW r \in Requests
  PROVE  /\ Len(Items[r]) \in Nat
         /\ DOMAIN Items[r] = 1..Len(Items[r])
         /\ \A i \in 1..Len(Items[r]) :
              /\ Items[r][i].product \in Products
              /\ Items[r][i].qty \in Int
              /\ Price[Items[r][i].product] \in 1..(IntHalf - 1)
<1>1. Items[r] \in Seq([product : Products, qty : Int])
  BY RequestsAssumption
<1>2. \A i \in 1..Len(Items[r]) : Items[r][i] \in [product : Products, qty : Int]
  BY <1>1, ElementOfSeq
<1> QED  BY <1>1, <1>2, ProductsAssumption, SMTT(30)

\* The units of one more line.
LEMMA UnitsStep ==
  ASSUME NEW r \in Requests, NEW p, NEW n \in Nat, n + 1 <= Len(Items[r]),
         Items[r][n + 1].qty > 0, IsFiniteSet(UnitsTo(r, p, n))
  PROVE  /\ IsFiniteSet(UnitsTo(r, p, n + 1))
         /\ Cardinality(UnitsTo(r, p, n + 1)) =
              Cardinality(UnitsTo(r, p, n))
                + (IF Items[r][n + 1].product = p THEN Items[r][n + 1].qty ELSE 0)
<1> DEFINE it == Items[r][n + 1]
           J(m) == {j \in 1..m : Items[r][j].product = p}
           S == 1..it.qty
<1>1. n + 1 \in 1..Len(Items[r]) /\ it.qty \in Int
  BY LineType
<1>2. IsFiniteSet(S) /\ Cardinality(S) = it.qty
  BY <1>1, CountTo
<1>3. Cardinality(UnitsTo(r, p, n)) \in Nat
  BY FS_CardinalityType
<1>4. CASE it.product = p
  <2>1. J(n + 1) = J(n) \cup {n + 1}
    BY <1>4
  <2>2. UnitsTo(r, p, n + 1) = UnitsTo(r, p, n) \cup ({n + 1} \X S)
    BY <2>1, Zenon DEF UnitsTo
  <2>3. \A u \in UnitsTo(r, p, n) : u[1] # n + 1
    BY DEF UnitsTo
  <2> HIDE DEF S
  <2>4. /\ IsFiniteSet(UnitsTo(r, p, n) \cup ({n + 1} \X S))
        /\ Cardinality(UnitsTo(r, p, n) \cup ({n + 1} \X S)) =
             Cardinality(UnitsTo(r, p, n)) + Cardinality(S)
    <3> DEFINE U == UnitsTo(r, p, n)
               x == n + 1
    <3>1. IsFiniteSet(U) /\ IsFiniteSet(S) /\ \A u \in U : u[1] # x
      BY <1>2, <2>3
    <3> HIDE DEF U, x
    <3>2. /\ IsFiniteSet(U \cup ({x} \X S))
          /\ Cardinality(U \cup ({x} \X S)) = Cardinality(U) + Cardinality(S)
      BY <3>1, AddPairs, ZenonT(60)
    <3> QED  BY <3>2 DEF U, x
  <2> QED  BY <1>2, <1>4, <2>2, <2>4
<1>5. CASE it.product # p
  <2>1. J(n + 1) = J(n)
    BY <1>5
  <2>2. UnitsTo(r, p, n + 1) = UnitsTo(r, p, n)
    BY <2>1, Zenon DEF UnitsTo
  <2> QED  BY <1>3, <1>5, <2>2
<1> QED  BY <1>4, <1>5

\* The cents of one more line.
LEMMA CentsStep ==
  ASSUME NEW r \in Requests, NEW n \in Nat, n + 1 <= Len(Items[r]),
         Items[r][n + 1].qty > 0, IsFiniteSet(CentsTo(r, n))
  PROVE  /\ IsFiniteSet(CentsTo(r, n + 1))
         /\ Cardinality(CentsTo(r, n + 1)) =
              Cardinality(CentsTo(r, n))
                + Price[Items[r][n + 1].product] * Items[r][n + 1].qty
<1> DEFINE it == Items[r][n + 1]
           S == (1..Price[it.product]) \X (1..it.qty)
<1>1. n + 1 \in 1..Len(Items[r]) /\ it.qty \in Int /\ Price[it.product] \in 1..(IntHalf - 1)
  BY LineType
<1>2. /\ IsFiniteSet(1..it.qty) /\ Cardinality(1..it.qty) = it.qty
      /\ IsFiniteSet(1..Price[it.product])
      /\ Cardinality(1..Price[it.product]) = Price[it.product]
  <2>1. it.qty \in Int /\ it.qty > 0 /\ Price[it.product] \in Int /\ Price[it.product] > 0
    BY <1>1, ProductsAssumption
  <2> QED  BY <2>1, CountTo
<1>3. IsFiniteSet(S) /\ Cardinality(S) = Price[it.product] * it.qty
  <2>1. IsFiniteSet(S) /\ Cardinality(S) = Cardinality(1..Price[it.product]) * Cardinality(1..it.qty)
    BY <1>2, FS_Product
  <2> QED  BY <1>2, <2>1
<1>4. 1..(n + 1) = (1..n) \cup {n + 1}
  OBVIOUS
<1>5. CentsTo(r, n + 1) = CentsTo(r, n) \cup ({n + 1} \X S)
  BY <1>4, Zenon DEF CentsTo
<1>6. \A u \in CentsTo(r, n) : u[1] # n + 1
  BY DEF CentsTo
<1> HIDE DEF S
<1>7. /\ IsFiniteSet(CentsTo(r, n) \cup ({n + 1} \X S))
      /\ Cardinality(CentsTo(r, n) \cup ({n + 1} \X S)) =
           Cardinality(CentsTo(r, n)) + Cardinality(S)
  <2> DEFINE U == CentsTo(r, n)
             x == n + 1
  <2>1. IsFiniteSet(U) /\ IsFiniteSet(S) /\ \A u \in U : u[1] # x
    BY <1>3, <1>6
  <2> HIDE DEF U, x
  <2>2. /\ IsFiniteSet(U \cup ({x} \X S))
        /\ Cardinality(U \cup ({x} \X S)) = Cardinality(U) + Cardinality(S)
    BY <2>1, AddPairs, ZenonT(60)
  <2> QED  BY <2>2 DEF U, x
<1> QED  BY <1>3, <1>5, <1>7

\* No line, no units and no cents; all lines, all of them.
LEMMA UnitsEnds ==
  ASSUME NEW r \in Requests, NEW p
  PROVE  /\ UnitsTo(r, p, 0) = {} /\ CentsTo(r, 0) = {}
         /\ UnitsTo(r, p, Len(Items[r])) = Units(r, p)
         /\ CentsTo(r, Len(Items[r])) = Cents(r)
<1>1. 1..0 = {}
  OBVIOUS
<1>2. UnitsTo(r, p, 0) = {} /\ CentsTo(r, 0) = {}
  BY <1>1, Zenon DEF UnitsTo, CentsTo
<1>3. DOMAIN Items[r] = 1..Len(Items[r])
  BY LineType
<1> QED  BY <1>2, <1>3, Zenon DEF UnitsTo, CentsTo, Units, Cents

\* A product no line names has no units.
LEMMA NoUnits ==
  ASSUME NEW r \in Requests, NEW p, NEW n, \A i \in 1..n : Items[r][i].product # p
  PROVE  UnitsTo(r, p, n) = {}
<1>1. {j \in 1..n : Items[r][j].product = p} = {}
  OBVIOUS
<1> QED  BY <1>1, Zenon DEF UnitsTo

\* A number that fits is not changed by wrapping.
LEMMA WrapFits ==
  ASSUME NEW n \in Nat, n < IntHalf
  PROVE  Wrap(n) = n
<1>1. IntHalf \in Nat \ {0}
  BY ProductsAssumption
<1>2. n + IntHalf \in 0..(2 * IntHalf - 1)
  BY <1>1
<1>3. (n + IntHalf) % (2 * IntHalf) = n + IntHalf
  BY <1>1, <1>2
<1> QED  BY <1>1, <1>3 DEF Wrap

\* The total of a line with a positive quantity.
LEMMA LinePositive ==
  ASSUME NEW a \in Nat \ {0}, NEW b \in Nat \ {0}
  PROVE  a * b \in Nat /\ a * b > 0
OBVIOUS
-----------------------------------------------------------------------------
\* The loops stay within the lines.
LEMMA LoopRange ==
  ASSUME IInv, NEW r \in Requests
  PROVE  /\ Locked(r) \in 0..Len(Items[r])
         /\ Inserted(r) \in 0..Len(Items[r])
         /\ pc[r] \in Taking => Locked(r) = Len(Items[r]) /\ Inserted(r) <= Locked(r)
<1>1. Len(Items[r]) \in Nat
  BY LineType
<1>2. next[r] \in Nat \ {0} /\ (pc[r] \in {"lockItems", "insertItems"} => next[r] <= Len(Items[r]))
  BY DEF IInv, TypeOK, LoopInv
<1> QED  BY <1>1, <1>2 DEF Locked, Inserted, Taking, Holding

\* Stock is subtracted only from rows the transaction has locked.
LEMMA TakenLocked ==
  ASSUME ShopInv, NEW r \in Requests, NEW p \in Products, taken[r][p] # 0
  PROVE  rowLock[p] = r /\ p \in listed
<1>1. /\ pc[r] \in Taking
      /\ taken[r][p] = Cardinality(UnitsTo(r, p, Inserted(r)))
  BY DEF ShopInv, RequestInv, TakenOf, Nothing
<1>2. UnitsTo(r, p, Inserted(r)) # {}
  BY <1>1, FS_EmptySet
<1>3. PICK i \in 1..Inserted(r) : Items[r][i].product = p
  BY <1>2, NoUnits
<1>4. i \in 1..Locked(r)
  BY <1>1, LoopRange DEF ShopInv
<1> QED  BY <1>3, <1>4 DEF ShopInv, RequestInv, LockOf

\* A request keeps its part of the invariant when others change only rows that
\* it has not locked.
LEMMA OthersKept ==
  ASSUME ShopInv, NEW s \in Requests,
         listed \subseteq listed', orders \subseteq orders',
         pc'[s] = pc[s], next'[s] = next[s], total'[s] = total[s],
         payStatus'[s] = payStatus[s], taken'[s] = taken[s],
         answer'[s] = answer[s], shown'[s] = shown[s],
         \A p \in Products : stock'[p] >= 0,
         \A p \in Products : rowLock[p] = s => rowLock'[p] = s,
         \A p \in Products : rowLock[p] = s /\ p \in listed => stock'[p] = stock[p]
  PROVE  RequestInv(s)'
<1>1. Locked(s)' = Locked(s) /\ Inserted(s)' = Inserted(s)
  BY DEF Locked, Inserted
<1>2. RequestInv(s)
  BY DEF ShopInv
<1>3. LockOf(s)'
  <2> SUFFICES ASSUME NEW i \in 1..Locked(s)
               PROVE  /\ Items[s][i].qty > 0
                      /\ Items[s][i].product \in listed'
                      /\ rowLock'[Items[s][i].product] = s
                      /\ Items[s][i].qty <= stock'[Items[s][i].product]
    BY <1>1 DEF LockOf
  <2>1. Items[s][i].product \in Products
    BY LoopRange, LineType DEF ShopInv
  <2> QED  BY <1>2, <2>1 DEF RequestInv, LockOf
<1>4. TakenOf(s)'
  <2>1. \A p \in Products : taken'[s][p] <= stock'[p]
    <3> SUFFICES ASSUME NEW p \in Products PROVE taken[s][p] <= stock'[p]
      OBVIOUS
    <3>1. CASE taken[s][p] = 0
      BY <3>1
    <3>2. CASE taken[s][p] # 0
      BY <1>2, <3>2, TakenLocked DEF RequestInv, TakenOf
    <3> QED  BY <3>1, <3>2
  <2> QED  BY <1>1, <1>2, <2>1 DEF RequestInv, TakenOf
<1>5. CostOf(s)'
  BY <1>1, <1>2 DEF RequestInv, CostOf
<1>6. PayOf(s)'
  BY <1>2 DEF RequestInv, PayOf
<1> QED  BY <1>3, <1>4, <1>5, <1>6 DEF RequestInv

\* A step of r that commits nothing: it suffices to look at r.
LEMMA OwnStep ==
  ASSUME ShopInv, IInv', NEW r \in Requests, UNCHANGED <<listed, stock, db>>,
         \A s \in Requests \ {r} :
           /\ pc'[s] = pc[s] /\ next'[s] = next[s] /\ total'[s] = total[s]
           /\ payStatus'[s] = payStatus[s] /\ taken'[s] = taken[s]
           /\ answer'[s] = answer[s] /\ shown'[s] = shown[s],
         \A p \in Products : rowLock[p] \notin {None, r} => rowLock'[p] = rowLock[p],
         r \in orders => payStatus'[r] = payStatus[r] /\ total'[r] = total[r],
         RequestInv(r)'
  PROVE  ShopInv'
<1>1. orders' = orders /\ orders \subseteq Requests
  BY DEF orders, ShopInv, IInv, TypeOK, Tables
<1>2. \A s \in orders : payStatus'[s] = payStatus[s] /\ total'[s] = total[s]
  BY <1>1
<1>3. \A p : Sold(p)' = Sold(p)
  <2> SUFFICES ASSUME NEW p PROVE Sold(p)' = Sold(p)
    OBVIOUS
  <2>1. {s \in orders : payStatus[s] = "paid"}' = {s \in orders : payStatus[s] = "paid"}
    BY <1>1, <1>2
  <2> QED  BY <2>1, Zenon DEF Sold
<1>4. LedgerInv'
  BY <1>1, <1>2, <1>3 DEF ShopInv, LedgerInv, StockConserved, TotalsExact
<1>5. ASSUME NEW s \in Requests \ {r} PROVE RequestInv(s)'
  <2>1. None # s
    BY RequestsAssumption
  <2>2. \A p \in Products : stock'[p] >= 0
    BY DEF ShopInv, LedgerInv
  <2> QED  BY <1>1, <1>5, <2>1, <2>2, OthersKept
<1> QED  BY <1>4, <1>5 DEF ShopInv
-----------------------------------------------------------------------------
\* Who is inside CreateOrder's transaction is not an order yet.
LEMMA OpenIsNoOrder ==
  ASSUME IInv, NEW r \in Requests, pc[r] \in Holding
  PROVE  r \notin orders
BY DEF IInv, KeyInv

\* An error return gives back what was taken; it must not strand a payment.
LEMMA RollbackShop ==
  ASSUME ShopInv, IInv', NEW r \in Requests, NEW err \in Answers, Rollback(r, err),
         payStatus[r] = "paid" /\ r \notin Faulty /\ DistinctLines(r) /\ LinesFit(r)
           => r \in orders
  PROVE  ShopInv'
<1> USE DEF Rollback
<1>1. TypeOK
  BY DEF ShopInv, IInv
<1>2. pc'[r] = "done" /\ taken'[r] = Nothing
  BY <1>1 DEF TypeOK
<1>3. LockOf(r)' /\ CostOf(r)'
  BY <1>2 DEF LockOf, CostOf, Locked, Holding
<1>4. TakenOf(r)'
  BY <1>2 DEF TakenOf, Taking, Nothing, ShopInv, LedgerInv
<1>5. PayOf(r)'
  BY <1>2 DEF PayOf, Charged, Taking, orders
<1>6. \A p \in Products : rowLock[p] \notin {None, r} => rowLock'[p] = rowLock[p]
  BY DEF Unlock
<1>7. RequestInv(r)'
  BY <1>3, <1>4, <1>5 DEF RequestInv
<1>8. \A s \in Requests \ {r} :
        /\ pc'[s] = pc[s] /\ next'[s] = next[s] /\ total'[s] = total[s]
        /\ payStatus'[s] = payStatus[s] /\ taken'[s] = taken[s]
        /\ answer'[s] = answer[s] /\ shown'[s] = shown[s]
  BY <1>1 DEF TypeOK
<1> QED  BY <1>6, <1>7, <1>8, OwnStep

\* The steps that touch neither locks nor money.
LEMMA EarlyShop ==
  ASSUME ShopInv, IInv', NEW r \in Requests,
         Reject(r) \/ Begin(r) \/ InsertKey(r) \/ FindKey(r) \/ Replay(r)
  PROVE  ShopInv'
<1> USE DEF Reject, Begin, InsertKey, FindKey, Replay, Write, store, reply
<1>1. TypeOK /\ LedgerInv /\ RequestInv(r)
  BY DEF ShopInv, IInv
<1>2. /\ UNCHANGED <<listed, stock, db, rowLock, next, total, payStatus, taken>>
      /\ pc[r] \in {"new", "insertKey", "replay"}
      /\ pc'[r] \in {"done", "insertKey", "lockItems", "replay"}
      /\ pc'[r] = "insertKey" => pc[r] = "new"
      /\ pc'[r] = "lockItems" => pc[r] = "insertKey"
      /\ pc'[r] # "done" => answer'[r] = answer[r] /\ shown'[r] = shown[r]
  BY <1>1 DEF TypeOK
<1>3. taken[r] = Nothing /\ payStatus[r] = "none"
  BY <1>1, <1>2 DEF RequestInv, TakenOf, PayOf, Taking
<1>4. LockOf(r)'
  <2>1. Locked(r)' = 0
    BY <1>1, <1>2 DEF Locked, Holding, RequestInv, CostOf
  <2> QED  BY <2>1 DEF LockOf
<1>5. TakenOf(r)'
  BY <1>1, <1>2, <1>3 DEF TakenOf, Taking, Nothing, LedgerInv
<1>6. CostOf(r)'
  <2>1. pc'[r] = "lockItems" => Locked(r)' = 0 /\ total'[r] = 0
    BY <1>1, <1>2 DEF Locked, RequestInv, CostOf
  <2>2. CentsTo(r, 0) = {}
    BY UnitsEnds
  <2> QED  BY <1>1, <1>2, <2>1, <2>2, FS_EmptySet DEF CostOf, RequestInv, Holding
<1>7. PayOf(r)'
  BY <1>1, <1>2, <1>3 DEF PayOf, RequestInv, Charged, Taking
<1>8. RequestInv(r)'
  BY <1>4, <1>5, <1>6, <1>7 DEF RequestInv
<1>9. \A s \in Requests \ {r} :
        /\ pc'[s] = pc[s] /\ next'[s] = next[s] /\ total'[s] = total[s]
        /\ payStatus'[s] = payStatus[s] /\ taken'[s] = taken[s]
        /\ answer'[s] = answer[s] /\ shown'[s] = shown[s]
  BY <1>1 DEF TypeOK
<1> QED  BY <1>2, <1>8, <1>9, OwnStep

\* A locked row is r's, has the stock the line needs, and its line is in the total.
LEMMA LockItemShop ==
  ASSUME ShopInv, IInv', NEW r \in Requests, LockItem(r)
  PROVE  ShopInv'
<1> USE DEF LockItem, Advance, reply
<1> DEFINE n == next[r] - 1
           it == Item(r)
<1>1. TypeOK /\ LedgerInv /\ RequestInv(r) /\ r \notin orders
  BY OpenIsNoOrder DEF ShopInv, IInv, Holding
<1>2. /\ Len(Items[r]) \in Nat /\ n \in Nat /\ n + 1 = next[r] /\ n + 1 <= Len(Items[r])
      /\ it = Items[r][n + 1] /\ it.qty \in Int /\ it.qty > 0 /\ it.product \in Products
      /\ Price[it.product] \in 1..(IntHalf - 1)
  BY <1>1, LineType DEF Item, TypeOK, ShopInv, IInv, LoopInv
<1>3. /\ next'[r] = n + 2
      /\ pc'[r] = IF n + 1 = Len(Items[r]) THEN "charge" ELSE "lockItems"
      /\ rowLock'[it.product] = r
      /\ total'[r] = AddLine(r)
  <2>1. next'[r] = next[r] + 1
    BY <1>1 DEF TypeOK
  <2>2. pc'[r] = IF next[r] = Len(Items[r]) THEN "charge" ELSE "lockItems"
    BY <1>1 DEF TypeOK
  <2>3. rowLock'[it.product] = r /\ total'[r] = AddLine(r)
    BY <1>1, <1>2 DEF TypeOK
  <2> QED  BY <1>1, <1>2, <2>1, <2>2, <2>3 DEF TypeOK
<1>4. Locked(r) = n /\ Locked(r)' = n + 1
  BY <1>2, <1>3 DEF Locked, Holding
<1>5. LockOf(r)'
  <2> SUFFICES ASSUME NEW i \in 1..(n + 1)
               PROVE  /\ Items[r][i].qty > 0
                      /\ Items[r][i].product \in listed
                      /\ rowLock'[Items[r][i].product] = r
                      /\ Items[r][i].qty <= stock[Items[r][i].product]
    BY <1>4 DEF LockOf
  <2>1. CASE i = n + 1
    BY <1>2, <1>3, <2>1 DEF Covers
  <2>2. CASE i # n + 1
    <3>1. i \in 1..Locked(r) /\ i \in 1..Len(Items[r])
      BY <1>2, <1>4, <2>2
    <3>2. Items[r][i].product \in Products
      BY <3>1, LineType
    <3> QED  BY <1>1, <3>1, <3>2 DEF RequestInv, LockOf, TypeOK
  <2> QED  BY <2>1, <2>2
<1>6. CostOf(r)'
  <2> DEFINE c == Cardinality(CentsTo(r, n))
             line == Price[it.product] * it.qty
  <2>1. IsFiniteSet(CentsTo(r, n)) /\ c \in Nat /\ (c < IntHalf => total[r] = c)
    BY <1>1, <1>4, FS_CardinalityType DEF RequestInv, CostOf, Holding
  <2>2. IsFiniteSet(CentsTo(r, n + 1)) /\ Cardinality(CentsTo(r, n + 1)) = c + line
    BY <1>2, <2>1, CentsStep
  <2>3. line \in Nat
    <3>1. Price[it.product] \in Nat \ {0} /\ it.qty \in Nat \ {0}
      BY <1>2, ProductsAssumption
    <3> QED  BY <3>1, LinePositive
  <2>4. ASSUME c + line < IntHalf PROVE AddLine(r) = c + line
    <3> HIDE DEF c
    <3>1. c < IntHalf /\ line < IntHalf
      BY <2>1, <2>3, <2>4, ProductsAssumption
    <3>2. LineTotal(it) = line
      BY <2>3, <3>1, WrapFits DEF LineTotal
    <3>3. total[r] + LineTotal(it) = c + line /\ c + line \in Nat
      BY <2>1, <2>3, <3>1, <3>2
    <3> QED  BY <2>4, <3>3, WrapFits DEF AddLine
  <2> QED  BY <1>3, <1>4, <2>2, <2>4 DEF CostOf, Holding
<1>7. TakenOf(r)'
  BY <1>1, <1>3 DEF RequestInv, TakenOf, Taking
<1>8. PayOf(r)'
  BY <1>1, <1>3 DEF RequestInv, PayOf, Charged, Taking
<1>9. RequestInv(r)'
  BY <1>5, <1>6, <1>7, <1>8 DEF RequestInv
<1>10. \A s \in Requests \ {r} :
        /\ pc'[s] = pc[s] /\ next'[s] = next[s] /\ total'[s] = total[s]
        /\ payStatus'[s] = payStatus[s] /\ taken'[s] = taken[s]
        /\ answer'[s] = answer[s] /\ shown'[s] = shown[s]
  BY <1>1 DEF TypeOK
<1>11. \A p \in Products : rowLock[p] \notin {None, r} => rowLock'[p] = rowLock[p]
  BY <1>1, <1>2 DEF TypeOK, RowFree
<1> QED  BY <1>1, <1>9, <1>10, <1>11, OwnStep

\* Charge and the statements without a loop keep locks, stock and total.
LEMMA WriteShop ==
  ASSUME ShopInv, IInv', NEW r \in Requests,
         \/ Charge(r) \/ InsertOrder(r)
         \/ InsertPayment(r) \/ UpdateKey(r) \/ InsertOutbox(r)
  PROVE  ShopInv'
<1> USE DEF Charge, InsertOrder, InsertPayment, UpdateKey, InsertOutbox, Write, store, reply
<1>1. TypeOK /\ LedgerInv /\ RequestInv(r) /\ r \notin orders
  BY OpenIsNoOrder DEF ShopInv, IInv, Holding
<1>2. /\ UNCHANGED <<listed, stock, db, rowLock, total, taken, answer, shown>>
      /\ pc[r] \in {"charge", "insertOrder", "insertPayment", "updateKey", "insertOutbox"}
      /\ pc'[r] \in {"insertOrder", "insertItems", "updateKey", "insertOutbox", "commit"}
      /\ pc'[r] = "insertOrder" <=> pc[r] = "charge"
      /\ pc'[r] = "insertItems" <=> pc[r] = "insertOrder"
      /\ pc'[r] = "insertItems" => next'[r] = 1
  BY <1>1 DEF TypeOK
<1>3. payStatus'[r] = IF r \in Declined THEN "failed" ELSE "paid"
  <2>1. CASE Charge(r)
    BY <1>1, <2>1 DEF TypeOK
  <2>2. CASE ~Charge(r)
    BY <1>1, <2>2 DEF RequestInv, PayOf, Charged, Taking
  <2> QED  BY <2>1, <2>2
<1>4. pc[r] # "charge" => payStatus'[r] = payStatus[r]
  BY <1>1
<1>5. Locked(r)' = Locked(r)
  BY <1>2 DEF Locked, Holding
<1>6. LockOf(r)' /\ CostOf(r)'
  BY <1>1, <1>2, <1>5 DEF RequestInv, LockOf, CostOf, Holding
<1>7. TakenOf(r)'
  <2>1. CASE pc[r] = "charge"
    BY <1>1, <1>2, <2>1 DEF RequestInv, TakenOf, Taking
  <2>2. CASE pc[r] = "insertOrder"
    <3>1. taken[r] = Nothing
      BY <1>1, <2>2 DEF RequestInv, TakenOf, Taking
    <3>2. Inserted(r)' = 0
      BY <1>2, <2>2 DEF Inserted
    <3>3. \A p : UnitsTo(r, p, 0) = {}
      BY UnitsEnds
    <3> QED  BY <1>1, <1>2, <3>1, <3>2, <3>3, FS_EmptySet DEF RequestInv, TakenOf, Nothing
  <2>3. CASE pc[r] \notin {"charge", "insertOrder"}
    <3>1. Inserted(r)' = Inserted(r)
      BY <1>2, <2>3 DEF Inserted
    <3> QED  BY <1>1, <1>2, <1>4, <2>3, <3>1 DEF RequestInv, TakenOf, Taking
  <2> QED  BY <2>1, <2>2, <2>3
<1>8. PayOf(r)'
  BY <1>1, <1>2, <1>3 DEF RequestInv, PayOf, Charged, Taking
<1>9. RequestInv(r)'
  BY <1>6, <1>7, <1>8 DEF RequestInv
<1>10. \A s \in Requests \ {r} :
        /\ pc'[s] = pc[s] /\ next'[s] = next[s] /\ total'[s] = total[s]
        /\ payStatus'[s] = payStatus[s] /\ taken'[s] = taken[s]
        /\ answer'[s] = answer[s] /\ shown'[s] = shown[s]
  BY <1>1 DEF TypeOK
<1> QED  BY <1>1, <1>2, <1>9, <1>10, OwnStep

\* The UPDATE of the stock takes the units of one more line, and no more than there is.
LEMMA InsertItemShop ==
  ASSUME ShopInv, IInv', NEW r \in Requests, InsertItem(r)
  PROVE  ShopInv'
<1> USE DEF InsertItem, Advance, store, reply
<1> DEFINE n == next[r] - 1
           it == Item(r)
<1>1. TypeOK /\ LedgerInv /\ RequestInv(r) /\ r \notin orders
  BY OpenIsNoOrder DEF ShopInv, IInv, Holding
<1>2. /\ Len(Items[r]) \in Nat /\ n \in Nat /\ n + 1 = next[r] /\ n + 1 <= Len(Items[r])
      /\ it = Items[r][n + 1] /\ it.qty \in Int /\ it.product \in Products
  BY <1>1, LineType, SMTT(30) DEF Item, TypeOK, ShopInv, IInv, LoopInv
<1>3. /\ next'[r] = n + 2
      /\ pc'[r] = IF n + 1 = Len(Items[r]) THEN "insertPayment" ELSE "insertItems"
  <2>1. next'[r] = next[r] + 1
    BY <1>1 DEF TypeOK
  <2>2. pc'[r] = IF next[r] = Len(Items[r]) THEN "insertPayment" ELSE "insertItems"
    BY <1>1 DEF TypeOK
  <2> QED  BY <1>1, <1>2, <2>1, <2>2 DEF TypeOK
<1>4. /\ Locked(r)' = Locked(r) /\ Locked(r) = Len(Items[r])
      /\ Inserted(r) = n /\ Inserted(r)' = n + 1
  BY <1>2, <1>3 DEF Locked, Inserted, Holding
<1>5. it.qty > 0
  BY <1>1, <1>2, <1>4 DEF RequestInv, LockOf
<1>6. LockOf(r)' /\ CostOf(r)'
  BY <1>1, <1>3, <1>4 DEF RequestInv, LockOf, CostOf, Holding
<1>7. PayOf(r)'
  BY <1>1, <1>3 DEF RequestInv, PayOf, Charged, Taking
<1>8. TakenOf(r)'
  <2>1. CASE payStatus[r] # "paid"
    BY <1>1, <1>3, <2>1 DEF RequestInv, TakenOf, Taking, TakesStock
  <2>2. CASE payStatus[r] = "paid"
    <3>1. taken'[r] = [taken[r] EXCEPT ![it.product] = @ + it.qty]
      BY <1>1, <2>2 DEF TakesStock, TypeOK
    <3>2. stock[it.product] - taken[r][it.product] - it.qty >= 0
      BY <2>2 DEF RowsAccepted, Remaining, TakesStock
    <3>3. \A p \in Products : taken'[r][p] =
            taken[r][p] + (IF it.product = p THEN it.qty ELSE 0)
      <4> SUFFICES ASSUME NEW p \in Products
                   PROVE  taken'[r][p] = taken[r][p] + (IF it.product = p THEN it.qty ELSE 0)
        OBVIOUS
      <4>1. taken[r] \in [Products -> Int]
        BY <1>1 DEF TypeOK
      <4>2. CASE it.product = p
        BY <3>1, <4>1, <4>2
      <4>3. CASE it.product # p
        BY <3>1, <4>1, <4>3
      <4> QED  BY <4>2, <4>3
    <3>4. \A p \in Products :
            /\ IsFiniteSet(UnitsTo(r, p, n)) /\ taken[r][p] = Cardinality(UnitsTo(r, p, n))
            /\ taken[r][p] <= stock[p]
      BY <1>1, <1>4, <2>2 DEF RequestInv, TakenOf, Taking
    <3>5. \A p \in Products :
            /\ IsFiniteSet(UnitsTo(r, p, n + 1))
            /\ taken'[r][p] = Cardinality(UnitsTo(r, p, n + 1))
      BY <1>2, <1>5, <3>3, <3>4, UnitsStep
    <3>6. \A p \in Products : taken'[r][p] <= stock[p]
      <4> SUFFICES ASSUME NEW p \in Products PROVE taken'[r][p] <= stock[p]
        OBVIOUS
      <4> DEFINE t == taken[r][p]
                 q == it.qty
                 k == stock[p]
      <4>1. t \in Int /\ q \in Int /\ k \in Int
        BY <1>1, <1>2 DEF TypeOK
      <4>2. CASE it.product = p
        <5>1. taken'[r][p] = t + q /\ k - t - q >= 0
          BY <3>2, <3>3, <4>2
        <5> HIDE DEF t, q, k
        <5>2. t + q <= k
          BY <4>1, <5>1
        <5> QED  BY <5>1, <5>2 DEF k
      <4>3. CASE it.product # p
        <5>1. taken'[r][p] = t + 0 /\ t <= k
          BY <3>3, <3>4, <4>3
        <5> QED  BY <4>1, <5>1
      <4> QED  BY <4>2, <4>3
    <3> QED  BY <1>3, <1>4, <2>2, <3>5, <3>6 DEF TakenOf, Taking
  <2> QED  BY <2>1, <2>2
<1>9. RequestInv(r)'
  BY <1>6, <1>7, <1>8 DEF RequestInv
<1>10. \A s \in Requests \ {r} :
        /\ pc'[s] = pc[s] /\ next'[s] = next[s] /\ total'[s] = total[s]
        /\ payStatus'[s] = payStatus[s] /\ taken'[s] = taken[s]
        /\ answer'[s] = answer[s] /\ shown'[s] = shown[s]
  BY <1>1 DEF TypeOK
<1> QED  BY <1>9, <1>10, OwnStep

\* The CHECKs can refuse a captured payment only when a product is named twice or
\* a line overflows.
LEMMA RefuseRowShop ==
  ASSUME ShopInv, IInv', NEW r \in Requests, RefuseRow(r)
  PROVE  ShopInv'
<1> DEFINE n == next[r] - 1
           it == Item(r)
<1>1. TypeOK /\ RequestInv(r) /\ pc[r] = "insertItems" /\ ~RowsAccepted(r)
  BY DEF ShopInv, IInv, RefuseRow
<1>2. /\ Len(Items[r]) \in Nat /\ n \in Nat /\ n + 1 = next[r] /\ n + 1 <= Len(Items[r])
      /\ it = Items[r][n + 1] /\ it.qty \in Int /\ it.product \in Products
      /\ Price[it.product] \in 1..(IntHalf - 1) /\ DOMAIN Items[r] = 1..Len(Items[r])
  <2>1. next[r] \in Nat \ {0} /\ next[r] <= Len(Items[r])
    BY <1>1 DEF TypeOK, ShopInv, IInv, LoopInv
  <2>2. n + 1 = next[r] /\ n \in Nat /\ next[r] \in 1..Len(Items[r])
    BY <2>1, LineType
  <2> QED  BY <2>2, LineType DEF Item
<1>3. Locked(r) = Len(Items[r]) /\ Inserted(r) = n
  BY <1>1 DEF Locked, Inserted, Holding
<1>4. it.qty > 0 /\ it.qty <= stock[it.product]
  BY <1>1, <1>2, <1>3 DEF RequestInv, LockOf
<1>5. ASSUME payStatus[r] = "paid", DistinctLines(r), LinesFit(r) PROVE FALSE
  <2>1. \A i \in 1..n : Items[r][i].product # it.product
    BY <1>2, <1>5 DEF DistinctLines
  <2>2. taken[r][it.product] = Cardinality(UnitsTo(r, it.product, n))
    BY <1>1, <1>2, <1>3, <1>5 DEF RequestInv, TakenOf, Taking
  <2>3. taken[r][it.product] = 0
    BY <2>1, <2>2, NoUnits, FS_EmptySet
  <2>4. Remaining(r) >= 0
    BY <1>1, <1>2, <1>4, <2>3 DEF Remaining, TypeOK
  <2>5. Price[it.product] * it.qty < IntHalf
    BY <1>2, <1>5 DEF LinesFit
  <2>6. Price[it.product] * it.qty \in Nat /\ Price[it.product] * it.qty > 0
    <3>1. Price[it.product] \in Nat \ {0} /\ it.qty \in Nat \ {0}
      BY <1>2, <1>4, ProductsAssumption
    <3> QED  BY <3>1, LinePositive
  <2>7. LineTotal(it) > 0
    BY <2>5, <2>6, WrapFits DEF LineTotal
  <2> QED  BY <1>1, <2>4, <2>7 DEF RowsAccepted
<1> QED  BY <1>5, RollbackShop DEF RefuseRow, Answers

\* The units of p that the requests of T ask for.
SoldTo(p, T) == UNION {{s} \X Units(s, p) : s \in T}

\* One more request adds its units.
LEMMA SoldStep ==
  ASSUME NEW p, NEW r, NEW T, r \notin T,
         IsFiniteSet(SoldTo(p, T)), IsFiniteSet(Units(r, p))
  PROVE  /\ SoldTo(p, T \cup {r}) = SoldTo(p, T) \cup ({r} \X Units(r, p))
         /\ IsFiniteSet(SoldTo(p, T \cup {r}))
         /\ Cardinality(SoldTo(p, T \cup {r})) = Cardinality(SoldTo(p, T)) + Cardinality(Units(r, p))
<1>1. SoldTo(p, T \cup {r}) = SoldTo(p, T) \cup ({r} \X Units(r, p))
  BY Zenon DEF SoldTo
<1> DEFINE V == SoldTo(p, T)
           U == Units(r, p)
<1>2. IsFiniteSet(V) /\ IsFiniteSet(U) /\ \A u \in V : u[1] # r
  BY DEF SoldTo
<1> HIDE DEF V, U
<1>3. /\ IsFiniteSet(V \cup ({r} \X U))
      /\ Cardinality(V \cup ({r} \X U)) = Cardinality(V) + Cardinality(U)
  BY <1>2, AddPairs, ZenonT(60)
<1> QED  BY <1>1, <1>3 DEF V, U

\* A commit moves the units of a paid order from the stock to the sold ones.
LEMMA PublishShop ==
  ASSUME ShopInv, IInv', NEW r \in Requests, Publish(r),
         \A s \in Requests \ {r} : answer'[s] = answer[s] /\ shown'[s] = shown[s]
  PROVE  ShopInv'
<1> USE DEF Publish
<1>1. TypeOK /\ LedgerInv /\ RequestInv(r) /\ r \notin orders /\ orders \subseteq Requests
  BY OpenIsNoOrder DEF ShopInv, IInv, Holding, TypeOK, orders, Tables
<1>2. orders' = orders \cup {r}
  <2>1. staged[r] = Tables
    BY DEF ShopInv, IInv, StagedInv, StagedAt
  <2> QED  BY <2>1 DEF orders, Tables
<1>3. /\ pc'[r] = "done" /\ taken'[r] = Nothing
      /\ UNCHANGED <<listed, next, total, payStatus>>
      /\ Locked(r) = Len(Items[r]) /\ Inserted(r) = Len(Items[r])
  BY <1>1 DEF TypeOK, Locked, Inserted, Holding
<1>4. \A p \in Products :
        /\ stock[p] \in Int /\ taken[r][p] \in Int
        /\ stock'[p] = stock[p] - taken[r][p]
  BY <1>1 DEF TypeOK
<1>5. \A p \in Products : stock'[p] >= 0
  BY <1>1, <1>4 DEF RequestInv, TakenOf
<1>6. ASSUME NEW s \in Requests \ {r} PROVE RequestInv(s)'
  <2>1. \A p \in Products : rowLock[p] = s => rowLock'[p] = s
    BY DEF Unlock
  <2>2. \A p \in Products : rowLock[p] = s => taken[r][p] = 0
    BY TakenLocked
  <2>3. \A p \in Products : rowLock[p] = s => stock'[p] = stock[p]
    BY <1>4, <2>2
  <2>4. pc'[s] = pc[s] /\ taken'[s] = taken[s]
    BY <1>1 DEF TypeOK
  <2> QED  BY <1>2, <1>3, <1>5, <1>6, <2>1, <2>3, <2>4, OthersKept
<1>7. RequestInv(r)'
  <2>1. LockOf(r)' /\ CostOf(r)'
    BY <1>3 DEF LockOf, CostOf, Locked, Holding
  <2>2. TakenOf(r)'
    BY <1>3, <1>5 DEF TakenOf, Taking, Nothing
  <2>3. PayOf(r)'
    BY <1>2, <1>3 DEF PayOf, Charged, Taking
  <2> QED  BY <2>1, <2>2, <2>3 DEF RequestInv
<1>8. ASSUME NEW p \in Products
      PROVE  /\ IsFiniteSet(Sold(p)')
             /\ Cardinality(Sold(p)') = Cardinality(Sold(p)) + taken[r][p]
             /\ p \notin listed => Sold(p)' = {}
  <2>1. /\ IsFiniteSet(Sold(p)) /\ Cardinality(Sold(p)) \in Nat
        /\ p \notin listed => Sold(p) = {} /\ taken[r][p] = 0
    BY <1>1, TakenLocked, FS_CardinalityType DEF LedgerInv
  <2>2. CASE payStatus[r] # "paid"
    <3>1. {s \in orders : payStatus[s] = "paid"}' = {s \in orders : payStatus[s] = "paid"}
      BY <1>2, <1>3, <2>2
    <3>2. Sold(p)' = Sold(p)
      BY <3>1, Zenon DEF Sold
    <3>3. taken[r][p] = 0
      BY <1>1, <2>2 DEF RequestInv, TakenOf, Nothing
    <3> QED  BY <2>1, <3>2, <3>3
  <2>3. CASE payStatus[r] = "paid"
    <3>1. {s \in orders : payStatus[s] = "paid"}' = {s \in orders : payStatus[s] = "paid"} \cup {r}
      BY <1>2, <1>3, <2>3
    <3>2. Sold(p)' = SoldTo(p, {s \in orders : payStatus[s] = "paid"} \cup {r})
      BY <3>1 DEF Sold, SoldTo
    <3>3. Sold(p) = SoldTo(p, {s \in orders : payStatus[s] = "paid"})
      BY DEF Sold, SoldTo
    <3>4. IsFiniteSet(Units(r, p)) /\ Cardinality(Units(r, p)) = taken[r][p]
      BY <1>1, <1>3, <2>3, UnitsEnds DEF RequestInv, TakenOf, Taking
    <3>5. /\ Sold(p)' = Sold(p) \cup ({r} \X Units(r, p))
          /\ IsFiniteSet(Sold(p)')
          /\ Cardinality(Sold(p)') = Cardinality(Sold(p)) + Cardinality(Units(r, p))
      <4> DEFINE T == {s \in orders : payStatus[s] = "paid"}
      <4>1. r \notin T /\ IsFiniteSet(SoldTo(p, T))
        BY <1>1, <2>1, <3>3
      <4>2. Sold(p)' = SoldTo(p, T \cup {r}) /\ Sold(p) = SoldTo(p, T)
        BY <3>2, <3>3
      <4> HIDE DEF T
      <4> QED  BY <3>4, <4>1, <4>2, SoldStep
    <3>6. p \notin listed => Units(r, p) = {}
      BY <2>1, <3>4, FS_EmptySet
    <3> QED  BY <2>1, <3>4, <3>5, <3>6
  <2> QED  BY <2>2, <2>3
<1>9. StockConserved'
  <2> SUFFICES ASSUME NEW p \in listed
               PROVE  stock'[p] >= 0 /\ stock'[p] + Cardinality(Sold(p)') = StartStock[p]
    BY <1>3 DEF StockConserved
  <2>1. p \in Products
    BY <1>1 DEF TypeOK
  <2>2. stock[p] + Cardinality(Sold(p)) = StartStock[p] /\ Cardinality(Sold(p)) \in Nat
    BY <1>1, <2>1, FS_CardinalityType DEF LedgerInv, StockConserved
  <2>3. Cardinality(Sold(p)') = Cardinality(Sold(p)) + taken[r][p]
    BY <1>8, <2>1
  <2> QED  BY <1>4, <1>5, <2>1, <2>2, <2>3
<1>10. TotalsExact'
  <2>1. ExactCost(r) = Cardinality(CentsTo(r, Locked(r)))
    BY <1>3, UnitsEnds DEF ExactCost
  <2>2. ExactCost(r) < IntHalf => total[r] = ExactCost(r)
    BY <1>1, <2>1 DEF RequestInv, CostOf, Holding
  <2> QED  BY <1>1, <1>2, <1>3, <2>2 DEF TotalsExact, LedgerInv
<1>11. LedgerInv'
  BY <1>3, <1>5, <1>8, <1>9, <1>10 DEF LedgerInv
<1> QED  BY <1>6, <1>7, <1>11 DEF ShopInv

\* A product is listed with its stock, and nothing of it is sold.
LEMMA CreateProductShop ==
  ASSUME ShopInv, IInv', NEW p \in Products, CreateProduct(p)
  PROVE  ShopInv'
<1> USE DEF CreateProduct, txn, reply
<1>1. TypeOK /\ LedgerInv /\ StartStock[p] \in Nat
  BY ProductsAssumption DEF ShopInv, IInv
<1>2. \A q \in Products : stock'[q] = IF q = p THEN StartStock[p] ELSE stock[q]
  BY <1>1 DEF TypeOK
<1>3. \A q \in Products : stock'[q] >= 0
  BY <1>1, <1>2 DEF LedgerInv
<1>4. orders' = orders /\ listed \subseteq listed'
  BY DEF orders
<1>5. \A s \in Requests : RequestInv(s)'
  BY <1>2, <1>3, <1>4, OthersKept
<1>6. \A q : Sold(q)' = Sold(q)
  BY <1>4 DEF Sold
<1>7. Sold(p) = {} /\ Cardinality(Sold(p)) = 0
  BY <1>1, FS_EmptySet DEF LedgerInv
<1>8. StockConserved'
  <2> SUFFICES ASSUME NEW q \in listed'
               PROVE  stock'[q] >= 0 /\ stock'[q] + Cardinality(Sold(q)) = StartStock[q]
    BY <1>6 DEF StockConserved
  <2>1. q \in Products
    BY <1>1 DEF TypeOK
  <2>2. CASE q = p
    BY <1>1, <1>2, <1>3, <1>7, <2>1, <2>2
  <2>3. CASE q # p
    BY <1>1, <1>2, <2>1, <2>3 DEF LedgerInv, StockConserved
  <2> QED  BY <2>2, <2>3
<1>9. TotalsExact'
  BY <1>1, <1>4 DEF LedgerInv, TotalsExact
<1>10. LedgerInv'
  BY <1>1, <1>3, <1>6, <1>8, <1>9 DEF LedgerInv
<1> QED  BY <1>5, <1>10 DEF ShopInv

\* Nothing is listed, sold, locked or charged at first.
LEMMA ShopInitInv == Init => ShopInv
<1> SUFFICES ASSUME Init PROVE ShopInv
  OBVIOUS
<1>1. IInv
  BY InitInv
<1>2. orders = {} /\ listed = {}
  BY DEF Init, orders, Tables
<1>3. \A p : Sold(p) = {}
  BY <1>2 DEF Sold
<1>4. LedgerInv
  <2>1. \A p \in Products : stock[p] = 0
    BY DEF Init, Nothing
  <2>2. \A p : IsFiniteSet(Sold(p))
    BY <1>3, FS_EmptySet
  <2>3. StockConserved /\ TotalsExact
    BY <1>2 DEF StockConserved, TotalsExact
  <2> QED  BY <1>3, <2>1, <2>2, <2>3 DEF LedgerInv
<1>5. ASSUME NEW r \in Requests PROVE RequestInv(r)
  <2>1. LockOf(r) /\ CostOf(r)
    BY DEF Init, LockOf, CostOf, Locked, Holding
  <2>2. TakenOf(r)
    BY DEF Init, TakenOf, Taking, Nothing
  <2>3. PayOf(r)
    BY DEF Init, PayOf, Charged, Taking
  <2> QED  BY <2>1, <2>2, <2>3 DEF RequestInv
<1> QED  BY <1>1, <1>4, <1>5 DEF ShopInv

\* Every step keeps the books.
LEMMA ShopNextInv == ShopInv /\ [Next]_vars => ShopInv'
<1> SUFFICES ASSUME ShopInv, [Next]_vars PROVE ShopInv'
  OBVIOUS
<1>1. IInv'
  BY NextInv DEF ShopInv
<1>2. CASE UNCHANGED vars
  <2> USE <1>2 DEF vars, store, txn, reply
  <2>1. \A p : Sold(p)' = Sold(p)
    BY DEF Sold, orders
  <2>2. LedgerInv'
    BY <2>1 DEF ShopInv, LedgerInv, StockConserved, TotalsExact, orders
  <2>3. \A s \in Requests : RequestInv(s)'
    BY OthersKept DEF ShopInv, LedgerInv, orders
  <2> QED  BY <1>1, <2>2, <2>3 DEF ShopInv
<1>3. CASE \E p \in Products : CreateProduct(p)
  BY <1>1, <1>3, CreateProductShop
<1>4. ASSUME NEW r \in Requests, Handle(r) \/ LoseCommitReply(r) \/ FailStatement(r)
      PROVE  ShopInv'
  <2>1. RequestInv(r) /\ TypeOK
    BY DEF ShopInv, IInv
  <2>2. CASE Reject(r) \/ Begin(r) \/ InsertKey(r) \/ FindKey(r) \/ Replay(r)
    BY <1>1, <2>2, EarlyShop
  <2>3. CASE ConflictKey(r) \/ RefuseItem(r) \/ DeadlockAbort(r) \/ RefuseCharge(r)
    <3>1. pc[r] \in {"insertKey", "lockItems", "charge"}
      BY <2>3 DEF ConflictKey, RefuseItem, DeadlockAbort, OnCycle, Blocked, RefuseCharge
    <3>2. payStatus[r] # "paid"
      BY <2>1, <3>1 DEF RequestInv, PayOf
    <3>3. \E err \in Answers : Rollback(r, err)
      BY <2>3 DEF ConflictKey, RefuseItem, DeadlockAbort, RefuseCharge, Answers
    <3> QED  BY <1>1, <3>2, <3>3, RollbackShop
  <2>4. CASE LockItem(r)
    BY <1>1, <2>4, LockItemShop
  <2>5. CASE \/ Charge(r) \/ InsertOrder(r)
             \/ InsertPayment(r) \/ UpdateKey(r) \/ InsertOutbox(r)
    BY <1>1, <2>5, WriteShop
  <2>6. CASE InsertItem(r)
    BY <1>1, <2>6, InsertItemShop
  <2>7. CASE RefuseRow(r)
    BY <1>1, <2>7, RefuseRowShop
  <2>8. CASE Commit(r) \/ LoseCommitReply(r)
    <3>1. \A s \in Requests \ {r} : answer'[s] = answer[s] /\ shown'[s] = shown[s]
      BY <2>1, <2>8 DEF Commit, LoseCommitReply, TypeOK
    <3> QED  BY <1>1, <2>8, <3>1, PublishShop DEF Commit, LoseCommitReply
  <2>9. CASE FailStatement(r)
    BY <1>1, <2>9, RollbackShop DEF FailStatement, Answers
  <2> QED  BY <1>4, <2>2, <2>3, <2>4, <2>5, <2>6, <2>7, <2>8, <2>9 DEF Handle
<1> QED  BY <1>2, <1>3, <1>4 DEF Next

\* The books of the shop hold throughout, for any requests, products, prices and stock.
THEOREM ShopInvariance == Spec => []ShopInv
<1>1. Init => ShopInv
  BY ShopInitInv
<1>2. ShopInv /\ [Next]_vars => ShopInv'
  BY ShopNextInv
<1> QED  BY <1>1, <1>2, PTL DEF Spec

\* Every unit of a listed product is in stock or belongs to a paid order, and the
\* stock is never negative: FOR UPDATE, the check and the UPDATE never oversell.
THEOREM StockIsConserved == Spec => []StockConserved
<1>1. ShopInv => StockConserved
  BY DEF ShopInv, LedgerInv
<1> QED  BY <1>1, ShopInvariance, PTL

\* The total the code sums with wrapping integers is the exact cost whenever that fits.
THEOREM TotalsAreExact == Spec => []TotalsExact
<1>1. ShopInv => TotalsExact
  BY DEF ShopInv, LedgerInv
<1> QED  BY <1>1, ShopInvariance, PTL

\* A captured payment of a request that meets no fault has its order when the
\* client is answered, whatever the other requests do and meet.
THEOREM PaymentsHaveOrders == Spec => []PaidRequestsHaveOrders
<1>1. ShopInv => PaidRequestsHaveOrders
  BY DEF ShopInv, RequestInv, PayOf, PaidRequestsHaveOrders
<1> QED  BY <1>1, ShopInvariance, PTL
-----------------------------------------------------------------------------
\* The shop counts the units of a request the same way.
LEMMA ShopDemand ==
  ASSUME NEW r, NEW p
  PROVE  ShopView!Demand(r, p) = Cardinality(Units(r, p))
<1>1. \A S : ShopView!Cardinality(S) = Cardinality(S)
  BY DEF ShopView!Cardinality, Cardinality, ShopView!IsFiniteSet, IsFiniteSet
<1>2. ShopView!Units(r, p) = Units(r, p)
  BY DEF ShopView!Units, Units
<1> QED  BY <1>1, <1>2 DEF ShopView!Demand

\* The commit is the instant at which the order happens.
LEMMA PublishPlaces ==
  ASSUME ShopInv, NEW r \in Requests, Publish(r),
         shown' \in {shown, [shown EXCEPT ![r] = r]}
  PROVE  ShopView!PlaceOrder(r)
<1>1. TypeOK /\ LedgerInv /\ RequestInv(r)
  BY DEF ShopInv, IInv
<1>2. pc[r] = "commit" /\ UNCHANGED listed
  BY DEF Publish
<1>3. \A o \in orders : Key[o] # Key[r]
  BY <1>2 DEF ShopInv, IInv, KeyInv, Holding
<1>4. orders' = orders \cup {r}
  <2>1. staged[r] = Tables
    BY <1>2 DEF ShopInv, IInv, StagedInv, StagedAt
  <2> QED  BY <2>1 DEF Publish, orders, Tables
<1>5. Locked(r) = Len(Items[r]) /\ Inserted(r) = Len(Items[r])
  BY <1>2 DEF Locked, Inserted, Holding
<1>6. ShopView!LinesAvailable(r)
  BY <1>1, <1>5, LineType DEF ShopView!LinesAvailable, RequestInv, LockOf
<1>7. stock' = [p \in Products |-> stock[p] - taken[r][p]]
  BY DEF Publish
<1>8. CASE r \in Declined
  <2>1. taken[r] = Nothing
    BY <1>1, <1>2, <1>8 DEF RequestInv, TakenOf, PayOf, Charged, Taking
  <2>2. stock' = stock
    BY <1>1, <1>7, <2>1 DEF Nothing, TypeOK
  <2> QED  BY <1>2, <1>3, <1>4, <1>6, <1>8, <2>2 DEF ShopView!PlaceOrder
<1>9. CASE r \notin Declined
  <2>1. \A p \in Products : taken[r][p] = ShopView!Demand(r, p)
    <3>1. payStatus[r] = "paid"
      BY <1>1, <1>2, <1>9 DEF RequestInv, PayOf, Charged, Taking
    <3> QED  BY <1>1, <1>2, <1>5, <3>1, UnitsEnds, ShopDemand DEF RequestInv, TakenOf, Taking
  <2>2. \A p \in Products : ShopView!Demand(r, p) <= stock[p]
    BY <1>1, <2>1 DEF RequestInv, TakenOf
  <2>3. stock' = [p \in Products |-> stock[p] - ShopView!Demand(r, p)]
    BY <1>7, <2>1
  <2> QED  BY <1>2, <1>3, <1>4, <1>6, <1>9, <2>2, <2>3, Zenon DEF ShopView!PlaceOrder
<1> QED  BY <1>8, <1>9

\* A replay answers with the order its key has.
LEMMA ReplayRepeats ==
  ASSUME ShopInv, NEW r \in Requests, Replay(r)
  PROVE  ShopView!RepeatOrder(r)
<1>1. shown[r] = None
  BY DEF ShopInv, RequestInv, PayOf, Replay
<1>2. Response(Key[r]) \in orders /\ Key[Response(Key[r])] = Key[r]
  <2>1. KeyRow(Key[r]) \cap db["response_order_id"] # {}
    BY RequestsAssumption DEF Replay, Response, ShopInv, IInv, TypeOK, Tables, orders
  <2> QED  BY <2>1 DEF Replay, Response, KeyRow, orders
<1> QED  BY <1>1, <1>2 DEF Replay, store, orders, ShopView!RepeatOrder

\* Every step of the transactions is one of the shop, or invisible to it.
LEMMA StepImplements ==
  ShopInv /\ [Next]_vars => [ShopView!ShopNext]_(ShopView!shopVars)
<1> SUFFICES ASSUME ShopInv, [Next]_vars
             PROVE  ShopView!ShopNext \/ UNCHANGED <<listed, stock, orders, shown>>
  BY DEF ShopView!shopVars
<1>1. CASE UNCHANGED vars
  BY <1>1 DEF vars, store, reply, orders
<1>2. ASSUME NEW p \in Products, CreateProduct(p) PROVE ShopView!ShopNext
  BY <1>2 DEF CreateProduct, reply, orders, ShopView!ShopNext, ShopView!ListProduct
<1>3. ASSUME NEW r \in Requests, Handle(r) \/ LoseCommitReply(r) \/ FailStatement(r)
      PROVE  ShopView!ShopNext \/ UNCHANGED <<listed, stock, orders, shown>>
  <2>1. CASE Commit(r) \/ LoseCommitReply(r)
    <3>1. ShopView!PlaceOrder(r)
      BY <2>1, PublishPlaces DEF Commit, LoseCommitReply
    <3> QED  BY <3>1 DEF ShopView!ShopNext
  <2>2. CASE Replay(r)
    BY <2>2, ReplayRepeats DEF ShopView!ShopNext
  <2>3. CASE \/ Reject(r) \/ Begin(r) \/ InsertKey(r) \/ FindKey(r) \/ LockItem(r)
             \/ Charge(r) \/ InsertOrder(r) \/ InsertItem(r)
             \/ InsertPayment(r) \/ UpdateKey(r) \/ InsertOutbox(r)
    BY <2>3 DEF Reject, Begin, InsertKey, FindKey, LockItem, Charge, InsertOrder,
         InsertItem, InsertPayment, UpdateKey, InsertOutbox, store, reply, orders
  <2>4. CASE \/ ConflictKey(r) \/ RefuseItem(r) \/ DeadlockAbort(r)
             \/ RefuseCharge(r) \/ RefuseRow(r) \/ FailStatement(r)
    BY <2>4 DEF ConflictKey, RefuseItem, DeadlockAbort, RefuseCharge, RefuseRow,
         FailStatement, Rollback, orders
  <2> QED  BY <1>3, <2>1, <2>2, <2>3, <2>4 DEF Handle
<1> QED  BY <1>1, <1>2, <1>3 DEF Next

\* CreateOrder, statement by statement and with every interleaving and fault, implements
\* the shop in which an order happens at one instant.
THEOREM StoreImplementsShop == Spec => ImplementsShop
<1>1. Init => ShopView!ShopInit
  BY DEF Init, Nothing, orders, Tables, ShopView!ShopInit
<1>2. ShopInv /\ [Next]_vars => [ShopView!ShopNext]_(ShopView!shopVars)
  BY StepImplements
<1> QED  BY <1>1, <1>2, ShopInvariance, PTL DEF Spec, ImplementsShop, ShopView!ShopSpec
=============================================================================

------------------------------ MODULE ShopData ------------------------------
(***************************************************************************)
(* The data the shop works on: the POST /orders requests clients send, the *)
(* products an admin may create, and the arithmetic of an order's total.   *)
(* Every BIGINT and int64 of the code is an integer of -IntHalf..IntHalf-1 *)
(* (IntHalf stands for 2^63).                                              *)
(***************************************************************************)
EXTENDS Integers, Sequences, FiniteSets

CONSTANTS
  Requests,    \* POST /orders requests; the order a request creates has its name
  Keys,        \* pairs (user_id, idempotency_key)
  Products,    \* product ids an admin may create
  Key,         \* Key[r]: the caller's user id and Idempotency-Key of request r
  Items,       \* Items[r]: the order lines [product, qty] of request r
  Declined,    \* requests whose payment_method is pm_fail
  Malformed,   \* requests the handler refuses before it calls the store
  Price,       \* Price[p]: price_cents of product p
  StartStock,  \* StartStock[p]: stock_qty product p is created with
  IntHalf,     \* integers wrap modulo 2 * IntHalf
  None         \* no request (a NULL, an absent holder)

ASSUME RequestsAssumption ==
  /\ None \notin Requests
  /\ Key \in [Requests -> Keys]
  /\ Items \in [Requests -> Seq([product : Products, qty : Int])]
  /\ Declined \subseteq Requests
  /\ Malformed \subseteq Requests
  /\ \A r \in Requests \ Malformed : Items[r] # <<>>

\* createProduct refuses price_cents <= 0 and stock_qty < 0.
ASSUME ProductsAssumption ==
  /\ IntHalf \in Nat \ {0}
  /\ Price \in [Products -> 1..(IntHalf - 1)]
  /\ StartStock \in [Products -> 0..(IntHalf - 1)]

\* The value a two's complement integer holds after an operation yields n.
Wrap(n) == ((n + IntHalf) % (2 * IntHalf)) - IntHalf

\* line_total_cents of one order line.
LineTotal(it) == Wrap(Price[it.product] * it.qty)

\* The units of product p that request r asks for: unit k of line i.
Units(r, p) ==
  UNION {{i} \X (1..Items[r][i].qty) :
           i \in {j \in DOMAIN Items[r] : Items[r][j].product = p}}

\* The quantity of product p that request r asks for over all its lines.
Demand(r, p) == Cardinality(Units(r, p))

\* The cents request r has to pay: cent c of unit k of line i.
Cents(r) ==
  UNION {{i} \X ((1..Price[Items[r][i].product]) \X (1..Items[r][i].qty)) :
           i \in DOMAIN Items[r]}

\* What the lines of request r cost in exact arithmetic.
ExactCost(r) == Cardinality(Cents(r))

\* No product is named by two lines of r.
DistinctLines(r) ==
  \A i, j \in DOMAIN Items[r] : Items[r][i].product = Items[r][j].product => i = j

\* No line total of r overflows.
LinesFit(r) ==
  \A i \in DOMAIN Items[r] : Price[Items[r][i].product] * Items[r][i].qty < IntHalf
=============================================================================

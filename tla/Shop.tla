-------------------------------- MODULE Shop --------------------------------
(***************************************************************************)
(* What POST /orders promises, without transactions: an order happens at   *)
(* one instant, takes from the stock of that instant, and is the only      *)
(* order its idempotency key will ever have; any later answer for the key  *)
(* shows that order.                                                       *)
(***************************************************************************)
EXTENDS ShopData

VARIABLES listed, stock, orders, shown

shopVars == <<listed, stock, orders, shown>>

ShopInit ==
  /\ listed = {}
  /\ stock = [p \in Products |-> 0]
  /\ orders = {}
  /\ shown = [r \in Requests |-> None]

ListProduct(p) ==
  /\ p \notin listed
  /\ listed' = listed \cup {p}
  /\ stock' = [stock EXCEPT ![p] = StartStock[p]]
  /\ UNCHANGED <<orders, shown>>

\* Every line names a listed product whose stock covers the line.
LinesAvailable(r) ==
  \A i \in DOMAIN Items[r] :
    /\ Items[r][i].product \in listed
    /\ 0 < Items[r][i].qty /\ Items[r][i].qty <= stock[Items[r][i].product]

\* A request becomes the order of its key.  A declined payment takes nothing
\* from the stock.  The client may or may not learn of the order.
PlaceOrder(r) ==
  /\ \A o \in orders : Key[o] # Key[r]
  /\ LinesAvailable(r)
  /\ orders' = orders \cup {r}
  /\ \/ r \in Declined /\ UNCHANGED stock
     \/ /\ r \notin Declined
        /\ \A p \in Products : Demand(r, p) <= stock[p]
        /\ stock' = [p \in Products |-> stock[p] - Demand(r, p)]
  /\ shown' \in {shown, [shown EXCEPT ![r] = r]}
  /\ UNCHANGED listed

\* A repeated key is answered with the order it already has.
RepeatOrder(r) ==
  /\ shown[r] = None
  /\ \E o \in orders : Key[o] = Key[r] /\ shown' = [shown EXCEPT ![r] = o]
  /\ UNCHANGED <<listed, stock, orders>>

ShopNext ==
  \/ \E p \in Products : ListProduct(p)
  \/ \E r \in Requests : PlaceOrder(r) \/ RepeatOrder(r)

ShopSpec == ShopInit /\ [][ShopNext]_shopVars
=============================================================================

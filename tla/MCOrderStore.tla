---------------------------- MODULE MCOrderStore ----------------------------
(***************************************************************************)
(* Small instances of OrderStore: which requests compete, and for what.    *)
(***************************************************************************)
EXTENDS OrderStore, TLC

CONSTANTS r1, r2, r3, r4, r5, r6, p1, p2

Line(p, n) == [product |-> p, qty |-> n]

\* Two keys.  On k1: r1, and r4, which costs one more than the largest integer.  On
\* k2: r2, whose payment is declined, which costs the largest integer and takes
\* the products in r1's opposite order; r3, whose two lines name one product and
\* together exceed its stock once r1 has bought it; r5, with a quantity of zero.
\* r6 has no lines.
OrderKeys ==
  (r1 :> "k1") @@ (r4 :> "k1")
    @@ (r2 :> "k2") @@ (r3 :> "k2") @@ (r5 :> "k2") @@ (r6 :> "k2")
OrderItems ==
  (r1 :> <<Line(p1, 1), Line(p2, 2)>>) @@ (r4 :> <<Line(p2, 4)>>)
    @@ (r2 :> <<Line(p2, 3), Line(p1, 1)>>) @@ (r3 :> <<Line(p1, 1), Line(p1, 1)>>)
    @@ (r5 :> <<Line(p2, 0)>>) @@ (r6 :> <<>>)
OrderPrices == (p1 :> 1) @@ (p2 :> 2)
OrderStocks == (p1 :> 2) @@ (p2 :> 4)
=============================================================================

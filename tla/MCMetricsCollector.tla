------------------------- MODULE MCMetricsCollector -------------------------
(***************************************************************************)
(* Two events of two counters and one latency key, and an event that is    *)
(* refused; a queue of one, two workers, two Starts of which the first     *)
(* Stop may time out, and one failing Apply.                               *)
(***************************************************************************)
EXTENDS MetricsCollector, TLC

CONSTANTS e1, e2, bad, k1, k2, lat

MCEvents == {e1, e2, bad}
MCInvalid == {bad}
MCCounterKey == (e1 :> k1) @@ (e2 :> k2) @@ (bad :> k2)
MCLatKey == [e \in MCEvents |-> lat]
MCDuration == (e1 :> 1) @@ (e2 :> 2) @@ (bad :> 0)
=============================================================================

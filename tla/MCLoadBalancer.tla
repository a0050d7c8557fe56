--------------------------- MODULE MCLoadBalancer ---------------------------
(* Instances of LoadBalancer for TLC. *)
EXTENDS LoadBalancer

CONSTANTS m1, m2, m3, w1

ThreeMasters == {m1, m2, m3}
OneWorker    == {w1}

\* Once, and for the last time; a deletion four times.
FewTries == [op \in Op |-> 2]
=============================================================================

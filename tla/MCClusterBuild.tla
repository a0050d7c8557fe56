--------------------------- MODULE MCClusterBuild ---------------------------
(* Instances of ClusterBuild for TLC: the hosts are model values of the cfg. *)
EXTENDS ClusterBuild, TLC

CONSTANTS m1, m2, m3, w1, w2

OneMaster    == {m1}
ThreeMasters == {m1, m2, m3}
OneWorker    == {w1}
TwoWorkers   == {w1, w2}
NoWorker     == {}

\* The masters but the first, and the workers, are interchangeable: only `first`
\* is named by the specification.
Interchangeable == Permutations({m2, m3}) \cup Permutations({w1, w2})
=============================================================================

---------------------------- MODULE MCBootstrap -----------------------------
(* Instances of Bootstrap for TLC. *)
EXTENDS Bootstrap

CONSTANTS m1, m2, m3, m4, m5, w1

FiveMasters == <<m1, m2, m3, m4, m5>>
OneWorker   == {w1}
=============================================================================

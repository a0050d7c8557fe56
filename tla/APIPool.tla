------------------------------- MODULE APIPool ------------------------------
(***************************************************************************)
(* What a build promises the clients of the API server about the load      *)
(* balancer and the addresses behind its port 6443, whatever commands died *)
(* before.  From the creation of a load balancer to its deletion the pool  *)
(* opens with one address, the first master's of some build, and from then *)
(* on only grows, by masters of that same build.                           *)
(*                                                                         *)
(* ClusterBuild and LoadBalancer implement it: the first as a part of all  *)
(* that a build does, the second call by call.                             *)
(***************************************************************************)
EXTENDS Integers

CONSTANTS Master, first,   \* as in ClusterBuild
          Run              \* the commands; <<r, m>> is the address build r gave to m

VARIABLES lb,      \* "none", "bare" (without the API listener) or "listening"
          member   \* the addresses in the API pool

vars == <<lb, member>>

Init == lb = "none" /\ member = {}

Create == /\ lb = "none" /\ lb' = "bare"
          /\ UNCHANGED member

Listen == /\ lb = "bare" /\ lb' = "listening"
          /\ UNCHANGED member

\* kubeadm init runs on the first master, so the pool opens with it.
Open == /\ lb \in {"bare", "listening"} /\ lb' = "listening"
        /\ member = {}
        /\ \E r \in Run : member' = {<<r, first>>}

\* Another build's masters have another CA: they never get in.
Grow == /\ lb = "listening" /\ UNCHANGED lb
        /\ \E r \in Run :
              /\ <<r, first>> \in member
              /\ member \subseteq member' /\ member' \subseteq {r} \X Master

Delete == lb' = "none" /\ member' = {}

Next == Create \/ Listen \/ Open \/ Grow \/ Delete

Spec == Init /\ [][Next]_vars
=============================================================================

-------------------------- MODULE NetworkingProofs --------------------------
(* Theorems about Networking, for every number of rules and of commands. *)
EXTENDS Networking, TLAPS

USE NetworkingAssumption

\* Each call keeps the inductive invariant, whatever the call before it left.
LEMMA Step == IInv /\ [Next]_vars => IInv'
<1> SUFFICES ASSUME IInv, [Next]_vars PROVE IInv'
  OBVIOUS
<1> USE DEF IInv, TypeOK, NoDuplicates, RouterWorks, PC, Attribute, Wiring, process, router, neutron
<1>1. CASE Apply BY <1>1 DEF Apply
<1>2. CASE Destroy BY <1>2 DEF Destroy
<1>2a. CASE DeleteSecgroup
  <2>1. ASSUME NEW r \in 1..Rules, DeleteRule(r) PROVE IInv'
    BY <2>1 DEF DeleteRule
  <2>2. CASE DeleteGroup
    BY <2>2 DEF DeleteGroup
  <2> QED
    BY <1>2a, <2>1, <2>2 DEF DeleteSecgroup
<1>3. CASE SetupNetworking
  <2>1. CASE ReadCloud BY <2>1 DEF ReadCloud
  <2>2. CASE NoExternalNetwork BY <2>2 DEF NoExternalNetwork
  <2>3. CASE GetOrCreateNet BY <2>3 DEF GetOrCreateNet
  <2>4. CASE GetOrCreateSubnet BY <2>4 DEF GetOrCreateSubnet
  <2>5. CASE UseRouter BY <2>5 DEF UseRouter
  <2>6. CASE CreateRouter BY <2>6 DEF CreateRouter
  <2>7. CASE CreatePort BY <2>7 DEF CreatePort
  <2>8. CASE AddInterface BY <2>8 DEF AddInterface
  <2>9. CASE UpdateRouter BY <2>9 DEF UpdateRouter
  <2>10. CASE GetOrCreateGroup BY <2>10 DEF GetOrCreateGroup
  <2>11. CASE AddRule
    <3>1. next + 1 \in 1..Rules /\ 1..next + 1 = (1..next) \cup {next + 1}
      BY <2>11 DEF AddRule
    <3> QED BY <2>11, <3>1 DEF AddRule
  <2>12. CASE Configured
    <3>1. rules = 1..Rules
      BY <2>12 DEF Configured
    <3> QED BY <2>12, <3>1 DEF Configured
  <2> QED
    BY <1>3, <2>1, <2>2, <2>3, <2>4, <2>5, <2>6, <2>7, <2>8, <2>9, <2>10, <2>11, <2>12
       DEF SetupNetworking
<1>4. CASE Die BY <1>4 DEF Die
<1>5. CASE ExternalNetworkChanges BY <1>5 DEF ExternalNetworkChanges
<1>6. CASE UNCHANGED vars BY <1>6 DEF vars
<1> QED BY <1>1, <1>2, <1>2a, <1>3, <1>4, <1>5, <1>6 DEF Next

THEOREM Invariant == Spec => []IInv
<1>1. Init => IInv
  <2> SUFFICES ASSUME Init PROVE IInv
    OBVIOUS
  <2>1. TypeOK
    <3>1. 0 \in 0..MaxRuns /\ 0 \in 0..Rules /\ nets \in Nat /\ subnets \in Nat
      BY DEF Init
    <3>2. pc \in PC /\ found \in SUBSET Attribute /\ 0 \in Nat
      BY DEF Init, PC
    <3> QED
      BY <3>1, <3>2, Zenon DEF Init, TypeOK
  <2> QED
    BY <2>1 DEF Init, IInv, NoDuplicates, PC, Wiring
<1> QED
  BY <1>1, Step, PTL DEF Spec

\* No resource of the network is ever made twice.
THEOREM NeverTwice == Spec => []NoDuplicates
  BY Invariant, PTL DEF IInv

\* A setup that returns has every resource and every rule, and a wired router
\* unless a process died wiring it.
THEOREM SetupReturnsWhole == Spec => []SetupIsWhole
<1>1. IInv => SetupIsWhole
  BY DEF IInv, SetupIsWhole, Wiring, PC
<1> QED
  BY <1>1, Invariant, PTL

\* Applying to a complete network changes nothing in neutron: every creation finds the
\* resource, every rule is there, and the router is not wired a second time.
LEMMA CompleteStays ==
  IInv /\ [Next]_vars /\ Complete /\ pc \notin {"idle", "done", "delete_group"}
    => UNCHANGED <<nets, subnets, router, groups, rules>>
<1> SUFFICES ASSUME IInv, [Next]_vars, Complete, pc \notin {"idle", "done", "delete_group"}
             PROVE  UNCHANGED <<nets, subnets, router, groups, rules>>
  OBVIOUS
<1> USE DEF router, neutron, process
<1>0. nets = 1 /\ subnets = 1 /\ routers = 1 /\ groups = 1 /\ rules = 1..Rules /\ pc \notin Wiring
  BY DEF Complete, RouterWorks, IInv
<1>1. CASE ReadCloud \/ NoExternalNetwork \/ UseRouter \/ Configured
  BY <1>1 DEF ReadCloud, NoExternalNetwork, UseRouter, Configured
<1>2. CASE GetOrCreateNet \/ GetOrCreateSubnet \/ GetOrCreateGroup
  BY <1>0, <1>2 DEF GetOrCreateNet, GetOrCreateSubnet, GetOrCreateGroup
<1>3. CASE CreateRouter \/ CreatePort \/ AddInterface \/ UpdateRouter
  BY <1>0, <1>3 DEF CreateRouter, CreatePort, AddInterface, UpdateRouter, Wiring
<1>4. CASE AddRule
  BY <1>0, <1>4, NetworkingAssumption DEF AddRule, IInv, TypeOK
<1>5. CASE Apply \/ Destroy \/ DeleteSecgroup
  BY <1>5 DEF Apply, Destroy, DeleteSecgroup, DeleteGroup, DeleteRule
<1>6. CASE Die \/ ExternalNetworkChanges \/ UNCHANGED vars
  BY <1>6 DEF Die, ExternalNetworkChanges, vars
<1> QED
  BY <1>1, <1>2, <1>3, <1>4, <1>5, <1>6 DEF Next, SetupNetworking

\* Applying again to a complete network is a no-op, for every number of rules.
THEOREM ApplyIsIdempotent == Spec => Idempotent
<1>1. IInv /\ [Next]_vars
        => [Complete /\ pc \notin {"idle", "done", "delete_group"}
              => UNCHANGED <<nets, subnets, router, groups, rules>>]_vars
  BY CompleteStays
<1> QED
  BY <1>1, Invariant, PTL DEF Spec, Idempotent
=============================================================================

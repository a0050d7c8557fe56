-------------------------- MODULE EtcdGrowthProofs --------------------------
(***************************************************************************)
(* What serial growth is good for, whoever grows etcd that way: theorems   *)
(* about EtcdGrowth for every finite set of nodes.  BootstrapProofs shows  *)
(* that the script of the first master does.                               *)
(***************************************************************************)
EXTENDS EtcdGrowth, FiniteSetTheorems, TLAPS

LEMMA SerialStep == ASSUME first \in Node PROVE Serial /\ [Next]_vars => Serial'
<1> SUFFICES ASSUME Serial, [Next]_vars PROVE Serial'
  OBVIOUS
<1> USE DEF Serial
<1>1. CASE Found  BY <1>1 DEF Found
<1>2. CASE Settle  BY <1>2 DEF Settle
<1>3. ASSUME NEW m \in Node, Add(m) PROVE Serial'  BY <1>3 DEF Add
<1>4. ASSUME NEW m \in Node, Start(m) PROVE Serial'  BY <1>4 DEF Start
<1>5. ASSUME NEW m \in Node, Withdraw(m) PROVE Serial'  BY <1>5 DEF Withdraw
<1>6. CASE UNCHANGED vars  BY <1>6 DEF vars
<1> QED  BY <1>1, <1>2, <1>3, <1>4, <1>5, <1>6 DEF Next

\* All members but the newest have been seen to run, and run.
THEOREM GrowthIsSerial == ASSUME first \in Node PROVE Spec => []Serial
<1>1. Init => Serial
  BY DEF Init, Serial
<1> QED  BY <1>1, SerialStep, PTL DEF Spec

\* Etcd that grows serially keeps its majority from the third member on.
THEOREM MajorityIsKept ==
  ASSUME first \in Node, IsFiniteSet(Node) PROVE Spec => []KeepsMajority
<1>1. ASSUME Serial PROVE KeepsMajority
  <2> SUFFICES ASSUME Cardinality(member) >= 3 PROVE Majority
    BY DEF KeepsMajority
  <2>1. IsFiniteSet(member) /\ IsFiniteSet(running)
    BY <1>1, FS_Subset DEF Serial
  <2>2. Cardinality(member) \in Nat /\ Cardinality(running) \in Nat
    BY <2>1, FS_CardinalityType
  <2>3. CASE member \subseteq running
    BY <1>1, <2>2, <2>3, member = running DEF Serial, Majority
  <2>4. ASSUME NEW m \in member \ running PROVE Majority
    <3>1. member = running \cup {m} /\ m \notin running
      BY <1>1, <2>4 DEF Serial
    <3>2. Cardinality(member) = Cardinality(running) + 1
      BY <2>1, <3>1, FS_AddElement
    <3> QED  BY <2>2, <3>2 DEF Majority
  <2> QED  BY <2>3, <2>4
<1> QED  BY <1>1, GrowthIsSerial, PTL

\* A member that was seen to run stays and runs on.
THEOREM SettledMembersStay == ASSUME first \in Node PROVE Spec => SettledStay
<1>1. Serial /\ [Next]_vars => [settled \subseteq settled' /\ settled' \subseteq running']_vars
  BY DEF Serial, Next, Found, Settle, Add, Start, Withdraw
<1> QED  BY <1>1, GrowthIsSerial, PTL DEF Spec, SettledStay
=============================================================================

--------------------------- MODULE BootstrapProofs --------------------------
(***************************************************************************)
(* IInv of Bootstrap is inductive for every odd number of masters: etcd    *)
(* keeps its majority while it grows, and a script that ends has left      *)
(* nobody out.  The specification implements EtcdGrowth.                   *)
(***************************************************************************)
EXTENDS Bootstrap, FiniteSetTheorems, TLAPS

\* What the proofs need of the masters: there is a first one, and no host is in the
\* array twice.
LEMMA Indices ==
  /\ N \in Nat \ {0} /\ 1 \in 1..N /\ first \in MASTERS
  /\ \A k \in 1..N : Masters[k] \in MASTERS /\ UpTo(k) \subseteq MASTERS
  /\ UpTo(N) = MASTERS /\ UpTo(1) = {first} /\ UpTo(0) = {}
  /\ \A k \in 1..N : UpTo(k) = UpTo(k - 1) \cup {Masters[k]}
  /\ \A k, l \in 1..N : k < l => Masters[l] \notin UpTo(k)
<1>1. N \in Nat \ {0}
  BY BootstrapAssumption
<1>2. UpTo(1) = {first} /\ UpTo(0) = {} /\ UpTo(N) = MASTERS
  BY <1>1 DEF UpTo, first, MASTERS
<1>3. \A k \in 1..N : Masters[k] \in MASTERS /\ UpTo(k) \subseteq MASTERS
  BY <1>1 DEF UpTo, MASTERS
<1>4. ASSUME NEW k \in 1..N PROVE UpTo(k) = UpTo(k - 1) \cup {Masters[k]}
  <2>1. 1..k = (1..(k - 1)) \cup {k}
    BY <1>1
  <2> QED
    BY <2>1 DEF UpTo
<1>5. ASSUME NEW k \in 1..N, NEW l \in 1..N, k < l PROVE Masters[l] \notin UpTo(k)
  BY <1>1, <1>5, BootstrapAssumption DEF UpTo
<1> QED
  BY <1>1, <1>2, <1>3, <1>4, <1>5 DEF first

LEMMA TypeInit == Init => TypeOK
BY Indices DEF Init, TypeOK

LEMMA TypeStep == TypeOK /\ [Next]_vars => TypeOK'
<1> SUFFICES ASSUME TypeOK, [Next]_vars PROVE TypeOK'
  OBVIOUS
<1> USE DEF TypeOK, cluster, hosts, koris
<1>0. first \in MASTERS /\ host \in MASTERS /\ N \in Nat
  BY Indices DEF host
<1>1. CASE BootstrapFirstMaster  BY <1>0, <1>1 DEF BootstrapFirstMaster, Goto
<1>2. CASE InitTimesOut  BY <1>0, <1>2 DEF InitTimesOut, Goto
<1>3. CASE MakeSecrets  BY <1>0, <1>3 DEF MakeSecrets, Advance
<1>4. CASE CopyKeys  BY <1>0, <1>4 DEF CopyKeys, Goto
<1>5. CASE AddMaster  BY <1>0, <1>5 DEF AddMaster, Goto
<1>6. CASE AddMasterFails  BY <1>0, <1>6 DEF AddMasterFails, Goto
<1>7. CASE Reset  BY <1>0, <1>7 DEF Reset, Goto
<1>8. CASE WaitForEtcd  BY <1>0, <1>8 DEF WaitForEtcd, Goto, Advance
<1>9. CASE Dies  BY <1>9 DEF Dies, Goto
<1>10. CASE Koris
  BY <1>0, <1>10 DEF Koris, Configure, IsReady, BulkUpdateMembers, BulkUpdateFails,
     AddReadyMaster, AllMastersAdded, ApplyAddons, KGoto
<1>11. CASE KorisRaises  BY <1>11 DEF KorisRaises, KGoto
<1>12. ASSUME NEW m \in MASTERS, Boots(m) PROVE TypeOK'  BY <1>12 DEF Boots
<1>13. ASSUME NEW m \in MASTERS, EtcdStarts(m) PROVE TypeOK'  BY <1>13 DEF EtcdStarts
<1>14. ASSUME NEW w \in Worker, Join(w) \/ WorkerDies(w) PROVE TypeOK'
  BY <1>14 DEF Join, WorkerDies
<1>15. CASE UNCHANGED vars  BY <1>15 DEF vars
<1> QED
  BY <1>1, <1>2, <1>3, <1>4, <1>5, <1>6, <1>7, <1>8, <1>9, <1>10, <1>11, <1>12, <1>13, <1>14,
     <1>15 DEF Next, Script

\* Worker is no master.
LEMMA Disjoint == Worker \cap MASTERS = {}
BY BootstrapAssumption DEF MASTERS

LEMMA GrowthInit == Init => GrowthInv
BY Indices DEF Init, GrowthInv

LEMMA GrowthStep == TypeOK /\ GrowthInv /\ [Next]_vars => GrowthInv'
<1> SUFFICES ASSUME TypeOK, GrowthInv, [Next]_vars PROVE GrowthInv'
  OBVIOUS
<1> USE DEF GrowthInv, host, cluster, hosts, koris
<1>0. /\ N \in Nat \ {0} /\ i \in 1..N /\ first \in MASTERS /\ Masters[i] \in MASTERS
      /\ Worker \cap MASTERS = {} /\ UpTo(i) \subseteq MASTERS
      /\ UpTo(1) = {first} /\ UpTo(0) = {} /\ UpTo(i) = UpTo(i - 1) \cup {Masters[i]}
      /\ (i = 1 => Masters[i] = first)
  BY Indices, Disjoint DEF TypeOK, first
<1>a. i # N => Masters[i + 1] \notin UpTo(i) /\ UpTo(i + 1) = UpTo(i) \cup {Masters[i + 1]}
  <2> SUFFICES ASSUME i # N PROVE i + 1 \in 1..N /\ i < i + 1 /\ (i + 1) - 1 = i
    BY Indices, <1>0
  <2> QED
    BY <1>0
\* The loop goes on to the next master when the one at hand has joined and runs.
<1>b. ASSUME NEW from, from \in {"make_secrets", "wait_for_etcd"}, Advance(from),
             Masters[i] \in running \cap joined,
             UNCHANGED <<hosts, cluster, koris>>
      PROVE  GrowthInv'
  <2>1. UpTo(i) \cup {first} \subseteq running \cap joined /\ etcd \subseteq running /\ first \in pool
    BY <1>0, <1>b DEF Advance
  <2>2. CASE i = N
    BY <1>0, <1>b, <2>1, <2>2 DEF Advance
  <2>3. CASE i # N
    <3>1. pc' = "copy_keys" /\ i' = i + 1 /\ i' # 1 /\ i' - 1 = i
      BY <1>0, <1>b, <2>3 DEF Advance
    <3>2. Masters[i'] \notin joined
      <4>1. Masters[i + 1] \in MASTERS
        BY <1>0, <2>3, Indices
      <4> QED
        BY <1>0, <1>a, <2>3, <3>1, <4>1
    <3>3. etcd \cup (joined \ Worker) \subseteq UpTo(i')
      BY <1>a, <2>3, <3>1
    <3> QED
      BY <1>b, <2>1, <3>1, <3>2, <3>3
  <2> QED
    BY <2>2, <2>3
<1>1. CASE BootstrapFirstMaster  BY <1>0, <1>1 DEF BootstrapFirstMaster, Goto
<1>2. CASE InitTimesOut  BY <1>0, <1>2 DEF InitTimesOut, Goto
<1>3. CASE MakeSecrets
  <2>1. Masters[i] \in running \cap joined
    BY <1>0, <1>3 DEF MakeSecrets, Advance
  <2> QED
    BY <1>3, <1>b, <2>1 DEF MakeSecrets
<1>4. CASE CopyKeys  BY <1>0, <1>4 DEF CopyKeys, Goto
<1>5. CASE AddMaster  BY <1>0, <1>5 DEF AddMaster, Goto
<1>6. CASE AddMasterFails  BY <1>0, <1>6 DEF AddMasterFails, Joinable, Goto
<1>7. CASE Reset
  <2>1. Masters[i] \notin UpTo(i - 1) \cup {first}
    <3>1. i # 1 /\ i - 1 \in 1..N /\ i - 1 < i /\ 1 < i
      BY <1>0, <1>7 DEF Reset, Goto
    <3> QED
      BY <3>1, <1>0, Indices
  <2> QED
    BY <1>0, <1>7, <2>1 DEF Reset, Goto
<1>8. CASE WaitForEtcd
  <2>1. Masters[i] \in running \cap joined
    BY <1>8 DEF WaitForEtcd, Goto, Advance
  <2>2. CASE i = 1  BY <1>0, <1>8, <2>1, <2>2 DEF WaitForEtcd, Goto
  <2>3. CASE i # 1  BY <1>8, <1>b, <2>1, <2>3 DEF WaitForEtcd
  <2> QED
    BY <2>2, <2>3
<1>9. CASE Dies  BY <1>9 DEF Dies, Goto
<1>10. CASE Koris
  <2>1. first \in pool => first \in pool'
    BY <1>0, <1>10 DEF Koris, Configure, IsReady, BulkUpdateMembers, BulkUpdateFails,
       AddReadyMaster, AllMastersAdded, ApplyAddons, KGoto
  <2>2. UNCHANGED <<pc, i, hosts, cluster>>
    BY <1>10 DEF Koris, Configure, IsReady, BulkUpdateMembers, BulkUpdateFails,
       AddReadyMaster, AllMastersAdded, ApplyAddons, KGoto
  <2> QED
    BY <2>1, <2>2
<1>11. CASE KorisRaises  BY <1>11 DEF KorisRaises, KGoto
<1>12. ASSUME NEW m \in MASTERS, Boots(m) PROVE GrowthInv'  BY <1>12 DEF Boots
<1>13. ASSUME NEW m \in MASTERS, EtcdStarts(m) PROVE GrowthInv'  BY <1>13 DEF EtcdStarts
<1>14. ASSUME NEW w \in Worker, Join(w) \/ WorkerDies(w) PROVE GrowthInv'
  BY <1>0, <1>14 DEF Join, WorkerDies
<1>15. CASE UNCHANGED vars  BY <1>15 DEF vars
<1> QED
  BY <1>1, <1>2, <1>3, <1>4, <1>5, <1>6, <1>7, <1>8, <1>9, <1>10, <1>11, <1>12, <1>13, <1>14,
     <1>15 DEF Next, Script

\* MASTERS is finite, and so is what it contains.
LEMMA Finite == ASSUME NEW S \in SUBSET MASTERS
                PROVE  IsFiniteSet(S) /\ Cardinality(S) \in Nat /\ (S # {} => Cardinality(S) > 0)
<1>1. IsFiniteSet(1..N)
  BY Indices, FS_Interval
<1>2. Masters \in Surjection(1..N, MASTERS)
  BY BootstrapAssumption DEF Surjection, MASTERS
<1>3. IsFiniteSet(MASTERS)
  BY <1>1, <1>2, FS_Surjection
<1>4. IsFiniteSet(S)
  BY <1>3, FS_Subset
<1> QED
  BY <1>4, FS_CardinalityType, FS_EmptySet

\* One member at most does not run, so three members have a majority.
LEMMA Majority == TypeOK /\ GrowthInv => MajorityRuns
<1> SUFFICES ASSUME TypeOK, GrowthInv, Cardinality(etcd) >= 3 PROVE Quorum
  BY DEF MajorityRuns
<1>1. IsFiniteSet(running) /\ Cardinality(running) \in Nat /\ Cardinality(etcd) \in Nat
  BY Finite DEF TypeOK
<1>2. etcd = running \/ etcd = running \cup {host}
  BY DEF GrowthInv
<1>3. Cardinality(running \cup {host}) \in {Cardinality(running), Cardinality(running) + 1}
  BY <1>1, FS_AddElement
<1>4. Cardinality(etcd) = Cardinality(running) \/ Cardinality(etcd) = Cardinality(running) + 1
  BY <1>2, <1>3
<1> QED
  BY <1>1, <1>4 DEF Quorum

LEMMA Finished == TypeOK /\ GrowthInv => FinishedIsWhole
<1> SUFFICES ASSUME TypeOK, GrowthInv, pc = "finished"
             PROVE  MASTERS \subseteq joined /\ etcd = MASTERS /\ running = MASTERS /\ API
  BY DEF FinishedIsWhole
<1>1. N \in 1..N /\ UpTo(N) = MASTERS /\ UpTo(N) = UpTo(N - 1) \cup {Masters[N]}
  BY Indices
<1>2. MASTERS \subseteq running \cap joined
  BY <1>1 DEF GrowthInv, host
<1>3. running = MASTERS /\ etcd = MASTERS
  BY <1>2 DEF TypeOK, GrowthInv
<1>4. Quorum
  <2>1. Cardinality(MASTERS) \in Nat /\ Cardinality(MASTERS) > 0
    BY Finite, Indices
  <2> QED
    BY <1>3, <2>1 DEF Quorum
<1>5. first \in pool \cap running
  BY <1>3, Indices DEF GrowthInv
<1> QED
  BY <1>2, <1>3, <1>4, <1>5 DEF API

\* While etcd grows, all of it but the master at hand runs, whichever join fails.
THEOREM Invariant == Spec => []IInv
<1>1. Init => TypeOK /\ GrowthInv
  BY TypeInit, GrowthInit
<1>2. TypeOK /\ GrowthInv /\ [Next]_vars => (TypeOK /\ GrowthInv)'
  BY TypeStep, GrowthStep
<1>3. TypeOK /\ GrowthInv => IInv
  BY Majority, Finished DEF IInv
<1> QED
  BY <1>1, <1>2, <1>3, PTL DEF Spec

\* Etcd keeps its majority from the third member on.
THEOREM EtcdKeepsMajority == Spec => []MajorityRuns
<1>1. IInv => MajorityRuns
  BY DEF IInv
<1> QED
  BY <1>1, Invariant, PTL

\* A script that ends has joined every master.
THEOREM SuccessIsWhole == Spec => []FinishedIsWhole
<1>1. IInv => FinishedIsWhole
  BY DEF IInv
<1> QED
  BY <1>1, Invariant, PTL

-----------------------------------------------------------------------------
\* What no step of the growth touches stays as it is.
LEMMA NoGrowth == UNCHANGED <<i, etcd, running>> => UNCHANGED Growth!vars
BY DEF Growth!vars, UpTo

\* Both count with Cardinality; the instance has a copy of it.
LEMMA SameMajority == Quorum <=> Growth!Majority
BY Zenon DEF Growth!Majority, Quorum, Growth!Cardinality, Cardinality

\* The steps that etcd does not take part in.
LEMMA Elsewhere ==
  [Next]_vars => \/ UNCHANGED <<i, etcd, running>>
                 \/ BootstrapFirstMaster \/ InitTimesOut \/ MakeSecrets \/ WaitForEtcd
                 \/ AddMaster \/ AddMasterFails \/ Reset
                 \/ \E m \in MASTERS : EtcdStarts(m)
BY DEF Next, Script, Dies, Koris, KorisRaises, CopyKeys, Boots, Join, WorkerDies, Configure, IsReady,
   BulkUpdateMembers, BulkUpdateFails, AddReadyMaster, AllMastersAdded, ApplyAddons, KGoto, Goto,
   vars, cluster, hosts

\* The loop leaves a master behind when all members run.
LEMMA LeavesBehind ==
  ASSUME TypeOK, GrowthInv, NEW from \in {"make_secrets", "wait_for_etcd"}, Advance(from),
         host \in running, UNCHANGED <<etcd, running>>
  PROVE  Growth!Next \/ UNCHANGED Growth!vars
<1>1. CASE i = N
  BY <1>1, NoGrowth DEF Advance
<1>2. CASE i # N
  <2>1. i' = i + 1 /\ i \in 1..N /\ i' - 1 = i
    BY <1>2, Indices DEF Advance, TypeOK
  <2>2. UpTo(i - 1)' = UpTo(i)
    BY <2>1 DEF UpTo
  <2>3. UpTo(i) = UpTo(i - 1) \cup {host}
    BY <2>1, Indices DEF host
  <2>4. pc = from /\ UpTo(i - 1) \subseteq running
    BY DEF Advance, GrowthInv
  <2>5. etcd = running /\ etcd = UpTo(i) /\ etcd # {}
    BY <2>3, <2>4 DEF GrowthInv, host, TypeOK, MASTERS
  <2>6. Growth!Settle
    BY <2>2, <2>5 DEF Growth!Settle
  <2> QED  BY <2>6 DEF Growth!Next
<1> QED  BY <1>1, <1>2

\* Where the loop adds or resets a master, the members it has left behind are all the
\* others.
LEMMA AtHand ==
  ASSUME TypeOK, GrowthInv, pc \in {"add_master", "reset"}
  PROVE  /\ UpTo(i - 1) # {} /\ host \in MASTERS /\ host \notin UpTo(i - 1)
         /\ host \notin etcd => UpTo(i - 1) = etcd
<1>1. i \in 1..N /\ i # 1 /\ UpTo(i - 1) \cup {first} \subseteq running /\ N \in Nat
  BY Indices DEF TypeOK, GrowthInv
<1>2. i - 1 \in 1..N /\ i - 1 < i
  BY <1>1
<1>3. Masters[i] \notin UpTo(i - 1) /\ UpTo(i) = UpTo(i - 1) \cup {Masters[i]}
  BY <1>1, <1>2, Indices
<1>4. UpTo(i - 1) # {}
  <2>1. UpTo(i - 1) = UpTo(i - 1 - 1) \cup {Masters[i - 1]}
    BY <1>2, Indices
  <2> QED  BY <2>1
<1>5. host \in MASTERS
  BY <1>1, Indices DEF host
<1> QED  BY <1>1, <1>3, <1>4, <1>5 DEF GrowthInv, host

\* Each step of the script, of a host or of koris is a step of the growth or none of
\* its business.
LEMMA GrowthSimulated == IInv /\ [Next]_vars => [Growth!Next]_(Growth!vars)
<1> SUFFICES ASSUME IInv, [Next]_vars PROVE Growth!Next \/ UNCHANGED Growth!vars
  OBVIOUS
<1>i. TypeOK /\ GrowthInv
  BY DEF IInv
<1>u. i' = i => UpTo(i - 1)' = UpTo(i - 1)
  BY DEF UpTo
<1>1. CASE UNCHANGED <<i, etcd, running>>
  BY <1>1, NoGrowth
<1>2. CASE BootstrapFirstMaster \/ InitTimesOut
  <2>1. etcd = {} /\ etcd' = {first} /\ running' = {first} /\ i' = i
    BY <1>2, <1>i DEF BootstrapFirstMaster, InitTimesOut, Goto, GrowthInv
  <2>2. Growth!Found
    BY <2>1, <1>u DEF Growth!Found
  <2> QED  BY <2>2 DEF Growth!Next
<1>3. CASE MakeSecrets
  <2>1. Advance("make_secrets") /\ host \in running /\ UNCHANGED <<etcd, running>>
    BY <1>3, <1>i, Indices DEF MakeSecrets, Advance, GrowthInv, cluster, host, first
  <2> QED  BY <2>1, <1>i, LeavesBehind
<1>4. CASE WaitForEtcd
  <2>1. host \in running /\ UNCHANGED <<etcd, running>>
    BY <1>4 DEF WaitForEtcd, cluster
  <2>2. CASE i = 1
    BY <1>4, <2>1, <2>2, NoGrowth DEF WaitForEtcd, Goto
  <2>3. CASE i # 1
    BY <1>4, <1>i, <2>1, <2>3, LeavesBehind DEF WaitForEtcd
  <2> QED  BY <2>2, <2>3
<1>5. CASE AddMaster \/ AddMasterFails
  <2>1. pc = "add_master" /\ i' = i
    BY <1>5 DEF AddMaster, AddMasterFails, Goto
  <2>2. CASE UNCHANGED <<etcd, running>>
    BY <2>1, <2>2, NoGrowth
  <2>3. CASE ~UNCHANGED <<etcd, running>>
    <3>1. /\ host \notin etcd /\ etcd' = etcd \cup {host}
          /\ running' \in {running, running \cup {host}}
      BY <1>5, <2>3 DEF AddMaster, AddMasterFails, Joinable
    <3>2. UpTo(i - 1) # {} /\ UpTo(i - 1) = etcd /\ host \in MASTERS
      BY <1>i, <2>1, <3>1, AtHand
    <3>3. Growth!Add(host)
      BY <2>1, <3>1, <3>2, <1>u DEF Growth!Add
    <3> QED  BY <3>2, <3>3 DEF Growth!Next
  <2> QED  BY <2>2, <2>3
<1>6. CASE Reset
  <2>1. pc = "reset" /\ i' = i /\ running' = running \ {host}
    BY <1>6 DEF Reset, Goto
  <2>2. etcd' = etcd \/ (Quorum /\ etcd' = etcd \ {host})
    BY <1>6 DEF Reset
  <2>3. UpTo(i - 1) # {} /\ host \in MASTERS /\ host \notin UpTo(i - 1)
    BY <1>i, <2>1, AtHand
  <2>4. CASE host \in etcd
    <3>1. etcd' = etcd \/ (Growth!Majority /\ etcd' = etcd \ {host})
      BY <2>2, SameMajority
    <3>2. host \in etcd \ UpTo(i - 1) /\ UpTo(i - 1)' = UpTo(i - 1)
      BY <2>1, <2>3, <2>4, <1>u
    <3>3. Growth!Withdraw(host)
      BY <2>1, <2>3, <3>1, <3>2 DEF Growth!Withdraw
    <3> QED  BY <2>3, <3>3 DEF Growth!Next
  <2>5. CASE host \notin etcd
    <3>1. UNCHANGED <<i, etcd, running>>
      BY <1>i, <2>1, <2>2, <2>5 DEF GrowthInv
    <3> QED  BY <3>1, NoGrowth
  <2> QED  BY <2>4, <2>5
<1>7. ASSUME NEW m \in MASTERS, EtcdStarts(m) PROVE Growth!Next \/ UNCHANGED Growth!vars
  <2>1. Growth!Start(m)
    BY <1>7, <1>u DEF EtcdStarts, Growth!Start
  <2> QED  BY <2>1 DEF Growth!Next
<1> QED  BY <1>1, <1>2, <1>3, <1>4, <1>5, <1>6, <1>7, Elsewhere

\* "grown in a serial manner": the script of the first master, the scripts of the others
\* and koris implement EtcdGrowth, for every odd number of masters.
THEOREM GrownSerially == Spec => SerialGrowth
<1>1. Init => Growth!Init
  BY Indices DEF Init, Growth!Init, UpTo
<1> QED  BY <1>1, Invariant, GrowthSimulated, PTL DEF Spec, SerialGrowth, Growth!Spec
=============================================================================

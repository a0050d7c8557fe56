------------------------- MODULE LoadBalancerProofs -------------------------
(***************************************************************************)
(* IInv of LoadBalancer is inductive, for any hosts, any bounds of the     *)
(* retries and any number of commands; what a build and a removal promise, *)
(* and that the specification implements APIPool.                          *)
(***************************************************************************)
EXTENDS LoadBalancer, FiniteSetTheorems, TLAPS

USE DEF PC, Op, Service, Dex, Ingress

\* What the proofs need of the assumption.
LEMMA Constants == MaxRuns \in Nat /\ first \in Master /\ DexChoices \subseteq BOOLEAN
BY LBAssumption

LEMMA TypeInit == Init => TypeOK
<1> SUFFICES ASSUME Init PROVE TypeOK
  OBVIOUS
<1>1. run \in 0..MaxRuns
  BY Constants DEF Init
<1>2. members \in [Service -> SUBSET (Address \X Service)]
  BY DEF Init, Nothing
<1> QED
  BY <1>1, <1>2 DEF Init, TypeOK

\* The addresses of the current build.
LEMMA Addressed ==
  ASSUME TypeOK, pc # "idle"
  PROVE  /\ \A S \in SUBSET Host : Addresses(S) \in SUBSET Address
         /\ \A s \in Service : Wanted(s) \in SUBSET (Address \X Service)
<1>1. run \in Run
  BY Constants DEF TypeOK, Run
<1>2. ASSUME NEW S \in SUBSET Host PROVE Addresses(S) \in SUBSET Address
  BY <1>1 DEF Addresses, Address
<1>3. ASSUME NEW s \in Service PROVE Wanted(s) \in SUBSET (Address \X Service)
  BY <1>2 DEF Wanted, At, Host, TypeOK
<1> QED
  BY <1>2, <1>3

LEMMA TypeStart == ASSUME TypeOK, StartApply \/ StartDestroy PROVE TypeOK'
<1>1. run' \in 0..MaxRuns /\ run' # 0
  BY Constants DEF StartApply, StartDestroy, Start, TypeOK
<1>2. dex' \in BOOLEAN /\ workers' \in SUBSET Worker
  BY Constants DEF StartApply, StartDestroy, Start
<1>3. CASE StartApply  BY <1>1, <1>2, <1>3 DEF TypeOK, StartApply, Start, octavia, content
<1>4. CASE StartDestroy  BY <1>1, <1>2, <1>4 DEF TypeOK, StartDestroy, Start, octavia, content
<1> QED  BY <1>3, <1>4

LEMMA TypeStep == TypeOK /\ [Next]_vars => TypeOK'
<1> SUFFICES ASSUME TypeOK, [Next]_vars PROVE TypeOK'
  OBVIOUS
<1> USE DEF TypeOK, octavia, content
<1>e. ASSUME NEW how \in {"built", "InstanceExists", "exit", "removed", "raised"}, End(how),
             UNCHANGED <<octavia, up>>
      PROVE  TypeOK'
  BY <1>e DEF End
<1>a. pc # "idle" => /\ \A S \in SUBSET Host : Addresses(S) \in SUBSET Address
                     /\ \A s \in Service : Wanted(s) \in SUBSET (Address \X Service)
  BY Addressed
<1>1. CASE StartApply \/ StartDestroy  BY <1>1, TypeStart
<1>2. CASE FoundTwo  BY <1>2, <1>e DEF FoundTwo
<1>3. CASE FloatingIPUnavailable  BY <1>3, <1>e DEF FloatingIPUnavailable
<1>4. CASE MasterExists  BY <1>4, <1>e DEF MasterExists
<1>5. CASE ConfigureRaises  BY <1>5, <1>e DEF ConfigureRaises
<1>6. CASE DexRaises  BY <1>6, <1>e DEF DexRaises
<1>7. CASE Built  BY <1>7, <1>e DEF Built
<1>8. CASE NotFound  BY <1>8, <1>e DEF NotFound
<1>9. CASE Die  BY <1>9, <1>e DEF Die
<1>10. CASE GiveUp
  <2>1. CASE svc = "dex"
    <3>1. failed' \in BOOLEAN /\ pc' = "done" /\ pc # "idle" /\ rest' = {} /\ tried' = 0
          /\ UNCHANGED <<svc, run, dex, workers, outcome, octavia, up>>
      BY <1>10, <2>1 DEF GiveUp, Goto, Refused, Deleting
    <3> QED  BY <3>1
  <2>2. CASE svc # "dex"  BY <1>10, <1>e, <2>2 DEF GiveUp
  <2> QED  BY <2>1, <2>2
<1>11. CASE Create  BY <1>11 DEF Create, Goto
<1>12. CASE Reuse  BY <1>12 DEF Reuse, Goto
<1>13. CASE AllConfigured  BY <1>13 DEF AllConfigured, Goto
<1>14. CASE BulkUpdateFails  BY <1>14 DEF BulkUpdateFails, Goto
<1>15. CASE AllMastersAdded  BY <1>15 DEF AllMastersAdded, Goto
<1>16. CASE Get  BY <1>16 DEF Get, Goto
<1>17. CASE Retry  BY <1>17 DEF Retry
<1>18. CASE CreateMasters  BY <1>18, <1>a DEF CreateMasters, Goto, Host
<1>19. CASE DeleteInstances  BY <1>19 DEF DeleteInstances, Goto
<1>20. CASE Configure  BY <1>20, <1>a, Constants DEF Configure, Goto, SetUp, Host
<1>21. CASE CreateDex  BY <1>21, <1>a DEF CreateDex, Goto, SetUp, Host
<1>22. CASE CreateOAuth2  BY <1>22, <1>a DEF CreateOAuth2, Goto, SetUp, Host
<1>23. CASE IsReady  BY <1>23 DEF IsReady, Goto, SetUp
<1>24. CASE BulkUpdateIngressFails
  BY <1>24, <1>a DEF BulkUpdateIngressFails, Goto, SetUp, Host
<1>25. CASE AddListener  BY <1>25 DEF AddListener, Goto, Accept
<1>26. CASE AddPool  BY <1>26 DEF AddPool, Goto, Accept
<1>27. CASE AddHealthMonitor  BY <1>27 DEF AddHealthMonitor, Goto, Accept
<1>28. ASSUME NEW a \in Address, AddMember(a) PROVE TypeOK'
  <2>1. members' \in [Service -> SUBSET (Address \X Service)]
    BY <1>28 DEF AddMember
  <2> QED  BY <1>28, <2>1 DEF AddMember, AfterMembers, Goto, Accept
<1>29. ASSUME NEW m \in Master, AddMaster(m) PROVE TypeOK'
  <2>1. {<<run, m>>} \in SUBSET Address
    BY <1>29, <1>a, Addresses({m}) = {<<run, m>>} DEF AddMaster, Goto, Host, Addresses
  <2> QED  BY <1>29, <2>1 DEF AddMaster, Goto, SetUp
<1>30. ASSUME NEW s \in Ingress, AddIngressListener(s) PROVE TypeOK'
  BY <1>30 DEF AddIngressListener, Goto, SetUp
<1>31. ASSUME NEW target, NEW next \in {"apply_addons", "done"}, Bulk(target, next) PROVE TypeOK'
  <2>1. members' \in [Service -> SUBSET (Address \X Service)]
    BY <1>31, <1>a DEF Bulk, Goto
  <2> QED  BY <1>31, <2>1 DEF Bulk, Goto, Accept
<1>32. CASE BulkUpdateMembers \/ BulkUpdateIngress
  BY <1>31, <1>32 DEF BulkUpdateMembers, BulkUpdateIngress
<1>33. CASE DelLoadBalancer
  <2>1. members' \in [Service -> SUBSET (Address \X Service)]
    BY <1>33 DEF DelLoadBalancer, Nothing
  <2> QED  BY <1>33, <2>1 DEF DelLoadBalancer, End
<1>34. CASE Settles \/ Gone
  <2>1. CASE Settles  BY <2>1 DEF Settles, process
  <2>2. CASE Gone
    <3>1. dying' \in BOOLEAN
      BY <2>2 DEF Gone
    <3> QED  BY <2>2, <3>1 DEF Gone, process
  <2> QED  BY <1>34, <2>1, <2>2
<1>35. CASE UNCHANGED vars
  BY <1>35 DEF vars, process
<1> QED
  BY <1>1, <1>2, <1>3, <1>4, <1>5, <1>6, <1>7, <1>8, <1>9, <1>10, <1>11, <1>12, <1>13, <1>14,
     <1>15, <1>16, <1>17, <1>18, <1>19, <1>20, <1>21, <1>22, <1>23, <1>24, <1>25, <1>26, <1>27,
     <1>28, <1>29, <1>30, <1>32, <1>33, <1>34, <1>35 DEF Next, Main

-----------------------------------------------------------------------------
\* The steps that change what octavia has.
LEMMA OctaviaSteps ==
  [Next]_vars => \/ UNCHANGED octavia
                 \/ Create \/ AddListener \/ AddPool \/ AddHealthMonitor
                 \/ \E a \in Address : AddMember(a)
                 \/ BulkUpdateMembers \/ BulkUpdateIngress
                 \/ DelLoadBalancer \/ Settles \/ Gone
BY DEF Next, Main, StartApply, StartDestroy, Start, FoundTwo, Reuse, FloatingIPUnavailable,
   MasterExists, CreateMasters, Configure, ConfigureRaises, Retry, GiveUp, CreateDex, CreateOAuth2,
   DexRaises, AllConfigured, IsReady, BulkUpdateFails, AddMaster, AllMastersAdded,
   AddIngressListener, BulkUpdateIngressFails, Built, DeleteInstances, Get, NotFound, Die, vars

LEMMA OctaviaStep == TypeOK /\ OctaviaInv /\ StageInv /\ [Next]_vars => OctaviaInv'
<1> SUFFICES ASSUME TypeOK, OctaviaInv, StageInv, [Next]_vars PROVE OctaviaInv'
  OBVIOUS
<1> USE DEF OctaviaInv, Live, content
<1>s. /\ pc \in {"pool", "monitor"} => svc \in listener /\ Live
      /\ pc \in {"listener", "member", "bulk"} => Live
      /\ pc \in {"monitor", "member"} => svc \in pool
      /\ pc = "bulk" /\ svc \in Ingress => svc \in pool
      /\ pc = "bulk" /\ svc = "API" => "API" \in pool
  BY DEF StageInv, Building, SettingUp, AllIn, Base
<1>1. CASE UNCHANGED octavia
  BY <1>1 DEF octavia
<1>2. CASE Create
  BY <1>2 DEF Create
<1>3. CASE AddListener
  BY <1>3, <1>s DEF AddListener, Goto, Accept
<1>4. CASE AddPool
  BY <1>4, <1>s DEF AddPool, Goto, Accept, TypeOK
<1>5. CASE AddHealthMonitor
  BY <1>5, <1>s DEF AddHealthMonitor, Goto, Accept
<1>6. ASSUME NEW a \in Address, AddMember(a) PROVE OctaviaInv'
  BY <1>6, <1>s DEF AddMember, Goto, Accept, TypeOK
<1>7. CASE BulkUpdateMembers
  BY <1>7, <1>s DEF BulkUpdateMembers, Bulk, Goto, Accept, TypeOK
<1>8. CASE BulkUpdateIngress
  BY <1>8, <1>s DEF BulkUpdateIngress, Bulk, Goto, Accept, TypeOK
<1>9. CASE DelLoadBalancer
  BY <1>9 DEF DelLoadBalancer, Nothing
<1>10. CASE Settles
  BY <1>10 DEF Settles
<1>11. CASE Gone
  BY <1>11 DEF Gone
<1> QED
  BY <1>1, <1>2, <1>3, <1>4, <1>5, <1>6, <1>7, <1>8, <1>9, <1>10, <1>11, OctaviaSteps

LEMMA StageStep == TypeOK /\ OctaviaInv /\ StageInv /\ [Next]_vars => StageInv'
<1> SUFFICES ASSUME TypeOK, OctaviaInv, StageInv, [Next]_vars PROVE StageInv'
  OBVIOUS
<1> USE DEF StageInv, Live, Building, SettingUp, AllIn, Base, Before, octavia, content
<1>e. ASSUME NEW how, End(how) PROVE StageInv'
  BY <1>e DEF End
<1>1. CASE StartApply
  BY <1>1 DEF StartApply, Start
<1>1a. CASE StartDestroy
  BY <1>1a DEF StartDestroy, Start
<1>2. CASE FoundTwo  BY <1>2, <1>e DEF FoundTwo
<1>3. CASE FloatingIPUnavailable  BY <1>3, <1>e DEF FloatingIPUnavailable
<1>4. CASE MasterExists  BY <1>4, <1>e DEF MasterExists
<1>5. CASE ConfigureRaises  BY <1>5, <1>e DEF ConfigureRaises
<1>6. CASE DexRaises  BY <1>6, <1>e DEF DexRaises
<1>7. CASE Built  BY <1>7, <1>e DEF Built
<1>8. CASE NotFound  BY <1>8, <1>e DEF NotFound
<1>9. CASE Die  BY <1>9, <1>e DEF Die
<1>10. CASE GiveUp
  <2>1. CASE svc = "dex"  BY <1>10, <2>1 DEF GiveUp, Goto, Refused, Deleting
  <2>2. CASE svc # "dex"  BY <1>10, <1>e, <2>2 DEF GiveUp
  <2> QED  BY <2>1, <2>2
<1>11. CASE Create  BY <1>11 DEF Create, Goto
<1>12. CASE Reuse  BY <1>12 DEF Reuse, Goto
<1>13. CASE AllConfigured
  <2>1. /\ pc = "done" /\ pc' = "is_ready" /\ ~failed /\ svc = (IF dex THEN "oauth2" ELSE "API")
        /\ UNCHANGED <<svc, dex, failed, outcome, lb, listener, pool, monitor>>
    BY <1>13 DEF AllConfigured, Goto
  <2>2. listener = Base /\ pool = Base /\ monitor = Base
    <3>1. listener = Base /\ pool = Base /\ monitor \ Ingress = Base
      BY <2>1
    <3>2. monitor \subseteq pool
      BY DEF OctaviaInv
    <3> QED  BY <3>1, <3>2
  <2> QED  BY <2>1, <2>2
<1>14. CASE BulkUpdateFails  BY <1>14 DEF BulkUpdateFails, Goto
<1>15. CASE AllMastersAdded  BY <1>15 DEF AllMastersAdded, Goto
<1>16. CASE Get  BY <1>16 DEF Get, Goto
<1>17. CASE Retry  BY <1>17 DEF Retry
<1>18. CASE CreateMasters  BY <1>18 DEF CreateMasters, Goto
<1>19. CASE DeleteInstances  BY <1>19 DEF DeleteInstances, Goto
<1>20. CASE Configure  BY <1>20 DEF Configure, Goto, SetUp, OctaviaInv
<1>21. CASE CreateDex  BY <1>21 DEF CreateDex, Goto, SetUp
<1>22. CASE CreateOAuth2  BY <1>22 DEF CreateOAuth2, Goto, SetUp
<1>23. CASE IsReady  BY <1>23 DEF IsReady, Goto, SetUp
<1>24. CASE BulkUpdateIngressFails  BY <1>24 DEF BulkUpdateIngressFails, Goto, SetUp
<1>25. CASE AddListener  BY <1>25 DEF AddListener, Goto, Accept
<1>26. CASE AddPool  BY <1>26 DEF AddPool, Goto, Accept
<1>27. CASE AddHealthMonitor  BY <1>27 DEF AddHealthMonitor, Goto, Accept
<1>28. ASSUME NEW a \in Address, AddMember(a) PROVE StageInv'
  <2>1. /\ pc = "member" /\ lb' = "PENDING"
        /\ UNCHANGED <<svc, dex, failed, outcome, listener, pool, monitor>>
    BY <1>28 DEF AddMember, Goto, Accept
  <2>2. CASE rest # {a}
    <3>1. pc' = pc
      BY <1>28, <2>1, <2>2 DEF AddMember, Goto
    <3> QED  BY <2>1, <3>1
  <2>3. CASE rest = {a} /\ svc \in Ingress
    <3>1. pc' = "done"
      BY <1>28, <2>3 DEF AddMember, AfterMembers, Goto
    <3> QED  BY <2>1, <2>3, <3>1
  <2>4. CASE rest = {a} /\ svc \notin Ingress /\ svc \in monitor
    <3>1. pc' = "add_all_masters"
      BY <1>28, <2>4 DEF AddMember, AfterMembers, Goto
    <3>2. svc = "API"
      <4>1. CASE failed  BY <2>1, <2>4, <4>1 DEF TypeOK
      <4>2. CASE ~failed  BY <2>1, <2>4, <4>2 DEF TypeOK
      <4> QED  BY <4>1, <4>2
    <3> QED  BY <2>1, <2>4, <3>1, <3>2
  <2>5. CASE rest = {a} /\ svc \notin Ingress /\ svc \notin monitor
    <3>1. pc' = "monitor"
      BY <1>28, <2>5 DEF AddMember, AfterMembers, Goto
    <3> QED  BY <2>1, <2>5, <3>1
  <2> QED  BY <2>2, <2>3, <2>4, <2>5
<1>29. ASSUME NEW m \in Master, AddMaster(m) PROVE StageInv'
  BY <1>29 DEF AddMaster, Goto, SetUp
<1>30. ASSUME NEW s \in Ingress, AddIngressListener(s) PROVE StageInv'
  BY <1>30 DEF AddIngressListener, Goto, SetUp
<1>31. CASE BulkUpdateMembers
  <2>1. /\ pc = "bulk" /\ svc = "API" /\ pc' = "apply_addons" /\ lb' = "PENDING"
        /\ UNCHANGED <<svc, dex, failed, outcome, listener, pool>>
        /\ monitor' \in {monitor, monitor \cup {pool0}}
    BY <1>31 DEF BulkUpdateMembers, Bulk, Goto, Accept
  <2>2. AllIn /\ pool = Base /\ monitor = Base
    BY <2>1
  <2>3. pool0 \in monitor
    BY <2>2 DEF OctaviaInv
  <2> QED  BY <2>1, <2>2, <2>3
<1>32. CASE BulkUpdateIngress  BY <1>32 DEF BulkUpdateIngress, Bulk, Goto, Accept
<1>33. CASE DelLoadBalancer  BY <1>33, <1>e DEF DelLoadBalancer
<1>34. CASE Settles  BY <1>34 DEF Settles, process
<1>35. CASE Gone  BY <1>35 DEF Gone, process
<1>36. CASE UNCHANGED vars  BY <1>36 DEF vars, process
<1> QED
  BY <1>1, <1>1a, <1>2, <1>3, <1>4, <1>5, <1>6, <1>7, <1>8, <1>9, <1>10, <1>11, <1>12, <1>13,
     <1>14, <1>15, <1>16, <1>17, <1>18, <1>19, <1>20, <1>21, <1>22, <1>23, <1>24, <1>25, <1>26,
     <1>27, <1>28, <1>29, <1>30, <1>31, <1>32, <1>33, <1>34, <1>35, <1>36 DEF Next, Main

-----------------------------------------------------------------------------
\* There are as many addresses of masters as there are masters.
LEMMA OnePerMaster ==
  ASSUME NEW r
  PROVE  LET All == ({r} \X Master) \X {"API"}
         IN  IsFiniteSet(All) /\ Cardinality(All) = Cardinality(Master)
<1> DEFINE All == ({r} \X Master) \X {"API"}
           f == [m \in Master |-> <<<<r, m>>, "API">>]
<1>1. f \in Bijection(Master, All)
  <2>1. f \in [Master -> All]
    OBVIOUS
  <2>2. \A m, n \in Master : f[m] = f[n] => m = n
    OBVIOUS
  <2>3. \A a \in All : \E m \in Master : f[m] = a
    OBVIOUS
  <2>4. IsInjective(f)
    BY <2>1, <2>2 DEF IsInjective
  <2> QED
    BY <2>1, <2>3, <2>4, Zenon DEF Bijection, Injection, Surjection
<1>2. ExistsBijection(Master, All)
  BY <1>1, Zenon DEF ExistsBijection
<1>3. IsFiniteSet(Master)
  BY LBAssumption
<1> QED
  BY <1>2, <1>3, FS_Bijection

\* A pool that holds as many addresses of masters as there are masters holds all.
LEMMA FullPool ==
  ASSUME NEW r, NEW S \in SUBSET (({r} \X Master) \X {"API"}), Cardinality(S) >= Cardinality(Master)
  PROVE  S = ({r} \X Master) \X {"API"}
<1> DEFINE All == ({r} \X Master) \X {"API"}
<1>1. IsFiniteSet(All) /\ Cardinality(All) = Cardinality(Master)
  BY OnePerMaster
<1>2. Cardinality(S) = Cardinality(All)
  BY <1>1, FS_Subset, FS_CardinalityType
<1> QED
  BY <1>1, <1>2, FS_Subset

\* An address with the API server's port is in the pool once its member is.
LEMMA InPoolGrows ==
  ASSUME NEW a, members'["API"] = members["API"] \cup {<<a, "API">>}
  PROVE  InPool' = InPool \cup {a}
<1> DEFINE b == <<a, "API">>
<1>1. b[1] = a /\ members'["API"] = members["API"] \cup {b}
  OBVIOUS
<1>2. ASSUME NEW c PROVE c \in InPool' <=> c \in InPool \cup {a}
  <2> HIDE DEF b
  <2>1. c \in InPool' <=> \E m \in members'["API"] : c = m[1]
    BY DEF InPool
  <2>2. c \in InPool <=> \E m \in members["API"] : c = m[1]
    BY DEF InPool
  <2> QED  BY <2>1, <2>2, <1>1
<1> QED  BY <1>2

LEMMA MemberStep == TypeOK /\ OctaviaInv /\ StageInv /\ MemberInv /\ [Next]_vars => MemberInv'
<1> SUFFICES ASSUME TypeOK, OctaviaInv, StageInv, MemberInv, [Next]_vars PROVE MemberInv'
  OBVIOUS
<1> USE DEF MemberInv, Building, SettingUp, AllIn, First, octavia, content
<1>w. /\ Wanted("API") = ({run} \X Master) \X {"API"}
      /\ Wanted("API")' = ({run'} \X Master) \X {"API"}
      /\ UNCHANGED <<run, workers>> => \A s \in Service : Wanted(s)' = Wanted(s)
      /\ <<First, "API">> \in Wanted("API")
  BY Constants DEF Wanted, At, Addresses
<1>n. Addresses(Master) = {run} \X Master /\ (UNCHANGED run => Addresses(Master)' = Addresses(Master))
  BY DEF Addresses
<1>r. ASSUME NEW S, S # {} PROVE Addresses(S) # {}
  <2>1. PICK h \in S : TRUE
    BY <1>r
  <2>2. <<run, h>> \in Addresses(S)
    BY DEF Addresses
  <2> QED  BY <2>2
<1>u. ASSUME UNCHANGED <<run, pc, svc, rest, dex, workers, monitor, members>> PROVE MemberInv'
  BY <1>u, <1>w, <1>n, InPool' = InPool DEF At, InPool
<1>e. ASSUME NEW how, End(how) PROVE MemberInv'
  BY <1>e DEF End
<1>1. CASE StartApply \/ StartDestroy
  BY <1>1 DEF StartApply, StartDestroy, Start
<1>2. CASE FoundTwo  BY <1>2, <1>e DEF FoundTwo
<1>3. CASE FloatingIPUnavailable  BY <1>3, <1>e DEF FloatingIPUnavailable
<1>4. CASE MasterExists  BY <1>4, <1>e DEF MasterExists
<1>5. CASE ConfigureRaises  BY <1>5, <1>e DEF ConfigureRaises
<1>6. CASE DexRaises  BY <1>6, <1>e DEF DexRaises
<1>7. CASE Built  BY <1>7, <1>e DEF Built
<1>8. CASE NotFound  BY <1>8, <1>e DEF NotFound
<1>9. CASE Die  BY <1>9, <1>e DEF Die
<1>10. CASE GiveUp
  <2>1. CASE svc = "dex"
    <3>1. /\ pc \in {"listener", "pool", "member", "monitor", "bulk"} /\ pc' = "done"
          /\ UNCHANGED <<run, workers, svc, dex, members, monitor>>
      BY <1>10, <2>1 DEF GiveUp, Goto, Refused, Deleting, StageInv
    <3> QED  BY <2>1, <3>1, <1>w
  <2>2. CASE svc # "dex"  BY <1>10, <1>e, <2>2 DEF GiveUp
  <2> QED  BY <2>1, <2>2
<1>11. CASE Create  BY <1>11 DEF Create, Goto, StageInv
<1>12. CASE Reuse  BY <1>12 DEF Reuse, Goto, StageInv
<1>13. CASE AllConfigured  BY <1>13, <1>w DEF AllConfigured, Goto
<1>14. CASE BulkUpdateFails  BY <1>14, <1>w DEF BulkUpdateFails, Goto, StageInv
<1>15. CASE AllMastersAdded
  <2>1. members["API"] = Wanted("API")
    BY <1>15, <1>w, FullPool DEF AllMastersAdded, Goto
  <2>2. UNCHANGED <<run, workers, svc, dex, members, monitor>> /\ pc = "add_all_masters" /\ pc' = "apply_addons"
    BY <1>15 DEF AllMastersAdded, Goto
  <2> QED  BY <2>1, <2>2, <1>w DEF StageInv
<1>16. CASE Get  BY <1>16 DEF Get, Goto, StageInv
<1>17. CASE Retry  BY <1>17, <1>u DEF Retry
<1>18. CASE CreateMasters  BY <1>18 DEF CreateMasters, Goto, StageInv
<1>19. CASE DeleteInstances  BY <1>19 DEF DeleteInstances, Goto, StageInv
<1>20. CASE Configure
  BY <1>20, <1>w, Addresses({first}) = {First} DEF Configure, Goto, SetUp, OctaviaInv, StageInv, Addresses
<1>21. CASE CreateDex
  <2>1. rest' # {}
    BY <1>21, <1>r, Constants DEF CreateDex, SetUp
  <2> QED  BY <1>21, <1>w, <2>1 DEF CreateDex, Goto, SetUp
<1>22. CASE CreateOAuth2
  <2>1. rest' # {}
    BY <1>22, <1>r DEF CreateOAuth2, SetUp
  <2> QED  BY <1>22, <1>w, <2>1 DEF CreateOAuth2, Goto, SetUp
<1>23. CASE IsReady  BY <1>23, <1>w DEF IsReady, Goto, SetUp, StageInv
<1>24. CASE BulkUpdateIngressFails
  <2>1. At(Addresses(Master \cup workers), svc) = Wanted(svc)
    BY <1>24 DEF BulkUpdateIngressFails, Wanted
  <2>2. At(rest', svc) = Wanted(svc)
    BY <1>24, <2>1 DEF BulkUpdateIngressFails, SetUp
  <2>3. /\ pc = "bulk" /\ pc' = "member" /\ members[svc] = {}
        /\ UNCHANGED <<run, workers, svc, dex, members, monitor>>
    BY <1>24 DEF BulkUpdateIngressFails, SetUp, Goto
  <2>4. rest' # {}
    BY <1>24, <1>r, Constants DEF BulkUpdateIngressFails, SetUp
  <2> QED  BY <1>24, <2>2, <2>3, <2>4, <1>w DEF BulkUpdateIngressFails, At
<1>25. CASE AddListener  BY <1>25, <1>w DEF AddListener, Goto, Accept
<1>26. CASE AddPool
  <2>1. /\ pc = "pool" /\ pc' = IF svc \in Ingress THEN "bulk" ELSE "member"
        /\ UNCHANGED <<run, workers, svc, rest, dex, members, monitor>>
    BY <1>26 DEF AddPool, Goto
  <2>2. ~failed => svc \notin pool
    BY <2>1 DEF StageInv, Before, Base
  <2>3. failed => svc \notin Ingress /\ svc # "API"
    BY DEF StageInv
  <2>4. svc \in Ingress \/ svc = "API" => members[svc] = {} /\ svc \notin monitor
    BY <2>2, <2>3 DEF OctaviaInv, TypeOK
  <2> QED  BY <2>1, <2>4, <1>w, <1>n
<1>27. CASE AddHealthMonitor
  <2>1. /\ pc = "monitor" /\ pc' = "done"
        /\ UNCHANGED <<run, workers, svc, rest, dex, members>>
    BY <1>27 DEF AddHealthMonitor, Goto
  <2>2. svc \notin Ingress
    BY <2>1 DEF StageInv
  <2> QED  BY <2>1, <2>2, <1>w
<1>28. ASSUME NEW a \in Address, AddMember(a) PROVE MemberInv'
  <2>1. /\ pc = "member" /\ a \in rest /\ rest' = rest \ {a}
        /\ pc' = IF rest = {a} THEN AfterMembers ELSE "member"
        /\ members' = [members EXCEPT ![svc] = @ \cup {<<a, svc>>}]
        /\ UNCHANGED <<run, workers, svc, dex, monitor>>
    BY <1>28 DEF AddMember, Goto
  <2>2. /\ members'[svc] = members[svc] \cup {<<a, svc>>}
        /\ \A s \in Service \ {svc} : members'[s] = members[s]
    BY <2>1 DEF TypeOK
  <2>3. CASE svc \in Ingress
    <3>1. members'[svc] \cup At(rest', svc) = Wanted(svc)
      BY <2>1, <2>2, <2>3 DEF At
    <3>2. pc' = (IF rest = {a} THEN "done" ELSE "member") /\ (rest = {a} => At(rest', svc) = {})
      BY <2>1, <2>3 DEF AfterMembers, At
    <3>3. /\ members'["API"] = members["API"] /\ members'["API"] \subseteq Wanted("API")
          /\ <<First, "API">> \in members'["API"] /\ (~dex => members'["API"] = Wanted("API"))
          /\ (svc = "https" => members'["http"] = Wanted("http"))
      BY <2>1, <2>2, <2>3
    <3> QED  BY <2>1, <2>3, <3>1, <3>2, <3>3, <1>w DEF At
  <2>4. CASE svc \in Dex
    <3>1. /\ members'["API"] = members["API"] /\ pc' \in {"member", "monitor", "add_all_masters"}
          /\ pc' = "member" => rest' # {}
      BY <2>1, <2>2, <2>4 DEF AfterMembers
    <3> QED  BY <2>1, <2>4, <3>1, <1>w
  <2>5. CASE svc = "API" /\ "API" \notin monitor
    <3>1. rest = {a} /\ a = First /\ pc' = "monitor" /\ members["API"] = {}
      BY <2>1, <2>5 DEF AfterMembers
    <3>2. members'["API"] = {<<First, "API">>}
      BY <2>2, <2>5, <3>1
    <3> QED  BY <2>1, <2>5, <3>1, <3>2, <1>w
  <2>6. CASE svc = "API" /\ "API" \in monitor
    <3>1. <<a, "API">> \in Wanted("API")
      BY <2>1, <2>6, <1>n, <1>w
    <3>2. pc' \in {"member", "add_all_masters"} /\ (pc' = "member" => rest' # {})
      BY <2>1, <2>6 DEF AfterMembers
    <3>4. InPool' = InPool \cup {a}
      BY <2>2, <2>6, InPoolGrows
    <3>5. rest' \subseteq Addresses(Master) \ InPool'
      BY <2>1, <2>6, <3>4
    <3>3. members'["API"] \subseteq Wanted("API") /\ <<First, "API">> \in members'["API"]
      BY <2>1, <2>2, <2>6, <3>1
    <3> QED  BY <2>1, <2>6, <3>2, <3>3, <3>5, <1>w, <1>n
  <2> QED  BY <2>3, <2>4, <2>5, <2>6 DEF TypeOK
<1>29. ASSUME NEW m \in Master, AddMaster(m) PROVE MemberInv'
  <2>1. /\ pc = "add_all_masters" /\ pc' = "member" /\ svc' = "API" /\ rest' = {<<run, m>>}
        /\ UNCHANGED <<run, workers, dex, members, monitor>>
    BY <1>29, Addresses({m}) = {<<run, m>>} DEF AddMaster, Goto, SetUp, Addresses
  <2>2. "API" \in monitor
    BY <2>1 DEF StageInv, Base
  <2>3. InPool' = InPool /\ <<run, m>> \notin InPool
    BY <1>29, <2>1 DEF AddMaster, InPool
  <2>4. rest' \subseteq Addresses(Master)' \ InPool'
    BY <2>1, <2>3, <1>n
  <2>5. members["API"] \subseteq Wanted("API") /\ <<First, "API">> \in members["API"]
        /\ First' = First /\ svc' \notin Ingress
    BY <2>1
  <2> HIDE DEF InPool
  <2> QED  BY <2>1, <2>2, <2>4, <2>5, <1>w
<1>30. ASSUME NEW s \in Ingress, AddIngressListener(s) PROVE MemberInv'
  BY <1>30, <1>w DEF AddIngressListener, Goto, SetUp
<1>31. CASE BulkUpdateMembers
  <2>1. /\ pc = "bulk" /\ svc = "API" /\ pc' = "apply_addons"
        /\ members' = [members EXCEPT ![pool0] = Wanted("API")]
        /\ UNCHANGED <<run, workers, svc, dex>>
    BY <1>31 DEF BulkUpdateMembers, Bulk, Goto
  <2>2. pool = Base
    BY <2>1 DEF StageInv
  <2>3. members'["API"] = IF pool0 = "API" THEN Wanted("API") ELSE members["API"]
    BY <2>1 DEF TypeOK
  <2>4. ~dex => pool0 = "API"
    BY <2>2 DEF OctaviaInv, Base
  <2>5. members["API"] \subseteq Wanted("API") /\ <<First, "API">> \in members["API"]
    BY <2>1 DEF StageInv
  <2> QED  BY <2>1, <2>3, <2>4, <2>5, <1>w
<1>32. CASE BulkUpdateIngress  BY <1>32, <1>w DEF BulkUpdateIngress, Bulk, Goto, Accept, TypeOK
<1>33. CASE DelLoadBalancer  BY <1>33, <1>e DEF DelLoadBalancer
<1>34. CASE Settles  BY <1>34, <1>u DEF Settles, process
<1>35. CASE Gone  BY <1>35, <1>u DEF Gone, process
<1>36. CASE UNCHANGED vars  BY <1>36, <1>u DEF vars, process
<1> QED
  BY <1>1, <1>2, <1>3, <1>4, <1>5, <1>6, <1>7, <1>8, <1>9, <1>10, <1>11, <1>12, <1>13,
     <1>14, <1>15, <1>16, <1>17, <1>18, <1>19, <1>20, <1>21, <1>22, <1>23, <1>24, <1>25, <1>26,
     <1>27, <1>28, <1>29, <1>30, <1>31, <1>32, <1>33, <1>34, <1>35, <1>36 DEF Next, Main

-----------------------------------------------------------------------------
Promises == BuiltIsWhole /\ BuiltAnswers /\ RemovedIsGone

\* A command that ends says that it built something only after the last ingress pool,
\* and that it removed something only when octavia has nothing left to remove.
LEMMA PromisesStep ==
  TypeOK /\ OctaviaInv /\ StageInv /\ MemberInv /\ Promises /\ [Next]_vars => Promises'
<1> SUFFICES ASSUME TypeOK, OctaviaInv, StageInv, MemberInv, Promises, [Next]_vars
             PROVE  Promises'
  OBVIOUS
<1>1. StageInv'
  BY StageStep
<1> USE DEF Promises, BuiltIsWhole, BuiltAnswers, RemovedIsGone
<1>2. CASE outcome' \notin {"built", "removed"}
  BY <1>2
<1>3. CASE Built
  <2>1. /\ pc = "done" /\ svc = "https" /\ outcome' = "built" /\ ~failed
        /\ UNCHANGED <<run, dex, workers, listener, pool, monitor, members>>
    BY <1>3 DEF Built, End, octavia, content, StageInv
  <2>2. /\ listener = Base \cup Ingress /\ pool = Base \cup Ingress /\ Base \subseteq monitor
    BY <2>1 DEF StageInv, SettingUp, Before, Base
  <2>3. /\ <<First, "API">> \in members["API"] /\ members["API"] \subseteq Wanted("API")
        /\ \A s \in Ingress : members[s] = Wanted(s)
        /\ ~dex => members["API"] = Wanted("API")
    BY <2>1 DEF MemberInv, Building, SettingUp
  <2>4. \A s \in Service : Wanted(s)' = Wanted(s)
    BY <2>1 DEF Wanted, At, Addresses
  <2>5. BuiltIsWhole'
    BY <2>1, <2>2, <2>3, <2>4 DEF Base
  <2>6. BuiltAnswers'
    BY <2>1, <2>2, <2>3, <2>4 DEF Base, First
  <2>7. RemovedIsGone'
    BY <2>1
  <2> QED  BY <2>5, <2>6, <2>7
<1>4. CASE NotFound
  BY <1>4 DEF NotFound, End, octavia, content, OctaviaInv, Live
<1>5. CASE DelLoadBalancer
  <2>1. outcome' # "built" /\ lb' = "PENDING_DELETE" /\ pool' = {}
    BY <1>5 DEF DelLoadBalancer, End
  <2> QED  BY <2>1
<1>6. CASE pc = "idle" /\ (Settles \/ Gone \/ UNCHANGED vars)
  <2>1. UNCHANGED <<run, dex, workers, outcome, listener, pool, monitor, members>>
    BY <1>6 DEF Settles, Gone, vars, process, octavia, content
  <2>2. \A s \in Service : Wanted(s)' = Wanted(s)
    BY <2>1 DEF Wanted, At, Addresses
  <2>3. outcome = "removed" => lb' \in {"none", "PENDING_DELETE"}
    BY <1>6 DEF Settles, Gone, vars, octavia
  <2> QED  BY <2>1, <2>2, <2>3
<1>7. ASSUME pc # "idle", outcome' \in {"built", "removed"}
      PROVE  Built \/ NotFound \/ DelLoadBalancer
  BY <1>7 DEF StageInv, Next, Main, StartApply, StartDestroy, Start, Goto, End, FoundTwo, Create,
     Reuse, FloatingIPUnavailable, MasterExists, CreateMasters, Configure, ConfigureRaises,
     AddListener, AddPool, AddHealthMonitor, AddMember, Retry, GiveUp, CreateDex, CreateOAuth2,
     DexRaises, AllConfigured, IsReady, BulkUpdateMembers, BulkUpdateIngress, Bulk,
     BulkUpdateFails, AddMaster, AllMastersAdded, AddIngressListener, BulkUpdateIngressFails,
     DeleteInstances, Get, Settles, Gone, Die, vars, process
<1>8. ASSUME pc = "idle", outcome' \in {"built", "removed"}
      PROVE  Settles \/ Gone \/ UNCHANGED vars
  BY <1>8 DEF Next, Main, StartApply, StartDestroy, Start, Goto, FoundTwo, Create,
     Reuse, FloatingIPUnavailable, MasterExists, CreateMasters, Configure, ConfigureRaises,
     AddListener, AddPool, AddHealthMonitor, AddMember, Refused, Deleting, Retry, GiveUp, CreateDex,
     CreateOAuth2, DexRaises, AllConfigured, IsReady, BulkUpdateMembers, BulkUpdateIngress, Bulk,
     BulkUpdateFails, AddMaster, AllMastersAdded, AddIngressListener, BulkUpdateIngressFails,
     Built, DeleteInstances, Get, NotFound, DelLoadBalancer, Die
<1> QED  BY <1>2, <1>3, <1>4, <1>5, <1>6, <1>7, <1>8

LEMMA InvInit == Init => IInv
<1> SUFFICES ASSUME Init PROVE IInv
  OBVIOUS
<1>1. TypeOK
  BY TypeInit
<1>2. OctaviaInv /\ StageInv
  BY DEF Init, OctaviaInv, StageInv, Live, Building, SettingUp, AllIn, Nothing
<1>3. MemberInv
  BY DEF Init, MemberInv, Building, SettingUp, AllIn
<1>4. BuiltIsWhole /\ BuiltAnswers /\ RemovedIsGone
  BY DEF Init, BuiltIsWhole, BuiltAnswers, RemovedIsGone
<1> QED  BY <1>1, <1>2, <1>3, <1>4 DEF IInv

LEMMA InvStep == IInv /\ [Next]_vars => IInv'
BY TypeStep, OctaviaStep, StageStep, MemberStep, PromisesStep DEF IInv, Promises

\* The inductive invariant of the calls octavia gets: what the load balancer has is
\* what the process has set up so far.
THEOREM Invariant == Spec => []IInv
<1>1. Init => IInv
  BY InvInit
<1>2. IInv /\ [Next]_vars => IInv'
  BY InvStep
<1> QED  BY <1>1, <1>2, PTL DEF Spec

\* A build without Dex that reports success (builder.py:628-636) left every pool with
\* exactly its own members, for any number of masters and workers, whatever octavia
\* refused on the way (util.py:142-173).
THEOREM BuildIsWhole == Spec => []BuiltIsWhole
<1>1. IInv => BuiltIsWhole
  BY DEF IInv
<1> QED  BY <1>1, Invariant, PTL

\* With Dex as well, the listeners are complete and the first master is behind port 6443.
THEOREM BuildAnswers == Spec => []BuiltAnswers
<1>1. IInv => BuiltAnswers
  BY DEF IInv
<1> QED  BY <1>1, Invariant, PTL

\* destroy returns from delete (openstack.py:645-667) with nothing left behind, or raises.
THEOREM RemovalIsComplete == Spec => []RemovedIsGone
<1>1. IInv => RemovedIsGone
  BY DEF IInv
<1> QED  BY <1>1, Invariant, PTL

-----------------------------------------------------------------------------
\* Every step is one of the abstract pool, or none of its business.
LEMMA PoolStep == IInv /\ [Next]_vars => [API!Next]_(API!vars)
<1> SUFFICES ASSUME IInv, [Next]_vars PROVE API!Next \/ UNCHANGED API!vars
  OBVIOUS
<1> DEFINE status == IF lb \in {"none", "PENDING_DELETE"} THEN "none"
                     ELSE IF "API" \in listener THEN "listening" ELSE "bare"
<1> USE DEF content
<1>i. TypeOK /\ OctaviaInv /\ StageInv /\ MemberInv
  BY DEF IInv
<1>s. UNCHANGED <<status, InPool>> => UNCHANGED API!vars
  BY DEF API!vars
<1>p. members'["API"] = members["API"] => InPool' = InPool
  BY DEF InPool
<1>w. Wanted("API") = ({run} \X Master) \X {"API"}
  BY DEF Wanted, At, Addresses
<1>1. CASE UNCHANGED octavia
  BY <1>1, <1>s, <1>p DEF octavia
<1>2. CASE Create
  <2>1. status = "none" /\ status' = "bare" /\ InPool' = InPool
    BY <1>2, <1>i, <1>p DEF Create, OctaviaInv, Live
  <2>2. API!Create
    BY <2>1 DEF API!Create
  <2> QED  BY <2>2 DEF API!Next
<1>3. CASE AddListener
  <2>1. /\ InPool' = InPool /\ status \in {"bare", "listening"}
        /\ status' = status \/ status' = "listening"
    BY <1>3, <1>p DEF AddListener, Accept
  <2>2. CASE status' = status  BY <2>1, <2>2, <1>s
  <2>3. CASE status = "bare" /\ status' = "listening"
    <3>1. API!Listen
      BY <2>1, <2>3 DEF API!Listen
    <3> QED  BY <3>1 DEF API!Next
  <2> QED  BY <2>1, <2>2, <2>3
<1>4. CASE AddPool \/ AddHealthMonitor \/ Settles \/ Gone
  <2>1. UNCHANGED <<listener, members>> /\ status' = status
    BY <1>4, <1>i DEF AddPool, AddHealthMonitor, Settles, Gone, Accept, TypeOK, OctaviaInv
  <2> QED  BY <2>1, <1>s, <1>p
<1>g. ASSUME status = "listening", status' = "listening", First \in InPool,
             InPool \subseteq InPool', InPool' \subseteq {run} \X Master, pc # "idle"
      PROVE  API!Next
  <2>1. run \in Run
    BY <1>g, <1>i, Constants DEF TypeOK, Run
  <2>2. API!Grow
    BY <1>g, <2>1 DEF API!Grow, First
  <2> QED  BY <2>2 DEF API!Next
<1>5. ASSUME NEW a \in Address, AddMember(a) PROVE API!Next \/ UNCHANGED API!vars
  <2>1. /\ pc = "member" /\ lb = "ACTIVE" /\ lb' = "PENDING" /\ a \in rest /\ listener' = listener
        /\ members' = [members EXCEPT ![svc] = @ \cup {<<a, svc>>}] /\ UNCHANGED run
    BY <1>5 DEF AddMember, Goto, Accept
  <2>2. CASE svc # "API"
    <3>1. members'["API"] = members["API"] /\ status' = status
      BY <2>1, <2>2, <1>i DEF TypeOK
    <3> QED  BY <3>1, <1>s, <1>p
  <2>3. CASE svc = "API"
    <3>1. members'["API"] = members["API"] \cup {<<a, "API">>}
      BY <2>1, <2>3, <1>i DEF TypeOK
    <3>2. InPool' = InPool \cup {a}
      <4>1. InPool' = {m[1] : m \in members["API"]} \cup {m[1] : m \in {<<a, "API">>}}
        BY <3>1 DEF InPool
      <4>2. {m[1] : m \in {<<a, "API">>}} = {a}
        OBVIOUS
      <4> QED  BY <4>1, <4>2 DEF InPool
    <3>3. "API" \in listener
      BY <2>1, <2>3, <1>i DEF StageInv, SettingUp, AllIn, Base
    <3>4. status = "listening" /\ status' = "listening"
      BY <2>1, <3>3
    <3>5. CASE "API" \in monitor
      <4>1. /\ members["API"] \subseteq Wanted("API") /\ a \in Addresses(Master)
            /\ <<First, "API">> \in members["API"]
        BY <2>1, <2>3, <3>5, <1>i DEF MemberInv, Building, SettingUp, AllIn
      <4>2. First \in InPool /\ InPool \subseteq {run} \X Master /\ a \in {run} \X Master
        BY <4>1, <1>w DEF InPool, Addresses
      <4> QED  BY <2>1, <3>2, <3>4, <4>2, <1>g
    <3>6. CASE "API" \notin monitor
      <4>1. a = First /\ members["API"] = {} /\ run \in Run
        BY <2>1, <2>3, <3>6, <1>i, Constants DEF MemberInv, TypeOK, Run
      <4>2. InPool = {} /\ InPool' = {<<run, first>>}
        BY <3>2, <4>1 DEF InPool, First
      <4>3. API!Open
        BY <3>4, <4>1, <4>2 DEF API!Open
      <4> QED  BY <4>3 DEF API!Next
    <3> QED  BY <3>5, <3>6
  <2> QED  BY <2>2, <2>3
<1>6. CASE BulkUpdateMembers
  <2>1. /\ pc = "bulk" /\ svc = "API" /\ lb = "ACTIVE" /\ lb' = "PENDING" /\ listener' = listener
        /\ members' = [members EXCEPT ![pool0] = Wanted("API")] /\ UNCHANGED run
    BY <1>6 DEF BulkUpdateMembers, Bulk, Goto, Accept
  <2>2. CASE pool0 # "API"
    <3>1. members'["API"] = members["API"] /\ status' = status
      BY <2>1, <2>2, <1>i DEF TypeOK
    <3> QED  BY <3>1, <1>s, <1>p
  <2>3. CASE pool0 = "API"
    <3>1. members'["API"] = Wanted("API") /\ "API" \in monitor
      BY <2>1, <2>3, <1>i DEF TypeOK, StageInv
    <3>2. /\ members["API"] \subseteq Wanted("API") /\ <<First, "API">> \in members["API"]
          /\ "API" \in listener
      BY <2>1, <3>1, <1>i DEF MemberInv, Building, AllIn, StageInv, Base
    <3>3. First \in InPool /\ InPool \subseteq InPool' /\ InPool' \subseteq {run} \X Master
      BY <3>1, <3>2, <1>w DEF InPool
    <3> QED  BY <2>1, <3>2, <3>3, <1>g
  <2> QED  BY <2>2, <2>3
<1>7. CASE BulkUpdateIngress
  <2>1. /\ svc \in Ingress /\ lb = "ACTIVE" /\ lb' = "PENDING" /\ listener' = listener
        /\ members' = [members EXCEPT ![svc] = Wanted(svc)]
    BY <1>7 DEF BulkUpdateIngress, Bulk, Accept
  <2>2. members'["API"] = members["API"] /\ status' = status
    BY <2>1, <1>i DEF TypeOK
  <2> QED  BY <2>2, <1>s, <1>p
<1>8. CASE DelLoadBalancer
  <2>1. status' = "none" /\ InPool' = {}
    BY <1>8 DEF DelLoadBalancer, Nothing, InPool
  <2>2. API!Delete
    BY <2>1 DEF API!Delete
  <2> QED  BY <2>2 DEF API!Next
<1> QED
  BY <1>1, <1>2, <1>3, <1>4, <1>5, <1>6, <1>7, <1>8, OctaviaSteps

\* Call by call, refused, retried or given up (openstack.py:502-537, 606-667, 763-842), the
\* pool at port 6443 does what APIPool promises: it opens with the first master of a
\* build, grows by masters of that build only and goes with the load balancer.
THEOREM ImplementsAPIPool == Spec => APIPoolSpec
<1>1. Init => API!Init
  BY DEF Init, API!Init, InPool, Nothing
<1>2. IInv /\ [Next]_vars => [API!Next]_(API!vars)
  BY PoolStep
<1> QED  BY <1>1, <1>2, Invariant, PTL DEF Spec, APIPoolSpec, API!Spec

-----------------------------------------------------------------------------
\* The steps of a command that end it.
LEMMA Ends ==
  ASSUME pc' # "idle"
  PROVE  /\ ~FoundTwo /\ ~FloatingIPUnavailable /\ ~MasterExists /\ ~ConfigureRaises /\ ~DexRaises
         /\ ~Built /\ ~NotFound /\ ~DelLoadBalancer /\ ~Die
BY DEF FoundTwo, FloatingIPUnavailable, MasterExists, ConfigureRaises, DexRaises, Built, NotFound,
   DelLoadBalancer, Die, End

\* Only the process itself moves a command.
LEMMA OthersDoNotCount ==
  ASSUME [Next]_vars, ~Main, pc # "idle", pc' # "idle"
  PROVE  UNCHANGED <<Stage, Todo, tried>>
<1>1. Settles \/ Gone \/ UNCHANGED vars
  BY Ends DEF Next, StartApply, StartDestroy, Start
<1>2. UNCHANGED <<run, pc, svc, rest, tried, monitor, members>>
  BY <1>1 DEF Settles, Gone, vars, process, octavia, content
<1> QED
  BY <1>2 DEF Stage, Todo, SettingUp, AllIn, Begin, Part, Other, Addresses, InPool

\* From one stage to the next.
LEMMA NextStage ==
  ASSUME TypeOK, StageInv, pc' # "idle",
         \/ Create \/ Reuse \/ CreateMasters \/ Configure \/ AddListener \/ AddPool
         \/ AddHealthMonitor \/ CreateDex \/ CreateOAuth2 \/ AllConfigured \/ IsReady
         \/ BulkUpdateMembers \/ BulkUpdateFails \/ AllMastersAdded
         \/ (\E s \in Ingress : AddIngressListener(s)) \/ BulkUpdateIngress
         \/ BulkUpdateIngressFails \/ DeleteInstances \/ Get \/ GiveUp
  PROVE  Stage' > Stage
<1> USE DEF Stage, Begin, Part, Other, SettingUp, AllIn, Goto, SetUp, TypeOK, octavia, content
<1>1. CASE Create  BY <1>1 DEF Create
<1>2. CASE Reuse  BY <1>2 DEF Reuse
<1>3. CASE CreateMasters  BY <1>3 DEF CreateMasters
<1>4. CASE Configure  BY <1>4 DEF Configure
<1>5. CASE AddListener  BY <1>5 DEF AddListener
<1>6. CASE AddPool  BY <1>6 DEF AddPool
<1>7. CASE AddHealthMonitor  BY <1>7 DEF AddHealthMonitor
<1>8. CASE CreateDex  BY <1>8 DEF CreateDex
<1>9. CASE CreateOAuth2  BY <1>9 DEF CreateOAuth2
<1>10. CASE AllConfigured  BY <1>10 DEF AllConfigured
<1>11. CASE IsReady  BY <1>11 DEF IsReady, StageInv, Base
<1>12. CASE BulkUpdateMembers  BY <1>12 DEF BulkUpdateMembers, Bulk
<1>13. CASE BulkUpdateFails  BY <1>13 DEF BulkUpdateFails
<1>14. CASE AllMastersAdded  BY <1>14 DEF AllMastersAdded
<1>15. ASSUME NEW s \in Ingress, AddIngressListener(s) PROVE Stage' > Stage
  BY <1>15 DEF AddIngressListener
<1>16. CASE BulkUpdateIngress  BY <1>16 DEF BulkUpdateIngress, Bulk
<1>17. CASE BulkUpdateIngressFails  BY <1>17 DEF BulkUpdateIngressFails
<1>18. CASE DeleteInstances  BY <1>18 DEF DeleteInstances
<1>19. CASE Get  BY <1>19 DEF Get
<1>20. CASE GiveUp
  <2>1. svc = "dex" /\ svc' = "dex" /\ pc' = "done" /\ pc \in {"listener", "pool", "member", "monitor"}
    BY <1>20 DEF GiveUp, End, Refused, Deleting, StageInv, Building
  <2> QED  BY <2>1
<1> QED
  BY <1>1, <1>2, <1>3, <1>4, <1>5, <1>6, <1>7, <1>8, <1>9, <1>10, <1>11, <1>12, <1>13, <1>14,
     <1>15, <1>16, <1>17, <1>18, <1>19, <1>20

\* Every step of a command counts, so its calls and loops are bounded by what there is
\* to do and by the tries.
LEMMA CountStep ==
  IInv /\ [Next]_vars /\ pc # "idle" /\ pc' # "idle"
    => IF Main THEN Nearer ELSE UNCHANGED <<Stage, Todo, tried>>
<1> SUFFICES ASSUME IInv, [Next]_vars, pc # "idle", pc' # "idle", Main PROVE Nearer
  BY OthersDoNotCount
<1>i. TypeOK /\ StageInv /\ MemberInv /\ IInv
  BY DEF IInv
<1>1. CASE Stage' > Stage
  BY <1>1 DEF Nearer
<1>2. CASE Retry
  <2>1. tried' > tried /\ tried' < Attempts(pc)
    BY <1>2, <1>i DEF Retry, TypeOK
  <2>2. UNCHANGED <<Stage, Todo, pc>>
    BY <1>2 DEF Retry, octavia, content, Stage, Todo, SettingUp, AllIn, Begin, Part, Other,
       Addresses, InPool
  <2> QED  BY <2>1, <2>2 DEF Nearer
<1>3. ASSUME NEW m \in Master, AddMaster(m) PROVE Nearer
  <2>1. /\ pc = "add_all_masters" /\ pc' = "member" /\ svc' = "API"
        /\ UNCHANGED <<run, monitor, members>>
    BY <1>3 DEF AddMaster, Goto, SetUp, octavia, content
  <2>2. "API" \in monitor
    BY <2>1, <1>i DEF StageInv, AllIn, Base
  <2>3. AllIn /\ AllIn' /\ ~SettingUp /\ ~SettingUp'
    BY <2>1, <2>2 DEF AllIn, SettingUp
  <2>4. Stage' = Stage
    BY <2>1, <2>3 DEF Stage, Other
  <2>5. Todo' = Todo
    BY <2>1, <2>3 DEF Todo, Addresses, InPool
  <2> QED  BY <2>1, <2>4, <2>5 DEF Nearer
<1>4. ASSUME NEW a \in Address, AddMember(a) PROVE Nearer
  <2>1. /\ pc = "member" /\ a \in rest /\ rest' = rest \ {a}
        /\ pc' = IF rest = {a} THEN AfterMembers ELSE "member"
        /\ members' = [members EXCEPT ![svc] = @ \cup {<<a, svc>>}]
        /\ UNCHANGED <<run, svc, monitor>>
    BY <1>4 DEF AddMember, Goto
  <2>2. CASE svc = "API" /\ "API" \in monitor
    <3>1. pc' \in {"member", "add_all_masters"}
      BY <2>1, <2>2 DEF AfterMembers
    <3>2. AllIn /\ AllIn' /\ ~SettingUp /\ ~SettingUp'
      BY <2>1, <2>2, <3>1 DEF AllIn, SettingUp
    <3>3. Stage' = Stage
      BY <2>1, <3>1, <3>2 DEF Stage, Other
    <3>4. a \in Addresses(Master) \ InPool
      BY <2>1, <2>2, <1>i DEF MemberInv
    <3>5. InPool' = InPool \cup {a}
      <4>1. members'["API"] = members["API"] \cup {<<a, "API">>}
        BY <2>1, <2>2, <1>i DEF TypeOK
      <4> QED  BY <4>1, InPoolGrows
    <3>6. Addresses(Master)' = Addresses(Master)
      BY <2>1 DEF Addresses
    <3>7. Todo' = Todo \ {a} /\ a \in Todo
      BY <3>2, <3>4, <3>5, <3>6 DEF Todo
    <3> QED  BY <3>3, <3>7 DEF Nearer
  <2>3. CASE rest # {a} /\ ~(svc = "API" /\ "API" \in monitor)
    <3>1. SettingUp /\ SettingUp' /\ ~AllIn /\ ~AllIn' /\ pc' = pc
      BY <2>1, <2>3 DEF SettingUp, AllIn
    <3>2. Stage' = Stage
      BY <2>1, <3>1 DEF Stage
    <3>3. Todo' = Todo \ {a} /\ a \in Todo
      BY <2>1, <3>1 DEF Todo
    <3> QED  BY <3>2, <3>3 DEF Nearer
  <2>4. CASE rest = {a} /\ ~(svc = "API" /\ "API" \in monitor)
    <3>1. svc \in Service /\ SettingUp
      BY <2>1, <2>4, <1>i DEF TypeOK, SettingUp
    <3>2. svc \in monitor /\ svc \notin Ingress => svc \in Dex /\ failed
      BY <2>1, <2>4, <3>1, <1>i DEF StageInv, Before, Base
    <3>3. failed => svc \in Dex /\ svc \notin monitor
      BY <2>1, <1>i DEF StageInv
    <3>4. pc' \in {"done", "monitor"} /\ SettingUp'
      BY <2>1, <2>4, <3>2, <3>3 DEF AfterMembers, SettingUp
    <3>5. Stage = Begin[svc] + 3 /\ Stage' \in {Begin[svc] + 5, Begin[svc] + 4} /\ Begin[svc] \in Nat
      BY <2>1, <3>1, <3>4 DEF Stage, Begin, Part
    <3>6. Stage' > Stage
      BY <3>5
    <3> QED  BY <3>6 DEF Nearer
  <2> QED  BY <2>2, <2>3, <2>4
<1> QED  BY <1>1, <1>2, <1>3, <1>4, <1>i, NextStage, Ends DEF Main

\* No command of the load balancer runs for ever of its own accord: whatever octavia
\* answers, each step of it counts, for any number of hosts and of tries.
THEOREM CommandsProgress == Spec => EveryStepCounts
<1>1. IInv /\ [Next]_vars
        => [pc # "idle" /\ pc' # "idle"
              => IF Main THEN Nearer ELSE UNCHANGED <<Stage, Todo, tried>>]_vars
  BY CountStep
<1> QED  BY <1>1, Invariant, PTL DEF Spec, EveryStepCounts

-----------------------------------------------------------------------------
\* A pool of the current build's addresses that misses no master is full.
LEMMA MissesOne ==
  ASSUME TypeOK, MemberInv, pc = "add_all_masters", \A m \in Master : <<run, m>> \in InPool
  PROVE  Cardinality(members["API"]) >= Cardinality(Master)
<1> DEFINE All == ({run} \X Master) \X {"API"}
<1>1. members["API"] \subseteq All
  BY DEF MemberInv, Building, AllIn, Wanted, At, Addresses
<1>2. ASSUME NEW m \in Master PROVE <<<<run, m>>, "API">> \in members["API"]
  <2>1. PICK e \in members["API"] : <<run, m>> = e[1]
    BY DEF InPool
  <2>2. e = <<e[1], "API">>
    BY <1>1, <2>1
  <2> QED  BY <2>1, <2>2
<1>3. members["API"] = All
  BY <1>1, <1>2
<1>4. Cardinality(All) = Cardinality(Master) /\ Cardinality(All) \in Nat
  BY OnePerMaster, FS_CardinalityType
<1> QED  BY <1>3, <1>4

\* What a command waits for comes, or is refused: with CommandsProgress, all that the end
\* of every command needs but for the fairness of octavia and of the process.
THEOREM WaitsEnd == Spec => []NeverWaitsInVain
<1>1. ASSUME IInv PROVE NeverWaitsInVain
  <2>i. TypeOK /\ StageInv /\ MemberInv
    BY <1>1 DEF IInv
  <2>1. pc \in Op \ {"delete"} \/ pc = "release" => Live
    BY <2>i DEF StageInv, Building, SettingUp, AllIn
  <2>2. pc = "is_ready" => <<First, "API">> \in members["API"]
    BY <2>i DEF MemberInv, AllIn
  <2>3. pc = "add_all_masters" => \/ Cardinality(members["API"]) >= Cardinality(Master)
                                  \/ \E m \in Master : <<run, m>> \notin InPool
    BY <2>i, MissesOne
  <2>4. pc = "member" => rest # {}
    BY <2>i DEF MemberInv
  <2>5. pc = "bulk" => svc \in {"API"} \cup Ingress
    BY <2>i DEF StageInv, TypeOK
  <2>6. pc = "done" /\ svc \in Dex => dex
    BY <2>i DEF StageInv, Building, SettingUp
  <2> QED  BY <2>1, <2>2, <2>3, <2>4, <2>5, <2>6 DEF NeverWaitsInVain
<1> QED  BY <1>1, Invariant, PTL
=============================================================================

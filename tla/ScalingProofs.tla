--------------------------- MODULE ScalingProofs ---------------------------
(***************************************************************************)
(* What add, delete node and destroy promise, for every number of hosts,   *)
(* commands and crashes: the order in which a delete takes a master out,   *)
(* that names, config file and pool agree with the servers, and when a     *)
(* destroy and a delete leave nothing behind.                              *)
(***************************************************************************)
EXTENDS Scaling, FiniteSetTheorems, WellFoundedInduction, TLAPS

USE DEF Host, Role, Master, Deleting, history

\* Initially no command runs, and copies is a function on the hosts.
LEMMA OrderInit == Init => DeleteOrder
  BY DEF Init, DeleteOrder

\* Every step keeps the order of the calls of a delete.
LEMMA OrderStep == DeleteOrder /\ [Next]_vars => DeleteOrder'
<1> SUFFICES ASSUME DeleteOrder, [Next]_vars PROVE DeleteOrder'
  OBVIOUS
<1> USE DEF DeleteOrder
<1>1. CASE StartAdd \/ StartDelete \/ StartDestroy
  BY <1>1 DEF StartAdd, StartDelete, StartDestroy, Start, FirstCall, cluster
<1>2. CASE Die \/ NoLB
  BY <1>2 DEF Die, NoLB, End, cluster
<1>3. CASE CreateNewNodes \/ GetLB
  BY <1>3 DEF CreateNewNodes, GetLB, Goto, cluster
<1>4. ASSUME NEW h \in Host, Create(h) PROVE DeleteOrder'
  BY <1>4 DEF Create
<1>5. CASE AddUpdatesConfig \/ DeleteUpdatesConfig
  BY <1>5 DEF AddUpdatesConfig, DeleteUpdatesConfig, Goto, End, cluster
<1>6. CASE AddMember
  BY <1>6 DEF AddMember, End
<1>7. CASE DrainNode
  BY <1>7 DEF DrainNode, Goto, cluster
<1>8. CASE RemoveFromEtcd \/ RemovalRefused \/ DelMember \/ K8SDeleteNode
  BY <1>8 DEF RemoveFromEtcd, RemovalRefused, DelMember, K8SDeleteNode, Goto, cluster
<1>9. CASE InstanceMissing \/ InstanceNotFound \/ DeleteRest
  BY <1>9 DEF InstanceMissing, InstanceNotFound, DeleteRest, End, cluster
<1>10. CASE DeleteInstance
  BY <1>10 DEF DeleteInstance
<1>11. CASE GetInstances \/ DeleteLB
  BY <1>11 DEF GetInstances, DeleteLB, Goto, cluster
<1>12. ASSUME NEW h \in Host, Delete(h) \/ DeleteFails(h) PROVE DeleteOrder'
  BY <1>12 DEF Delete, DeleteFails, cluster
<1>13. ASSUME NEW h \in Host, Join(h) \/ Gone(h) PROVE DeleteOrder'
  BY <1>13 DEF Join, Gone, process
<1>14. CASE UNCHANGED vars
  BY <1>14 DEF vars, process, cluster
<1> QED
  BY <1>1, <1>2, <1>3, <1>4, <1>5, <1>6, <1>7, <1>8, <1>9, <1>10, <1>11, <1>12, <1>13,
     <1>14 DEF Next

\* The calls of koris.py:158-220 come in an order that a crash can only cut short.
THEOREM Order == Spec => []DeleteOrder
  BY OrderInit, OrderStep, PTL DEF Spec

\* `koris delete node` takes a master's server away only after it took the master
\* out of the load balancer's pool.
THEOREM PoolBeforeServer == Spec => ServerGoesLast
<1>1. DeleteOrder /\ [Next]_vars
        => [\A m \in Master : cmd = "delete" /\ Alive(m) /\ ~Alive(m)' => m \notin pool]_vars
  <2> SUFFICES ASSUME DeleteOrder, Next, NEW m \in Master, cmd = "delete",
                      Alive(m), ~Alive(m)'
               PROVE  m \notin pool
    OBVIOUS
  <2> USE DEF DeleteOrder, Alive
  <2>1. ~ UNCHANGED <<copies, deleting>>
    OBVIOUS
  <2>2. PICK h \in Host : Create(h) \/ Delete(h) \/ Gone(h) \/ DeleteInstance
    BY <2>1 DEF Next, StartAdd, StartDelete, StartDestroy, Start, Die, CreateNewNodes, Join,
       AddUpdatesConfig, GetLB, NoLB, AddMember, DrainNode, RemoveFromEtcd, RemovalRefused,
       DelMember, InstanceMissing, K8SDeleteNode, InstanceNotFound, DeleteUpdatesConfig,
       GetInstances, DeleteFails, DeleteLB, DeleteRest, cluster
  <2>3. DeleteInstance
    BY <2>2 DEF Create, Delete, Gone
  <2>4. m = target
    BY <2>3 DEF DeleteInstance, RemoveServer
  <2> QED
    BY <2>3, <2>4 DEF DeleteInstance
<1> QED
  BY <1>1, Order, PTL DEF Spec, ServerGoesLast

-----------------------------------------------------------------------------
(* Names, config file and pool.                                            *)

LEMMA Numbers ==
  /\ MaxIndex \in Nat /\ MaxRuns \in Nat /\ MaxAmount \in Nat /\ 1 \in 0..MaxAmount
  /\ Masters0 \in 1..MaxIndex /\ Nodes0 \in 0..MaxIndex
BY ScalingAssumption

\* A name among the names of a role is the last one.
LEMMA LastName ==
  ASSUME NEW r \in Role, Indices(r) # {}
  PROVE  Last(r) \in Indices(r) /\ \A j \in Indices(r) : NameOrder(j) <= NameOrder(Last(r))
<1> DEFINE Rank(j) == 1200 - NameOrder(j)
           T       == {Rank(j) : j \in Indices(r)}
<1>1. \A j \in 1..MaxIndex : NameOrder(j) \in Nat /\ NameOrder(j) < 1200
  BY ScalingAssumption DEF NameOrder
<1>2. T \subseteq Nat /\ T # {}
  <2>1. ASSUME NEW j \in Indices(r) PROVE Rank(j) \in Nat
    <3>1. j \in 1..MaxIndex
      BY DEF Indices
    <3> QED
      BY <1>1, <3>1
  <2> QED
    BY <2>1
<1>3. PICK x \in T : \A y \in T : ~ (<<y, x>> \in OpToRel(<, Nat))
  BY <1>2, NatLessThanWellFounded, WFMin
<1>4. \A y \in T : ~ (y < x)
  BY <1>2, <1>3 DEF OpToRel
<1>5. PICK i \in Indices(r) : x = Rank(i)
  BY <1>3
<1>6. \A j \in Indices(r) : NameOrder(j) <= NameOrder(i)
  <2> SUFFICES ASSUME NEW j \in Indices(r) PROVE NameOrder(j) <= NameOrder(i)
    OBVIOUS
  <2>1. ~ (Rank(j) < Rank(i))
    BY <1>4, <1>5
  <2> QED
    BY <1>1, <2>1 DEF Indices
<1> QED
  BY <1>6 DEF Last

\* The hosts an add creates exist in name; they are new while the servers there
\* are have numbers of one digit.
LEMMA NewHosts ==
  ASSUME TypeOK, CreateNewNodes
  PROVE  /\ todo' \subseteq {role} \X (1..MaxIndex) /\ todo' \subseteq Host
         /\ \E a \in Nat : todo' = {role} \X (a + 1..a + amount)
         /\ OneDigit => \A h \in todo' : ~Exists(h)
<1>1. role \in Role /\ Indices(role) # {} /\ amount \in Nat /\ MaxIndex \in Nat
  BY Numbers DEF CreateNewNodes, TypeOK
<1>2. Last(role) \in Indices(role) /\ \A j \in Indices(role) : NameOrder(j) <= NameOrder(Last(role))
  BY <1>1, LastName
<1>3. Last(role) \in 1..MaxIndex
  BY <1>2 DEF Indices
<1>4. todo' = {role} \X (Last(role) + 1..Last(role) + amount) /\ Last(role) + amount <= MaxIndex
  BY DEF CreateNewNodes, get_server_range
<1>5. todo' \subseteq {role} \X (1..MaxIndex)
  <2>1. Last(role) + 1..Last(role) + amount \subseteq 1..MaxIndex
    BY <1>1, <1>3, <1>4
  <2> QED
    BY <1>4, <2>1
<1>6. ASSUME OneDigit, NEW h \in todo', Exists(h) PROVE FALSE
  <2>1. PICK k \in Last(role) + 1..Last(role) + amount : h = <<role, k>>
    BY <1>4
  <2>2. k \in 1..MaxIndex
    BY <1>5, <2>1
  <2>3. k \in Indices(role)
    BY <1>6, <2>1, <2>2 DEF Indices
  <2>4. NameOrder(k) <= NameOrder(Last(role))
    BY <1>2, <2>3
  <2>5. NameOrder(k) = 11 * k /\ NameOrder(Last(role)) = 11 * Last(role)
    <3>1. \A j \in Indices(role) : <<role, j>> \in Host /\ Exists(<<role, j>>)
      BY <1>1 DEF Indices
    <3>2. \A j \in Indices(role) : j < 10
      BY <1>6, <3>1 DEF OneDigit
    <3> QED
      BY <1>2, <2>3, <3>2 DEF NameOrder
  <2> QED
    BY <1>1, <1>3, <2>1, <2>2, <2>4, <2>5
<1>7. {role} \X (1..MaxIndex) \subseteq Host
  BY <1>1
<1> QED
  BY <1>1, <1>3, <1>4, <1>5, <1>6, <1>7

LEMMA TypeInit == Init => TypeOK /\ CallsInv
<1> SUFFICES ASSUME Init PROVE TypeOK /\ CallsInv
  OBVIOUS
<1>1. Built \subseteq Host
  BY Numbers DEF Built
<1>2. copies \in [Host -> Nat] /\ conf \in [Role -> Int]
  BY Numbers DEF Init
<1>3. run \in 0..MaxRuns /\ amount \in 0..MaxAmount
  BY Numbers DEF Init
<1>4. node \in SUBSET Host /\ etcd \in SUBSET Master /\ pool \in SUBSET Master /\ todo \in SUBSET Host
  BY <1>1 DEF Init
<1>5. role \in Role /\ target \in Host \cup {NoHost} /\ pc = "idle" /\ again \in [Role -> Nat]
  BY DEF Init
<1> QED
  BY <1>2, <1>3, <1>4, <1>5 DEF Init, TypeOK, CallsInv, PC

LEMMA TypeStep == TypeOK /\ CallsInv /\ [Next]_vars => TypeOK' /\ CallsInv'
<1> SUFFICES ASSUME TypeOK, CallsInv, [Next]_vars PROVE TypeOK' /\ CallsInv'
  OBVIOUS
<1> USE DEF TypeOK, CallsInv, PC, Exists, Alive
<1>s. ASSUME NEW c \in {"add", "delete", "destroy"}, NEW r \in Role, NEW h \in Host \cup {NoHost},
             NEW n \in 0..MaxAmount, Start(c, r, h, n),
             c = "add" => h = NoHost /\ (r = "master" => n = 1),
             c = "delete" => h \in Host /\ r = h[1]
      PROVE  TypeOK' /\ CallsInv'
  <2>1. run' \in 0..MaxRuns
    BY <1>s, Numbers DEF Start
  <2>2. pc' = FirstCall[c] /\ pc' \in {"create_new_nodes", "delete_node", "get_instances"}
        /\ (pc' = "create_new_nodes" => c = "add") /\ (pc' = "delete_node" => c = "delete")
    BY <1>s DEF Start, FirstCall
  <2> QED
    BY <1>s, <2>1, <2>2 DEF Start, cluster
<1>1. CASE StartAdd
  <2>1. CASE Start("add", "master", NoHost, 1)
    BY <1>s, <2>1, Numbers
  <2>2. ASSUME NEW n \in 1..MaxAmount, Start("add", "node", NoHost, n) PROVE TypeOK' /\ CallsInv'
    <3>1. n \in 0..MaxAmount /\ NoHost \in Host \cup {NoHost} /\ "node" \in Role
      BY Numbers
    <3> QED
      BY <1>s, <2>2, <3>1
  <2> QED
    BY <1>1, <2>1, <2>2 DEF StartAdd
<1>2. CASE StartDelete
  <2>1. PICK h \in Host : Start("delete", h[1], h, 0)
    BY <1>2 DEF StartDelete
  <2>2. h[1] \in Role /\ h \in Host \cup {NoHost} /\ 0 \in 0..MaxAmount
    BY Numbers
  <2> QED
    BY <1>s, <2>1, <2>2
<1>3. CASE StartDestroy
  <2>1. 0 \in 0..MaxAmount
    BY Numbers
  <2> QED
    BY <1>s, <1>3, <2>1 DEF StartDestroy
<1>4. CASE Die  BY <1>4 DEF Die, cluster
<1>5. CASE CreateNewNodes
  <2>1. todo' \subseteq {role} \X (1..MaxIndex) /\ todo' \subseteq Host
    BY <1>5, NewHosts
  <2>2. role = "master" => \E h \in Master : todo' = {h}
    <3> SUFFICES ASSUME role = "master" PROVE \E h \in Master : todo' = {h}
      OBVIOUS
    <3>1. PICK a \in Nat : todo' = {role} \X (a + 1..a + 1)
      BY <1>5, NewHosts DEF CreateNewNodes, Goto
    <3>2. a + 1..a + 1 = {a + 1}
      BY <3>1
    <3>3. todo' = {<<"master", a + 1>>}
      BY <3>1, <3>2
    <3> QED
      BY <2>1, <3>3
  <2> QED
    BY <1>5, <2>1, <2>2 DEF CreateNewNodes, Goto, cluster
<1>6. ASSUME NEW h \in Host, Create(h) PROVE TypeOK' /\ CallsInv'
  <2>1. copies' \in [Host -> Nat] /\ Alive(h)' /\ \A g \in deleting : Exists(g)'
    BY <1>6 DEF Create
  <2>2. h \in {role} \X (1..MaxIndex) /\ (role = "master" => h \in Master /\ todo' = {} /\ target' = h)
    BY <1>6 DEF Create
  <2> QED
    BY <1>6, <2>1, <2>2 DEF Create
<1>7. CASE AddUpdatesConfig
  <2>1. conf' \in [Role -> Int] /\ UNCHANGED cluster /\ pc' \in {"get_lb", "idle"}
        /\ (pc' = "get_lb" => role = "master") /\ todo = {} /\ pc = "create"
    BY <1>7 DEF AddUpdatesConfig, Goto, End
  <2> QED
    BY <1>7, <2>1 DEF AddUpdatesConfig, Goto, End, cluster
<1>8. CASE GetLB \/ NoLB  BY <1>8 DEF GetLB, NoLB, Goto, End, cluster
<1>9. CASE AddMember  BY <1>9 DEF AddMember, End
<1>10. CASE DrainNode  BY <1>10 DEF DrainNode, Goto, cluster
<1>11. CASE RemoveFromEtcd \/ DelMember \/ K8SDeleteNode
  BY <1>11 DEF RemoveFromEtcd, DelMember, K8SDeleteNode, Goto
<1>11a. CASE RemovalRefused
  BY <1>11a DEF RemovalRefused, cluster
<1>12. CASE InstanceMissing \/ InstanceNotFound \/ DeleteRest
  BY <1>12 DEF InstanceMissing, InstanceNotFound, DeleteRest, End, cluster
<1>13. CASE DeleteInstance
  <2>1. again' \in [Role -> Nat]
    BY <1>13 DEF DeleteInstance
  <2> QED
    BY <1>13, <2>1 DEF DeleteInstance, RemoveServer
<1>14. CASE DeleteUpdatesConfig  BY <1>14 DEF DeleteUpdatesConfig, End, cluster
<1>15. CASE GetInstances  BY <1>15 DEF GetInstances, Named, Goto, cluster
<1>16. CASE DeleteLB  BY <1>16 DEF DeleteLB, Goto
<1>17. ASSUME NEW h \in Host, Delete(h) PROVE TypeOK' /\ CallsInv'
  BY <1>17 DEF Delete, RemoveServer
<1>17a. ASSUME NEW h \in Host, DeleteFails(h) PROVE TypeOK' /\ CallsInv'
  BY <1>17a DEF DeleteFails, cluster
<1>18. ASSUME NEW h \in Host, Join(h) PROVE TypeOK' /\ CallsInv'
  BY <1>18 DEF Join, process
<1>18a. ASSUME NEW h \in Host, Gone(h) PROVE TypeOK' /\ CallsInv'
  <2>1. copies' \in [Host -> Nat] /\ \A g \in Host : Alive(g) => Alive(g)'
    BY <1>18a DEF Gone
  <2>2. \A g \in deleting' : Exists(g)'
    BY <1>18a DEF Gone
  <2> QED
    BY <1>18a, <2>1, <2>2 DEF Gone, process
<1>19. CASE UNCHANGED vars  BY <1>19 DEF vars, process, cluster
<1> QED
  BY <1>1, <1>2, <1>3, <1>4, <1>5, <1>6, <1>7, <1>8, <1>9, <1>10, <1>11, <1>11a, <1>12, <1>13, <1>14,
     <1>15, <1>16, <1>17, <1>17a, <1>18, <1>18a, <1>19 DEF Next

\* Whatever the size of the instance, the variables keep their types.
THEOREM TypeCorrect == Spec => []TypeOK
  BY TypeInit, TypeStep, PTL DEF Spec

-----------------------------------------------------------------------------
\* Among names of one digit the last is the greatest number: new names are new, and
\* only an add makes servers.
LEMMA NamesStep ==
  ASSUME OneDigit, TypeOK, CallsInv, NamesInv, [Next]_vars
  PROVE  NamesInv'
<1> USE DEF NamesInv, NamesUnique, Exists
<1>1. CASE UNCHANGED copies /\ pc' # "create"
  BY <1>1
<1>2. CASE CreateNewNodes
  <2>1. UNCHANGED copies
    BY <1>2 DEF CreateNewNodes, cluster
  <2>2. \A h \in todo' : ~Exists(h)
    BY <1>2, NewHosts
  <2> QED
    BY <2>1, <2>2
<1>3. ASSUME NEW g \in Host, Create(g) PROVE NamesInv'
  <2>1. copies[g] = 0
    BY <1>3 DEF Create, TypeOK
  <2>2. copies' = [copies EXCEPT ![g] = 1] /\ todo' = todo \ {g} /\ UNCHANGED pc /\ pc = "create"
    BY <1>3, <2>1 DEF Create
  <2> QED
    BY <2>2 DEF TypeOK
<1>4. CASE DeleteInstance \/ RemovalRefused
  BY <1>1, <1>4 DEF DeleteInstance, RemovalRefused, cluster
<1>5. ASSUME NEW g \in Host, Delete(g) \/ DeleteFails(g) PROVE NamesInv'
  BY <1>1, <1>5 DEF Delete, DeleteFails, cluster
<1>6. ASSUME NEW g \in Host, Join(g) PROVE NamesInv'
  BY <1>6 DEF Join, process
<1>6a. ASSUME NEW g \in Host, Gone(g) PROVE NamesInv'
  BY <1>6a DEF Gone, process, TypeOK
<1>7. CASE UNCHANGED vars
  BY <1>7 DEF vars, process, cluster
<1>8. CASE StartAdd \/ StartDelete \/ StartDestroy
  <2>1. pc' \in {"create_new_nodes", "delete_node", "get_instances"} /\ UNCHANGED copies
    BY <1>8 DEF StartAdd, StartDelete, StartDestroy, Start, FirstCall, cluster
  <2> QED
    BY <1>1, <2>1
<1>9. CASE Die \/ AddUpdatesConfig \/ GetLB \/ NoLB \/ AddMember \/ DrainNode \/ RemoveFromEtcd
  BY <1>1, <1>9 DEF Die, AddUpdatesConfig, GetLB, NoLB, AddMember, DrainNode, RemoveFromEtcd,
     Goto, End, cluster
<1>10. CASE DelMember \/ InstanceMissing \/ K8SDeleteNode \/ InstanceNotFound
            \/ DeleteUpdatesConfig \/ GetInstances \/ DeleteLB \/ DeleteRest
  BY <1>1, <1>10 DEF DelMember, InstanceMissing, K8SDeleteNode, InstanceNotFound,
     DeleteUpdatesConfig, GetInstances, DeleteLB, DeleteRest, Goto, End, cluster
<1> QED
  BY <1>2, <1>3, <1>4, <1>5, <1>6, <1>6a, <1>7, <1>8, <1>9, <1>10 DEF Next

\* What is cut short stays cut short, and a destroy gives up the load balancer.
LEMMA WholeStep ==
  ASSUME [Next]_vars, Whole', lb \in BOOLEAN, died \in BOOLEAN
  PROVE  Whole
<1> USE DEF Whole
<1>1. ASSUME NEW g \in Host, Create(g) PROVE Whole
  BY <1>1 DEF Create
<1>2. ASSUME NEW g \in Host, Delete(g) \/ DeleteFails(g) PROVE Whole
  BY <1>2 DEF Delete, DeleteFails, cluster
<1>3. ASSUME NEW g \in Host, Join(g) \/ Gone(g) PROVE Whole
  BY <1>3 DEF Join, Gone, process
<1>4. CASE StartAdd \/ StartDelete \/ StartDestroy
  BY <1>4 DEF StartAdd, StartDelete, StartDestroy, Start, cluster
<1>5. CASE UNCHANGED vars
  BY <1>5 DEF vars, process, cluster
<1>6. CASE Die \/ DeleteLB
  BY <1>6 DEF Die, DeleteLB
<1>7. CASE CreateNewNodes \/ GetLB \/ GetInstances
  BY <1>7 DEF CreateNewNodes, GetLB, GetInstances, Goto, cluster
<1>8. CASE AddUpdatesConfig \/ DeleteUpdatesConfig
  BY <1>8 DEF AddUpdatesConfig, DeleteUpdatesConfig, Goto, End, cluster
<1>9. CASE NoLB \/ AddMember \/ InstanceMissing \/ InstanceNotFound \/ DeleteRest
  BY <1>9 DEF NoLB, AddMember, InstanceMissing, InstanceNotFound, DeleteRest, End, cluster
<1>10. CASE \/ DrainNode \/ RemoveFromEtcd \/ RemovalRefused \/ DelMember \/ K8SDeleteNode
            \/ DeleteInstance
  BY <1>10 DEF DrainNode, RemoveFromEtcd, RemovalRefused, DelMember, K8SDeleteNode,
     DeleteInstance, Goto, cluster
<1> QED
  BY <1>1, <1>2, <1>3, <1>4, <1>5, <1>6, <1>7, <1>8, <1>9, <1>10 DEF Next

\* The pool follows the servers, one step behind a new master and one step ahead of
\* one that goes.
LEMMA PoolStep ==
  ASSUME TypeOK, CallsInv, NamesInv, PoolInv, [Next]_vars
  PROVE  PoolInv'
<1> SUFFICES ASSUME Whole'
             PROVE  pool' = Live' \ (IF pc' \in {"create", "get_lb", "add_member",
                                 "k8s_delete_node", "delete_instance"} THEN {target'} ELSE {})
  BY DEF PoolInv
<1>w. Whole
  BY WholeStep DEF TypeOK
<1>p. pool = Live \ (IF pc \in {"create", "get_lb", "add_member", "k8s_delete_node",
                                "delete_instance"} THEN {target} ELSE {})
  BY <1>w DEF PoolInv
<1>n. NoHost \notin Master
  BY DEF NoHost
<1>l. UNCHANGED <<copies, deleting>> => UNCHANGED Live
  BY DEF Live, Alive
<1> USE DEF CallsInv
<1>1. CASE StartAdd \/ StartDelete \/ StartDestroy
  <2>1. pc = "idle" /\ pc' \in {"create_new_nodes", "delete_node", "get_instances"}
        /\ UNCHANGED <<copies, deleting, pool>>
    BY <1>1 DEF StartAdd, StartDelete, StartDestroy, Start, FirstCall, cluster
  <2> QED
    BY <1>p, <1>l, <2>1
<1>2. CASE CreateNewNodes
  <2>1. pc = "create_new_nodes" /\ pc' = "create" /\ target' = NoHost /\ UNCHANGED <<copies, deleting, pool>>
    BY <1>2 DEF CreateNewNodes, Goto, cluster
  <2> QED
    BY <1>p, <1>l, <1>n, <2>1 DEF Live
<1>3. ASSUME NEW g \in Host, Create(g) PROVE pool' = Live' \ {target'} /\ pc' = "create"
  <2>1. ~Exists(g) /\ pc = "create" /\ pc' = "create" /\ UNCHANGED <<pool, deleting>>
        /\ g \in todo /\ copies' = [copies EXCEPT ![g] = @ + 1] /\ copies \in [Host -> Nat]
        /\ role \in Role /\ g \notin deleting
    BY <1>3 DEF Create, NamesInv, TypeOK
  <2>2. target = NoHost /\ pool = Live
    <3>1. target = NoHost
      BY <2>1
    <3> QED
      BY <1>p, <1>n, <2>1, <3>1 DEF Live
  <2>3. Live' = Live \cup ({g} \cap Master) /\ g \notin Live
    BY <2>1 DEF Live, Alive, Exists
  <2>4. CASE role = "master"
    BY <1>3, <2>1, <2>2, <2>3, <2>4 DEF Create
  <2>5. CASE role = "node"
    <3>1. g \notin Master /\ target' = NoHost
      BY <1>3, <2>1, <2>2, <2>5 DEF Create
    <3>2. Live' = Live /\ NoHost \notin Live
      BY <1>n, <2>3, <3>1 DEF Live
    <3> QED
      BY <2>1, <2>2, <3>1, <3>2
  <2> QED
    BY <2>1, <2>4, <2>5
<1>4. CASE AddUpdatesConfig
  <2>1. pc = "create" /\ UNCHANGED <<copies, deleting, pool, target>>
    BY <1>4 DEF AddUpdatesConfig, Goto, End, cluster
  <2>2. CASE role = "master"
    BY <1>4, <1>p, <1>l, <2>1, <2>2 DEF AddUpdatesConfig, Goto
  <2>3. CASE role = "node"
    BY <1>4, <1>p, <1>l, <1>n, <2>1, <2>3 DEF AddUpdatesConfig, End, Live
  <2> QED
    BY <2>2, <2>3 DEF TypeOK
<1>5. CASE GetLB
  BY <1>5, <1>p, <1>l DEF GetLB, Goto, cluster
<1>6. CASE Die \/ NoLB \/ GetInstances \/ DeleteLB
  BY <1>6, <1>w DEF Die, NoLB, GetInstances, DeleteLB, Goto, Whole
<1>7. CASE AddMember
  BY <1>7, <1>p, <1>l DEF AddMember, End, Live
<1>8. CASE DrainNode
  <2>1. pc = "delete_node" /\ target \in Host /\ role = target[1]
        /\ UNCHANGED <<copies, deleting, pool, target>>
    BY <1>8 DEF DrainNode, Goto, cluster
  <2>2. CASE role = "master"
    BY <1>8, <1>p, <1>l, <2>1, <2>2 DEF DrainNode, Goto
  <2>3. CASE role # "master"
    <3>1. target \notin Master
      BY <2>1, <2>3
    <3> QED
      BY <1>8, <1>p, <1>l, <2>1, <2>3, <3>1 DEF DrainNode, Goto, Live
  <2> QED
    BY <2>2, <2>3
<1>9. CASE RemoveFromEtcd \/ RemovalRefused
  BY <1>9, <1>p, <1>l DEF RemoveFromEtcd, RemovalRefused, Goto, cluster
<1>10. CASE DelMember
  BY <1>10, <1>p, <1>l DEF DelMember, Goto
<1>11. CASE InstanceMissing
  BY <1>11, <1>p, <1>l DEF InstanceMissing, End, cluster
<1>12. CASE K8SDeleteNode
  BY <1>12, <1>p, <1>l DEF K8SDeleteNode, Goto
<1>13. CASE DeleteInstance
  <2>1. deleting' = deleting \cup {target} /\ target \in Host /\ UNCHANGED <<pool, copies, target>>
        /\ copies[target] = 1 /\ pc = "delete_instance" /\ pc' = "delete_config"
    BY <1>13 DEF DeleteInstance, RemoveServer
  <2>2. Live' = Live \ {target}
    BY <2>1 DEF Live, Alive
  <2> QED
    BY <1>p, <2>1, <2>2
<1>14. CASE InstanceNotFound
  <2>1. target \notin Live
    BY <1>14 DEF InstanceNotFound, Live, Alive, Exists, TypeOK
  <2> QED
    BY <1>14, <1>p, <1>l, <2>1 DEF InstanceNotFound, End, cluster
<1>15. CASE DeleteUpdatesConfig \/ DeleteRest
  BY <1>15, <1>p, <1>l DEF DeleteUpdatesConfig, DeleteRest, End, cluster
<1>16. ASSUME NEW g \in Host, Delete(g) \/ DeleteFails(g) PROVE FALSE
  BY <1>16, <1>w DEF Delete, DeleteFails, Whole
<1>17. ASSUME NEW g \in Host, Join(g) PROVE UNCHANGED <<copies, deleting, pool, pc, target>>
  BY <1>17 DEF Join, process
<1>18. CASE UNCHANGED <<copies, deleting, pool, pc, target>>
  BY <1>18, <1>p, <1>l
<1>17a. ASSUME NEW g \in Host, Gone(g) PROVE UNCHANGED <<Live, pool, pc, target>>
  BY <1>17a DEF Gone, process, Live, Alive, TypeOK
<1>18a. CASE UNCHANGED <<Live, pool, pc, target>>
  BY <1>18a, <1>p
<1>19. CASE UNCHANGED vars
  BY <1>18, <1>19 DEF vars, process, cluster
<1> QED
  BY <1>1, <1>2, <1>3, <1>4, <1>5, <1>6, <1>7, <1>8, <1>9, <1>10, <1>11, <1>12, <1>13, <1>14,
     <1>15, <1>16, <1>17, <1>17a, <1>18, <1>18a, <1>19 DEF Next

\* The names of a role are finitely many, and so are the servers still to be made.
LEMMA Finite ==
  ASSUME TypeOK, NEW r \in Role
  PROVE  /\ IsFiniteSet(Kept(r)) /\ Cardinality(Kept(r)) \in Nat
         /\ \A S \in SUBSET ({r} \X (1..MaxIndex)) : IsFiniteSet(S) /\ Cardinality(S) \in Nat
<1>1. IsFiniteSet(1..MaxIndex)
  BY Numbers, FS_Interval
<1>2. IsFiniteSet(Kept(r))
  <2>1. Kept(r) \in SUBSET (1..MaxIndex)
    BY DEF Kept
  <2> QED
    BY <1>1, <2>1, FS_Subset
<1>3. IsFiniteSet({r} \X (1..MaxIndex))
  <2>1. IsFiniteSet({r})
    BY FS_Singleton
  <2> QED
    BY <1>1, <2>1, FS_Product
<1>4. ASSUME NEW S \in SUBSET ({r} \X (1..MaxIndex)) PROVE IsFiniteSet(S) /\ Cardinality(S) \in Nat
  BY <1>3, FS_Subset, FS_CardinalityType
<1> QED
  BY <1>2, <1>4, FS_CardinalityType

\* An add has as many servers to make as it was asked for.
LEMMA Asked ==
  ASSUME TypeOK, CreateNewNodes
  PROVE  Cardinality(todo') = amount
<1>1. PICK a \in Nat : todo' = {role} \X (a + 1..a + amount)
  BY NewHosts
<1>2. amount \in Nat
  BY Numbers DEF TypeOK
<1>3. IsFiniteSet(a + 1..a + amount) /\ Cardinality(a + 1..a + amount) = amount
  <2>1. a + 1 \in Int /\ a + amount \in Int /\ (a + 1 > a + amount <=> amount = 0)
    BY <1>2
  <2>2. Cardinality(a + 1..a + amount) = IF a + 1 > a + amount THEN 0 ELSE (a + amount) - (a + 1) + 1
    BY <2>1, FS_Interval
  <2>3. IsFiniteSet(a + 1..a + amount)
    BY <2>1, FS_Interval
  <2> QED
    BY <1>2, <2>2, <2>3
<1>4. IsFiniteSet({role}) /\ Cardinality({role}) = 1
  BY FS_Singleton
<1>5. Cardinality(todo') = 1 * amount
  BY <1>1, <1>3, <1>4, FS_Product
<1> QED
  BY <1>2, <1>5

\* The config file follows the servers: one count per command that ended well.
LEMMA CountsStep ==
  ASSUME TypeOK, CallsInv, NamesInv, CountsInv, [Next]_vars
  PROVE  CountsInv'
<1> DEFINE Ahead(r) == IF r = role /\ pc = "create" THEN amount - Cardinality(todo)
                       ELSE IF r = role /\ pc = "delete_config" THEN -1 ELSE 0
<1> SUFFICES ASSUME Whole', NEW r \in Role
             PROVE  Cardinality(Kept(r))' = conf'[r] + again'[r] + Ahead(r)'
  BY DEF CountsInv
<1>w. Whole
  BY WholeStep DEF TypeOK
<1>c. Cardinality(Kept(r)) = conf[r] + again[r] + Ahead(r)
  BY <1>w DEF CountsInv
<1>t. Cardinality(Kept(r)) \in Nat /\ conf[r] \in Int /\ again[r] \in Nat /\ amount \in Nat /\ role \in Role
  BY Finite, Numbers DEF TypeOK
<1>i. UNCHANGED <<copies, deleting>> => UNCHANGED Kept(r)
  BY DEF Kept, Alive
<1>e. Cardinality({}) = 0
  BY FS_EmptySet
\* Steps that neither make nor count a server.
<1>q. ASSUME pc \notin {"create", "delete_config"}, pc' \notin {"create", "delete_config"},
             UNCHANGED <<copies, deleting, conf, again>>
      PROVE  Cardinality(Kept(r))' = conf'[r] + again'[r] + Ahead(r)'
  BY <1>c, <1>i, <1>q
<1>1. CASE StartAdd \/ StartDelete \/ StartDestroy
  <2>1. pc = "idle" /\ pc' \in {"create_new_nodes", "delete_node", "get_instances"}
        /\ UNCHANGED <<copies, deleting, conf, again>>
    BY <1>1 DEF StartAdd, StartDelete, StartDestroy, Start, FirstCall, cluster
  <2> QED
    BY <1>q, <2>1
<1>2. CASE CreateNewNodes
  <2>1. pc = "create_new_nodes" /\ pc' = "create" 
        /\ UNCHANGED <<copies, deleting, conf, again, amount, role>>
    BY <1>2 DEF CreateNewNodes, Goto, cluster
  <2>2. Cardinality(todo') = amount
    BY <1>2, Asked
  <2>3. Ahead(r)' = 0 /\ Ahead(r) = 0
    BY <1>t, <2>1, <2>2
  <2> QED
    BY <1>c, <1>i, <2>1, <2>3
<1>3. ASSUME NEW g \in Host, Create(g)
      PROVE  Cardinality(Kept(r))' = conf'[r] + again'[r] + Ahead(r)'
  <2>1. /\ pc = "create" /\ pc' = "create" /\ g \in todo /\ ~Exists(g) /\ g[1] = role
        /\ g = <<g[1], g[2]>> /\ g[2] \in 1..MaxIndex
        /\ todo' = todo \ {g} /\ copies' = [copies EXCEPT ![g] = @ + 1]
        /\ UNCHANGED <<role, amount, conf, deleting, again>> /\ g \notin deleting
    BY <1>3 DEF Create, CallsInv, NamesInv
  <2>2. CASE r # role
    <3>1. Kept(r)' = Kept(r)
      BY <2>1, <2>2 DEF Kept, Alive, TypeOK
    <3> QED
      BY <1>c, <2>1, <2>2, <3>1
  <2>3. CASE r = role
    <3>1. Kept(r)' = Kept(r) \cup {g[2]} /\ g[2] \notin Kept(r)
      BY <2>1, <2>3 DEF Kept, Alive, Exists, TypeOK
    <3>2. Cardinality(Kept(r))' = Cardinality(Kept(r)) + 1
      BY <3>1, Finite, FS_AddElement
    <3>3. IsFiniteSet(todo) /\ Cardinality(todo) \in Nat
      BY <2>1, <1>t, Finite DEF CallsInv
    <3>4. Cardinality(todo') = Cardinality(todo) - 1
      BY <2>1, <3>3, FS_RemoveElement
    <3>5. Ahead(r) = amount - Cardinality(todo) /\ Ahead(r)' = amount - Cardinality(todo')
      BY <2>1, <2>3
    <3>6. Cardinality(Kept(r)) = conf[r] + again[r] + (amount - Cardinality(todo))
      BY <1>c, <3>5
    <3> HIDE DEF Ahead
    <3> QED
      BY <1>t, <2>1, <3>2, <3>3, <3>4, <3>5, <3>6
  <2> QED
    BY <2>2, <2>3
<1>4. CASE AddUpdatesConfig
  <2>1. /\ pc = "create" /\ pc' \notin {"create", "delete_config"} /\ todo = {}
        /\ conf' = [conf EXCEPT ![role] = @ + amount]
        /\ UNCHANGED <<copies, deleting, again, role>>
    BY <1>4 DEF AddUpdatesConfig, Goto, End, cluster
  <2>2. Ahead(r)' = 0 /\ Ahead(r) = IF r = role THEN amount ELSE 0
    BY <1>e, <1>t, <2>1
  <2>3. conf'[r] = IF r = role THEN conf[r] + amount ELSE conf[r]
    BY <2>1 DEF TypeOK
  <2> HIDE DEF Ahead
  <2> QED
    BY <1>c, <1>i, <1>t, <2>1, <2>2, <2>3
<1>5. CASE GetLB \/ DrainNode \/ GetInstances
  BY <1>5, <1>q DEF GetLB, DrainNode, GetInstances, Goto, cluster
<1>6. CASE Die \/ NoLB \/ DeleteLB
  BY <1>6, <1>w DEF Die, NoLB, DeleteLB, Whole
<1>7. CASE AddMember
  BY <1>7, <1>q DEF AddMember, End
<1>8. CASE RemoveFromEtcd \/ RemovalRefused \/ DelMember \/ K8SDeleteNode
  BY <1>8, <1>q DEF RemoveFromEtcd, RemovalRefused, DelMember, K8SDeleteNode, Goto, cluster
<1>9. CASE InstanceMissing \/ InstanceNotFound \/ DeleteRest
  BY <1>9, <1>q DEF InstanceMissing, InstanceNotFound, DeleteRest, End, cluster
<1>10. CASE DeleteInstance
  <2>1. /\ copies[target] = 1 /\ deleting' = deleting \cup {target} /\ target \in Host
        /\ role = target[1] /\ target = <<target[1], target[2]>> /\ target[2] \in 1..MaxIndex
        /\ pc = "delete_instance" /\ pc' = "delete_config" /\ UNCHANGED <<copies, conf, role>>
        /\ again' = [again EXCEPT ![role] = IF target \in deleting THEN @ + 1 ELSE @]
    BY <1>10 DEF DeleteInstance, RemoveServer, CallsInv
  <2>2. CASE r # role
    <3>1. Kept(r)' = Kept(r) /\ again'[r] = again[r]
      BY <2>1, <2>2 DEF Kept, Alive, TypeOK
    <3> QED
      BY <1>c, <2>1, <2>2, <3>1
  <2>3. Ahead(r) = 0
    BY <2>1
  <2>4. r = role => Ahead(r)' = -1
    BY <2>1
  <2>5. CASE r = role /\ target \in deleting
    <3>1. deleting' = deleting
      BY <2>1, <2>5
    <3>2. Kept(r)' = Kept(r)
      BY <1>i, <2>1, <3>1
    <3>3. again'[r] = again[r] + 1
      BY <2>1, <2>5 DEF TypeOK
    <3> HIDE DEF Ahead
    <3> QED
      BY <1>c, <1>t, <2>1, <2>3, <2>4, <2>5, <3>2, <3>3
  <2>6. CASE r = role /\ target \notin deleting
    <3>1. Kept(r)' = Kept(r) \ {target[2]} /\ target[2] \in Kept(r)
      BY <2>1, <2>6 DEF Kept, Alive, TypeOK
    <3>2. Cardinality(Kept(r))' = Cardinality(Kept(r)) - 1
      <4>1. IsFiniteSet(Kept(r))
        BY Finite
      <4>2. Cardinality(Kept(r) \ {target[2]}) = Cardinality(Kept(r)) - 1
        BY <3>1, <4>1, FS_RemoveElement
      <4> QED
        BY <3>1, <4>2
    <3>3. again'[r] = again[r]
      BY <2>1, <2>6 DEF TypeOK
    <3> HIDE DEF Ahead
    <3> QED
      BY <1>c, <1>t, <2>1, <2>3, <2>4, <2>6, <3>2, <3>3
  <2> QED
    BY <2>2, <2>5, <2>6
<1>11. CASE DeleteUpdatesConfig
  <2>1. /\ pc = "delete_config" /\ pc' = "idle" /\ conf' = [conf EXCEPT ![role] = @ - 1]
        /\ UNCHANGED <<copies, deleting, again, role>>
    BY <1>11 DEF DeleteUpdatesConfig, End, cluster
  <2>2. Ahead(r)' = 0 /\ Ahead(r) = IF r = role THEN -1 ELSE 0
    BY <2>1
  <2>3. conf'[r] = IF r = role THEN conf[r] - 1 ELSE conf[r]
    BY <2>1 DEF TypeOK
  <2> HIDE DEF Ahead
  <2> QED
    BY <1>c, <1>i, <1>t, <2>1, <2>2, <2>3
<1>12. ASSUME NEW g \in Host, Delete(g) \/ DeleteFails(g) PROVE FALSE
  BY <1>12, <1>w DEF Delete, DeleteFails, Whole
<1>13. CASE UNCHANGED <<Kept(r), conf, again, pc, role, amount, todo>>
  BY <1>13, <1>c
<1>14. ASSUME NEW g \in Host, Join(g) PROVE UNCHANGED <<Kept(r), conf, again, pc, role, amount, todo>>
  BY <1>14, <1>i DEF Join, process
<1>14a. ASSUME NEW g \in Host, Gone(g) PROVE UNCHANGED <<Kept(r), conf, again, pc, role, amount, todo>>
  <2>1. UNCHANGED Kept(r)
    BY <1>14a DEF Gone, Kept, Alive, TypeOK
  <2> QED
    BY <1>14a, <2>1 DEF Gone, process
<1>15. CASE UNCHANGED vars
  BY <1>13, <1>15, <1>i DEF vars, process, cluster
<1> QED
  BY <1>1, <1>2, <1>3, <1>4, <1>5, <1>6, <1>7, <1>8, <1>9, <1>10, <1>11, <1>12, <1>13, <1>14,
     <1>14a, <1>15 DEF Next

\* What `koris apply` built has names 1..n-masters and 1..n-nodes, all masters pooled.
LEMMA InvInit == Init => IInv
<1> SUFFICES ASSUME Init PROVE IInv
  OBVIOUS
<1>1. TypeOK /\ CallsInv
  BY TypeInit
<1>2. \A h \in Host : copies[h] = IF h \in Built THEN 1 ELSE 0
  BY DEF Init
<1>3. NamesInv
  BY <1>2 DEF NamesInv, NamesUnique, Init
<1>4. PoolInv
  <2>1. Live = Built \cap Master
    BY <1>2 DEF Live, Alive, Init
  <2> QED
    BY <2>1 DEF PoolInv, Init
<1>5. CountsInv
  <2> SUFFICES ASSUME NEW r \in Role
               PROVE  Cardinality(Kept(r)) = conf[r] /\ conf[r] \in Nat
    <3>1. pc = "idle" /\ \A r \in Role : again[r] = 0
      BY DEF Init
    <3> QED
      BY <3>1 DEF CountsInv
  <2>1. Kept(r) = 1..conf[r] /\ conf[r] \in Nat
    BY <1>2, Numbers DEF Kept, Alive, Built, Init
  <2>2. Cardinality(1..conf[r]) = IF 1 > conf[r] THEN 0 ELSE conf[r] - 1 + 1
    BY <2>1, FS_Interval
  <2> QED
    BY <2>1, <2>2
<1> QED
  BY <1>1, <1>3, <1>4, <1>5 DEF IInv

\* A step from servers with numbers of one digit keeps names, config file and pool in
\* step with the servers, the hosts it makes may have two digits themselves.
LEMMA InvStep == OneDigit /\ IInv /\ [Next]_vars => IInv'
  BY TypeStep, NamesStep, CountsStep, PoolStep DEF IInv

\* While there is no server with a number past nine, every step of every command keeps
\* names, config file and pool in step with the servers.
THEOREM Invariant == Spec /\ []OneDigit => []IInv
  BY InvInit, InvStep, PTL DEF Spec

\* While there is no server with a number past nine, no two servers share a name.
THEOREM UniqueNames == Spec /\ []OneDigit => []NamesUnique
<1>1. IInv => NamesUnique
  BY DEF IInv, NamesInv
<1> QED
  BY <1>1, Invariant, PTL

\* While there is no server with a number past nine, the config file counts the servers
\* that stay after every command, less one for each delete that met a dying server, until
\* a command is cut short.
THEOREM ConfigIsTrue == Spec /\ []OneDigit => []ConfigCounts
<1>1. IInv => ConfigCounts
  <2> SUFFICES ASSUME IInv, Idle, lb, NEW r \in Role
               PROVE  conf[r] + again[r] = Cardinality(Kept(r))
    BY DEF ConfigCounts
  <2>1. /\ Cardinality(Kept(r)) = conf[r] + again[r] + 0
        /\ conf[r] \in Int /\ again[r] \in Nat
    BY DEF IInv, CountsInv, Whole, Idle, TypeOK
  <2> QED
    BY <2>1
<1> QED
  BY <1>1, Invariant, PTL

\* While there is no server with a number past nine, the load balancer sends requests to
\* the masters that have a server to stay and to no other host, after every command until one is cut short.
THEOREM PoolIsLive == Spec /\ []OneDigit => []PoolLive
<1>1. IInv => PoolLive
  BY DEF IInv, PoolInv, Whole, Live, PoolLive, Idle
<1> QED
  BY <1>1, Invariant, PTL

\* Where no host can get a number past nine, as in the run, nothing has to be supposed
\* of the behaviour.
THEOREM InvariantOfSmallClusters == ASSUME MaxIndex < 10 PROVE Spec => []IInv
<1>1. OneDigit
  BY Numbers DEF OneDigit
<1> QED
  BY <1>1, Invariant, PTL

-----------------------------------------------------------------------------
(* A destroy, where the numbers have no gaps.                              *)

\* The first new number is the one after the last, whatever the order of the names.
LEMMA NextNumber ==
  ASSUME TypeOK, OneDigit, NEW r \in Role, NEW n \in Nat, Indices(r) = 1..n, Indices(r) # {}
  PROVE  Last(r) = n
<1>1. Last(r) \in 1..n /\ n \in Indices(r) /\ n \in 1..MaxIndex
  BY LastName DEF Indices
<1>2. NameOrder(n) <= NameOrder(Last(r))
  BY <1>1, LastName
<1>3. \A j \in Indices(r) : j < 10
  <2>1. \A j \in Indices(r) : <<r, j>> \in Host /\ Exists(<<r, j>>)
    BY DEF Indices
  <2> QED
    BY <2>1 DEF OneDigit
<1>4. NameOrder(n) = 11 * n /\ NameOrder(Last(r)) = 11 * Last(r)
  BY <1>1, <1>3 DEF NameOrder
<1> QED
  BY <1>1, <1>2, <1>4

LEMMA NoGapsInit == Init => NoGaps
<1> SUFFICES ASSUME Init, NEW r \in Role PROVE NumbersRun(r, conf[r])
  BY DEF Init, NoGaps
<1> QED
  BY Numbers DEF Init, NumbersRun, Kept, Alive, Built

\* An add continues the numbers, and a delete of the last host gives back the last.
LEMMA NoGapsStep ==
  ASSUME OneDigit, NovaIsDone, IInv, NoGaps, [Next]_vars,
         pc = "idle" /\ pc' = "delete_node" => target'[2] >= conf[target'[1]]
  PROVE  NoGaps'
<1> SUFFICES ASSUME ~died' PROVE NoGaps'
  BY DEF NoGaps
<1> USE DEF NoGaps
<1>t. TypeOK /\ CallsInv /\ NamesInv
  BY DEF IInv
<1>n. copies \in [Host -> Nat] /\ \A h \in Host : copies[h] <= 1 /\ (h \in deleting => copies[h] = 1)
  BY <1>t DEF TypeOK, CallsInv, NamesInv, NamesUnique, Exists
<1>i. UNCHANGED <<copies, deleting>> => \A r \in Role : UNCHANGED Kept(r)
  BY DEF Kept, Alive
<1>e. UNCHANGED <<copies, deleting, undeleted>> => \A h \in Host : UNCHANGED Stays(h)
  BY DEF Stays, Exists
\* Who stays has a name, and who has a name stays, while nova deletes nothing.
<1>a. ASSUME NEW h \in Host, Exists(h), h \notin deleting PROVE h[2] \in Kept(h[1])
  <2>1. h[1] \in Role /\ h[2] \in 1..MaxIndex /\ h = <<h[1], h[2]>>
    OBVIOUS
  <2> QED
    BY <1>a, <2>1 DEF Kept, Alive, Exists
<1>k. ASSUME deleting = {}, NEW r \in Role PROVE Kept(r) = Indices(r)
  BY <1>k DEF Kept, Indices, Alive, Exists
\* Between two calls that make, count or destroy no server.
<1>q. ASSUME ~died, UNCHANGED <<copies, deleting, conf>>, outcome # "destroyed", outcome' # "destroyed",
             pc \notin {"create", "delete_config", "delete_all", "delete_rest"},
             pc' \notin {"create", "delete_config", "delete_all", "delete_rest"},
             pc' \in Deleting \cup {"delete_node"} => target'[2] >= conf[target'[1]]
      PROVE  NoGaps'
  <2>1. \A r \in Role : NumbersRun(r, conf[r])
    BY <1>q
  <2>2. \A r \in Role : NumbersRun(r, conf[r])'
    BY <1>i, <1>q, <2>1 DEF NumbersRun
  <2> QED
    BY <1>q, <2>2 DEF NumbersRun
<1>1. CASE StartAdd \/ StartDelete \/ StartDestroy
  <2>1. /\ pc = "idle" /\ pc' \in {"create_new_nodes", "delete_node", "get_instances"}
        /\ UNCHANGED <<copies, deleting, conf, died>> /\ outcome # "destroyed" /\ outcome' = "none"
    BY <1>1 DEF StartAdd, StartDelete, StartDestroy, Start, FirstCall, cluster
  <2> QED
    BY <1>q, <2>1
<1>2. CASE CreateNewNodes
  <2>1. /\ pc = "create_new_nodes" /\ pc' = "create" /\ Indices(role) # {}
        /\ todo' = {role} \X (Last(role) + 1..Last(role) + amount)
        /\ UNCHANGED <<copies, deleting, conf, role, amount, died, outcome>> /\ deleting = {}
    BY <1>2 DEF NovaIsDone, CreateNewNodes, Goto, cluster, get_server_range
  <2>2. outcome # "destroyed" /\ \A r \in Role : conf[r] \in Nat /\ Kept(r) = 1..conf[r]
    BY <2>1 DEF NumbersRun
  <2>3. Last(role) = conf[role] /\ role \in Role /\ amount \in Nat
    <3>1. role \in Role /\ amount \in Nat
      BY <1>t, Numbers DEF TypeOK
    <3>2. Indices(role) = 1..conf[role] /\ conf[role] \in Nat
      BY <1>k, <2>1, <2>2, <3>1
    <3> QED
      BY <1>t, <2>1, <3>1, <3>2, NextNumber
  <2>4. ASSUME NEW r \in Role
        PROVE  LET n == conf[r] + (IF r = role THEN amount ELSE 0)
               IN  n \in Nat /\ Kept(r) \cup {h[2] : h \in {t \in todo' : t[1] = r}} = 1..n
    <3>1. CASE r = role
      <4>1. {h[2] : h \in {t \in todo' : t[1] = r}} = conf[r] + 1..conf[r] + amount
        <5> DEFINE New == {t \in todo' : t[1] = r}
        <5>1. New = {r} \X (conf[r] + 1..conf[r] + amount)
          BY <2>1, <2>3, <3>1
        <5>2. ASSUME NEW j \in conf[r] + 1..conf[r] + amount PROVE j \in {h[2] : h \in New}
          <6>1. <<r, j>> \in New /\ <<r, j>>[2] = j
            BY <5>1
          <6> QED
            BY <6>1
        <5> QED
          BY <5>1, <5>2
      <4>2. conf[r] \in Nat /\ Kept(r) = 1..conf[r]
        BY <2>2
      <4>3. (1..conf[r]) \cup (conf[r] + 1..conf[r] + amount) = 1..conf[r] + amount
            /\ conf[r] + amount \in Nat
        BY <2>3, <4>2
      <4> QED
        BY <3>1, <4>1, <4>2, <4>3
    <3>2. CASE r # role
      <4>1. {h[2] : h \in {t \in todo' : t[1] = r}} = {}
        BY <2>1, <3>2
      <4>2. conf[r] + (IF r = role THEN amount ELSE 0) = conf[r] /\ conf[r] \in Nat
        BY <2>2, <3>2
      <4>3. Kept(r) \cup {} = 1..conf[r]
        BY <2>2
      <4> QED
        BY <4>1, <4>2, <4>3
    <3> QED
      BY <3>1, <3>2
  <2> QED
    BY <1>i, <2>1, <2>2, <2>4
<1>3. ASSUME NEW g \in Host, Create(g) PROVE NoGaps'
  <2>1. /\ pc = "create" /\ pc' = "create" /\ g \in todo /\ g[1] = role /\ role \in Role
        /\ g = <<g[1], g[2]>> /\ g[2] \in 1..MaxIndex
        /\ todo' = todo \ {g} /\ copies' = [copies EXCEPT ![g] = @ + 1]
        /\ UNCHANGED <<role, amount, conf, died, outcome, deleting>>
        /\ copies[g] = 0 /\ g \notin deleting
    BY <1>3, <1>t, <1>n DEF Create, CallsInv, NamesInv, Exists, TypeOK
  <2>2. ASSUME NEW r \in Role
        PROVE  Kept(r)' \cup {h[2] : h \in {t \in todo' : t[1] = r}}
                 = Kept(r) \cup {h[2] : h \in {t \in todo : t[1] = r}}
    <3>1. CASE r # role
      <4>1. Kept(r)' = Kept(r)
        BY <1>n, <2>1, <3>1 DEF Kept, Alive
      <4>2. {t \in todo' : t[1] = r} = {t \in todo : t[1] = r}
        BY <2>1, <3>1
      <4> QED
        BY <4>1, <4>2
    <3>2. CASE r = role
      <4>1. Kept(r)' = Kept(r) \cup {g[2]}
        BY <1>n, <2>1, <3>2 DEF Kept, Alive
      <4>2. {t \in todo : t[1] = r} = {t \in todo' : t[1] = r} \cup {g}
        BY <2>1, <3>2
      <4> QED
        BY <4>1, <4>2
    <3> QED
      BY <3>1, <3>2
  <2> QED
    BY <2>1, <2>2
<1>4. CASE AddUpdatesConfig
  <2>1. /\ pc = "create" /\ pc' \in {"get_lb", "idle"} /\ todo = {}
        /\ conf' = [conf EXCEPT ![role] = @ + amount] /\ UNCHANGED <<copies, deleting, died>>
        /\ outcome' # "destroyed" /\ role \in Role
    BY <1>4, <1>t DEF AddUpdatesConfig, Goto, End, cluster, TypeOK
  <2>2. ASSUME NEW r \in Role PROVE NumbersRun(r, conf[r])'
    <3>1. conf'[r] = conf[r] + (IF r = role THEN amount ELSE 0)
      BY <1>t, <2>1 DEF TypeOK
    <3>2. {h[2] : h \in {t \in todo : t[1] = r}} = {}
      BY <2>1
    <3>3. conf'[r] \in Nat /\ Kept(r) = 1..conf'[r]
      BY <2>1, <3>1, <3>2
    <3> QED
      BY <1>i, <2>1, <3>3 DEF NumbersRun
  <2> QED
    BY <2>1, <2>2 DEF NumbersRun
<1>5. CASE GetLB \/ DrainNode \/ NoLB
  BY <1>5, <1>q, <1>t DEF GetLB, DrainNode, NoLB, Goto, End, cluster
<1>6. CASE RemoveFromEtcd \/ RemovalRefused \/ DelMember \/ K8SDeleteNode \/ AddMember
  BY <1>6, <1>q DEF RemoveFromEtcd, RemovalRefused, DelMember, K8SDeleteNode, AddMember, Goto,
     End, cluster
<1>7. CASE InstanceMissing \/ InstanceNotFound
  BY <1>7, <1>q DEF InstanceMissing, InstanceNotFound, End, cluster
<1>8. CASE DeleteInstance
  <2>1. /\ copies[target] = 1 /\ deleting = {} /\ deleting' = {target} /\ target \in Host
        /\ role = target[1] /\ target = <<target[1], target[2]>> /\ target[2] \in 1..MaxIndex
        /\ pc = "delete_instance" /\ pc' = "delete_config"
        /\ UNCHANGED <<copies, conf, role, died, outcome>>
    BY <1>8, <1>t DEF DeleteInstance, RemoveServer, CallsInv, NovaIsDone
  <2>2. /\ outcome # "destroyed" /\ target[2] >= conf[target[1]]
        /\ \A r \in Role : conf[r] \in Nat /\ Kept(r) = 1..conf[r]
    BY <2>1 DEF NumbersRun
  <2>3. target[2] \in Kept(role) /\ role \in Role
    BY <2>1, <1>a DEF Exists
  <2>4. target[2] = conf[role]
    BY <2>1, <2>2, <2>3
  <2>5. ASSUME NEW r \in Role
        PROVE  NumbersRun(r, IF r = role THEN conf[r] - 1 ELSE conf[r])'
    <3>1. CASE r = role
      <4>1. Kept(r)' = Kept(r) \ {target[2]}
        BY <1>n, <2>1, <3>1 DEF Kept, Alive
      <4> QED
        BY <2>1, <2>2, <2>4, <3>1, <4>1 DEF NumbersRun
    <3>2. CASE r # role
      <4>1. Kept(r)' = Kept(r)
        BY <1>n, <2>1, <3>2 DEF Kept, Alive
      <4> QED
        BY <2>1, <2>2, <3>2, <4>1 DEF NumbersRun
    <3> QED
      BY <3>1, <3>2
  <2> QED
    BY <2>1, <2>2, <2>5 DEF NumbersRun
<1>9. CASE DeleteUpdatesConfig
  <2>1. /\ pc = "delete_config" /\ pc' = "idle" /\ conf' = [conf EXCEPT ![role] = @ - 1]
        /\ outcome' = "deleted" /\ UNCHANGED <<copies, deleting, role, died>> /\ role \in Role
    BY <1>9, <1>t DEF DeleteUpdatesConfig, End, cluster, TypeOK
  <2>2. ASSUME NEW r \in Role PROVE NumbersRun(r, conf[r])'
    <3>1. conf'[r] = IF r = role THEN conf[r] - 1 ELSE conf[r]
      BY <1>t, <2>1 DEF TypeOK
    <3>2. conf'[r] \in Nat /\ Kept(r) = 1..conf'[r]
      BY <2>1, <3>1 DEF NumbersRun
    <3> QED
      BY <1>i, <2>1, <3>2 DEF NumbersRun
  <2> QED
    BY <2>1, <2>2 DEF NumbersRun
<1>10. CASE GetInstances
  <2>1. /\ pc = "get_instances" /\ pc' = "delete_all" /\ todo' = {h \in Named : Exists(h)}
        /\ UNCHANGED <<copies, deleting, undeleted, died, outcome>>
    BY <1>10 DEF GetInstances, Goto, cluster
  <2>2. outcome # "destroyed" /\ \A r \in Role : conf[r] \in Nat /\ Kept(r) = 1..conf[r]
    BY <2>1 DEF NumbersRun
  <2>3. ASSUME NEW h \in Host, Stays(h) PROVE h \in todo'
    <3>1. h[1] \in Role /\ h[2] \in 1..MaxIndex /\ Exists(h) /\ h \notin deleting
      BY <2>3 DEF Stays
    <3>2. h[2] \in Kept(h[1])
      BY <1>a, <3>1
    <3> QED
      BY <2>1, <2>2, <3>1, <3>2 DEF Named
  <2> QED
    BY <1>e, <2>1, <2>2, <2>3
<1>11. ASSUME NEW g \in Host, Delete(g) \/ DeleteFails(g) PROVE NoGaps'
  <2>1. /\ pc = "delete_all" /\ pc' = "delete_all" /\ g \in todo /\ todo' = todo \ {g}
        /\ UNCHANGED <<copies, died, outcome>>
    BY <1>11 DEF Delete, DeleteFails, cluster
  <2>2. \A h \in Host : Stays(h)' => Stays(h) /\ h # g
    BY <1>11 DEF Stays, Exists, Delete, DeleteFails, RemoveServer, cluster
  <2> QED
    BY <2>1, <2>2
<1>12. CASE DeleteLB
  <2>1. /\ pc = "delete_all" /\ pc' = "delete_rest" /\ todo = {}
        /\ UNCHANGED <<copies, deleting, undeleted, died, outcome>>
    BY <1>12 DEF DeleteLB, Goto
  <2> QED
    BY <1>e, <2>1
<1>13. CASE DeleteRest
  <2>1. /\ pc = "delete_rest" /\ pc' = "idle" /\ outcome' = "destroyed"
        /\ UNCHANGED <<copies, deleting, undeleted, died>>
    BY <1>13 DEF DeleteRest, End, cluster
  <2> QED
    BY <1>e, <2>1
<1>14. CASE Die
  BY <1>14 DEF Die
<1>15. ASSUME UNCHANGED <<process, conf>>, \A r \in Role : UNCHANGED Kept(r),
              \A h \in Host : UNCHANGED Stays(h)
       PROVE  NoGaps'
  <2>1. UNCHANGED <<pc, role, target, todo, amount, outcome, died, conf>>
    BY <1>15 DEF process
  <2> QED
    BY <1>15, <2>1 DEF NumbersRun
<1>16. CASE UNCHANGED vars
  BY <1>15, <1>16, <1>i, <1>e DEF vars, process, cluster
<1>17. ASSUME NEW g \in Host, Join(g) PROVE NoGaps'
  BY <1>15, <1>17, <1>i, <1>e DEF Join, process
<1>18. ASSUME NEW g \in Host, Gone(g) PROVE NoGaps'
  <2>1. \A r \in Role : UNCHANGED Kept(r)
    BY <1>18, <1>n DEF Gone, Kept, Alive
  <2>2. \A h \in Host : UNCHANGED Stays(h)
    BY <1>18, <1>n DEF Gone, Stays, Exists, process
  <2> QED
    BY <1>15, <1>18, <2>1, <2>2 DEF Gone
<1> QED
  BY <1>1, <1>2, <1>3, <1>4, <1>5, <1>6, <1>7, <1>8, <1>9, <1>10, <1>11, <1>12, <1>13, <1>14,
     <1>16, <1>17, <1>18 DEF Next

\* What a destroy does keep of its promise: when `koris delete node` was only ever
\* called for the last host of a role, adds and deletes waited until nova was done with
\* earlier deletes, and no command was cut short, it leaves no server but those on their
\* way out and those whose deletion raised, however many were added and deleted before.
THEOREM DestroyCleansUp ==
    Spec /\ []OneDigit /\ OnlyLastDeleted /\ []NovaIsDone => []DestroyLeavesNoServer
<1>1. NoGaps => DestroyLeavesNoServer
  BY DEF NoGaps, DestroyLeavesNoServer
<1>2. Spec /\ []OneDigit /\ OnlyLastDeleted /\ []NovaIsDone => []NoGaps
  <2> DEFINE LastDeleted == pc = "idle" /\ pc' = "delete_node" => target'[2] >= conf[target'[1]]
  <2>1. OneDigit /\ NovaIsDone /\ IInv /\ NoGaps /\ [Next]_vars /\ [LastDeleted]_vars => NoGaps'
    <3>1. UNCHANGED vars => LastDeleted
      BY DEF vars, process
    <3> QED
      BY <3>1, NoGapsStep
  <2> QED
    BY <2>1, NoGapsInit, Invariant, PTL DEF Spec, OnlyLastDeleted
<1> QED
  BY <1>1, <1>2, PTL

-----------------------------------------------------------------------------
(* A deleted master and etcd.                                              *)

\* Only an add lets a host boot, and only a host that boots joins.
LEMMA LeftEtcdStep == JoinedBefore /\ LeftEtcd /\ [Next]_vars => LeftEtcd'
<1> SUFFICES ASSUME JoinedBefore, LeftEtcd, [Next]_vars PROVE LeftEtcd'
  OBVIOUS
<1> USE DEF LeftEtcd
<1>1. CASE StartAdd \/ StartDelete \/ StartDestroy
  BY <1>1 DEF StartAdd, StartDelete, StartDestroy, Start, FirstCall, cluster
<1>2. CASE Die \/ NoLB \/ InstanceMissing \/ InstanceNotFound \/ DeleteRest \/ AddMember
  BY <1>2 DEF Die, NoLB, InstanceMissing, InstanceNotFound, DeleteRest, AddMember, End
<1>3. CASE CreateNewNodes \/ GetLB \/ GetInstances \/ DeleteLB
  BY <1>3 DEF CreateNewNodes, GetLB, GetInstances, DeleteLB, Goto
<1>4. ASSUME NEW h \in Host, Create(h) PROVE LeftEtcd'
  BY <1>4 DEF Create
<1>5. CASE AddUpdatesConfig
  BY <1>5 DEF AddUpdatesConfig, Goto, End
<1>6. CASE DrainNode
  BY <1>6 DEF DrainNode, Goto, cluster
<1>7. CASE RemoveFromEtcd \/ RemovalRefused
  BY <1>7 DEF RemoveFromEtcd, RemovalRefused, Goto, JoinedBefore
<1>8. CASE DelMember \/ K8SDeleteNode
  BY <1>8 DEF DelMember, K8SDeleteNode, Goto
<1>9. CASE DeleteInstance
  BY <1>9 DEF DeleteInstance, RemoveServer
<1>10. CASE DeleteUpdatesConfig
  BY <1>10 DEF DeleteUpdatesConfig, End, cluster
<1>11. ASSUME NEW h \in Host, Delete(h) \/ DeleteFails(h) PROVE LeftEtcd'
  BY <1>11 DEF Delete, DeleteFails, RemoveServer, cluster
<1>12. ASSUME NEW h \in Host, Join(h) \/ Gone(h) PROVE LeftEtcd'
  BY <1>12 DEF Join, Gone, process
<1>13. CASE UNCHANGED vars
  BY <1>13 DEF vars, process, cluster
<1> QED
  BY <1>1, <1>2, <1>3, <1>4, <1>5, <1>6, <1>7, <1>8, <1>9, <1>10, <1>11, <1>12, <1>13 DEF Next

\* A master whose delete finds it joined has left etcd when `koris delete node` is done
\* with it, whichever hosts join meanwhile, or the removal was refused.
THEOREM JoinedMasterLeavesEtcd == Spec /\ []JoinedBefore => []DeletedMasterLeftEtcd
<1>1. Init => LeftEtcd
  BY DEF Init, LeftEtcd
<1>2. LeftEtcd => DeletedMasterLeftEtcd
  BY DEF LeftEtcd, DeletedMasterLeftEtcd
<1> QED
  BY <1>1, <1>2, LeftEtcdStep, PTL DEF Spec
=============================================================================

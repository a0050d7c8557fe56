------------------------------ MODULE Scaling -------------------------------
(***************************************************************************)
(* `koris add`, `koris delete node` and `koris destroy` on a built         *)
(* cluster: what they do to nova, to the config file, to the load          *)
(* balancer's pool, to kubernetes and to etcd, call by call.  One operator *)
(* runs commands one after the other, always with the newest config file;  *)
(* a process may die anywhere; a new server joins, and one that nova was   *)
(* asked to delete goes, in its own time.                                  *)
(***************************************************************************)
EXTENDS Integers, FiniteSets

CONSTANTS Masters0, Nodes0,  \* the hosts that `koris apply` built
          MaxIndex,          \* bound on the number in a host name
          MaxAmount,         \* bound on --amount
          MaxRuns            \* bound on the number of commands
ASSUME ScalingAssumption ==
    /\ Masters0 \in 1..MaxIndex /\ Nodes0 \in 0..MaxIndex
    /\ MaxIndex \in Nat /\ MaxIndex < 100    \* NameOrder knows two digits
    /\ MaxRuns \in Nat /\ MaxAmount \in Nat \ {0}

Role   == {"master", "node"}
Host   == Role \X (1..MaxIndex)          \* <<role, i>> is "<cluster>-<role>-<i>"
Master == {"master"} \X (1..MaxIndex)
NoHost == <<"none", 0>>

VARIABLES
    \* the process
    run,       \* how many commands were started
    pc,        \* the next call of the current one
    cmd,       \* the command last started
    role,      \* --role of an add, or the role in the name a delete is given
    target,    \* the host a delete names, or the master an add has made
    todo,      \* servers still to be booted, or to be deleted by destroy
    amount,    \* --amount
    outcome,   \* how the last command ended
    died,      \* history: some command ended before its last step
    refused,   \* history: etcd refused this command's removal, which nobody noticed
    undeleted, \* history: hosts whose Instance.delete raised in this destroy, likewise
    again,     \* history: again[r]: deletes that met a dying server of role r
    \* the files
    conf,      \* conf["master"], conf["node"]: n-masters and n-nodes
    \* the cloud and the cluster
    copies,    \* copies[h]: how many nova servers are named h
    deleting,  \* hosts with a server nova was asked to delete and still lists
    booting,   \* hosts whose cloud-init has not joined the cluster yet
    node,      \* kubernetes nodes
    etcd,      \* members of the etcd cluster
    pool,      \* hosts whose address the API pool holds
    lb         \* the load balancer exists

history == <<died, refused, undeleted, again>>
process == <<run, pc, cmd, role, target, todo, amount, outcome, history>>
cluster == <<copies, deleting, booting, node, etcd, pool, lb>>
vars    == <<process, conf, cluster>>

PC == {"idle", "create_new_nodes", "create", "get_lb", "add_member",
       "delete_node", "remove_from_etcd", "del_member", "k8s_delete_node",
       "delete_instance", "delete_config", "get_instances", "delete_all", "delete_rest"}

TypeOK ==
    /\ run \in 0..MaxRuns /\ pc \in PC /\ cmd \in {"none", "add", "delete", "destroy"}
    /\ role \in Role /\ target \in Host \cup {NoHost} /\ todo \in SUBSET Host
    /\ amount \in 0..MaxAmount /\ died \in BOOLEAN /\ refused \in BOOLEAN
    /\ undeleted \in SUBSET Host /\ again \in [Role -> Nat]
    /\ outcome \in {"none", "added", "deleted", "notFound", "destroyed", "exit"}
    /\ conf \in [Role -> Int] /\ copies \in [Host -> Nat]
    /\ deleting \in SUBSET Host /\ booting \in SUBSET Host /\ node \in SUBSET Host /\ etcd \in SUBSET Master
    /\ pool \in SUBSET Master /\ lb \in BOOLEAN

\* A server that is being deleted is found by its name like any other.
Exists(h) == copies[h] > 0
Alive(h)  == copies[h] > IF h \in deleting THEN 1 ELSE 0
Built     == ({"master"} \X (1..Masters0)) \cup ({"node"} \X (1..Nodes0))

Init ==
    /\ run = 0 /\ pc = "idle" /\ cmd = "none" /\ role = "node" /\ target = NoHost
    /\ todo = {} /\ amount = 0 /\ outcome = "none" /\ died = FALSE
    /\ refused = FALSE /\ undeleted = {} /\ again = [r \in Role |-> 0]
    /\ conf = [r \in Role |-> IF r = "master" THEN Masters0 ELSE Nodes0]
    /\ copies = [h \in Host |-> IF h \in Built THEN 1 ELSE 0]
    /\ deleting = {} /\ booting = {} /\ node = Built
    /\ etcd = Built \cap Master /\ pool = Built \cap Master /\ lb = TRUE

\* The API server answers while most members of etcd have a server that is not
\* being deleted.
Quorum == 2 * Cardinality({m \in etcd : Alive(m)}) > Cardinality(etcd)

-----------------------------------------------------------------------------
(* get_server_range.                                                       *)

\* The order of names as strings: "1" < "10" < "11" < "2" < ... < "9".
NameOrder(i) == IF i < 10 THEN 11 * i ELSE 11 * (i \div 10) + (i % 10) + 1

Indices(r) == {i \in 1..MaxIndex : Exists(<<r, i>>)}
Last(r)    == CHOOSE i \in Indices(r) : \A j \in Indices(r) : NameOrder(j) <= NameOrder(i)

\* Mutant of get_server_range: number the new hosts after how many there are.
range_by_count(r, n) == Cardinality(Indices(r)) + 1 .. Cardinality(Indices(r)) + n

get_server_range(r, n) == Last(r) + 1 .. Last(r) + n

-----------------------------------------------------------------------------
Goto(from, to) ==
    /\ pc = from /\ pc' = to
    /\ UNCHANGED <<run, cmd, role, target, amount, outcome, history>>

\* The command returns, or exits through one of its error paths.
End(how) ==
    /\ pc' = "idle" /\ outcome' = how /\ todo' = {}
    /\ UNCHANGED <<run, cmd, role, target, amount, history>>

FirstCall == [add |-> "create_new_nodes", delete |-> "delete_node", destroy |-> "get_instances"]

Start(c, r, h, n) ==
    /\ pc = "idle" /\ outcome # "destroyed" /\ run < MaxRuns
    /\ run' = run + 1 /\ cmd' = c /\ role' = r /\ target' = h /\ amount' = n
    /\ outcome' = "none" /\ todo' = {} /\ refused' = FALSE /\ undeleted' = {}
    /\ pc' = FirstCall[c]
    /\ UNCHANGED <<died, again, conf, cluster>>

\* --amount is for workers only.
StartAdd     == \/ Start("add", "master", NoHost, 1)
                \/ \E n \in 1..MaxAmount : Start("add", "node", NoHost, n)
StartDelete  == \E h \in Host : Start("delete", h[1], h, 0)
StartDestroy == Start("destroy", role, NoHost, 0)

\* The process is killed, or a call fails in a way nobody catches.
Die ==
    /\ pc # "idle"
    /\ pc' = "idle" /\ outcome' = "exit" /\ todo' = {} /\ died' = TRUE
    /\ UNCHANGED <<run, cmd, role, target, amount, refused, undeleted, again, conf, cluster>>

-----------------------------------------------------------------------------
(* koris add.                                                              *)

\* A token, the CA and, for a master, etcd's members are asked of the API first.
\* Without a server of the role there is no last name: IndexError, and Die.
CreateNewNodes ==
    /\ Goto("create_new_nodes", "create")
    /\ Quorum /\ Indices(role) # {}
    /\ Last(role) + amount <= MaxIndex
    /\ todo' = {role} \X get_server_range(role, amount)
    /\ UNCHANGED <<conf, cluster>>

\* Instance.create looks for no server of that name.
Create(h) ==
    /\ pc = "create" /\ h \in todo
    /\ todo' = todo \ {h}
    /\ copies' = [copies EXCEPT ![h] = @ + 1]
    /\ booting' = booting \cup {h}
    /\ target' = IF role = "master" THEN h ELSE target
    /\ UNCHANGED <<run, pc, cmd, role, amount, outcome, history, conf, deleting, node, etcd,
                   pool, lb>>

\* Mutant of AddUpdatesConfig: a new master never gets to the pool.
AddUpdatesConfigOnly ==
    /\ pc = "create" /\ todo = {}
    /\ conf' = [conf EXCEPT ![role] = @ + amount]
    /\ End("added")
    /\ UNCHANGED cluster

\* The config file is written before the new master enters the pool.
AddUpdatesConfig ==
    /\ pc = "create" /\ todo = {}
    /\ conf' = [conf EXCEPT ![role] = @ + amount]
    /\ IF role = "master" THEN Goto("create", "get_lb") /\ UNCHANGED todo ELSE End("added")
    /\ UNCHANGED cluster

GetLB ==
    /\ Goto("get_lb", "add_member") /\ lb
    /\ UNCHANGED <<todo, conf, cluster>>

\* An add exits here with the server made and the file written; a delete with nothing done.
NoLB ==
    /\ pc \in {"get_lb", "delete_node"} /\ ~lb
    /\ End("exit")
    /\ UNCHANGED <<conf, cluster>>

AddMember ==
    /\ pc = "add_member"
    /\ pool' = pool \cup {target}
    /\ End("added")
    /\ UNCHANGED <<conf, copies, deleting, booting, node, etcd, lb>>

-----------------------------------------------------------------------------
(* koris delete node.                                                      *)

\* validate_context and drain_node; a node that is not in kubernetes is not drained.
DrainNode ==
    /\ Goto("delete_node", IF role = "master" THEN "remove_from_etcd" ELSE "k8s_delete_node")
    /\ lb /\ Quorum
    /\ UNCHANGED <<todo, conf, cluster>>

\* A name etcd does not know is skipped.
RemoveFromEtcd ==
    /\ Goto("remove_from_etcd", "del_member") /\ Quorum
    /\ etcd # {target}
    /\ etcd' = etcd \ {target}
    /\ UNCHANGED <<todo, conf, copies, deleting, booting, node, pool, lb>>

\* etcdctl fails: etcd loses its last member never, another one not when it is slow or
\* unhealthy.  Nobody reads its answer, and the delete goes on.
RemovalRefused ==
    /\ pc = "remove_from_etcd" /\ pc' = "del_member" /\ Quorum
    /\ target \in etcd
    /\ refused' = TRUE
    /\ UNCHANGED <<run, cmd, role, target, todo, amount, outcome, died, undeleted, again,
                   conf, cluster>>

\* Mutant of DelMember: only a master that is still in etcd leaves the pool.
DelMemberOfEtcd ==
    /\ Goto("del_member", "k8s_delete_node")
    /\ copies[target] = 1
    /\ pool' = IF target \in etcd THEN pool \ {target} ELSE pool
    /\ UNCHANGED <<todo, conf, copies, deleting, booting, node, etcd, lb>>

\* Two servers of one name: the lookup fails in a way nobody catches, and Die.
DelMember ==
    /\ Goto("del_member", "k8s_delete_node")
    /\ copies[target] = 1
    /\ pool' = pool \ {target}
    /\ UNCHANGED <<todo, conf, copies, deleting, booting, node, etcd, lb>>

\* No server of that name, or one without an address any more: nova is deleting it.
InstanceMissing ==
    /\ pc = "del_member"
    /\ ~Exists(target) \/ target \in deleting
    /\ End("exit")
    /\ UNCHANGED <<conf, cluster>>

K8SDeleteNode ==
    /\ Goto("k8s_delete_node", "delete_instance") /\ Quorum
    /\ node' = node \ {target}
    /\ UNCHANGED <<todo, conf, copies, deleting, booting, etcd, pool, lb>>

\* nova is asked to delete the server, which runs no longer and is listed until Gone.
RemoveServer(h) ==
    /\ deleting' = deleting \cup {h}
    /\ booting' = booting \ {h}

\* A server that an earlier delete has not got rid of yet is found, and deleted again.
DeleteInstance ==
    /\ pc = "delete_instance" /\ pc' = "delete_config"
    /\ copies[target] = 1
    /\ RemoveServer(target)
    /\ again' = [again EXCEPT ![role] = IF target \in deleting THEN @ + 1 ELSE @]
    /\ UNCHANGED <<run, cmd, role, target, todo, amount, outcome, died, refused, undeleted,
                   conf, copies, node, etcd, pool, lb>>

\* Mutant of InstanceNotFound: a missing server counts as deleted.
InstanceNotFoundIgnored ==
    /\ Goto("delete_instance", "delete_config")
    /\ ~Exists(target)
    /\ UNCHANGED <<todo, conf, cluster>>

InstanceNotFound ==
    /\ pc = "delete_instance" /\ ~Exists(target)
    /\ End("notFound")
    /\ UNCHANGED <<conf, cluster>>

DeleteUpdatesConfig ==
    /\ pc = "delete_config"
    /\ conf' = [conf EXCEPT ![role] = @ - 1]
    /\ End("deleted")
    /\ UNCHANGED cluster

-----------------------------------------------------------------------------
(* koris destroy.                                                          *)

\* The names the config file stands for: 1..n-masters and 1..n-nodes.  A name two
\* servers share raises NoUniqueMatch, and Die.
Named == {h \in Host : h[2] <= conf[h[1]]}

GetInstances ==
    /\ Goto("get_instances", "delete_all")
    /\ \A h \in Named : copies[h] <= 1
    /\ todo' = {h \in Named : Exists(h)}
    /\ UNCHANGED <<conf, cluster>>

\* A server that is gone by now raises NotFound, which is swallowed.  So is anything
\* that is raised after nova was asked, when a port is deleted.
Delete(h) ==
    /\ pc = "delete_all" /\ h \in todo
    /\ todo' = todo \ {h}
    /\ IF Exists(h) THEN RemoveServer(h) ELSE UNCHANGED <<deleting, booting>>
    /\ UNCHANGED <<run, pc, cmd, role, target, amount, outcome, history, conf, copies, node,
                   etcd, pool, lb>>

\* An error before that leaves the server, in a task that nobody asks for its result.
DeleteFails(h) ==
    /\ pc = "delete_all" /\ h \in todo /\ Exists(h)
    /\ todo' = todo \ {h} /\ undeleted' = undeleted \cup {h}
    /\ UNCHANGED <<run, pc, cmd, role, target, amount, outcome, died, refused, again, conf,
                   cluster>>

DeleteLB ==
    /\ pc = "delete_all" /\ todo = {}
    /\ Goto("delete_all", "delete_rest")
    /\ lb' = FALSE /\ pool' = {}
    /\ UNCHANGED <<todo, conf, copies, deleting, booting, node, etcd>>

\* The security group, the free volumes, the key pair: module ClusterBuild.
DeleteRest ==
    /\ pc = "delete_rest"
    /\ End("destroyed")
    /\ UNCHANGED <<conf, cluster>>

-----------------------------------------------------------------------------
\* kubeadm join, run by the cloud-init of a new server.
Join(h) ==
    /\ h \in booting /\ Quorum
    /\ booting' = booting \ {h}
    /\ node' = node \cup {h}
    /\ etcd' = etcd \cup ({h} \cap Master)
    /\ UNCHANGED <<process, conf, copies, deleting, pool, lb>>

\* nova has deleted a server and lists it no longer.
Gone(h) ==
    /\ h \in deleting
    /\ copies' = [copies EXCEPT ![h] = @ - 1]
    /\ deleting' = deleting \ {h}
    /\ UNCHANGED <<process, conf, booting, node, etcd, pool, lb>>

Next ==
    \/ StartAdd \/ StartDelete \/ StartDestroy \/ Die \/ CreateNewNodes
    \/ (\E h \in Host : Create(h) \/ Delete(h) \/ DeleteFails(h) \/ Join(h) \/ Gone(h))
    \/ AddUpdatesConfig \/ GetLB \/ NoLB \/ AddMember
    \/ DrainNode \/ RemoveFromEtcd \/ RemovalRefused \/ DelMember \/ InstanceMissing
    \/ K8SDeleteNode \/ DeleteInstance \/ InstanceNotFound \/ DeleteUpdatesConfig
    \/ GetInstances \/ DeleteLB \/ DeleteRest

Spec == Init /\ [][Next]_vars

-----------------------------------------------------------------------------
(* Properties.                                                             *)

Idle == pc = "idle" /\ ~died

\* No two servers share a name: a host can be told from every other one, by nova's
\* find_server, by kubernetes and by etcd.  (Fails past the ninth host of a role.)
NamesUnique == \A h \in Host : copies[h] <= 1

\* While no command is cut short, the config file counts the servers that are not being
\* deleted, until a destroy: a delete that finds no server leaves the file alone.  It is
\* off by exactly the deletes that found a server nova was still deleting: they count
\* once more, whatever koris.py:358 says ("Don't change config if Instance wasn't
\* deleted from OpenStack").
Kept(r) == {i \in 1..MaxIndex : Alive(<<r, i>>)}
ConfigCounts ==
    Idle /\ lb => \A r \in Role : conf[r] + again[r] = Cardinality(Kept(r))

\* While no command is cut short, the pool of the load balancer holds exactly the
\* masters that have a server to stay: no request goes to a host that is not there.
Live == {m \in Master : Alive(m)}
PoolLive == Idle /\ lb => pool = Live

\* However commands are cut short and repeated, `koris delete node` takes the server
\* away only when the load balancer does not send it requests any more.
ServerGoesLast ==
    [][\A m \in Master : cmd = "delete" /\ Alive(m) /\ ~Alive(m)' => m \notin pool]_vars

\* ServerGoesLast is inductive together with this: a delete past the pool's step has
\* taken the target out, and only a delete is ever there.
Deleting == {"remove_from_etcd", "del_member", "k8s_delete_node", "delete_instance"}
DeleteOrder ==
    /\ copies \in [Host -> Int]
    /\ pc \in {"create_new_nodes", "create", "get_lb", "add_member"} => cmd = "add"
    /\ pc \in {"get_instances", "delete_all"} => cmd = "destroy"
    /\ pc \in Deleting \cup {"delete_node"} => cmd = "delete" /\ target \in Host /\ role = target[1]
    /\ pc \in {"k8s_delete_node", "delete_instance"} => target \notin pool \cap Master

-----------------------------------------------------------------------------
(* Why they hold: the inductive invariant of ScalingProofs.                *)

\* The servers there are have numbers of one digit, so that the order of the names is
\* the order of the numbers when the next ones are chosen.
OneDigit == \A h \in Host : Exists(h) => h[2] < 10

\* What a command has settled when it comes to its next call.
CallsInv ==
    /\ pc = "create_new_nodes" => target = NoHost /\ (role = "master" => amount = 1)
    /\ pc = "create" =>
          /\ todo \subseteq {role} \X (1..MaxIndex)
          /\ role = "node" => target = NoHost
          /\ role = "master" => \/ \E h \in Master : todo = {h} /\ target = NoHost
                                \/ todo = {} /\ target \in Master /\ Alive(target)
    /\ pc \in {"get_lb", "add_member"} => target \in Master /\ Alive(target)
    /\ pc \in Deleting \cup {"delete_node", "delete_config"} => target \in Host /\ role = target[1]
    /\ pc \in {"remove_from_etcd", "del_member"} => role = "master"
    /\ \A h \in deleting : Exists(h)

NamesInv == NamesUnique /\ (pc = "create" => \A h \in todo : ~Exists(h))

\* Nothing was cut short yet, nor is being destroyed.
Whole == lb /\ ~died /\ pc # "delete_all"

\* The config file and the servers, while one of them is ahead of the other.
CountsInv ==
    Whole => \A r \in Role :
        Cardinality(Kept(r)) = conf[r] + again[r]
            + (IF r = role /\ pc = "create" THEN amount - Cardinality(todo)
               ELSE IF r = role /\ pc = "delete_config" THEN -1 ELSE 0)

\* A new master is not in the pool yet, and one that goes is not in it any more.
PoolInv ==
    Whole => pool = Live \ (IF pc \in {"create", "get_lb", "add_member", "k8s_delete_node",
                                       "delete_instance"} THEN {target} ELSE {})

IInv == TypeOK /\ CallsInv /\ NamesInv /\ CountsInv /\ PoolInv

-----------------------------------------------------------------------------
(* What the docs say and the code does not keep.                           *)

\* docs/openstack.rst:115, "To completely remove your koris built cluster": after a
\* destroy no server is left, but those on their way out and those whose deletion
\* raised, when no command was cut short.  (Fails: after a delete the names are not 1..n.)
Stays(h) == Exists(h) /\ h \notin deleting \cup undeleted
DestroyLeavesNoServer == outcome = "destroyed" /\ ~died => \A h \in Host : ~Stays(h)

\* What does hold of it: with no other delete than that of the last host of a role, or of
\* one behind it, and no add or delete while nova is still deleting, the names stay 1..n,
\* and a destroy leaves no server.
OnlyLastDeleted ==
    [][pc = "idle" /\ pc' = "delete_node" => target'[2] >= conf[target'[1]]]_vars
NovaIsDone == pc \in {"create_new_nodes", "delete_instance"} => deleting = {}

\* The numbers that servers of a role have or that an add is giving them run from 1 to
\* what the config file will say; a destroy has all of them on its list.
NumbersRun(r, n) == n \in Nat /\ Kept(r) = 1..n
NoGaps == ~died =>
    /\ outcome = "destroyed" => pc = "idle"
    /\ pc = "create" => \A r \in Role :
          LET n == conf[r] + (IF r = role THEN amount ELSE 0)
          IN  n \in Nat /\ Kept(r) \cup {h[2] : h \in {t \in todo : t[1] = r}} = 1..n
    /\ pc \in Deleting \cup {"delete_node"} => target[2] >= conf[target[1]]
    /\ pc = "delete_config" => \A r \in Role : NumbersRun(r, IF r = role THEN conf[r] - 1 ELSE conf[r])
    /\ pc = "delete_all" => \A h \in Host : Stays(h) => h \in todo
    /\ pc = "delete_rest" => \A h \in Host : ~Stays(h)
    /\ pc \notin {"create", "delete_config", "delete_all", "delete_rest"} =>
          IF outcome = "destroyed" THEN \A h \in Host : ~Stays(h)
          ELSE \A r \in Role : NumbersRun(r, conf[r])

\* docs/resize.rst:184, "If the node is a master, remove it from the etcd cluster": a
\* master a delete has taken away is no member of etcd, unless etcdctl's answer, which
\* nobody reads, was a refusal.  (Fails: a new master may join after it was looked up in
\* etcd.)
DeletedMasterLeftEtcd ==
    outcome = "deleted" /\ role = "master" /\ ~died /\ ~refused => target \notin etcd

\* What does hold of it: a master that has joined before the delete comes to etcd is no
\* member when the delete is done, unless the removal was refused.
JoinedBefore == pc = "remove_from_etcd" => target \notin booting

\* It follows since nobody puts the target back: a server that is booting may join
\* whenever it likes, and one that has joined never does so again.
LeftEtcd ==
    /\ outcome = "deleted" => pc = "idle"
    /\ \/ pc \in {"del_member", "k8s_delete_node", "delete_instance", "delete_config"}
       \/ outcome = "deleted"
       => (role = "master" /\ ~refused => target \notin booting \cup etcd)
=============================================================================

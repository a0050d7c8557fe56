---------------------------- MODULE ClusterBuild ----------------------------
(***************************************************************************)
(* `koris apply` and `koris destroy`: one operator starts commands one     *)
(* after the other, each a fresh process that may die at any point.  The   *)
(* process is a main thread and an asyncio loop; a create task advances    *)
(* only while the main thread is inside run_until_complete.  The cloud     *)
(* (nova, cinder, neutron, octavia) keeps what the process leaves behind.  *)
(*                                                                         *)
(* A step is the code between two points where another actor matters: an   *)
(* await, a call that lets the loop run, or a remote effect that a crash   *)
(* must be able to separate from the next one.                             *)
(***************************************************************************)
EXTENDS Integers, FiniteSets

CONSTANTS Master,   \* the n-masters names host_names("master", ...) yields
          Worker,   \* the n-nodes names host_names("node", ...) yields
          first,    \* the first master: kubeadm init runs there
          MaxRuns   \* bound on the number of commands the operator starts

ASSUME HostsAssumption ==
    /\ first \in Master
    /\ Master \cap Worker = {}
    /\ IsFiniteSet(Master) /\ IsFiniteSet(Worker)
    /\ Cardinality(Master) % 2 = 1      \* ClusterBuilder exits on an even count
ASSUME RunsAssumption == MaxRuns \in Nat \ {0}

Host == Master \cup Worker
Run  == 1..MaxRuns

VARIABLES
    \* the process
    run,        \* how many commands were started; names the current one
    cmd,        \* which command the current process executes
    pc,         \* where its main thread is
    task,       \* task[h]: the coroutine Instance.create of host h
    conf,       \* the coroutine LoadBalancer.configure([first_master_ip])
    victim,     \* hosts whose Instance.delete has not run yet
    undeleted,  \* history: hosts whose Instance.delete raised before nova was asked
    outcome,    \* how the last command ended
    \* the cloud
    server,     \* server[h]: status of the nova server named h
    script,     \* the first master's cloud-init script "works" or is "dead"
    builtBy,    \* builtBy[h]: the command that booted it, 0 when there is none
    vol,        \* vol[r][h]: the cinder volume command r created for h
    port,       \* <<r, h>>: the neutron port command r created for h
    secgroup,   \* the security group exists
    lb,         \* the load balancer: "none", "bare" (no listener yet) or "listening"
    member,     \* addresses (ports) in the API server pool
    keypair     \* the command that uploaded the key pair, 0 when there is none

process == <<run, cmd, pc, task, conf, victim, undeleted, outcome>>
network == <<port, secgroup, lb, member, keypair>>
cloud   == <<server, script, builtBy, vol, network>>
vars    == <<process, cloud>>

-----------------------------------------------------------------------------
PC == {"idle",
       "setup_networking", "create_ssh_keypair", "get_or_create",
       "create_masters_tasks", "gatherMasters", "create_initial_nodes",
       "gatherNodes", "is_ready", "bulk_update_members",
       "add_all_masters", "apply_addons",
       "get_instances", "deleteInstances", "deleteLB", "deleteSecgroup",
       "deleteVolumes", "deleteKeypair"}

Cleanup == {"get_instances", "deleteInstances", "deleteLB", "deleteSecgroup",
            "deleteVolumes", "deleteKeypair"}

\* The main thread is inside run_until_complete.
LoopRuns == pc \in {"gatherMasters", "gatherNodes", "deleteInstances"}

TaskState == {"none", "scheduled", "volume", "boot", "done",
              "BuilderError", "otherError"}
Failed(h) == task[h] \in {"BuilderError", "otherError"}

ServerState == {"none", "BUILD", "ACTIVE", "ERROR", "deleting"}
VolState    == {"none", "creating", "available", "error", "in-use"}

\* servers.find(name) returns a server that is still being deleted, too.
Exists(h) == server[h] # "none"

NoTask == [h \in Host |-> "none"]
Addresses(S) == {run} \X S        \* Instance.ip_address: the address of its port

TypeOK ==
    /\ run \in 0..MaxRuns
    /\ cmd \in {"none", "apply", "destroy"}
    /\ pc \in PC
    /\ task \in [Host -> TaskState]
    /\ conf \in {"none", "scheduled", "done", "failed"}
    /\ victim \subseteq Host /\ undeleted \subseteq Host
    /\ outcome \in {"none", "built", "InstanceExists", "removed", "died"}
    /\ server \in [Host -> ServerState] /\ script \in {"works", "dead"}
    /\ builtBy \in [Host -> 0..MaxRuns]
    /\ vol \in [Run -> [Host -> VolState]]
    /\ port \subseteq Run \X Host
    /\ secgroup \in BOOLEAN /\ lb \in {"none", "bare", "listening"}
    /\ member \subseteq Run \X Host
    /\ keypair \in 0..MaxRuns

Init ==
    /\ run = 0 /\ cmd = "none" /\ pc = "idle"
    /\ task = NoTask /\ conf = "none" /\ victim = {}
    /\ undeleted = {} /\ outcome = "none"
    /\ server = [h \in Host |-> "none"] /\ script = "works"
    /\ builtBy = [h \in Host |-> 0]
    /\ vol = [r \in Run |-> [h \in Host |-> "none"]]
    /\ port = {} /\ secgroup = FALSE
    /\ lb = "none" /\ member = {} /\ keypair = 0

-----------------------------------------------------------------------------
(* The main thread.                                                        *)

\* The operator starts the next command once the last process is gone.
Start(c) ==
    /\ pc = "idle" /\ run < MaxRuns
    /\ run' = run + 1 /\ cmd' = c /\ outcome' = "none" /\ undeleted' = {}
    /\ pc' = IF c = "apply" THEN "setup_networking" ELSE "get_instances"
    /\ UNCHANGED <<task, conf, victim, cloud>>

Goto(from, to) ==
    /\ pc = from /\ pc' = to
    /\ UNCHANGED <<run, cmd, undeleted, outcome>>

\* The process ends; whatever its loop still held is gone with it.
End(how) ==
    /\ pc' = "idle" /\ outcome' = how
    /\ task' = NoTask /\ conf' = "none" /\ victim' = {}
    /\ UNCHANGED <<run, cmd, undeleted>>

\* Network, subnet and router are Networking's; here only the security group,
\* which destroy removes, matters.
SetupNetworking ==
    /\ Goto("setup_networking", "create_ssh_keypair")
    /\ secgroup' = TRUE
    /\ UNCHANGED <<task, conf, victim, server, script, builtBy, vol, port, lb, member, keypair>>

\* An existing key pair of the cluster's name is replaced.
CreateSshKeypair ==
    /\ Goto("create_ssh_keypair", "get_or_create")
    /\ keypair' = run
    /\ UNCHANGED <<task, conf, victim, server, script, builtBy, vol, port, secgroup, lb, member>>

\* A load balancer left by an earlier command is reused, members included.
GetOrCreateLB ==
    /\ Goto("get_or_create", "create_masters_tasks")
    /\ lb' = IF lb = "none" THEN "bare" ELSE lb
    /\ UNCHANGED <<task, conf, victim, server, script, builtBy, vol, port, secgroup, member, keypair>>

\* ... unless its floating IP is missing or taken, which ends the process.
FloatingIPUnavailable ==
    /\ pc = "get_or_create" /\ lb # "none"
    /\ End("died")
    /\ UNCHANGED cloud

\* A floating IP that neutron cannot associate takes the load balancer with it, one
\* that was there before as well.
FloatingIPNotAssociated ==
    /\ pc = "get_or_create"
    /\ lb' = "none" /\ member' = {}
    /\ End("died")
    /\ UNCHANGED <<server, script, builtBy, vol, port, secgroup, keypair>>

\* _get_or_create for each host of S: every host without a server gets a port,
\* before the first server is looked at.
AttachPorts(S) == port' = port \cup Addresses({h \in S : ~Exists(h)})

\* Mutants of CreateMastersTasks: the existence check is forgotten, or looks at
\* the first master only.
CreateMastersTasksUnchecked ==
    /\ Goto("create_masters_tasks", "gatherMasters")
    /\ AttachPorts(Master)
    /\ task' = [h \in Host |-> IF h \in Master THEN "scheduled" ELSE task[h]]
    /\ UNCHANGED <<conf, victim, server, script, builtBy, vol, secgroup, lb, member, keypair>>
CreateMastersTasksFirstChecked == ~Exists(first) /\ CreateMastersTasksUnchecked

CreateMastersTasks ==
    /\ \A m \in Master : ~Exists(m)
    /\ Goto("create_masters_tasks", "gatherMasters")
    /\ AttachPorts(Master)
    /\ task' = [h \in Host |-> IF h \in Master THEN "scheduled" ELSE task[h]]
    /\ UNCHANGED <<conf, victim, server, script, builtBy, vol, secgroup, lb, member, keypair>>

\* Tasks made for the masters before the existing one never run: no loop runs
\* any more and apply returns.
MasterExists ==
    /\ pc = "create_masters_tasks"
    /\ \E m \in Master : Exists(m)
    /\ AttachPorts(Master)
    /\ End("InstanceExists")
    /\ UNCHANGED <<server, script, builtBy, vol, secgroup, lb, member, keypair>>

\* Mutant of MastersGathered: the wait returns at the first result.
MastersGatheredEarly ==
    /\ Goto("gatherMasters", "create_initial_nodes")
    /\ \E m \in Master : task[m] = "done"
    /\ UNCHANGED <<task, conf, victim, cloud>>

MastersGathered ==
    /\ Goto("gatherMasters", "create_initial_nodes")
    /\ \A m \in Master : task[m] = "done"
    /\ UNCHANGED <<task, conf, victim, cloud>>

CreateInitialNodes ==
    /\ \A w \in Worker : ~Exists(w)
    /\ Goto("create_initial_nodes", "gatherNodes")
    /\ conf' = "scheduled"
    /\ AttachPorts(Worker)
    /\ task' = [h \in Host |-> IF h \in Worker THEN "scheduled" ELSE task[h]]
    /\ UNCHANGED <<victim, server, script, builtBy, vol, secgroup, lb, member, keypair>>

NodeExists ==
    /\ pc = "create_initial_nodes"
    /\ \E w \in Worker : Exists(w)
    /\ AttachPorts(Worker)
    /\ End("InstanceExists")
    /\ UNCHANGED <<server, script, builtBy, vol, secgroup, lb, member, keypair>>

NodesGathered ==
    /\ Goto("gatherNodes", "is_ready")
    /\ \A w \in Worker : task[w] = "done"
    /\ conf = "done"
    /\ UNCHANGED <<task, conf, victim, cloud>>

\* gather re-raises the first exception and leaves the other tasks pending.
\* BuilderError starts the clean-up in the same process ...
GatherRaisesBuilderError(h) ==
    /\ pc \in {"gatherMasters", "gatherNodes"}
    /\ task[h] = "BuilderError"
    /\ Goto(pc, "get_instances")
    /\ UNCHANGED <<task, conf, victim, cloud>>

\* Mutant of GatherRaisesOther: the second gather collects exceptions as results.
GatherReturnsOther(h) ==
    /\ pc = "gatherMasters"
    /\ task[h] = "otherError"
    /\ End("died")
    /\ UNCHANGED cloud

\* ... anything else ends it.
GatherRaisesOther(h) ==
    /\ pc \in {"gatherMasters", "gatherNodes"}
    /\ task[h] = "otherError"
    /\ End("died")
    /\ UNCHANGED cloud

\* gather raises what configure raised.
ConfigureFailed ==
    /\ pc = "gatherNodes" /\ conf = "failed"
    /\ End("died")
    /\ UNCHANGED cloud

\* The API server answers behind the load balancer: kubeadm init finished on
\* the first master and the pool points at it.  Until then it is polled.
IsReady ==
    /\ Goto("is_ready", "bulk_update_members")
    /\ server[first] = "ACTIVE" /\ builtBy[first] = run /\ script = "works"
    /\ <<run, first>> \in member
    /\ UNCHANGED <<task, conf, victim, cloud>>

BulkUpdateMembers ==
    /\ Goto("bulk_update_members", "apply_addons")
    /\ member' = Addresses(Master)
    /\ UNCHANGED <<task, conf, victim, server, script, builtBy, vol, port, secgroup, lb, keypair>>

BulkUpdateRefused ==
    /\ Goto("bulk_update_members", "add_all_masters")
    /\ UNCHANGED <<task, conf, victim, cloud>>

\* Mutant of AddMaster: the call replaces the members, as the bulk update does.
AddMasterOnly(m) ==
    /\ pc = "add_all_masters"
    /\ Cardinality(member) < Cardinality(Master)
    /\ server[m] = "ACTIVE" /\ <<run, m>> \notin member
    /\ member' = {<<run, m>>}
    /\ UNCHANGED <<process, server, script, builtBy, vol, port, secgroup, lb, keypair>>

\* One Ready master that the pool does not hold yet is added.  (Which masters have
\* joined by then is Bootstrap's.)
AddMaster(m) ==
    /\ pc = "add_all_masters"
    /\ Cardinality(member) < Cardinality(Master)
    /\ server[m] = "ACTIVE" /\ <<run, m>> \notin member
    /\ member' = member \cup {<<run, m>>}
    /\ UNCHANGED <<process, server, script, builtBy, vol, port, secgroup, lb, keypair>>

\* Mutant of AllMastersAdded: the loop stops one member early.
AllButOneAdded ==
    /\ Goto("add_all_masters", "apply_addons")
    /\ Cardinality(member) >= Cardinality(Master) - 1
    /\ UNCHANGED <<task, conf, victim, cloud>>

AllMastersAdded ==
    /\ Goto("add_all_masters", "apply_addons")
    /\ Cardinality(member) >= Cardinality(Master)
    /\ UNCHANGED <<task, conf, victim, cloud>>

ApplyAddons ==
    /\ pc = "apply_addons"
    /\ End("built")
    /\ UNCHANGED cloud

-----------------------------------------------------------------------------
(* remove_cluster.                                                         *)

\* Mutant of GetInstances: both lookups ask for the workers.
GetWorkersOnly ==
    /\ Goto("get_instances",
            IF \E h \in Worker : Exists(h) THEN "deleteInstances" ELSE "deleteLB")
    /\ victim' = {h \in Worker : Exists(h)}
    /\ UNCHANGED <<task, conf, cloud>>

\* The servers found now are the ones that are deleted.  Without any, the loop
\* is not entered.
GetInstances ==
    /\ Goto("get_instances",
            IF \E h \in Host : Exists(h) THEN "deleteInstances" ELSE "deleteLB")
    /\ victim' = {h \in Host : Exists(h)}
    /\ UNCHANGED <<task, conf, cloud>>

\* Instance.delete awaits nothing: it is one step of the loop.  A server that
\* is gone by now raises NotFound, which is swallowed.
DeleteInstance(h) ==
    /\ pc = "deleteInstances" /\ h \in victim
    /\ victim' = victim \ {h}
    /\ server' = [server EXCEPT ![h] = IF Exists(h) THEN "deleting" ELSE @]
    /\ port' = IF Exists(h) THEN port \ {<<builtBy[h], h>>} ELSE port
    /\ UNCHANGED <<run, cmd, pc, task, conf, undeleted, outcome, script, builtBy, vol,
                   secgroup, lb, member, keypair>>

\* Any other error of nova or neutron stays in the task: asyncio.wait re-raises nothing
\* and remove_cluster goes on.  Before nova was asked it leaves the server, after that
\* the port.
DeleteInstanceFails(h) ==
    /\ pc = "deleteInstances" /\ h \in victim /\ Exists(h)
    /\ victim' = victim \ {h}
    /\ \/ undeleted' = undeleted \cup {h} /\ UNCHANGED server
       \/ server' = [server EXCEPT ![h] = "deleting"] /\ UNCHANGED undeleted
    /\ UNCHANGED <<run, cmd, pc, task, conf, outcome, script, builtBy, vol, network>>

\* asyncio.wait returns and the loop is closed: nothing in it runs again.
InstancesDeleted ==
    /\ Goto("deleteInstances", "deleteLB")
    /\ victim = {}
    /\ UNCHANGED <<task, conf, victim, cloud>>

DeleteLB ==
    /\ Goto("deleteLB", "deleteSecgroup")
    /\ lb' = "none" /\ member' = {}
    /\ UNCHANGED <<task, conf, victim, server, script, builtBy, vol, port, secgroup, keypair>>

\* Every port in the group is deleted, whoever it belongs to.  Without the
\* group no port is looked at.
DeleteSecgroup ==
    /\ Goto("deleteSecgroup", "deleteVolumes")
    /\ port' = IF secgroup THEN {} ELSE port
    /\ secgroup' = FALSE
    /\ UNCHANGED <<task, conf, victim, server, script, builtBy, vol, lb, member, keypair>>

\* A volume in use is left alone; cinder refuses to delete one that is still
\* being created, and the refusal is swallowed.
Deletable(v) == v \in {"available", "error"}

DeleteVolumes ==
    /\ Goto("deleteVolumes", "deleteKeypair")
    /\ vol' = [r \in Run |-> [h \in Host |->
                 IF Deletable(vol[r][h]) THEN "none" ELSE vol[r][h]]]
    /\ UNCHANGED <<task, conf, victim, server, script, builtBy, port, secgroup, lb, member, keypair>>

DeleteKeypair ==
    /\ pc = "deleteKeypair"
    /\ keypair' = 0
    /\ End("removed")
    /\ UNCHANGED <<server, script, builtBy, vol, port, secgroup, lb, member>>

-----------------------------------------------------------------------------
(* The tasks of the asyncio loop.                                          *)

TaskGoto(h, from, to) ==
    /\ LoopRuns /\ task[h] = from
    /\ task' = [task EXCEPT ![h] = to]
    /\ UNCHANGED <<run, cmd, pc, conf, victim, undeleted, outcome>>

\* Instance.create up to its first await.
CreateVolume(h) ==
    /\ TaskGoto(h, "scheduled", "volume")
    /\ vol' = [vol EXCEPT ![run][h] = "creating"]
    /\ UNCHANGED <<server, script, builtBy, network>>

\* cinder refuses: the exception is not a BuilderError.
CreateVolumeFails(h) ==
    /\ TaskGoto(h, "scheduled", "otherError")
    /\ UNCHANGED cloud

\* The poll sees the volume available and boots the server from it (the wait
\* for the bootable flag changes nothing another actor sees).
CreateServer(h) ==
    /\ TaskGoto(h, "volume", "boot")
    /\ vol[run][h] = "available"
    /\ vol' = [vol EXCEPT ![run][h] = "in-use"]
    /\ server' = [server EXCEPT ![h] = "BUILD"]
    /\ builtBy' = [builtBy EXCEPT ![h] = run]
    /\ script' = IF h = first THEN "works" ELSE script
    /\ UNCHANGED network

CreateServerFails(h) ==
    /\ TaskGoto(h, "volume", "BuilderError")
    /\ vol[run][h] = "available"
    /\ UNCHANGED cloud

\* The poll sees a status other than BUILD and reads the interface list.
Booted(h) ==
    /\ TaskGoto(h, "boot", "done")
    /\ server[h] \in {"ACTIVE", "ERROR"}
    /\ UNCHANGED cloud

\* A server in ERROR without an interface: IndexError.  One that was deleted
\* meanwhile: NotFound.
BootFails(h) ==
    /\ TaskGoto(h, "boot", "otherError")
    /\ server[h] \notin {"BUILD", "ACTIVE"}
    /\ UNCHANGED cloud

\* Mutant of Configure: a listener that is there is reused, and so is its pool with
\* the members of the earlier build.
ConfigureReusing ==
    /\ LoopRuns /\ conf = "scheduled" /\ lb # "none"
    /\ conf' = "done" /\ lb' = "listening"
    /\ member' = member \cup Addresses({first})
    /\ UNCHANGED <<run, cmd, pc, task, victim, undeleted, outcome,
                   server, script, builtBy, vol, port, secgroup, keypair>>

\* configure awaits nothing: listener, pool and first member are one step of the
\* loop.  (LoadBalancer has its calls one by one.)
Configure ==
    /\ LoopRuns /\ conf = "scheduled" /\ lb = "bare"
    /\ conf' = "done" /\ lb' = "listening"
    /\ member' = Addresses({first})
    /\ UNCHANGED <<run, cmd, pc, task, victim, undeleted, outcome,
                   server, script, builtBy, vol, port, secgroup, keypair>>

\* The retries of a call are used up, with or without the listener and the member; or
\* the load balancer had a listener: `listeners[0].id` on a dict is an AttributeError.
ConfigureRaises ==
    /\ LoopRuns /\ conf = "scheduled"
    /\ conf' = "failed"
    /\ \/ UNCHANGED <<lb, member>>
       \/ lb = "bare" /\ lb' = "listening" /\ member' \in {{}, Addresses({first})}
    /\ UNCHANGED <<run, cmd, pc, task, victim, undeleted, outcome,
                   server, script, builtBy, vol, port, secgroup, keypair>>

-----------------------------------------------------------------------------
(* The cloud, and the death of the process.                                *)

VolumeSettles(r, h) ==
    /\ vol[r][h] = "creating"
    /\ \E s \in {"available", "error"} : vol' = [vol EXCEPT ![r][h] = s]
    /\ UNCHANGED <<process, server, script, builtBy, network>>

ServerSettles(h) ==
    /\ server[h] = "BUILD"
    /\ \E s \in {"ACTIVE", "ERROR"} : server' = [server EXCEPT ![h] = s]
    /\ UNCHANGED <<process, script, builtBy, vol, network>>

\* The volume was attached with delete_on_termination.
ServerGone(h) ==
    /\ server[h] = "deleting"
    /\ server' = [server EXCEPT ![h] = "none"]
    /\ vol' = [vol EXCEPT ![builtBy[h]][h] = "none"]
    /\ builtBy' = [builtBy EXCEPT ![h] = 0]
    /\ UNCHANGED <<process, script, network>>

\* kubeadm init gives up, or another command of the first master's script fails
\* (Bootstrap has where).  Nobody looks before the API server is polled.
ScriptDies ==
    /\ pc \in {"is_ready", "add_all_masters"} /\ script = "works"
    /\ script' = "dead"
    /\ UNCHANGED <<process, server, builtBy, vol, network>>

\* An interrupt, or an exception nobody catches (retries exhausted, HTTP error).
Die ==
    /\ pc # "idle"
    /\ End("died")
    /\ UNCHANGED cloud

-----------------------------------------------------------------------------
Build ==
    \/ SetupNetworking \/ CreateSshKeypair \/ GetOrCreateLB
    \/ FloatingIPUnavailable \/ FloatingIPNotAssociated
    \/ CreateMastersTasks \/ MasterExists \/ MastersGathered
    \/ CreateInitialNodes \/ NodeExists \/ NodesGathered
    \/ ConfigureFailed \/ IsReady \/ BulkUpdateMembers \/ BulkUpdateRefused
    \/ AllMastersAdded \/ ApplyAddons
    \/ \E h \in Host : GatherRaisesBuilderError(h) \/ GatherRaisesOther(h)
    \/ \E m \in Master : AddMaster(m)

Remove ==
    \/ GetInstances \/ InstancesDeleted \/ DeleteLB \/ DeleteSecgroup
    \/ DeleteVolumes \/ DeleteKeypair

Task(h) ==
    \/ CreateVolume(h) \/ CreateVolumeFails(h)
    \/ CreateServer(h) \/ CreateServerFails(h)
    \/ Booted(h) \/ BootFails(h)

Cloud(h) ==
    \/ ServerSettles(h) \/ ServerGone(h)
    \/ \E r \in Run : VolumeSettles(r, h)

Loop ==
    \/ Configure \/ ConfigureRaises
    \/ \E h \in Host : Task(h) \/ DeleteInstance(h) \/ DeleteInstanceFails(h)

Next ==
    \/ \E c \in {"apply", "destroy"} : Start(c)
    \/ Build \/ Remove \/ Loop
    \/ \E h \in Host : Cloud(h)
    \/ ScriptDies \/ Die

Spec == Init /\ [][Next]_vars

\* The main thread, every ready coroutine and the cloud make progress.  Nobody
\* has to start a command, and neither the process nor the script has to die.
Fairness ==
    /\ WF_vars(Build \/ Remove)
    /\ WF_vars(Configure \/ ConfigureRaises)
    /\ \A h \in Host :
          /\ WF_vars(Task(h)) /\ WF_vars(Cloud(h))
          /\ WF_vars(DeleteInstance(h) \/ DeleteInstanceFails(h))

FairSpec == Spec /\ Fairness

-----------------------------------------------------------------------------
(* What a build and a removal promise.                                     *)

\* A server runs on exactly the volume its own command made for it, and no
\* volume is in use by anything else: Instance.create books one volume per
\* server, and no host is ever booted a second time over a living one.
VolumesAttached ==
    \A h \in Host :
        /\ Exists(h) <=> builtBy[h] # 0
        /\ \A r \in Run : vol[r][h] = "in-use" <=> builtBy[h] = r

\* ClusterBuilder.run hands no worker to the loop before every master of the
\* same build has booted, whatever order the create tasks finish in.
WorkersAfterMasters ==
    \A w \in Worker : task[w] # "none" => \A m \in Master : task[m] = "done"

\* The masters that exist at any time come from one build: two builds carry two
\* CAs and two ssh keys, so a mixed control plane could never join.  This is what
\* the InstanceExists check of create_masters_tasks is for.
OneControlPlane ==
    \A m, n \in Master : Exists(m) /\ Exists(n) => builtBy[m] = builtBy[n]

\* While the build waits for the API server, the pool holds the first master's
\* address and nothing else: no address of an earlier build is left in a reused
\* load balancer, and no master that has not joined gets traffic.
PoolIsFirstMaster ==
    pc = "is_ready" => member = Addresses({first})

\* A build that reports success booted every host itself, serves exactly its own
\* masters' addresses, and the uploaded key pair is its own.
BuiltIsWhole ==
    outcome = "built" =>
        /\ \A h \in Host : server[h] \in {"ACTIVE", "ERROR"} /\ builtBy[h] = run
        /\ lb = "listening" /\ member = Addresses(Master)
        /\ Addresses(Host) \subseteq port
        /\ keypair = run

\* remove_cluster, after whatever earlier commands crashed on: no load balancer,
\* port, group or key pair is left, and no server but those on their way out and those
\* whose deletion raised (cli.py:66 does not look).  The one exception is the clean-up
\* after a BuilderError, which can leave servers of its own build (see NoServerSurvives).
RemovedIsGone ==
    outcome = "removed" =>
        /\ lb = "none" /\ member = {} /\ port = {} /\ ~secgroup /\ keypair = 0
        /\ \A h \in Host : \/ server[h] \in {"none", "deleting"}
                           \/ h \in undeleted
                           \/ cmd = "apply" /\ builtBy[h] = run

\* The clean-up of a failed build never deletes a master that an earlier build
\* left: a build that gets as far as failing made all the masters there are.
SparesOlderMasters ==
    [][\A m \in Master :
          server'[m] = "deleting" /\ server[m] # "deleting" /\ cmd = "apply"
              => builtBy[m] = run]_vars

\* What the pool at port 6443 promises its clients, through builds, failed builds,
\* their clean-up and removals.
API == INSTANCE APIPool
APIPoolSpec == API!Spec

\* Every command ends, unless it polls what will never come: a volume that went to
\* error, the API server of a first master that is in ERROR or whose script is dead, or
\* masters that will not become Ready for one of these reasons.  koris has no deadline.
Hopeless ==
    \/ pc \in {"gatherMasters", "gatherNodes"}
       /\ \E h \in Host : task[h] = "volume" /\ vol[run][h] = "error"
    \/ pc = "is_ready" /\ (script = "dead" \/ server[first] = "ERROR")
    \/ pc = "add_all_masters" /\ (script = "dead" \/ \E m \in Master : server[m] = "ERROR")
EveryCommandEnds == pc # "idle" ~> (pc = "idle" \/ Hopeless)

\* Whoever the process waits for answers, unless Hopeless: every coroutine of a gather
\* was started and has a volume to poll, the API server that is polled is behind the
\* load balancer, and a pool that is not full misses a master.
NeverWaitsInVain ==
    /\ pc = "gatherMasters" => \A m \in Master : task[m] # "none"
    /\ pc = "gatherNodes" => conf # "none" /\ \A h \in Host : task[h] # "none"
    /\ LoopRuns => \A h \in Host :
          task[h] = "volume" => vol[run][h] \in {"creating", "available", "error"}
    /\ pc = "is_ready" => <<run, first>> \in member /\ builtBy[first] = run
    /\ pc = "add_all_masters" => \/ Cardinality(member) >= Cardinality(Master)
                                 \/ \E m \in Master : <<run, m>> \notin member
    /\ pc \in {"is_ready", "add_all_masters"} =>
          \A m \in Master : server[m] \in {"ACTIVE", "ERROR"}

\* How far the main thread and a create task are.
Stage == [idle |-> 0, setup_networking |-> 0, create_ssh_keypair |-> 1, get_or_create |-> 2,
          create_masters_tasks |-> 3, gatherMasters |-> 4, create_initial_nodes |-> 5,
          gatherNodes |-> 6, is_ready |-> 7, bulk_update_members |-> 8, add_all_masters |-> 9,
          apply_addons |-> 10, get_instances |-> 11, deleteInstances |-> 12, deleteLB |-> 13,
          deleteSecgroup |-> 14, deleteVolumes |-> 15, deleteKeypair |-> 16]
Turn  == [none |-> 0, scheduled |-> 1, volume |-> 2, boot |-> 3, done |-> 4, BuilderError |-> 4,
          otherError |-> 4]

\* Another step of the process is done: the main thread's next one, a coroutine's, a
\* deletion, or a master more in the pool.  Nothing else goes back meanwhile.
Nearer ==
    \/ Stage[pc'] > Stage[pc]
    \/ /\ pc' = pc
       /\ \A h \in Host : task'[h] = task[h] \/ Turn[task'[h]] > Turn[task[h]]
       /\ conf' = conf \/ conf = "scheduled"
       /\ victim' \subseteq victim
       /\ pc = "add_all_masters" => member \subseteq member'
       /\ \/ task' # task \/ conf' # conf \/ victim' # victim
          \/ pc = "add_all_masters" /\ member' # member

\* No command goes round in circles, nor does the clean-up of a build that failed while
\* its coroutines run on: every step of a command counts, unless it ends it, and what
\* the cloud does takes none of them back.
EveryStepCounts ==
    [][pc # "idle" /\ pc' # "idle"
          => IF Build \/ Remove \/ Loop THEN Nearer ELSE UNCHANGED <<process, member>>]_vars

-----------------------------------------------------------------------------
(* Why they hold: the inductive invariant of ClusterBuildProofs.           *)

BuildPC == PC \ ({"idle"} \cup Cleanup)

\* Until the masters are looked at the process owns no task.
BeforeMasters == {"idle", "setup_networking", "create_ssh_keypair", "get_or_create",
                  "create_masters_tasks"}

\* A process has a number, builds only for apply, and tasks only after the check
\* of the masters; a destroy never has any.
ProcessInv ==
    /\ pc # "idle" => run \in Run /\ cmd \in {"apply", "destroy"}
    /\ pc \in BuildPC => cmd = "apply"
    /\ pc \in BeforeMasters \/ cmd # "apply" => task = NoTask /\ conf = "none"
    /\ victim # {} => pc = "deleteInstances"
    /\ outcome # "none" => pc = "idle"

\* A host whose create task has not booted it has no server.
Unbooted ==
    \A h \in Host : task[h] \in {"scheduled", "volume"} => ~Exists(h)

\* The volume a create task polls is there until the clean-up deletes what is left.
Polled ==
    pc # "deleteKeypair" => \A h \in Host :
        task[h] = "volume" => vol[run][h] \in {"creating", "available", "error"}

\* Once the masters were found missing, every master that exists is this build's.
MastersAreOurs ==
    cmd = "apply" /\ pc \notin BeforeMasters =>
        \A m \in Master : Exists(m) => builtBy[m] = run

\* Phases: the workers' turn comes when the masters are done, and the pool is
\* configured by the time the API server is awaited.
Phases ==
    /\ pc \in {"create_initial_nodes", "gatherNodes"} => \A m \in Master : task[m] = "done"
    /\ pc \in {"gatherMasters", "create_initial_nodes"} => conf = "none"
    /\ pc = "gatherMasters" => \A m \in Master : task[m] # "none"
    /\ pc = "gatherNodes" => conf # "none" /\ \A w \in Worker : task[w] # "none"
    /\ pc = "is_ready" => conf = "done"
    /\ pc \in {"gatherNodes", "is_ready"} /\ conf = "done" => member = Addresses({first})
    /\ pc \in {"is_ready", "bulk_update_members", "add_all_masters", "apply_addons"} => lb = "listening"

\* What a build has so far.  A task that is done stands for a server of this
\* build: nothing but the clean-up deletes one.
BuildSoFar ==
    /\ pc \in BuildPC \ {"setup_networking"} => secgroup
    /\ pc \in BuildPC \ {"setup_networking", "create_ssh_keypair"} => keypair = run
    /\ pc \in BuildPC \ BeforeMasters \/ pc = "create_masters_tasks" => lb # "none"
    /\ pc \in {"get_instances", "deleteInstances"} /\ conf # "none" => lb # "none"
    /\ pc \in BuildPC => \A h \in Host :
          /\ task[h] # "none" => <<run, h>> \in port
          /\ task[h] = "boot" => server[h] \in {"BUILD", "ACTIVE", "ERROR"} /\ builtBy[h] = run
          /\ task[h] = "done" => server[h] \in {"ACTIVE", "ERROR"} /\ builtBy[h] = run
    /\ pc \in {"is_ready", "bulk_update_members", "add_all_masters", "apply_addons"} =>
          \A h \in Host : task[h] = "done"
    /\ pc \in {"bulk_update_members", "add_all_masters"} =>
          <<run, first>> \in member /\ member \subseteq Addresses(Master)
    /\ pc = "apply_addons" => member = Addresses(Master)

\* What a removal has removed so far.
RemovedSoFar ==
    /\ port # {} => secgroup
    /\ member # {} => lb = "listening"
    /\ pc \in {"deleteSecgroup", "deleteVolumes", "deleteKeypair"} => lb = "none"
    /\ pc \in {"deleteVolumes", "deleteKeypair"} => ~secgroup
    /\ pc \in Cleanup \ {"get_instances"} => \A h \in Host :
          \/ server[h] \in {"none", "deleting"}
          \/ h \in victim \cup undeleted
          \/ cmd = "apply" /\ builtBy[h] = run

IInv ==
    /\ TypeOK /\ ProcessInv /\ Unbooted /\ Polled /\ MastersAreOurs /\ Phases
    /\ BuildSoFar /\ RemovedSoFar
    /\ VolumesAttached /\ OneControlPlane /\ WorkersAfterMasters
    /\ BuiltIsWhole /\ RemovedIsGone

-----------------------------------------------------------------------------
(* What the code says and does not keep.                                   *)

\* "Removing cluster ..." (openstack.py:260), "Delete a cluster from OpenStack"
\* (cli.py:55): the clean-up of a failed build leaves no server behind, even when no
\* deletion raises.
NoServerSurvives ==
    outcome = "removed" /\ undeleted = {} => \A h \in Host : server[h] \in {"none", "deleting"}
=============================================================================

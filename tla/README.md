# koris, specified

TLA+ models of koris, the command line tool that builds,
grows, shrinks and destroys Kubernetes clusters on OpenStack, the TLC runs that
check them and the TLAPS proofs about them.

koris keeps no state of its own but a config file: every command is a fresh
process that asks OpenStack and Kubernetes what there is, issues a long row of
remote calls, and may die between any two of them. The operator then runs the
next command on whatever is left. This is where the code can go wrong and where
no unit test looks, so it is what the modules are about.

## The system

| part | state | operations | made correct by |
|---|---|---|---|
| `ClusterBuilder.run` (cloud/builder.py), `Instance` (cloud/openstack.py) | an asyncio loop with one create task per host; servers, volumes, ports, key pair | `koris apply`: network, key pair, load balancer, masters, workers, wait for the API, pool | never two builds' masters together; one volume per server; success means complete |
| `remove_cluster` (cli.py) | the hosts still to delete | `koris destroy`, and the clean-up after a `BuilderError`, in the loop of the failed build | what it returns from is gone |
| `OSClusterInfo`, `OSNetwork`, `OSSubnet`, `OSRouter`, `SecurityGroup` (cloud/openstack.py) | attributes found in neutron or None | `__init__`, `setup_networking`, `configure` | nothing made twice, nothing left out |
| `koris add`, `koris delete node` (koris.py, cloud/builder.py, deploy/k8s.py) | config file, pool, Kubernetes nodes, etcd members | the calls of each command, in order | names unique, file and pool agree with the servers |
| `LoadBalancer` (cloud/openstack.py) | listeners, pools, members, health monitor | get_or_create, configure, add/del member, bulk update, delete; bounded, nested retries on 409 | the API pool holds reachable masters only |
| bootstrap scripts (provision/userdata) | etcd's growth, joined nodes | kubeadm init on the first master, serial join of the others over ssh, workers join with a token | quorum while etcd grows, every host joins or the script says so |
| `create_dex`, `create_oauth2` (deploy/dex.py) | two more listeners and pools on the same load balancer | listener, pool, members, monitor | success means both are there; the API pool stays its own |
| `retry` (util/util.py) | the tries left | around every change to octavia, twice around the deletion | the last refusal raises |
| zones, ssl, cloud-init, CLI | none that outlives a call | | |

The parts meet in the cloud: `apply` leaves servers and a pool that `destroy` and
`delete node` look up by name; the new server of an `add` joins etcd in its own
time while the next command already runs; the clean-up runs in the event loop of
the build that failed.

## Modules

`ClusterBuild.tla` — apply and destroy. The process is the main thread (`pc`), the
coroutine of each host (`task`) and of the load balancer's configuration (`conf`);
the cloud is `server`, `builtBy`, `vol`, `port`, `secgroup`, `lb`, `member`,
`keypair`. A step is the code between two points where another actor matters: an
`await`, a call that lets the loop run, or a remote effect that a crash must be
able to separate from the next. A task moves only while `run_until_complete` runs
(`LoopRuns`). `Instance.delete` and `LoadBalancer.configure` are coroutines
without an `await` and therefore single steps. A deletion may raise
(`DeleteInstanceFails`), before it asked nova, which leaves the server, or after, which
leaves the port: the error stays in its task, `asyncio.wait` (cli.py:66) re-raises
nothing and the removal goes on; the history variable `undeleted` keeps those hosts.
`script` says whether the first master's script lives, for which `IsReady` waits;
`ScriptDies` stands for all the ways `Bootstrap` has for it. `Die` ends the process
anywhere and drops its loop; the cloud stays. After a `BuilderError` the pending tasks are
kept, as `asyncio.gather` keeps them, and `remove_cluster` runs them on.

`Networking.tla` — the network of a cluster, one neutron call per action, with
the lookup of `__init__` that forgets everything when one part is missing. `rules` is
the set of security rules there are: a setup adds them in order, a destroy deletes
them in any order and then the group, and each may die on the way.

`Scaling.tla` — add, delete node and destroy after a finished apply, one call per
action. `Join` is the new server's own `kubeadm join`, at any later time. A server nova
was asked to delete runs no longer, but is `deleting` and found by its name until `Gone`:
it counts for the last name, a second delete may find it, and a deleted master without an
address stops one (`InstanceMissing`). API calls need etcd's quorum. What goes wrong
unnoticed is kept in history variables: `refused` (etcdctl's answer, which
`remove_from_etcd` does not read), `undeleted` (deletions of a destroy that raised) and
`again` (deletes that met a dying server). `NameOrder` is the order of host numbers as
strings.

`APIPool.tla` — the abstract specification: what the clients of port 6443 may rely
on, from the load balancer and the addresses in its API pool alone. The pool opens
with one first master, grows by masters of the same build only, and empties when the
load balancer goes. `ClusterBuild` and `LoadBalancer` instantiate it with a refinement
mapping (`APIPoolSpec`); `ClusterBuild` looks at it as a part of all that a build
does, `LoadBalancer` call by call.

`LoadBalancer.tla` — every call to octavia of an apply (the API server, Dex, the
ingress controller) and of a destroy. `pc` names the call, `svc` the listener that is
set up, `rest` the members still to add. Octavia keeps `lb` (the provisioning status),
`listener`, `pool`, `monitor`, `members`, and `pool0`, the pool its list begins with.
It accepts a change when it is ACTIVE, is PENDING until `Settles`, and refuses
otherwise: `Retry` counts, `GiveUp` is the last try, made outside of the `try`.
`create_dex` and `create_oauth2` await nothing, so they run one after the other,
and an exception of the first surfaces after the second (`failed`). The pairs
address and service in `members` stand for address and port. `monitor` is the pools with
a health monitor; whether a bulk update adds one, as its docstring says (openstack.py:817),
is left open, and no property depends on it. `dying` is a second load
balancer of the same name on its way out.

`Bootstrap.tla` — the birth of a control plane, after nova has made the servers. Three
parties: the script of the first master (`pc`, `i`: kubeadm init, secrets, then one
master after the other over ssh), the workers' own scripts, and koris (`kpc`), which
fills the pool the others reach the API through. `kube[m]` is what a master's
directories hold: nothing, the keys the script copied, or the rest of a failed
join. A join that fails may have added its member to etcd, started it, or neither;
`kubeadm reset` takes the member out only if etcd lets it. A worker's script runs under
`set -e` too: a `kubeadm reset` that fails between two of its joins ends it
(`WorkerDies`, `lost`).

`EtcdGrowth.tla` — the abstract specification of that growth: what "in a serial manner"
promises of etcd, whatever joins fail. A master becomes a member when all members have been
seen to run; until it has been seen itself it may start, be taken out or hang on
dead. `Bootstrap` instantiates it (`SerialGrowth`) with the members of etcd and, as those
seen to run, the masters before the one the loop is at.

`MCClusterBuild`, `MCLoadBalancer` and `MCBootstrap` give names to the hosts; the other
two run as they are. `ClusterBuildProofs`, `LoadBalancerProofs`, `BootstrapProofs`,
`EtcdGrowthProofs`, `NetworkingProofs` and `ScalingProofs` hold the theorems.
Operators named as a mutant in their comment are wrong variants of the action that
follows them; no specification uses them, they show which mistake each property notices.

## Runs

| run | bounds | question | result |
|---|---|---|---|
| `build` | 3 masters, 1 worker, 2 commands, symmetry on the other masters | do the inductive invariant and the promises of build and removal hold in every interleaving with crashes and failed deletions, does every step count, and is APIPool implemented? | yes |
| `reruns` | 1 master, 1 worker, 3 commands, fair | does every command end, also when a worker alone survived a destroy that died? | yes, except the three hopeless polls |
| `cleanup_boots` | 3 masters, 1 command | does "Removing cluster" leave no server? | no |
| `loadbalancer` | 3 masters, 0 or 1 worker, with and without Dex, 3 commands, few tries, fair | what has a build that ends and a removal that ends done to the load balancer; is APIPool implemented; does each step count and every command end? | yes |
| `dex_pool` | 3 masters, 1 worker, Dex, 1 command | is the API pool the one that gets all masters? | no |
| `bootstrap` | 5 masters, 1 worker, fair | does etcd keep its majority while it grows, is a finished script's work whole, is EtcdGrowth implemented, does every worker whose script lives join, and koris end? | yes |
| `networking` | 3 rules, 4 commands | no resource twice, a setup is whole, a second one changes nothing | yes |
| `router_unwired` | 2 rules, 2 commands | is the router wired whenever a setup returns? | no |
| `scaling` | 2 masters, 1 worker, numbers to 4, 3 commands | names, config file, pool and servers agree, with nova slow and errors unseen; the server goes last | yes |
| `tenth_node` | 9 workers, 2 commands | are names unique past nine? | no |
| `destroy_leaks` | 1 master, 2 workers, 2 commands | is nothing left after a destroy? | no |
| `etcd_keeps_deleted` | 2 masters, 1 worker, 3 commands | is a deleted master out of etcd? | no |

Bounds. Three masters are the smallest control plane with an order among those
that are not first; it takes two commands for one to meet what another left, and
three (`reruns`) to have workers without masters: build, destroy half-way, build.
`MaxRuns` is the only bound that cuts behaviours; the proofs are for all values of
it. With three rules an interrupted setup or destroy leaves any part of them, also one with
a gap. In
`scaling` a host number stays below ten, where the order of names is the order of
numbers; `tenth_node` is the other case. Three commands there are one that makes or
removes a host, one that is cut short, and one that meets what they left.
`loadbalancer` takes three commands, because it takes a build, a destroy that leaves a
load balancer in PENDING_DELETE and a build that meets it to have two of one name. Its
tries are 2, and 2 within 2 for the deletion (`FewTries`), for the code's
20 (listener), 30 (pool), 24 (member, monitor), 5 (bulk) and 25 within 10 (delete):
what matters is one refusal that is retried and one that is not, and the proofs are for
any numbers. `bootstrap` takes five masters: with three, the API server's own quorum
hides a script that does not wait for a member to start, for the next join finds
no majority and fails; with five, two members may be missing. The runs of
`ClusterBuild`, `LoadBalancer` and `Scaling` stop after `MaxRuns` commands and that of
`Bootstrap` when its parties are done or wait for an etcd that never answers again,
hence `CHECK_DEADLOCK FALSE`.

Symmetry is used in `build` only, which checks no liveness. `VolumeSettles`, `ServerSettles`, `ServerGone`,
`ScriptDies` and `Die` are the environment.

Fairness (`FairSpec`). `ClusterBuild`: the main thread continues, because it only ever waits for
its loop or polls; each coroutine is scheduled, because asyncio's loop is a FIFO of
ready callbacks and every wait is a timer; OpenStack settles each volume and
server. No fairness for `Start` (an operator may stop), `Die` or `ScriptDies`. `Hopeless`
names the three polls without a way out: `vol.status != 'available'` (openstack.py:219)
for a volume in error, the wait for the API server (builder.py:612) when the first
master is in ERROR or its script is dead, and the wait for all masters to be Ready
(k8s.py:297) when one is in ERROR or that script is dead.

`LoadBalancer`: the process continues (every call is synchronous, with a bounded number
of tries), octavia finishes each change, in one way or the other, and each deletion.
That the API server answers once it is in the pool is assumed there and is the
subject of `Bootstrap`. `Bootstrap`: weak fairness for the script, for koris, whose polls
and calls follow one another, for hosts that boot
and for an etcd that kubeadm started. Joins need strong fairness: they are tried in a
loop for ever (`until add_master`, `until join`) while the cluster may be out of reach in
between, and what one try finds another may not. `EveryHostJoins` asks that, once
kubeadm init has succeeded, a member of a failed join does not stay in etcd for ever,
which nothing in the script ensures. When init times out nothing is asked: the script is
dead, and what koris then does is the third poll above. `Dies`, `KorisRaises` and `WorkerDies` are
not fair, and none is excluded.

## Where code and text disagree

1. The masters' addresses go to the pool octavia lists first (`default_pool`), with
   Dex one of three; the log says that the load balancer uses all API servers
   (`dex_pool`). `BuiltAnswers` says what does hold: the first master is reachable.
2. The clean-up of a failed build resumes the create tasks that were pending; a
   server booted after the lookup survives (`cleanup_boots`). `RemovedIsGone` says
   what does hold: only servers of that very build can survive, and, in any removal, those
   whose deletion raised.
3. `setup_networking` promises to check before creating, but a router cut short
   between creation and wiring is taken as complete for ever (`router_unwired`).
4. `get_server_range` promises the last server name; from ten on it is not
   (`tenth_node`).
5. The docs' way "to completely remove" a cluster misses servers after a
   `delete node` of any host but the last (`destroy_leaks`). When only last hosts are
   deleted, no command is cut short and none meets a server nova is still deleting, a
   destroy is complete but for deletions that raised (`DestroyCleansUp`, proved).
6. A master deleted while it joins stays an etcd member (`etcd_keeps_deleted`). One that
   joined before leaves, unless etcd refused (`JoinedMasterLeavesEtcd`, proved).

Met while modelling, without a run of their own:

- "Delete a cluster from OpenStack" (cli.py:55): an error of `Instance.delete` other than
  NotFound is never seen, `koris destroy` goes on and ends as if it had worked
  (`DeleteInstanceFails`). The promises above except what such an error leaves.
- "Don't change config if Instance wasn't deleted from OpenStack" (koris.py:358): a second
  `delete node` that finds a server nova is still deleting lowers the count again.
  `ConfigCounts` says by how much the file is off: once for each such delete. For the
  same reason an add right after a delete of the last host skips its number.
- `remove_from_etcd` logs "Removed '%s' from etcd" (k8s.py:543) without a look at what
  etcdctl answered (536), and the delete takes the server away (`RemovalRefused`).
- The docstring of `bulk_update_members` (openstack.py:817) says OpenStack adds a health
  monitor by itself; `configure` and Dex, which fill their pools by `add_member`, add one by
  a call of their own, the ingress pools get none but by this. The model allows both.
- koris polls the API server of a first master whose script has failed for ever
  (builder.py:612), while it prints dots.
- builder.py:196 announces "Skipping creation of the cluster", but a worker that exists
  is noticed after all masters were launched.
- koris logs "Waiting for all masters to become Ready ..." (builder.py:619) and waits for
  nothing, then "Kubernetes cluster is ready to use !" (635), even when the script of the
  first master is dead.
- A load balancer that has a listener makes `configure` raise AttributeError
  (openstack.py:515: the listeners of a load balancer are dicts): the reuse that
  openstack.py:514-516 is written for never succeeds (`ConfigureRaises`).
- `check_floating_ip_availability` exits when the address is ACTIVE, which it is when it
  belongs to the very load balancer that is reused (`FloatingIPUnavailable`).
- `delete` looks for 'DELETE' in the operating status (openstack.py:663), where
  octavia never has it; the deletion of a load balancer in PENDING_DELETE is retried
  until it is gone.
- `get_or_create` makes a new load balancer beside one in PENDING_DELETE, and every lookup
  by name raises until the old one is gone (`FoundTwo`).
- Without workers the pool of the OAuth2 client has no members and raises
  ValidationError (`DexRaises`).
- `(fetch_all && break; sleep 30)` in the node's script breaks the subshell only; `ssh
  ${USER}@1` (bootstrap-k8s-master, line 378) names no host, so the packages are always
  installed again; the nth-master script joins once, without a retry.

## Proofs

`ClusterBuildProofs` proves, for any finite sets of hosts with an odd number of
masters (`HostsAssumption`: ClusterBuilder refuses an even one) and any number of
commands, that `IInv` is inductive, and from it every safety property of the run
`build`. The properties alone are not inductive. `OneControlPlane` needs to know
that, once the masters were found missing, every master is this build's
(`MastersAreOurs`), which needs that no task outlives its process (`ProcessInv`)
and that a task before its boot has no server (`Unbooted`). `BuiltIsWhole`
accumulates along the phases of the build (`Phases`, `BuildSoFar`), `RemovedIsGone`
along those of the removal (`RemovedSoFar`). That the pool is full when as many
members as masters are in it is a lemma on cardinalities (`FullPool`). The step
lemma has one step per action; `SparesOlderMasters` follows from `MastersAreOurs`,
because only `DeleteInstance` marks a server.

Why a command ends. `EveryCommandEnds` is liveness, and TLC checks it; what it rests on
is safety, checked and proved for every set of hosts and every number of commands and
tries, in `ClusterBuildProofs` and `LoadBalancerProofs`. `EveryStepCounts`: a step of
the process is a later stage, a coroutine's next turn, one server, address or try
less, or the end (`Nearer`), and nothing the cloud does meanwhile takes one back. All
of these are bounded, so a command takes finitely many steps of its own.
`NeverWaitsInVain`: where the process waits, what it waits for can still come. A
gather has started each of its coroutines, the API server that is polled is behind the
load balancer, a pool with fewer members than masters misses one of the masters (a
lemma on cardinalities, `MissesOne` and `OnePerMaster`), octavia has what it is
asked to change. In `ClusterBuild` that needs `Polled`, which ties the volume a
coroutine polls and the servers `is_ready` counts on to the phase; in `LoadBalancer` a
loop over members that never starts without one. What is left to TLC is
the inference from "each step counts, none is in vain" and fairness to "it ends".

`NetworkingProofs` proves `IInv` of the networking for every number of rules and
commands, with `NoDuplicates` and `SetupIsWhole`. The invariant ties each attribute
`__init__` may have found to the resource it stands for, and says that a router
is wired unless somebody is wiring it or died doing so. That a second setup changes
nothing (`Idempotent`) takes one part more: only a router without a gateway is ever
being wired. For a complete network `ReadCloud` then finds every part, and each
get-or-create keeps what it found (`CompleteStays`).

`ScalingProofs` proves for every number of hosts and commands that a delete takes
a master's server away only after its pool member (`ServerGoesLast`), from the
order of its calls (`DeleteOrder`), and the types of the state. The other three
properties need the order of names to be the order of numbers (`tenth_node` is why), so they
are proved of every behaviour in which the servers there are have numbers of one digit
(`[]OneDigit`), whatever bound host numbers have, and with them of every system whose host
numbers end before ten (`InvariantOfSmallClusters`). The step lemma asks for one digit
before the step only: the hosts that an add makes from nine on are still new. `IInv` says how far names, file and pool are ahead of the servers
while a command is at work: `NamesInv` that the hosts an add still has to make are
new (`NewHosts`: the last of the names is the greatest number), `CountsInv` that file and
servers differ by what the add has made or the delete has taken, a statement on
cardinalities, and `PoolInv` that the pool lacks exactly the master at hand.
A server nova is still deleting counts for the names and not for the file and the pool;
the file is off by `again`.
All three speak of a cluster where nothing was cut short (`Whole`), and only a
destroy or a death ends that (`WholeStep`). Two theorems say when the promises hold that `destroy_leaks` and
`etcd_keeps_deleted` refute. `DestroyCleansUp`: while each delete names the last host of its
role (`OnlyLastDeleted`) and no add or delete starts on servers nova is still deleting
(`NovaIsDone`), the numbers of the servers run from 1 to the count in the
file, with what an add is making included (`NoGaps`), so that the names destroy looks for
are those of all servers; what it leaves is dying or its deletion raised.
`JoinedMasterLeavesEtcd`: only an add lets a host boot and only a
booting host joins, so a master that was taken out of etcd after it joined
(`JoinedBefore`) stays out (`LeftEtcd`), if etcd did not refuse. Neither has a run, for the runs' specification does not restrict the
operator.

`LoadBalancerProofs` proves, for every odd number of masters, any set of workers, any
number of tries and commands, that `IInv` is inductive. `StageInv` says which listeners,
pools and monitors (but those of the ingress, which a bulk update may add) there are at
each stage of a build, in the order of `run()`; `MemberInv`
what their members are; `OctaviaInv` that they hang on each other. What a build that
ends has done and that a removal that returns has removed something follow from the
last stage. A refusal leaves every stage as it is, and giving up ends the command or, in
`create_dex`, sets `failed`, which `AllConfigured` does not pass. Between them `StageInv`
and `MemberInv` also bound what is left to do: `rest` holds addresses of this build's masters
that are not in the pool, which is what makes an added member count.

`BootstrapProofs` proves for every odd number of masters that all members of etcd but the
one at hand run (`GrowthInv`), hence that from three on they keep the majority
(`MajorityRuns`, a lemma on cardinalities), and that a script that ends is done with every
master (`FinishedIsWhole`).

Refinement: `ImplementsAPIPool` in `ClusterBuildProofs` and `LoadBalancerProofs` shows that
the initial states map to APIPool's and that each step maps to one of its steps or
a stutter. It needs the invariants: that the pool is empty where `configure` opens it,
and that only addresses of the build at work are added. `GrownSerially` in
`BootstrapProofs` does the same for EtcdGrowth: a master is
settled where the loop leaves it (`MakeSecrets` for the first, `WaitForEtcd` for the others), a join that works or fails in any of its ways is an `Add`, a
reset is a `Withdraw`, and the loop only ever touches the master at hand. `EtcdGrowthProofs`
shows what that is worth, of the abstract specification alone: one member at most is
unsettled (`GrowthIsSerial`), the majority holds from three members on
(`MajorityIsKept`, for finitely many masters), and a member that was seen to run stays and
runs (`SettledMembersStay`, the action property). So `MajorityRuns` holds of `Bootstrap` by the
order of its joins alone.

Assumptions of the theorems: the named assumptions on the constants of each module, that
the first master is a master (`EtcdGrowthProofs`), and, in `ScalingProofs`, what a theorem's statement supposes of the behaviour
(`[]OneDigit`, `OnlyLastDeleted`, `[]NovaIsDone`, `[]JoinedBefore`).

Only model-checked: liveness under fairness, `EveryCommandEnds` and `EveryHostJoins`, for
the provers know neither ENABLED nor fairness. Of the first the safety part is proved, as
above. The second also rests on joins that succeed some time (strong fairness) and on
members that do not stay dead, which no step of the script ensures.

## Not modelled

Certificates, manifests, argument parsing and logging have no protocol; of the user data
only the list of masters matters (`MASTERS`). `distribute_host_zones` is a pure function of
its arguments and is left to tests. The scripts' installation of packages, their
bare-metal path (`join_all_hosts`) and the deployment of the network plugin are left out
of `Bootstrap`, and so is the expiry of the bootstrap token, a day after kubeadm init.
A master that an `add` makes joins in `Scaling`, by its own script, and not while the first
script is at work. `ClusterBuild` leaves Dex and the ingress to `LoadBalancer`, which in
turn takes the masters as made in one step. Names are atomic: two clusters in one project whose names
share a prefix (cli.py:87, builder.py:38) are out of the models. One operator runs
one command at a time. Volumes: the removal leaves those that are in use or still
being created, and no property claims otherwise. That `pod_network` is optional at
builder.py:539 and mandatory at 561 is one of the ways to `Die`.
`Scaling` leaves out the volumes and ports of the servers it adds; they are in
`ClusterBuild`, whose `Instance.create` it shares.

## Plan

1. `Scaling` with two operators, each with a config file of its own, and with what
   `ClusterBuild` leaves as its initial states.
2. Two clusters in one project, one's name the beginning of the other's: the prefix match of
   servers and the substring match of volumes.
3. `Bootstrap` with a master that joins by its own script while the first script grows
   etcd, and with tokens that expire.
4. `distribute_host_zones` as a function against its definition (every host once, zones
   balanced).

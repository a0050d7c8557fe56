----------------------------- MODULE Networking -----------------------------
(***************************************************************************)
(* OSClusterInfo: how `koris apply` finds or creates the network, subnet,  *)
(* router and security group of a cluster, one OpenStack call at a time,   *)
(* when processes die between two calls and the operator applies again.    *)
(* `koris destroy` deletes the security group, rule by rule, and keeps the *)
(* rest.                                                                   *)
(***************************************************************************)
EXTENDS Integers

CONSTANTS Rules,     \* how many rules SecurityGroup.configure adds
          MaxRuns    \* bound on the number of commands
ASSUME NetworkingAssumption == Rules \in Nat /\ MaxRuns \in Nat

VARIABLES
    \* the process
    run,        \* how many commands were started
    pc,         \* the next call of the current one
    found,      \* the attributes net, subnet, router, secgroup that are not None
    next,       \* how many rules configure has added
    cut,        \* history: a process died between create_router and update_router
    \* neutron
    nets, subnets, routers, groups,     \* how many of each carry the cluster's name
    routerPort, interface, gateway,     \* what the router has: its port made, attached;
                                        \* its external gateway set
    rules,      \* the rules the group holds, numbered as configure adds them
    extNet      \* an external network exists

process == <<run, pc, found, next, cut>>
router  == <<routers, routerPort, interface, gateway>>
neutron == <<nets, subnets, router, groups, rules, extNet>>
vars    == <<process, neutron>>

PC == {"idle", "init", "net", "subnet", "get_router", "create_port", "add_interface",
       "update_router", "secgroup", "configure", "done", "delete_group"}
Wiring == {"create_port", "add_interface", "update_router"}
Attribute == {"net", "subnet", "router", "secgroup"}

TypeOK ==
    /\ run \in 0..MaxRuns /\ pc \in PC /\ found \in SUBSET Attribute
    /\ nets \in Nat /\ subnets \in Nat /\ routers \in Nat /\ groups \in Nat
    /\ routerPort \in BOOLEAN /\ interface \in BOOLEAN /\ gateway \in BOOLEAN
    /\ extNet \in BOOLEAN
    /\ rules \in SUBSET (1..Rules) /\ next \in 0..Rules /\ cut \in BOOLEAN

\* The operator may have made the network, or network and subnet, beforehand.
Init ==
    /\ run = 0 /\ pc = "idle" /\ found = {}
    /\ nets \in {0, 1} /\ subnets \in {0, nets}
    /\ routers = 0 /\ routerPort = FALSE /\ interface = FALSE /\ gateway = FALSE
    /\ groups = 0 /\ rules = {} /\ next = 0 /\ cut = FALSE
    /\ extNet \in BOOLEAN

-----------------------------------------------------------------------------
Apply ==
    /\ pc \in {"idle", "done"} /\ run < MaxRuns
    /\ run' = run + 1 /\ pc' = "init" /\ found' = {} /\ next' = 0
    /\ UNCHANGED <<cut, neutron>>

\* The end of a destroy, as far as neutron is concerned.
Destroy ==
    /\ pc \in {"idle", "done"} /\ run < MaxRuns
    /\ run' = run + 1 /\ pc' = "delete_group" /\ found' = {} /\ next' = 0
    /\ UNCHANGED <<cut, neutron>>

\* In the order neutron lists them.
DeleteRule(r) ==
    /\ pc = "delete_group" /\ r \in rules
    /\ rules' = rules \ {r}
    /\ UNCHANGED <<run, pc, found, next, cut, nets, subnets, router, groups, extNet>>

\* neutron refuses while a port is in the group: an error nobody catches, and Die.
DeleteGroup ==
    /\ pc = "delete_group" /\ rules = {} /\ pc' = "idle"
    /\ groups' = 0
    /\ UNCHANGED <<run, found, next, cut, nets, subnets, router, rules, extNet>>

\* Mutant of ReadCloud: once the network is found, a missing subnet is not noticed.
ReadCloudByNet ==
    /\ pc = "init"
    /\ nets > 0 => extNet
    /\ found' = (IF nets > 0 THEN {"net", "subnet"} ELSE {})
    /\ pc' = "net"
    /\ UNCHANGED <<run, next, cut, neutron>>

\* __init__ looks everything up; a missing network, subnet or group raises
\* inside the try and resets every attribute.  A missing router does not.
ReadCloud ==
    /\ pc = "init"
    /\ nets > 0 => extNet
    /\ found' = IF nets > 0 /\ subnets > 0 /\ groups > 0
                THEN Attribute \ (IF routers = 0 THEN {"router"} ELSE {})
                ELSE {}
    /\ pc' = "net"
    /\ UNCHANGED <<run, next, cut, neutron>>

\* Nothing that OSRouter's constructor raises is caught.
NoExternalNetwork ==
    /\ ~extNet
    /\ \/ pc = "init" /\ nets > 0
       \/ pc = "get_router" /\ "router" \notin found
    /\ pc' = "idle" /\ found' = {}
    /\ UNCHANGED <<run, next, cut, neutron>>

\* Mutant of GetOrCreateNet: create whenever the attribute is None.
CreateNet ==
    /\ pc = "net" /\ pc' = "subnet"
    /\ nets' = IF "net" \notin found THEN nets + 1 ELSE nets
    /\ found' = found \cup {"net"}
    /\ UNCHANGED <<run, next, cut, subnets, router, groups, rules, extNet>>

GetOrCreateNet ==
    /\ pc = "net" /\ pc' = "subnet"
    /\ nets' = IF "net" \in found \/ nets > 0 THEN nets ELSE 1
    /\ found' = found \cup {"net"}
    /\ UNCHANGED <<run, next, cut, subnets, router, groups, rules, extNet>>

GetOrCreateSubnet ==
    /\ pc = "subnet" /\ pc' = "get_router"
    /\ subnets' = IF "subnet" \in found \/ subnets > 0 THEN subnets ELSE 1
    /\ found' = found \cup {"subnet"}
    /\ UNCHANGED <<run, next, cut, nets, router, groups, rules, extNet>>

\* A router of that name, in whatever state, is taken as it is.
UseRouter ==
    /\ pc = "get_router"
    /\ "router" \in found \/ (extNet /\ routers > 0)
    /\ pc' = "secgroup" /\ found' = found \cup {"router"}
    /\ UNCHANGED <<run, next, cut, neutron>>

CreateRouter ==
    /\ pc = "get_router" /\ "router" \notin found
    /\ extNet /\ routers = 0
    /\ routers' = routers + 1
    /\ pc' = "create_port"
    /\ UNCHANGED <<run, found, next, cut, nets, subnets, routerPort, interface, gateway, groups, rules,
                   extNet>>

CreatePort ==
    /\ pc = "create_port" /\ pc' = "add_interface"
    /\ routerPort' = TRUE
    /\ UNCHANGED <<run, found, next, cut, nets, subnets, routers, interface, gateway, groups, rules, extNet>>

AddInterface ==
    /\ pc = "add_interface" /\ pc' = "update_router"
    /\ interface' = TRUE
    /\ UNCHANGED <<run, found, next, cut, nets, subnets, routers, routerPort, gateway, groups, rules, extNet>>

UpdateRouter ==
    /\ pc = "update_router" /\ pc' = "secgroup"
    /\ gateway' = TRUE /\ found' = found \cup {"router"}
    /\ UNCHANGED <<run, next, cut, nets, subnets, routers, routerPort, interface, groups, rules, extNet>>

\* Mutant of GetOrCreateGroup: a group is made without looking for one.
CreateGroup ==
    /\ pc = "secgroup" /\ pc' = "configure"
    /\ groups' = groups + 1
    /\ found' = found \cup {"secgroup"}
    /\ UNCHANGED <<run, next, cut, nets, subnets, router, rules, extNet>>

\* By name, once again, whether or not __init__ found it; its rules are configured
\* every time.
GetOrCreateGroup ==
    /\ pc = "secgroup" /\ pc' = "configure"
    /\ groups' = IF groups = 0 THEN 1 ELSE groups
    /\ found' = found \cup {"secgroup"}
    /\ UNCHANGED <<run, next, cut, nets, subnets, router, rules, extNet>>

\* Mutant of AddRule: a rule that exists ends configure.
AddRuleOrStop ==
    /\ pc = "configure" /\ next < Rules
    /\ next' = IF next + 1 \in rules THEN Rules ELSE next + 1
    /\ rules' = rules \cup {next + 1}
    /\ UNCHANGED <<run, pc, found, cut, nets, subnets, router, groups, extNet>>

\* configure adds every rule again; a conflict means that an earlier process
\* added it and none has deleted it.
AddRule ==
    /\ pc = "configure" /\ next < Rules
    /\ next' = next + 1
    /\ rules' = rules \cup {next + 1}
    /\ UNCHANGED <<run, pc, found, cut, nets, subnets, router, groups, extNet>>

Configured ==
    /\ pc = "configure" /\ next = Rules /\ pc' = "done"
    /\ UNCHANGED <<run, found, next, cut, neutron>>

\* The process dies: interrupted, or a call failed.
Die ==
    /\ pc \notin {"idle", "done"}
    /\ pc' = "idle" /\ found' = {}
    /\ cut' = (cut \/ pc \in Wiring)
    /\ UNCHANGED <<run, next, neutron>>

\* Somebody else's: an external network appears or goes.
ExternalNetworkChanges ==
    /\ extNet' = ~extNet
    /\ UNCHANGED <<process, nets, subnets, router, groups, rules>>

SetupNetworking ==
    \/ ReadCloud \/ NoExternalNetwork
    \/ GetOrCreateNet \/ GetOrCreateSubnet
    \/ UseRouter \/ CreateRouter \/ CreatePort \/ AddInterface \/ UpdateRouter
    \/ GetOrCreateGroup \/ AddRule \/ Configured

DeleteSecgroup == DeleteGroup \/ \E r \in 1..Rules : DeleteRule(r)

Next ==
    \/ Apply \/ SetupNetworking \/ Destroy \/ DeleteSecgroup
    \/ Die \/ ExternalNetworkChanges

Spec == Init /\ [][Next]_vars

-----------------------------------------------------------------------------
RouterWorks == interface /\ gateway

\* However often the operator applies, destroys and is interrupted, no resource is
\* made twice: every creation is behind a lookup by name, whatever __init__ forgot.
NoDuplicates == nets <= 1 /\ subnets <= 1 /\ routers <= 1 /\ groups <= 1

\* A setup that returns has all resources and every rule, those an interrupted
\* setup left out and those an interrupted destroy deleted included; the router is wired
\* unless a process died wiring it.
SetupIsWhole ==
    pc = "done" =>
        /\ nets = 1 /\ subnets = 1 /\ routers = 1 /\ groups = 1
        /\ rules = 1..Rules
        /\ RouterWorks \/ cut

\* Applying to a complete network changes nothing in neutron.
Complete == nets = 1 /\ subnets = 1 /\ routers = 1 /\ RouterWorks /\ groups = 1 /\ rules = 1..Rules
Idempotent ==
    [][Complete /\ pc \notin {"idle", "done", "delete_group"}
          => UNCHANGED <<nets, subnets, router, groups, rules>>]_vars

\* "This function is ephemeral, as it checks if the resources are existing, before
\* creating them" (openstack.py:1380): after a setup that returned the router
\* connects the subnet, whatever happened to earlier runs.
RouterIsWired == pc = "done" => RouterWorks

-----------------------------------------------------------------------------
\* Why they hold.  The counters tell how far the current process is, and a router
\* that nobody is wiring is wired unless its maker died; one that is being wired has
\* no gateway, so nobody wires the router of a complete network.
IInv ==
    /\ TypeOK /\ NoDuplicates
    /\ "net" \in found \/ pc \in PC \ {"idle", "delete_group", "init", "net"} => nets = 1
    /\ "subnet" \in found
         \/ pc \in PC \ {"idle", "delete_group", "init", "net", "subnet"} => subnets = 1
    /\ "router" \in found
         \/ pc \in Wiring \cup {"secgroup", "configure", "done"} => routers = 1
    /\ "secgroup" \in found \/ pc \in {"configure", "done"} => groups = 1
    /\ pc \in PC \ {"idle", "configure", "done"} => next = 0
    /\ pc = "configure" => 1..next \subseteq rules
    /\ pc = "done" => rules = 1..Rules
    /\ pc = "update_router" => interface
    /\ pc \in Wiring => ~gateway
    /\ routers = 0 => ~interface /\ ~gateway /\ ~routerPort
    /\ routers = 1 => RouterWorks \/ cut \/ pc \in Wiring
    /\ groups = 0 => rules = {}
    /\ pc = "delete_group" => found = {}
=============================================================================

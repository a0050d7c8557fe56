---------------------------- MODULE LoadBalancer ----------------------------
(***************************************************************************)
(* The load balancer of a cluster, call by call: what `koris apply` asks   *)
(* of octavia for the API server, for Dex and for the ingress controller,  *)
(* and how `koris destroy` deletes it.  Octavia refuses every change (409) *)
(* while it works on the last one; each call is retried a bounded number   *)
(* of times and then raises.                                               *)
(***************************************************************************)
EXTENDS Integers, FiniteSets

CONSTANTS Master, first,  \* the masters; kubeadm init runs on the first
          Worker,         \* the workers of a cluster that has any
          DexChoices,     \* subset of BOOLEAN: may the config file ask for Dex?
          Tries,          \* Tries[op]: the tries of that call's @retry
          OuterTries,     \* the tries of delete, which wraps those of _del_loadbalancer
          MaxRuns         \* bound on the number of commands

\* The calls that are retried.  In the code listener 20, pool 30, member 24,
\* monitor 24, bulk 5, delete 25 within 10.
Op == {"listener", "pool", "member", "monitor", "bulk", "delete"}

ASSUME LBAssumption ==
    /\ first \in Master /\ Master \cap Worker = {}
    /\ Cardinality(Master) % 2 = 1     \* ClusterBuilder exits on an even count
    /\ IsFiniteSet(Master) /\ IsFiniteSet(Worker)
    /\ DexChoices \subseteq BOOLEAN
    /\ Tries \in [Op -> Nat \ {0}] /\ OuterTries \in Nat \ {0}
    /\ MaxRuns \in Nat

Run     == 1..MaxRuns
Host    == Master \cup Worker
Address == Run \X Host    \* every build gives its hosts new ports and addresses

\* A listener and its pool, named for what listens there.  A member of a pool is an
\* address with the port of one of them.
Ingress == {"http", "https"}
Dex     == {"dex", "oauth2"}
Service == {"API"} \cup Dex \cup Ingress

VARIABLES
    \* the process
    run,      \* how many commands were started
    pc,       \* its next step, or the octavia call it makes
    svc,      \* the listener it is setting up
    rest,     \* the addresses still to be added to svc's pool
    tried,    \* how often the call was refused
    dex,      \* the config file asks for Dex
    workers,  \* the workers in the config file
    failed,   \* create_dex has raised
    outcome,  \* how the last command ended
    \* octavia, and nova
    lb,       \* provisioning status of the load balancer
    dying,    \* another one of its name is being deleted
    listener, \* services that have a listener
    pool,     \* services whose listener has a pool
    pool0,    \* whose pool octavia lists first
    monitor,  \* services whose pool has a health monitor
    members,  \* members[s]: the members of s's pool
    up        \* addresses of the servers

process == <<run, pc, svc, rest, tried, dex, workers, failed, outcome>>
content == <<listener, pool, pool0, monitor, members>>
octavia == <<lb, dying, content>>
vars    == <<process, octavia, up>>

PC == Op \cup {"idle", "get_or_create", "release", "create_masters", "configure", "done",
               "is_ready", "add_all_masters", "apply_addons", "get_instances", "get"}

TypeOK ==
    /\ run \in 0..MaxRuns /\ pc \in PC /\ (pc # "idle" => run # 0) /\ svc \in Service
    /\ rest \subseteq Address /\ tried \in Nat
    /\ dex \in BOOLEAN /\ workers \in SUBSET Worker /\ failed \in BOOLEAN
    /\ outcome \in {"none", "built", "InstanceExists", "exit", "removed", "raised"}
    /\ lb \in {"none", "PENDING", "ACTIVE", "ERROR", "PENDING_DELETE"} /\ dying \in BOOLEAN
    /\ listener \subseteq Service /\ pool \subseteq Service
    /\ pool0 \in Service \cup {"none"} /\ monitor \subseteq Service
    /\ members \in [Service -> SUBSET (Address \X Service)]
    /\ up \subseteq Address

Nothing == [s \in Service |-> {}]

Init ==
    /\ run = 0 /\ pc = "idle" /\ svc = "API" /\ rest = {} /\ tried = 0
    /\ dex = FALSE /\ workers = {} /\ failed = FALSE /\ outcome = "none"
    /\ lb = "none" /\ dying = FALSE
    /\ listener = {} /\ pool = {} /\ pool0 = "none" /\ monitor = {} /\ members = Nothing
    /\ up = {}

Addresses(S) == {run} \X S
At(A, s)     == A \X {s}       \* the members for addresses A at s's port

\* What each pool is to hold when the build is done.
Wanted(s) == At(Addresses(IF s \in {"API", "dex"} THEN Master
                          ELSE IF s = "oauth2" THEN workers ELSE Master \cup workers), s)

-----------------------------------------------------------------------------
(* The commands.                                                           *)

Goto(from, to) ==
    /\ pc = from /\ pc' = to
    /\ UNCHANGED <<run, dex, workers, outcome>>

\* The command returns, exits or raises; the next one is a new process.
End(how) ==
    /\ pc' = "idle" /\ outcome' = how
    /\ svc' = "API" /\ rest' = {} /\ tried' = 0 /\ failed' = FALSE
    /\ UNCHANGED <<run, dex, workers>>

Start(at, d, w) ==
    /\ pc = "idle" /\ run < MaxRuns
    /\ run' = run + 1 /\ pc' = at /\ dex' = d /\ workers' = w /\ outcome' = "none"
    /\ UNCHANGED <<svc, rest, tried, failed, octavia, up>>

StartApply   == \E d \in DexChoices, w \in {{}, Worker} : Start("get_or_create", d, w)
StartDestroy == Start("get_instances", FALSE, {})

\* The set-up of a listener, its pool and the pool's members A begins.
SetUp(s, A) == svc' = s /\ rest' = A /\ tried' = 0

-----------------------------------------------------------------------------
(* get_or_create.                                                          *)

\* find_load_balancer raises when two load balancers have the name.
FoundTwo ==
    /\ pc \in {"get_or_create", "get"} \/ (pc = "bulk" /\ svc = "API")
    /\ dying
    /\ End("raised")
    /\ UNCHANGED <<octavia, up>>

\* A load balancer that is being deleted counts as none.  A floating IP that neutron
\* does not find a way to makes the new one go away again.
Create ==
    /\ lb \in {"none", "PENDING_DELETE"} /\ ~dying
    /\ Goto("get_or_create", "create_masters") \/ Goto("get_or_create", "release")
    /\ lb' = "PENDING" /\ dying' = (lb = "PENDING_DELETE")
    /\ UNCHANGED <<svc, rest, tried, failed, content, up>>

\* ... and an existing one too.
Reuse ==
    /\ lb \notin {"none", "PENDING_DELETE"} /\ ~dying
    /\ Goto("get_or_create", "create_masters") \/ Goto("get_or_create", "release")
    /\ UNCHANGED <<svc, rest, tried, failed, octavia, up>>

\* The floating IP of an existing load balancer has to be known and not in use,
\* not even by this load balancer.
FloatingIPUnavailable ==
    /\ pc = "get_or_create" /\ lb \notin {"none", "PENDING_DELETE"}
    /\ End("exit")
    /\ UNCHANGED <<octavia, up>>

MasterExists ==
    /\ pc = "create_masters" /\ up # {}
    /\ End("InstanceExists")
    /\ UNCHANGED <<octavia, up>>

CreateMasters ==
    /\ Goto("create_masters", "configure")
    /\ up = {}
    /\ up' = Addresses(Master \cup workers)
    /\ UNCHANGED <<svc, rest, tried, failed, octavia>>

-----------------------------------------------------------------------------
(* configure, and the calls every set-up consists of.                      *)

\* Mutant of Configure: the coroutine is given all masters, joined or not.
ConfigureAllMasters ==
    /\ Goto("configure", "listener")
    /\ listener = {}
    /\ SetUp("API", Addresses(Master))
    /\ UNCHANGED <<failed, octavia, up>>

Configure ==
    /\ Goto("configure", "listener")
    /\ listener = {}
    /\ SetUp("API", Addresses({first}))
    /\ UNCHANGED <<failed, octavia, up>>

\* `self._data.listeners[0].id`: the listeners of a load balancer are dicts, and a
\* dict has no attribute id.
ConfigureRaises ==
    /\ pc = "configure" /\ listener # {}
    /\ End("raised")
    /\ UNCHANGED <<octavia, up>>

\* Octavia takes a change when the last one is done, and then works on it.
Accept == lb = "ACTIVE" /\ lb' = "PENDING" /\ tried' = 0 /\ UNCHANGED dying

AddListener ==
    /\ Goto("listener", "pool") /\ Accept
    /\ listener' = listener \cup {svc}
    /\ UNCHANGED <<svc, rest, failed, pool, pool0, monitor, members, up>>

\* Octavia lists the pools in an order of its own.
AddPool ==
    /\ Goto("pool", IF svc \in Ingress THEN "bulk" ELSE "member") /\ Accept
    /\ pool' = pool \cup {svc}
    /\ pool0' \in IF pool = {} THEN {svc} ELSE {pool0, svc}
    /\ UNCHANGED <<svc, rest, failed, listener, monitor, members, up>>

AfterMembers == IF svc \in Ingress THEN "done"
                ELSE IF svc \in monitor THEN "add_all_masters" ELSE "monitor"

\* Mutant of AddMember: the member gets the API server's port everywhere.
AddMember6443(a) ==
    /\ a \in rest
    /\ Goto("member", IF rest = {a} THEN AfterMembers ELSE "member") /\ Accept
    /\ members' = [members EXCEPT ![svc] = @ \cup {<<a, "API">>}]
    /\ rest' = rest \ {a}
    /\ UNCHANGED <<svc, failed, listener, pool, pool0, monitor, up>>

AddMember(a) ==
    /\ a \in rest
    /\ Goto("member", IF rest = {a} THEN AfterMembers ELSE "member") /\ Accept
    /\ members' = [members EXCEPT ![svc] = @ \cup {<<a, svc>>}]
    /\ rest' = rest \ {a}
    /\ UNCHANGED <<svc, failed, listener, pool, pool0, monitor, up>>

AddHealthMonitor ==
    /\ Goto("monitor", "done") /\ Accept
    /\ monitor' = monitor \cup {svc}
    /\ UNCHANGED <<svc, rest, failed, listener, pool, pool0, members, up>>

Deleting == {"delete", "release"}
Attempts(call) == IF call \in Deleting THEN OuterTries * Tries["delete"] ELSE Tries[call]
Refused == pc \in Op \cup Deleting /\ lb \in (IF pc \in Deleting THEN {"PENDING", "PENDING_DELETE"}
                                              ELSE {"PENDING", "ERROR"})

Retry ==
    /\ Refused /\ tried + 1 < Attempts(pc)
    /\ tried' = tried + 1
    /\ UNCHANGED <<run, pc, svc, rest, dex, workers, failed, outcome, octavia, up>>

\* Mutant of GiveUp: the last refusal is swallowed like the others and the caller goes on.
GiveUpSilently ==
    /\ Refused /\ tried + 1 >= Attempts(pc)
    /\ IF pc \in Deleting THEN End("removed") ELSE
          /\ Goto(pc, "done")
          /\ rest' = {} /\ tried' = 0 /\ UNCHANGED <<svc, failed>>
    /\ UNCHANGED <<octavia, up>>

\* Mutant of GiveUp: the count starts again.
GiveUpNever ==
    /\ Refused /\ tried + 1 >= Attempts(pc)
    /\ tried' = 0
    /\ UNCHANGED <<run, pc, svc, rest, dex, workers, failed, outcome, octavia, up>>

\* The last try is made outside of the try block and raises.  create_dex raises in
\* the loop's turn in which create_oauth2 runs too, and gather raises after both.
GiveUp ==
    /\ Refused /\ tried + 1 >= Attempts(pc)
    /\ IF svc = "dex" THEN
          /\ Goto(pc, "done")
          /\ failed' = TRUE /\ rest' = {} /\ tried' = 0 /\ UNCHANGED svc
       ELSE End("raised")
    /\ UNCHANGED <<octavia, up>>

-----------------------------------------------------------------------------
(* Dex: two coroutines that await nothing, so one runs after the other.    *)

CreateDex ==
    /\ svc = "API" /\ dex
    /\ Goto("done", "listener")
    /\ SetUp("dex", Addresses(Master))
    /\ UNCHANGED <<failed, octavia, up>>

CreateOAuth2 ==
    /\ svc = "dex" /\ workers # {}
    /\ Goto("done", "listener")
    /\ SetUp("oauth2", Addresses(workers))
    /\ UNCHANGED <<failed, octavia, up>>

\* A Pool without members is a ValidationError; and gather raises what create_dex did.
DexRaises ==
    /\ pc = "done"
    /\ (svc = "dex" /\ workers = {}) \/ (svc = "oauth2" /\ failed)
    /\ End("raised")
    /\ UNCHANGED <<octavia, up>>

AllConfigured ==
    /\ svc = IF dex THEN "oauth2" ELSE "API"
    /\ ~failed
    /\ Goto("done", "is_ready")
    /\ UNCHANGED <<svc, rest, tried, failed, octavia, up>>

-----------------------------------------------------------------------------
(* The API pool of all masters.                                            *)

\* The API server answers once the first master is behind the load balancer.
IsReady ==
    /\ <<<<run, first>>, "API">> \in members["API"]
    /\ Goto("is_ready", "bulk")
    /\ SetUp("API", {})
    /\ UNCHANGED <<failed, octavia, up>>

\* The PUT replaces all members of the pool.  The docstring has it that octavia adds a
\* health monitor with it, which nothing in the code depends on: it may or may not.
Bulk(target, next) ==
    /\ Goto("bulk", next) /\ Accept
    /\ members' = [members EXCEPT ![target] = Wanted(svc)]
    /\ monitor' \in {monitor, monitor \cup {target}}
    /\ UNCHANGED <<svc, rest, failed, listener, pool, pool0, up>>

\* default_pool: whichever pool is listed first.
BulkUpdateMembers ==
    /\ svc = "API" /\ ~dying
    /\ Bulk(pool0, "apply_addons")

\* Neither 2xx nor 409: False, and the masters are added one by one.
BulkUpdateFails ==
    /\ svc = "API" /\ ~dying
    /\ Goto("bulk", "add_all_masters")
    /\ UNCHANGED <<svc, rest, tried, failed, octavia, up>>

InPool == {m[1] : m \in members["API"]}

\* Through master_listener, by name: this is the API pool.
AddMaster(m) ==
    /\ Goto("add_all_masters", "member")
    /\ Cardinality(members["API"]) < Cardinality(Master)
    /\ <<run, m>> \notin InPool
    /\ SetUp("API", {<<run, m>>})
    /\ UNCHANGED <<failed, octavia, up>>

\* Mutant of AllMastersAdded: the loop stops one member early.
AllButOneAdded ==
    /\ Goto("add_all_masters", "apply_addons")
    /\ Cardinality(members["API"]) >= Cardinality(Master) - 1
    /\ UNCHANGED <<svc, rest, tried, failed, octavia, up>>

AllMastersAdded ==
    /\ Goto("add_all_masters", "apply_addons")
    /\ Cardinality(members["API"]) >= Cardinality(Master)
    /\ UNCHANGED <<svc, rest, tried, failed, octavia, up>>

-----------------------------------------------------------------------------
(* add_ingress_listeners.                                                  *)

AddIngressListener(s) ==
    /\ (s = "http" /\ pc = "apply_addons") \/ (s = "https" /\ pc = "done" /\ svc = "http")
    /\ Goto(pc, "listener")
    /\ SetUp(s, {})
    /\ UNCHANGED <<failed, octavia, up>>

BulkUpdateIngress ==
    /\ svc \in Ingress
    /\ Bulk(svc, "done")

BulkUpdateIngressFails ==
    /\ svc \in Ingress
    /\ Goto("bulk", "member")
    /\ SetUp(svc, Addresses(Master \cup workers))
    /\ UNCHANGED <<failed, octavia, up>>

Built ==
    /\ pc = "done" /\ svc = "https"
    /\ End("built")
    /\ UNCHANGED <<octavia, up>>

-----------------------------------------------------------------------------
(* delete.                                                                 *)

DeleteInstances ==
    /\ Goto("get_instances", "get")
    /\ up' = {}
    /\ UNCHANGED <<svc, rest, tried, failed, octavia>>

Get ==
    /\ Goto("get", "delete")
    /\ lb # "none" /\ ~dying
    /\ UNCHANGED <<svc, rest, tried, failed, octavia, up>>

\* Nothing to delete: no load balancer was found, or the one that was is gone.
NotFound ==
    /\ pc \in {"get", "delete"} /\ lb = "none"
    /\ End("removed")
    /\ UNCHANGED <<octavia, up>>

\* cascade: everything goes with it.
DelLoadBalancer ==
    /\ pc \in Deleting /\ lb \in {"ACTIVE", "ERROR"}
    /\ lb' = "PENDING_DELETE"
    /\ listener' = {} /\ pool' = {} /\ pool0' = "none" /\ monitor' = {} /\ members' = Nothing
    /\ End(IF pc = "delete" THEN "removed" ELSE "exit")
    /\ UNCHANGED <<dying, up>>

-----------------------------------------------------------------------------
(* Octavia, and the death of the process.                                  *)

Settles ==
    /\ lb = "PENDING" /\ lb' \in {"ACTIVE", "ERROR"}
    /\ UNCHANGED <<process, dying, content, up>>

\* What is being deleted is gone.
Gone ==
    /\ IF dying THEN dying' = FALSE /\ UNCHANGED lb
                ELSE lb = "PENDING_DELETE" /\ lb' = "none" /\ UNCHANGED dying
    /\ UNCHANGED <<process, content, up>>

\* An interrupt, or an answer that is not retried.  An address that is no IP is
\* noticed after the load balancer was made, and ends the process the same way.
Die ==
    /\ pc # "idle"
    /\ End("raised")
    /\ UNCHANGED <<octavia, up>>

Main ==
    \/ FoundTwo \/ Create \/ Reuse \/ FloatingIPUnavailable \/ MasterExists \/ CreateMasters
    \/ Configure \/ ConfigureRaises
    \/ AddListener \/ AddPool \/ AddHealthMonitor \/ (\E a \in Address : AddMember(a))
    \/ Retry \/ GiveUp
    \/ CreateDex \/ CreateOAuth2 \/ DexRaises \/ AllConfigured
    \/ IsReady \/ BulkUpdateMembers \/ BulkUpdateFails
    \/ (\E m \in Master : AddMaster(m)) \/ AllMastersAdded
    \/ (\E s \in Ingress : AddIngressListener(s))
    \/ BulkUpdateIngress \/ BulkUpdateIngressFails \/ Built
    \/ DeleteInstances \/ Get \/ NotFound \/ DelLoadBalancer

Next == StartApply \/ StartDestroy \/ Main \/ Settles \/ Gone \/ Die

Spec == Init /\ [][Next]_vars

\* The process goes on, and octavia finishes what it works on, in one way or the
\* other.  Nobody has to start a command, and nothing has to die.
FairSpec == Spec /\ WF_vars(Main) /\ WF_vars(Settles) /\ WF_vars(Gone)

-----------------------------------------------------------------------------
(* Properties.                                                             *)

\* A build without Dex that reports success has set up everything it wanted, whatever
\* was refused and retried on the way: every pool holds exactly its own addresses at
\* its own port, behind its own listener, and the API pool is watched.
BuiltIsWhole ==
    outcome = "built" /\ ~dex =>
        /\ listener = pool /\ pool = {"API"} \cup Ingress /\ "API" \in monitor
        /\ \A s \in pool : members[s] = Wanted(s)

\* With Dex, too, the build has every listener and monitor, and the API server can be
\* reached: the first master is behind its port, at least, and nobody else's address.
BuiltAnswers ==
    outcome = "built" =>
        /\ {"API"} \cup Ingress \subseteq pool /\ (dex => pool = Service)
        /\ "API" \in monitor /\ (dex => Dex \subseteq monitor)
        /\ <<<<run, first>>, "API">> \in members["API"]
        /\ members["API"] \subseteq Wanted("API")
        /\ \A s \in Ingress : members[s] = Wanted(s)

\* A removal that returns has got rid of the load balancer, however busy octavia was;
\* one that gives up raises.
RemovedIsGone == outcome = "removed" => lb \in {"none", "PENDING_DELETE"} /\ pool = {}

\* Every call is retried a bounded number of times, so every command ends, even with
\* a load balancer in error, which refuses everything for ever.
EveryCommandEnds == pc # "idle" ~> pc = "idle"

\* What the pool at port 6443 promises.
API == INSTANCE APIPool WITH
          lb <- IF lb \in {"none", "PENDING_DELETE"} THEN "none"
                ELSE IF "API" \in listener THEN "listening" ELSE "bare",
          member <- InPool
APIPoolSpec == API!Spec

-----------------------------------------------------------------------------
(* Why they hold: the inductive invariant of LoadBalancerProofs.           *)

Live == lb \notin {"none", "PENDING_DELETE"}

\* Octavia: what a deleted load balancer had is gone, and listeners, pools, members
\* and monitors hang on each other.
OctaviaInv ==
    /\ ~Live => listener = {}
    /\ dying => lb # "none"
    /\ pool \subseteq listener /\ monitor \subseteq pool
    /\ pool0 = "none" \/ pool0 \in pool
    /\ pool # {} => pool0 # "none"
    /\ \A s \in Service \ pool : members[s] = {}

\* Setting up the service svc, or seeing to it that all masters are in the API pool.
SettingUp == pc \in {"listener", "pool", "monitor", "done"}
             \/ (pc \in {"member", "bulk"} /\ ~(svc = "API" /\ "API" \in monitor))
AllIn     == pc \in {"is_ready", "add_all_masters", "apply_addons"}
             \/ (pc \in {"member", "bulk"} /\ svc = "API" /\ "API" \in monitor)
Building  == SettingUp \/ AllIn

\* The services set up before s, in the order of run().
Base      == {"API"} \cup (IF dex THEN Dex ELSE {})
Before(s) == IF s = "API" THEN {} ELSE IF s = "dex" THEN {"API"}
             ELSE IF s = "oauth2" THEN {"API", "dex"}
             ELSE IF s = "http" THEN Base ELSE Base \cup {"http"}

StageInv ==
    /\ outcome = "none" \/ pc = "idle"
    /\ Building \/ pc \in {"create_masters", "configure", "release"} => Live
    /\ ~Building => svc = "API"
    /\ failed => svc \in Dex /\ SettingUp
    /\ failed /\ svc = "dex" => pc = "done"
    /\ failed /\ (svc = "dex" \/ pc # "done") => "oauth2" \notin monitor
    /\ svc \in Dex /\ Building => dex /\ "API" \in listener
    /\ svc \in Dex /\ AllIn => pc = "is_ready"
    /\ pc = "bulk" => svc \notin Dex /\ (svc = "API" => "API" \in monitor)
    /\ pc = "monitor" => svc \notin Ingress
    /\ SettingUp /\ pc \notin {"listener", "done"} => svc \in listener /\ (pc = "pool" \/ svc \in pool)
    /\ SettingUp /\ ~failed =>
          /\ listener = Before(svc) \cup (IF pc = "listener" THEN {} ELSE {svc})
          /\ pool = Before(svc) \cup (IF pc \in {"listener", "pool"} THEN {} ELSE {svc})
          /\ monitor \ Ingress = (Before(svc) \cup (IF pc = "done" THEN {svc} ELSE {})) \ Ingress
    /\ AllIn => listener = Base /\ pool = Base /\ monitor = Base

First == <<run, first>>
MemberInv ==
    /\ pc = "member" \/ (pc \in {"listener", "pool"} /\ svc \notin Ingress) => rest # {}
    /\ Building => members["API"] \subseteq Wanted("API")
    /\ svc = "API" /\ pc \in {"listener", "pool"} => rest = {First}
    /\ svc = "API" /\ pc = "member" =>
          IF "API" \in monitor THEN rest \subseteq Addresses(Master) \ InPool
                               ELSE rest = {First} /\ members["API"] = {}
    /\ AllIn \/ (Building /\ svc # "API") \/ pc \in {"monitor", "done"}
          => <<First, "API">> \in members["API"]
    /\ ~dex /\ (pc = "apply_addons" \/ (Building /\ svc \in Ingress)) => members["API"] = Wanted("API")
    /\ svc \in Ingress =>
          /\ pc = "bulk" => members[svc] = {}
          /\ pc = "member" => members[svc] \cup At(rest, svc) = Wanted(svc)
          /\ pc = "done" => members[svc] = Wanted(svc)
          /\ svc = "https" /\ Building => members["http"] = Wanted("http")

IInv == TypeOK /\ OctaviaInv /\ StageInv /\ MemberInv /\ BuiltIsWhole /\ BuiltAnswers /\ RemovedIsGone

-----------------------------------------------------------------------------
(* Why commands end.                                                       *)

\* How far the command is: the listeners are set up in this order, each in these parts,
\* between what comes before the first and the API pool of all masters.
Begin == [API |-> 10, dex |-> 20, oauth2 |-> 30, http |-> 50, https |-> 60]
Part  == [listener |-> 0, pool |-> 1, bulk |-> 2, member |-> 3, monitor |-> 4, done |-> 5]
Other == [get_or_create |-> 0, create_masters |-> 1, configure |-> 2, release |-> 2,
          get_instances |-> 0, get |-> 1, delete |-> 2,
          is_ready |-> 40, bulk |-> 41, member |-> 42, add_all_masters |-> 42, apply_addons |-> 43]
Stage == IF SettingUp THEN Begin[svc] + Part[pc] ELSE Other[pc]

\* The addresses the stage has yet to put into a pool.
Todo == IF AllIn THEN Addresses(Master) \ InPool ELSE rest

\* A step that counts: it is the next stage, one address is done, a master is taken up,
\* or one of the tries is used.
Nearer ==
    \/ Stage' > Stage
    \/ Stage' = Stage /\ Todo' \subseteq Todo /\ Todo' # Todo
    \/ UNCHANGED <<Stage, Todo>> /\ pc = "add_all_masters" /\ pc' = "member"
    \/ UNCHANGED <<Stage, Todo, pc>> /\ tried' > tried /\ tried' < Attempts(pc)

\* A command waits for nothing but octavia, which answers: what it calls for is there to
\* accept or refuse the change, the API server it polls is behind the load balancer, a
\* pool that is not full misses a master, and what was asked for has a next part.
NeverWaitsInVain ==
    /\ pc \in Op \ {"delete"} \/ pc = "release" => Live
    /\ pc = "is_ready" => <<First, "API">> \in members["API"]
    /\ pc = "add_all_masters" => \/ Cardinality(members["API"]) >= Cardinality(Master)
                                 \/ \E m \in Master : <<run, m>> \notin InPool
    /\ pc = "member" => rest # {}
    /\ pc = "bulk" => svc \in {"API"} \cup Ingress
    /\ pc = "done" /\ svc \in Dex => dex

\* Every call is retried a bounded number of times and no loop goes round without
\* result: whatever octavia answers, each step of a command counts, unless it ends it,
\* and nothing octavia does puts it back.
EveryStepCounts ==
    [][pc # "idle" /\ pc' # "idle"
          => IF Main THEN Nearer ELSE UNCHANGED <<Stage, Todo, tried>>]_vars

-----------------------------------------------------------------------------
(* What the code says and does not keep.                                   *)

\* "Configured LoadBalancer to use all API servers" (builder.py:634), logged by every
\* build that ends.  (Fails with Dex: the PUT goes to the pool octavia lists first.)
AllAPIServersUsed == outcome = "built" => members["API"] = Wanted("API")
=============================================================================

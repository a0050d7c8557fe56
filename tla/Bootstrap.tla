----------------------------- MODULE Bootstrap ------------------------------
(***************************************************************************)
(* The birth of a control plane.  The script of the first master runs      *)
(* kubeadm init and then grows etcd over ssh, one master after the other;  *)
(* the workers' scripts join on their own; and koris, on the operator's    *)
(* machine, waits for the API server, fills the load balancer's pool and   *)
(* announces the cluster.  They meet in the pool and in etcd only.         *)
(***************************************************************************)
EXTENDS Integers, FiniteSets

CONSTANTS N, Masters,  \* Masters[1..N]: the hosts of MASTERS in koris.env
          Worker       \* the other hosts

ASSUME BootstrapAssumption ==
    /\ N \in Nat /\ N % 2 = 1                 \* ClusterBuilder exits on an even count
    /\ Masters \in [1..N -> {Masters[k] : k \in 1..N}]
    /\ \A k, l \in 1..N : Masters[k] = Masters[l] => k = l
    /\ Worker \cap {Masters[k] : k \in 1..N} = {}

MASTERS  == {Masters[k] : k \in 1..N}
first    == Masters[1]
UpTo(k)  == {Masters[l] : l \in 1..k}

VARIABLES
    \* the script of the first master
    pc,      \* its next command
    i,       \* index of the master it works on
    \* the hosts
    up,      \* the masters that answer ssh
    kube,    \* kube[m]: what m's /etc/kubernetes and /var/lib/etcd hold
    joined,  \* the hosts where kubeadm has succeeded
    lost,    \* the workers whose script has died
    \* the cluster
    etcd,    \* members of etcd, started or not
    running, \* masters whose etcd and API server run
    token,   \* kubeadm init has stored the bootstrap token
    \* koris
    kpc,     \* the next step of ClusterBuilder.run
    pool     \* the masters in the load balancer's API pool

cluster == <<etcd, running, token>>
hosts   == <<up, kube, joined, lost>>
koris   == <<kpc, pool>>
vars    == <<pc, i, hosts, cluster, koris>>

TypeOK ==
    /\ pc \in {"init", "wait_for_etcd", "make_secrets", "copy_keys", "add_master", "reset",
               "finished", "dead"}
    /\ i \in 1..N
    /\ up \subseteq MASTERS /\ joined \subseteq MASTERS \cup Worker /\ lost \subseteq Worker
    /\ kube \in [MASTERS -> {"clean", "keys", "dirty"}]
    /\ etcd \subseteq MASTERS /\ running \subseteq MASTERS /\ token \in BOOLEAN
    /\ kpc \in {"configure", "is_ready", "bulk", "add_all_masters", "apply_addons", "ready",
                "raised"}
    /\ pool \subseteq MASTERS

Init ==
    /\ pc = "init" /\ i = 1
    /\ up = {first} /\ kube = [m \in MASTERS |-> "clean"] /\ joined = {} /\ lost = {}
    /\ etcd = {} /\ running = {} /\ token = FALSE
    /\ kpc = "configure" /\ pool = {}

Quorum == 2 * Cardinality(running) > Cardinality(etcd)

\* An API server that runs is behind the load balancer, and etcd answers it.
API == pool \cap running # {} /\ Quorum

\* The master the loop is at.
host == Masters[i]

-----------------------------------------------------------------------------
(* The first master.                                                       *)

Goto(from, to) == pc = from /\ pc' = to /\ UNCHANGED i

\* kubeadm init reaches its own API server through the load balancer.
BootstrapFirstMaster ==
    /\ Goto("init", "wait_for_etcd")
    /\ first \in pool
    /\ etcd' = {first} /\ running' = {first} /\ token' = TRUE
    /\ joined' = joined \cup {first}
    /\ UNCHANGED <<up, kube, lost, koris>>

\* It waits four minutes.  The API server it started stays.
InitTimesOut ==
    /\ Goto("init", "dead")
    /\ etcd' = {first} /\ running' = {first}
    /\ UNCHANGED <<token, hosts, koris>>

\* The body of the loop is left for the next master.
Advance(from) ==
    /\ pc = from
    /\ IF i = N THEN pc' = "finished" /\ UNCHANGED i
                ELSE pc' = "copy_keys" /\ i' = i + 1

MakeSecrets ==
    /\ Advance("make_secrets") /\ API
    /\ UNCHANGED <<hosts, cluster, koris>>

\* Until ssh answers; then everything in /etc/kubernetes goes and the CA comes.  What
\* a failed join left elsewhere stays.
CopyKeys ==
    /\ Goto("copy_keys", "add_master")
    /\ host \in up
    /\ kube' = [kube EXCEPT ![host] = IF @ = "clean" THEN "keys" ELSE @]
    /\ UNCHANGED <<up, joined, lost, cluster, koris>>

\* kubeadm join adds the member to etcd before it starts it.
Joinable == API /\ token /\ kube[host] = "keys" /\ host \notin etcd

AddMaster ==
    /\ Goto("add_master", "wait_for_etcd")
    /\ Joinable
    /\ etcd' = etcd \cup {host} /\ joined' = joined \cup {host}
    /\ UNCHANGED <<up, kube, lost, running, token, koris>>

\* Mutant of AddMasterFails: `if` instead of `until`.
AddMasterOnce ==
    /\ Advance("add_master")
    /\ kube' = [kube EXCEPT ![host] = "dirty"]
    /\ UNCHANGED <<up, joined, lost, cluster, koris>>

\* ... and may fail before, between or after.
AddMasterFails ==
    /\ Goto("add_master", "reset")
    /\ kube' = [kube EXCEPT ![host] = "dirty"]
    /\ \/ UNCHANGED <<etcd, running>>
       \/ Joinable /\ etcd' = etcd \cup {host} /\ running' \in {running, running \cup {host}}
    /\ UNCHANGED <<up, joined, lost, token, koris>>

\* Mutant of Reset: a host that was reset is joined without the keys.
ResetOnly ==
    /\ Goto("reset", "add_master")
    /\ kube' = [kube EXCEPT ![host] = "clean"] /\ running' = running \ {host}
    /\ etcd' = IF Quorum THEN etcd \ {host} ELSE etcd
    /\ UNCHANGED <<up, joined, lost, token, koris>>

\* kubeadm reset takes the member out if etcd lets it, and goes on if not.
Reset ==
    /\ Goto("reset", "copy_keys")
    /\ kube' = [kube EXCEPT ![host] = "clean"] /\ running' = running \ {host}
    /\ etcd' \in IF Quorum THEN {etcd, etcd \ {host}} ELSE {etcd}
    /\ UNCHANGED <<up, joined, lost, token, koris>>

\* Mutant of WaitForEtcd: kubeadm's word is taken.
WaitForNothing ==
    /\ IF i = 1 THEN Goto("wait_for_etcd", "make_secrets") ELSE Advance("wait_for_etcd")
    /\ UNCHANGED <<hosts, cluster, koris>>

WaitForEtcd ==
    /\ IF i = 1 THEN Goto("wait_for_etcd", "make_secrets") ELSE Advance("wait_for_etcd")
    /\ API /\ host \in running
    /\ UNCHANGED <<hosts, cluster, koris>>

\* set -e: a command fails that is no condition of a loop.
Dies ==
    /\ \E at \in {"init", "make_secrets", "copy_keys", "reset"} : Goto(at, "dead")
    /\ UNCHANGED <<hosts, cluster, koris>>

-----------------------------------------------------------------------------
(* The other hosts.                                                        *)

Boots(m) ==
    /\ m \notin up /\ up' = up \cup {m}
    /\ UNCHANGED <<pc, i, kube, joined, lost, cluster, koris>>

EtcdStarts(m) ==
    /\ m \in (etcd \cap joined) \ running
    /\ running' = running \cup {m}
    /\ UNCHANGED <<pc, i, hosts, etcd, token, koris>>

\* `until join; do kubeadm reset`: a join that fails changes nothing ...
Join(w) ==
    /\ w \notin joined \cup lost /\ API /\ token
    /\ joined' = joined \cup {w}
    /\ UNCHANGED <<pc, i, up, kube, lost, cluster, koris>>

\* ... but a reset that fails, or a command before the loop, ends the script: set -e.
WorkerDies(w) ==
    /\ w \notin joined \cup lost
    /\ lost' = lost \cup {w}
    /\ UNCHANGED <<pc, i, up, kube, joined, cluster, koris>>

-----------------------------------------------------------------------------
(* koris, after the masters were created.                                  *)

KGoto(from, to) ==
    /\ kpc = from /\ kpc' = to
    /\ UNCHANGED <<pc, i, hosts, cluster>>

Configure ==
    /\ KGoto("configure", "is_ready")
    /\ pool' = {first}

\* The API server's versions need no etcd.
IsReady ==
    /\ KGoto("is_ready", "bulk")
    /\ pool \cap running # {}
    /\ UNCHANGED pool

\* "Waiting for all masters to become Ready ...": nothing waits.
BulkUpdateMembers ==
    /\ KGoto("bulk", "apply_addons")
    /\ pool' = MASTERS

BulkUpdateFails ==
    /\ KGoto("bulk", "add_all_masters")
    /\ UNCHANGED pool

AddReadyMaster(m) ==
    /\ KGoto("add_all_masters", "add_all_masters")
    /\ API /\ m \in joined \ pool
    /\ pool' = pool \cup {m}

AllMastersAdded ==
    /\ KGoto("add_all_masters", "apply_addons")
    /\ Cardinality(pool) >= N
    /\ UNCHANGED pool

ApplyAddons ==
    /\ KGoto("apply_addons", "ready") /\ API
    /\ UNCHANGED pool

KorisRaises ==
    /\ \E at \in {"configure", "is_ready", "bulk", "add_all_masters", "apply_addons"} :
          KGoto(at, "raised")
    /\ UNCHANGED pool

Script ==
    \/ BootstrapFirstMaster \/ InitTimesOut \/ MakeSecrets \/ CopyKeys \/ AddMaster
    \/ AddMasterFails \/ Reset \/ WaitForEtcd

Koris ==
    \/ Configure \/ IsReady \/ BulkUpdateMembers \/ BulkUpdateFails
    \/ (\E m \in MASTERS : AddReadyMaster(m)) \/ AllMastersAdded \/ ApplyAddons

Next ==
    \/ Script \/ Dies \/ Koris \/ KorisRaises
    \/ \E m \in MASTERS : Boots(m) \/ EtcdStarts(m)
    \/ \E w \in Worker : Join(w) \/ WorkerDies(w)

Spec == Init /\ [][Next]_vars

\* Every process runs on, hosts boot, and an etcd that kubeadm started comes up.  A
\* join that is tried for ever on a cluster that answers again and again succeeds at
\* some time; nothing is asked of the ones before.  Nothing has to fail or to die.
FairSpec ==
    /\ Spec /\ WF_vars(Script) /\ WF_vars(Koris) /\ SF_vars(AddMaster)
    /\ \A m \in MASTERS : WF_vars(Boots(m)) /\ WF_vars(EtcdStarts(m))
    /\ \A w \in Worker : SF_vars(Join(w))

-----------------------------------------------------------------------------
(* Properties.                                                             *)

\* Etcd "is grown in a serial manner" (bootstrap-k8s-master-ubuntu-16.04.sh:12), so
\* from its third member on it never loses its majority, whichever join fails where
\* and whatever a reset leaves behind.
MajorityRuns == Cardinality(etcd) >= 3 => Quorum

\* The same line of the script, as a specification of its own: a master is added when
\* the loop has left all members behind, each seen to run.
Growth == INSTANCE EtcdGrowth WITH
             Node <- MASTERS, member <- etcd, settled <- UpTo(i - 1)
SerialGrowth == Growth!Spec

\* A script that ends has joined every master, each started, and nothing hangs on in
\* etcd; the API can be reached.
FinishedIsWhole ==
    pc = "finished" => MASTERS \subseteq joined /\ etcd = MASTERS /\ running = MASTERS /\ API

\* Unless a member whose join failed is left in etcd for ever: the first master's script
\* comes to an end; every worker joins the cluster of a kubeadm init that succeeded, even
\* if that script or koris dies later, unless the worker's own script does; and koris
\* does not poll for ever, unless the first master's script has died.
EveryHostJoins ==
    <>[](token => etcd \subseteq joined) =>
        /\ <>(pc \in {"finished", "dead"})
        /\ token ~> Worker \subseteq joined \cup lost
        /\ <>(kpc \in {"ready", "raised"} \/ pc = "dead")

-----------------------------------------------------------------------------
(* Why they hold: the inductive invariant of BootstrapProofs.              *)

\* All but the master at hand is settled.
GrowthInv ==
    /\ running \subseteq etcd /\ etcd \cup (joined \ Worker) \subseteq UpTo(i)
    /\ etcd \subseteq running \cup {host}
    /\ pc = "init" => etcd = {} /\ i = 1
    /\ pc \notin {"init", "dead"} => UpTo(i - 1) \cup {first} \subseteq running \cap joined
    /\ pc = "wait_for_etcd" => host \in etcd \cap joined
    /\ pc = "make_secrets" => i = 1
    /\ pc \in {"copy_keys", "add_master", "reset"} => i # 1 /\ host \notin joined
    /\ pc = "finished" => i = N /\ host \in running \cap joined
    /\ pc \notin {"init", "dead"} => first \in pool

IInv == TypeOK /\ GrowthInv /\ MajorityRuns /\ FinishedIsWhole
=============================================================================

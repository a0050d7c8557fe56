------------------------- MODULE ClusterBuildProofs -------------------------
(***************************************************************************)
(* Theorems about ClusterBuild, for every set of masters and workers and   *)
(* every number of commands.                                               *)
(***************************************************************************)
EXTENDS ClusterBuild, FiniteSetTheorems, FunctionTheorems, TLAPS

USE HostsAssumption, RunsAssumption DEF Host, Run

\* There are as many addresses of masters as there are masters.
LEMMA OnePerMaster ==
  ASSUME NEW r
  PROVE  IsFiniteSet({r} \X Master) /\ Cardinality({r} \X Master) = Cardinality(Master)
<1> DEFINE f == [m \in Master |-> <<r, m>>]
<1>1. f \in Bijection(Master, {r} \X Master)
  <2>1. f \in [Master -> {r} \X Master]
    OBVIOUS
  <2>2. \A m, n \in Master : f[m] = f[n] => m = n
    OBVIOUS
  <2>3. \A a \in {r} \X Master : \E m \in Master : f[m] = a
    OBVIOUS
  <2>4. IsInjective(f)
    BY <2>1, <2>2 DEF IsInjective
  <2> QED
    BY <2>1, <2>3, <2>4, Zenon DEF Bijection, Injection, Surjection
<1>2. ExistsBijection(Master, {r} \X Master)
  BY <1>1, Zenon DEF ExistsBijection
<1> QED
  BY <1>2, FS_Bijection

\* A pool that holds as many addresses of masters as there are masters holds all.
LEMMA FullPool ==
  ASSUME NEW r, NEW S \in SUBSET ({r} \X Master), Cardinality(S) >= Cardinality(Master)
  PROVE  S = {r} \X Master
<1>1. IsFiniteSet({r} \X Master) /\ Cardinality({r} \X Master) = Cardinality(Master)
  BY OnePerMaster
<1>2. Cardinality(S) = Cardinality({r} \X Master)
  BY <1>1, FS_Subset, FS_CardinalityType
<1> QED
  BY <1>1, <1>2, FS_Subset

LEMMA TypeInit == Init => TypeOK
<1> SUFFICES ASSUME Init PROVE TypeOK
  OBVIOUS
<1>1. 0 \in 0..MaxRuns
  OBVIOUS
<1>2. vol \in [Run -> [Host -> VolState]]
  BY Zenon DEF Init, VolState
<1> QED
  BY <1>1, <1>2 DEF Init, TypeOK, PC, TaskState, ServerState, NoTask

\* Each action keeps every variable in its type: a process that acts has a number,
\* and so has the one that booted a server.
LEMMA TypeStep == TypeOK /\ ProcessInv /\ VolumesAttached /\ [Next]_vars => TypeOK'
<1> SUFFICES ASSUME TypeOK, pc # "idle" => run \in Run,
                    \A h \in Host : Exists(h) => builtBy[h] # 0, [Next]_vars
             PROVE  TypeOK'
  BY DEF ProcessInv, VolumesAttached
<1> USE DEF TypeOK, PC, TaskState, ServerState, VolState, NoTask, Addresses,
            process, network, cloud, Goto, End, AttachPorts
<1>1. ASSUME NEW c \in {"apply", "destroy"}, Start(c) PROVE TypeOK'
  BY <1>1 DEF Start
<1>2. CASE Build
  <2>1. CASE SetupNetworking BY <2>1 DEF SetupNetworking
  <2>2. CASE CreateSshKeypair BY <2>2 DEF CreateSshKeypair
  <2>3. CASE GetOrCreateLB BY <2>3 DEF GetOrCreateLB
  <2>4. CASE FloatingIPUnavailable BY <2>4 DEF FloatingIPUnavailable
  <2>4a. CASE FloatingIPNotAssociated BY <2>4a DEF FloatingIPNotAssociated
  <2>4b. CASE ConfigureFailed BY <2>4b DEF ConfigureFailed
  <2>5. CASE CreateMastersTasks BY <2>5 DEF CreateMastersTasks
  <2>6. CASE MasterExists BY <2>6 DEF MasterExists
  <2>7. CASE MastersGathered BY <2>7 DEF MastersGathered
  <2>8. CASE CreateInitialNodes BY <2>8 DEF CreateInitialNodes
  <2>9. CASE NodeExists BY <2>9 DEF NodeExists
  <2>10. CASE NodesGathered BY <2>10 DEF NodesGathered
  <2>11. CASE IsReady BY <2>11 DEF IsReady
  <2>12. CASE BulkUpdateMembers BY <2>12 DEF BulkUpdateMembers
  <2>13. CASE BulkUpdateRefused BY <2>13 DEF BulkUpdateRefused
  <2>14. CASE AllMastersAdded BY <2>14 DEF AllMastersAdded
  <2>15. CASE ApplyAddons BY <2>15 DEF ApplyAddons
  <2>16. ASSUME NEW h \in Host, GatherRaisesBuilderError(h) PROVE TypeOK'
    BY <2>16 DEF GatherRaisesBuilderError
  <2>17. ASSUME NEW h \in Host, GatherRaisesOther(h) PROVE TypeOK'
    BY <2>17 DEF GatherRaisesOther
  <2>18. ASSUME NEW m \in Master, AddMaster(m) PROVE TypeOK'
    BY <2>18 DEF AddMaster
  <2> QED
    BY <1>2, <2>1, <2>2, <2>3, <2>4, <2>4a, <2>4b, <2>5, <2>6, <2>7, <2>8, <2>9, <2>10, <2>11,
       <2>12, <2>13, <2>14, <2>15, <2>16, <2>17, <2>18 DEF Build
<1>3. CASE Remove
  <2>1. CASE GetInstances BY <2>1 DEF GetInstances
  <2>2. CASE InstancesDeleted BY <2>2 DEF InstancesDeleted
  <2>3. CASE DeleteLB BY <2>3 DEF DeleteLB
  <2>4. CASE DeleteSecgroup BY <2>4 DEF DeleteSecgroup
  <2>5. CASE DeleteVolumes BY <2>5 DEF DeleteVolumes, Deletable
  <2>6. CASE DeleteKeypair BY <2>6 DEF DeleteKeypair
  <2> QED BY <1>3, <2>1, <2>2, <2>3, <2>4, <2>5, <2>6 DEF Remove
<1>4. CASE Configure BY <1>4 DEF Configure, LoopRuns
<1>4a. CASE ConfigureRaises BY <1>4a DEF ConfigureRaises, LoopRuns
<1>5. ASSUME NEW h \in Host, Task(h) PROVE TypeOK'
  <2>1. CASE CreateVolume(h) BY <2>1 DEF CreateVolume, TaskGoto, LoopRuns
  <2>2. CASE CreateVolumeFails(h) BY <2>2 DEF CreateVolumeFails, TaskGoto
  <2>3. CASE CreateServer(h) BY <2>3 DEF CreateServer, TaskGoto, LoopRuns
  <2>4. CASE CreateServerFails(h) BY <2>4 DEF CreateServerFails, TaskGoto
  <2>5. CASE Booted(h) BY <2>5 DEF Booted, TaskGoto
  <2>6. CASE BootFails(h) BY <2>6 DEF BootFails, TaskGoto
  <2> QED BY <1>5, <2>1, <2>2, <2>3, <2>4, <2>5, <2>6 DEF Task
<1>6. ASSUME NEW h \in Host, DeleteInstance(h) PROVE TypeOK'
  BY <1>6 DEF DeleteInstance
<1>6a. ASSUME NEW h \in Host, DeleteInstanceFails(h) PROVE TypeOK'
  BY <1>6a DEF DeleteInstanceFails
<1>7. ASSUME NEW h \in Host, Cloud(h) PROVE TypeOK'
  <2>1. CASE ServerSettles(h) BY <2>1 DEF ServerSettles
  <2>2. CASE ServerGone(h)
    <3>1. builtBy[h] \in Run BY <2>2 DEF ServerGone, Exists
    <3> QED BY <2>2, <3>1 DEF ServerGone
  <2>3. ASSUME NEW r \in Run, VolumeSettles(r, h) PROVE TypeOK'
    BY <2>3 DEF VolumeSettles
  <2> QED BY <1>7, <2>1, <2>2, <2>3 DEF Cloud
<1>7a. CASE ScriptDies BY <1>7a DEF ScriptDies
<1>8. CASE Die BY <1>8 DEF Die
<1>9. CASE UNCHANGED vars BY <1>9 DEF vars
<1> QED BY <1>1, <1>2, <1>3, <1>4, <1>4a, <1>5, <1>6, <1>6a, <1>7, <1>7a, <1>8, <1>9
     DEF Next, Loop

-----------------------------------------------------------------------------
(* The rest of the inductive invariant.                                    *)

Safe == /\ ProcessInv /\ Unbooted /\ MastersAreOurs /\ Phases
        /\ BuildSoFar /\ RemovedSoFar
        /\ VolumesAttached /\ OneControlPlane /\ WorkersAfterMasters
        /\ BuiltIsWhole /\ RemovedIsGone

LEMMA SafeStep == TypeOK /\ Safe /\ [Next]_vars => Safe'
<1> SUFFICES ASSUME TypeOK, Safe, [Next]_vars PROVE Safe'
  OBVIOUS
<1> USE DEF Safe, ProcessInv, Unbooted, MastersAreOurs, Phases, VolumesAttached,
            OneControlPlane, WorkersAfterMasters, BuiltIsWhole, RemovedIsGone,
            BuildSoFar, RemovedSoFar, Exists, BuildPC, BeforeMasters, Cleanup,
            TypeOK, PC, TaskState, ServerState, VolState, NoTask, Addresses, LoopRuns,
            process, network, cloud, Goto, End, AttachPorts
<1>1. ASSUME NEW c \in {"apply", "destroy"}, Start(c) PROVE Safe'
  BY <1>1 DEF Start
<1>2. CASE Build
  <2>1. CASE SetupNetworking BY <2>1 DEF SetupNetworking
  <2>2. CASE CreateSshKeypair BY <2>2 DEF CreateSshKeypair
  <2>3. CASE GetOrCreateLB BY <2>3 DEF GetOrCreateLB
  <2>4. CASE FloatingIPUnavailable BY <2>4 DEF FloatingIPUnavailable
  <2>4a. CASE FloatingIPNotAssociated BY <2>4a DEF FloatingIPNotAssociated
  <2>4b. CASE ConfigureFailed BY <2>4b DEF ConfigureFailed
  <2>5. CASE CreateMastersTasks
    <3>1. Unbooted' /\ MastersAreOurs' /\ OneControlPlane' /\ WorkersAfterMasters'
      BY <2>5 DEF CreateMastersTasks
    <3>2. ProcessInv' /\ Phases' /\ RemovedSoFar'
      BY <2>5 DEF CreateMastersTasks
    <3>3. BuildSoFar'
      <4>1. \A m \in Master : <<run, m>> \in port'
        BY <2>5 DEF CreateMastersTasks
      <4>2. task = NoTask
        BY <2>5 DEF CreateMastersTasks
      <4>3. \A h \in Host : IF h \in Master THEN task'[h] = "scheduled" ELSE task'[h] = "none"
        BY <2>5, <4>2 DEF CreateMastersTasks
      <4> QED
        BY <2>5, <4>1, <4>3 DEF CreateMastersTasks
    <3>4. VolumesAttached' /\ BuiltIsWhole' /\ RemovedIsGone'
      BY <2>5 DEF CreateMastersTasks
    <3> QED
      BY <3>1, <3>2, <3>3, <3>4
  <2>6. CASE MasterExists BY <2>6 DEF MasterExists
  <2>7. CASE MastersGathered BY <2>7 DEF MastersGathered
  <2>8. CASE CreateInitialNodes BY <2>8 DEF CreateInitialNodes
  <2>9. CASE NodeExists BY <2>9 DEF NodeExists
  <2>10. CASE NodesGathered
    <3>0. member = Addresses({first}) /\ <<run, first>> \in member
      BY <2>10 DEF NodesGathered
    <3>1. member = Addresses({first}) /\ lb = "listening"
      BY <3>0
    <3>2. pc = "gatherNodes" /\ pc' = "is_ready" /\ \A h \in Host : task[h] = "done"
      BY <2>10 DEF NodesGathered
    <3>3. ProcessInv' /\ Phases' /\ BuildSoFar' /\ RemovedSoFar'
      BY <2>10, <3>1, <3>2 DEF NodesGathered
    <3>4. Unbooted' /\ MastersAreOurs' /\ VolumesAttached' /\ OneControlPlane'
          /\ WorkersAfterMasters' /\ BuiltIsWhole' /\ RemovedIsGone'
      BY <2>10 DEF NodesGathered
    <3> QED
      BY <3>3, <3>4
  <2>11. CASE IsReady BY <2>11 DEF IsReady
  <2>12. CASE BulkUpdateMembers BY <2>12 DEF BulkUpdateMembers
  <2>13. CASE BulkUpdateRefused BY <2>13 DEF BulkUpdateRefused
  <2>14. CASE AllMastersAdded
    <3>1. member = Addresses(Master)
      BY <2>14, FullPool, Zenon DEF AllMastersAdded
    <3> QED
      BY <2>14, <3>1 DEF AllMastersAdded
  <2>15. CASE ApplyAddons
    <3>1. BuiltIsWhole'
      <4>1. \A h \in Host : task[h] = "done" /\ <<run, h>> \in port
        BY <2>15 DEF ApplyAddons
      <4>2. Addresses(Host) \subseteq port
        BY <4>1
      <4> QED
        BY <2>15, <4>1, <4>2 DEF ApplyAddons
    <3>2. ProcessInv' /\ Unbooted' /\ MastersAreOurs' /\ Phases' /\ BuildSoFar' /\ RemovedSoFar'
      BY <2>15 DEF ApplyAddons
    <3>3. VolumesAttached' /\ OneControlPlane' /\ WorkersAfterMasters' /\ RemovedIsGone'
      BY <2>15 DEF ApplyAddons
    <3> QED
      BY <3>1, <3>2, <3>3
  <2>16. ASSUME NEW h \in Host, GatherRaisesBuilderError(h) PROVE Safe'
    BY <2>16 DEF GatherRaisesBuilderError
  <2>17. ASSUME NEW h \in Host, GatherRaisesOther(h) PROVE Safe'
    BY <2>17 DEF GatherRaisesOther
  <2>18. ASSUME NEW m \in Master, AddMaster(m) PROVE Safe'
    BY <2>18 DEF AddMaster
  <2> QED
    BY <1>2, <2>1, <2>2, <2>3, <2>4, <2>4a, <2>4b, <2>5, <2>6, <2>7, <2>8, <2>9, <2>10, <2>11,
       <2>12, <2>13, <2>14, <2>15, <2>16, <2>17, <2>18 DEF Build
<1>3. CASE Remove
  <2>1. CASE GetInstances BY <2>1 DEF GetInstances
  <2>2. CASE InstancesDeleted BY <2>2 DEF InstancesDeleted
  <2>3. CASE DeleteLB BY <2>3 DEF DeleteLB
  <2>4. CASE DeleteSecgroup BY <2>4 DEF DeleteSecgroup
  <2>5. CASE DeleteVolumes BY <2>5 DEF DeleteVolumes, Deletable
  <2>6. CASE DeleteKeypair BY <2>6 DEF DeleteKeypair
  <2> QED BY <1>3, <2>1, <2>2, <2>3, <2>4, <2>5, <2>6 DEF Remove
<1>4. CASE Configure BY <1>4 DEF Configure, LoopRuns
<1>4a. CASE ConfigureRaises BY <1>4a DEF ConfigureRaises, LoopRuns
<1>5. ASSUME NEW h \in Host, Task(h) PROVE Safe'
  <2>1. CASE CreateVolume(h) BY <2>1 DEF CreateVolume, TaskGoto, LoopRuns
  <2>2. CASE CreateVolumeFails(h) BY <2>2 DEF CreateVolumeFails, TaskGoto
  <2>3. CASE CreateServer(h) BY <2>3 DEF CreateServer, TaskGoto, LoopRuns
  <2>4. CASE CreateServerFails(h) BY <2>4 DEF CreateServerFails, TaskGoto
  <2>5. CASE Booted(h) BY <2>5 DEF Booted, TaskGoto
  <2>6. CASE BootFails(h) BY <2>6 DEF BootFails, TaskGoto
  <2> QED BY <1>5, <2>1, <2>2, <2>3, <2>4, <2>5, <2>6 DEF Task
<1>6. ASSUME NEW h \in Host, DeleteInstance(h) PROVE Safe'
  BY <1>6 DEF DeleteInstance
<1>6a. ASSUME NEW h \in Host, DeleteInstanceFails(h) PROVE Safe'
  BY <1>6a DEF DeleteInstanceFails
<1>7. ASSUME NEW h \in Host, Cloud(h) PROVE Safe'
  <2>1. CASE ServerSettles(h) BY <2>1 DEF ServerSettles
  <2>2. CASE ServerGone(h)
    <3>1. builtBy[h] \in Run BY <2>2 DEF ServerGone, Exists
    <3> QED BY <2>2, <3>1 DEF ServerGone
  <2>3. ASSUME NEW r \in Run, VolumeSettles(r, h) PROVE Safe'
    BY <2>3 DEF VolumeSettles
  <2> QED BY <1>7, <2>1, <2>2, <2>3 DEF Cloud
<1>7a. CASE ScriptDies BY <1>7a DEF ScriptDies
<1>8. CASE Die BY <1>8 DEF Die
<1>9. CASE UNCHANGED vars BY <1>9 DEF vars
<1> HIDE DEF Safe
<1> QED BY <1>1, <1>2, <1>3, <1>4, <1>4a, <1>5, <1>6, <1>6a, <1>7, <1>7a, <1>8, <1>9
     DEF Next, Loop

-----------------------------------------------------------------------------
LEMMA SafeInit == Init => Safe
<1> SUFFICES ASSUME Init PROVE Safe
  OBVIOUS
<1> USE DEF Init, Safe, ProcessInv, Phases, BuildSoFar, RemovedSoFar, BuildPC, PC, Cleanup,
            BeforeMasters, NoTask, Exists
<1>1. ProcessInv /\ Phases /\ BuildSoFar /\ RemovedSoFar
  OBVIOUS
<1>2. \A r \in Run, h \in Host : vol[r][h] = "none" /\ builtBy[h] = 0 /\ server[h] = "none"
  OBVIOUS
<1>3. VolumesAttached
  BY <1>2 DEF VolumesAttached
<1>4. Unbooted /\ MastersAreOurs /\ OneControlPlane /\ WorkersAfterMasters
  BY <1>2 DEF Unbooted, MastersAreOurs, OneControlPlane, WorkersAfterMasters
<1>5. BuiltIsWhole /\ RemovedIsGone
  BY DEF BuiltIsWhole, RemovedIsGone
<1> QED
  BY <1>1, <1>3, <1>4, <1>5

\* A coroutine that polls a volume has made it, and has no server yet whose end could
\* take the volume away.
LEMMA PolledStep ==
  TypeOK /\ ProcessInv /\ Unbooted /\ VolumesAttached /\ Polled /\ [Next]_vars => Polled'
<1> SUFFICES ASSUME TypeOK, ProcessInv, Unbooted, VolumesAttached, Polled, [Next]_vars
             PROVE  Polled'
  OBVIOUS
<1> USE DEF Polled, TypeOK, NoTask, VolState, TaskState
<1>e. ASSUME NEW how, End(how) PROVE Polled'
  BY <1>e DEF End
<1>u. ASSUME pc # "deleteKeypair", UNCHANGED <<run, task, vol>> PROVE Polled'
  BY <1>u
<1>1. ASSUME NEW c \in {"apply", "destroy"}, Start(c) PROVE Polled'
  BY <1>1 DEF Start, ProcessInv, BeforeMasters
<1>2. CASE \/ FloatingIPUnavailable \/ FloatingIPNotAssociated \/ MasterExists \/ NodeExists
           \/ ConfigureFailed \/ ApplyAddons \/ DeleteKeypair \/ Die
           \/ \E h \in Host : GatherRaisesOther(h)
  BY <1>2, <1>e DEF FloatingIPUnavailable, FloatingIPNotAssociated, MasterExists, NodeExists,
     ConfigureFailed, ApplyAddons, DeleteKeypair, Die, GatherRaisesOther
<1>3. CASE CreateMastersTasks \/ CreateInitialNodes
  BY <1>3 DEF CreateMastersTasks, CreateInitialNodes, Goto
<1>4. CASE \/ SetupNetworking \/ CreateSshKeypair \/ GetOrCreateLB \/ MastersGathered
           \/ NodesGathered \/ IsReady \/ BulkUpdateMembers \/ BulkUpdateRefused
           \/ AllMastersAdded \/ \E m \in Master : AddMaster(m)
  BY <1>4, <1>u DEF SetupNetworking, CreateSshKeypair, GetOrCreateLB, MastersGathered,
     NodesGathered, IsReady, BulkUpdateMembers, BulkUpdateRefused, AllMastersAdded, AddMaster,
     Goto, process, cloud
<1>5. CASE \/ GetInstances \/ InstancesDeleted \/ DeleteLB \/ DeleteSecgroup
           \/ \E h \in Host : GatherRaisesBuilderError(h) \/ DeleteInstance(h)
                                 \/ DeleteInstanceFails(h)
  BY <1>5, <1>u DEF GetInstances, InstancesDeleted, DeleteLB, DeleteSecgroup,
     GatherRaisesBuilderError, DeleteInstance, DeleteInstanceFails, Goto, cloud
<1>6. CASE DeleteVolumes
  BY <1>6 DEF DeleteVolumes, Goto
<1>7. CASE Configure \/ ConfigureRaises
  BY <1>7, <1>u DEF Configure, ConfigureRaises, LoopRuns
<1>8. ASSUME NEW h \in Host, Task(h) PROVE Polled'
  <2>0. run \in Run /\ pc # "deleteKeypair"
    BY <1>8 DEF Task, CreateVolume, CreateVolumeFails, CreateServer, CreateServerFails, Booted,
       BootFails, TaskGoto, LoopRuns, ProcessInv
  <2>1. CASE CreateVolume(h)  BY <2>0, <2>1 DEF CreateVolume, TaskGoto
  <2>2. CASE CreateServer(h)  BY <2>0, <2>2 DEF CreateServer, TaskGoto
  <2>3. CASE CreateVolumeFails(h) \/ CreateServerFails(h) \/ Booted(h) \/ BootFails(h)
    BY <2>0, <2>3 DEF CreateVolumeFails, CreateServerFails, Booted, BootFails, TaskGoto, cloud
  <2> QED  BY <1>8, <2>1, <2>2, <2>3 DEF Task
<1>9. ASSUME NEW h \in Host, Cloud(h) PROVE Polled'
  <2>1. CASE ServerSettles(h)  BY <2>1 DEF ServerSettles, process
  <2>2. CASE ServerGone(h)
    <3>1. task[h] # "volume"
      BY <2>2 DEF ServerGone, Unbooted, Exists
    <3>2. builtBy[h] \in Run
      BY <2>2 DEF ServerGone, VolumesAttached, Exists
    <3>3. \A g \in Host \ {h} : \A r \in Run : vol'[r][g] = vol[r][g]
      BY <2>2, <3>2 DEF ServerGone
    <3>4. UNCHANGED <<run, pc, task>>
      BY <2>2 DEF ServerGone, process
    <3>5. run \in Run \/ \A g \in Host : task[g] # "volume"
      BY DEF ProcessInv, BeforeMasters
    <3> QED  BY <3>1, <3>3, <3>4, <3>5
  <2>3. ASSUME NEW r \in Run, VolumeSettles(r, h) PROVE Polled'
    BY <2>3 DEF VolumeSettles, process
  <2> QED  BY <1>9, <2>1, <2>2, <2>3 DEF Cloud
<1>10. CASE ScriptDies \/ UNCHANGED vars
  BY <1>10 DEF ScriptDies, vars, process, cloud
<1> QED
  BY <1>1, <1>2, <1>3, <1>4, <1>5, <1>6, <1>7, <1>8, <1>9, <1>10 DEF Next, Build, Remove, Loop

\* The inductive invariant holds in every reachable state.
THEOREM Invariant == Spec => []IInv
<1>1. Init => IInv
  BY TypeInit, SafeInit DEF IInv, Safe, Polled, Init, NoTask
<1>2. IInv /\ [Next]_vars => IInv'
  BY TypeStep, SafeStep, PolledStep DEF IInv, Safe
<1> QED
  BY <1>1, <1>2, PTL DEF Spec

\* Every reachable state is well typed.
THEOREM TypeCorrect == Spec => []TypeOK
  BY Invariant, PTL DEF IInv

\* A server runs on exactly the volume its own command made for it.
THEOREM VolumesAttachedAlways == Spec => []VolumesAttached
  BY Invariant, PTL DEF IInv

\* No worker is created before every master of its build has booted.
THEOREM WorkersWait == Spec => []WorkersAfterMasters
  BY Invariant, PTL DEF IInv

\* The masters in the cloud never come from two builds.
THEOREM ControlPlaneIsOne == Spec => []OneControlPlane
  BY Invariant, PTL DEF IInv

\* While the API server is awaited the pool holds the first master alone.
THEOREM PoolReset == Spec => []PoolIsFirstMaster
<1>1. IInv => PoolIsFirstMaster
  BY DEF IInv, Phases, PoolIsFirstMaster
<1> QED
  BY <1>1, Invariant, PTL

\* A build that reports success is complete and its own.
THEOREM SuccessIsWhole == Spec => []BuiltIsWhole
  BY Invariant, PTL DEF IInv

\* A removal that returns has removed everything but the servers it names: those on
\* their way out, those whose deletion raised (openstack.py:286-295, cli.py:66), and
\* those of a failed build whose clean-up it is.
THEOREM RemovalIsComplete == Spec => []RemovedIsGone
  BY Invariant, PTL DEF IInv

\* The clean-up of a failed build deletes no master of an earlier build: only
\* DeleteInstance marks a server, and then every master is this build's.
THEOREM OlderMastersSpared == Spec => SparesOlderMasters
<1> DEFINE Spared == \A m \in Master :
              server'[m] = "deleting" /\ server[m] # "deleting" /\ cmd = "apply"
                  => builtBy[m] = run
<1>1. IInv /\ [Next]_vars => Spared
  <2> SUFFICES ASSUME IInv, [Next]_vars, NEW m \in Master,
                      server'[m] = "deleting", server[m] # "deleting", cmd = "apply"
               PROVE  builtBy[m] = run
    OBVIOUS
  <2> USE DEF IInv, TypeOK
  <2>1. ASSUME NEW h \in Host, DeleteInstance(h) \/ DeleteInstanceFails(h)
        PROVE  builtBy[m] = run
    BY <2>1 DEF DeleteInstance, DeleteInstanceFails, MastersAreOurs, BeforeMasters, Exists
  <2>2. ASSUME NEW h \in Host, Task(h) PROVE FALSE
    BY <2>2 DEF Task, CreateVolume, CreateVolumeFails, CreateServer, CreateServerFails,
                Booted, BootFails, TaskGoto, cloud
  <2>3. ASSUME NEW h \in Host, Cloud(h) PROVE FALSE
    BY <2>3 DEF Cloud, ServerSettles, ServerGone, VolumeSettles
  <2>4. CASE UNCHANGED server
    BY <2>4
  <2>5. Build \/ Remove \/ Configure \/ ConfigureRaises \/ Die => UNCHANGED server
    BY Zenon DEF Build, SetupNetworking, CreateSshKeypair, GetOrCreateLB,
          FloatingIPUnavailable, FloatingIPNotAssociated, ConfigureFailed, CreateMastersTasks,
          MasterExists, MastersGathered,
          CreateInitialNodes, NodeExists, NodesGathered, IsReady, BulkUpdateMembers,
          BulkUpdateRefused, AddMaster, AllMastersAdded, ApplyAddons,
          GatherRaisesBuilderError, GatherRaisesOther,
          Remove, GetInstances, InstancesDeleted, DeleteLB, DeleteSecgroup,
          DeleteVolumes, DeleteKeypair, Configure, ConfigureRaises, Die, cloud
  <2>6. (\E c \in {"apply", "destroy"} : Start(c)) \/ ScriptDies \/ UNCHANGED vars
          => UNCHANGED server
    BY DEF Start, ScriptDies, vars, cloud
  <2> QED
    BY <2>1, <2>2, <2>3, <2>4, <2>5, <2>6 DEF Next, Loop
<1>2. [][Spared]_vars <=> SparesOlderMasters
  BY DEF SparesOlderMasters
<1> QED
  BY <1>1, <1>2, Invariant, PTL DEF Spec

-----------------------------------------------------------------------------
\* Every step of the operator, the process and the cloud is one of the abstract pool,
\* or none of its business.
LEMMA PoolStep == IInv /\ [Next]_vars => [API!Next]_(API!vars)
<1> SUFFICES ASSUME IInv, [Next]_vars PROVE API!Next \/ UNCHANGED API!vars
  OBVIOUS
<1> USE DEF API!vars, API!Next, process, network, cloud
<1>i. TypeOK /\ ProcessInv /\ BuildSoFar /\ RemovedSoFar
  BY DEF IInv
<1>1. CASE GetOrCreateLB
  <2>1. API!Create \/ UNCHANGED <<lb, member>>
    BY <1>1 DEF GetOrCreateLB, API!Create
  <2> QED  BY <2>1
<1>2. CASE FloatingIPNotAssociated \/ DeleteLB
  BY <1>2 DEF FloatingIPNotAssociated, DeleteLB, API!Delete
<1>3. ASSUME Configure \/ ConfigureRaises PROVE API!Next \/ UNCHANGED API!vars
  <2>1. run \in Run
    BY <1>3, <1>i DEF Configure, ConfigureRaises, LoopRuns, ProcessInv
  <2>2. \/ UNCHANGED <<lb, member>>
        \/ lb = "bare" /\ lb' = "listening" /\ member' \in {member, {<<run, first>>}}
    BY <1>3, <1>i DEF Configure, ConfigureRaises, Addresses, RemovedSoFar
  <2>3. lb = "bare" => member = {}
    BY <1>i DEF RemovedSoFar
  <2> QED  BY <2>1, <2>2, <2>3 DEF API!Open, API!Listen
<1>g. ASSUME lb = "listening", UNCHANGED lb, <<run, first>> \in member, run \in Run,
             member \subseteq member', member' \subseteq Addresses(Master)
      PROVE  API!Next
  BY <1>g DEF API!Grow, Addresses
<1>p. pc \in {"bulk_update_members", "add_all_masters"} =>
        /\ lb = "listening" /\ <<run, first>> \in member /\ run \in Run
        /\ member \subseteq Addresses(Master)
  BY <1>i DEF ProcessInv, BuildSoFar, RemovedSoFar
<1>4. CASE BulkUpdateMembers
  BY <1>4, <1>g, <1>p DEF BulkUpdateMembers, Goto
<1>5. ASSUME NEW m \in Master, AddMaster(m) PROVE API!Next
  <2>1. <<run, m>> \in Addresses(Master)
    BY DEF Addresses
  <2> QED  BY <1>5, <1>g, <1>p, <2>1 DEF AddMaster
<1>6. CASE UNCHANGED <<lb, member>>
  BY <1>6
<1>7. \/ GetOrCreateLB \/ FloatingIPNotAssociated \/ DeleteLB \/ Configure \/ ConfigureRaises
      \/ BulkUpdateMembers \/ \E m \in Master : AddMaster(m)
      \/ UNCHANGED <<lb, member>>
  <2>1. Build => \/ GetOrCreateLB \/ FloatingIPNotAssociated \/ BulkUpdateMembers
                 \/ \E m \in Master : AddMaster(m)
                 \/ UNCHANGED <<lb, member>>
    BY Zenon DEF Build, SetupNetworking, CreateSshKeypair, FloatingIPUnavailable,
       CreateMastersTasks, MasterExists, MastersGathered, CreateInitialNodes, NodeExists,
       NodesGathered, ConfigureFailed, IsReady, BulkUpdateRefused, AllMastersAdded, ApplyAddons,
       GatherRaisesBuilderError, GatherRaisesOther
  <2>2. Remove => DeleteLB \/ UNCHANGED <<lb, member>>
    BY Zenon DEF Remove, GetInstances, InstancesDeleted, DeleteSecgroup, DeleteVolumes,
       DeleteKeypair
  <2>3. (\E h \in Host : Task(h) \/ DeleteInstance(h) \/ DeleteInstanceFails(h) \/ Cloud(h))
          => UNCHANGED <<lb, member>>
    BY Zenon DEF Task, CreateVolume, CreateVolumeFails, CreateServer, CreateServerFails, Booted,
       BootFails, DeleteInstance, DeleteInstanceFails, Cloud, ServerSettles, ServerGone, VolumeSettles
  <2>4. (\E c \in {"apply", "destroy"} : Start(c)) \/ ScriptDies \/ Die \/ UNCHANGED vars
          => UNCHANGED <<lb, member>>
    BY Zenon DEF Start, ScriptDies, Die, vars
  <2> QED  BY <2>1, <2>2, <2>3, <2>4 DEF Next, Loop
<1> QED
  BY <1>1, <1>2, <1>3, <1>4, <1>5, <1>6, <1>7

\* Builds that fail and are cleaned up, repeated or interrupted do to the pool at port
\* 6443 what APIPool promises (openstack.py:502-537, 814-840; builder.py:619-630): no
\* master of one build ever stands beside one of another.
THEOREM ImplementsAPIPool == Spec => APIPoolSpec
<1>1. Init => API!Init
  BY DEF Init, API!Init
<1>2. IInv /\ [Next]_vars => [API!Next]_(API!vars)
  BY PoolStep
<1> QED
  BY <1>1, <1>2, Invariant, PTL DEF Spec, APIPoolSpec, API!Spec

-----------------------------------------------------------------------------
\* What a command waits for comes, unless Hopeless: the coroutines of a gather were all
\* started and poll volumes that exist, the API server that is polled is in the pool, and
\* add_all_masters_to_loadbalancer (k8s.py:268-308) finds a master that is missing.
THEOREM WaitsEnd == Spec => []NeverWaitsInVain
<1>1. ASSUME IInv PROVE NeverWaitsInVain
  <2>i. TypeOK /\ Polled /\ Phases /\ BuildSoFar
    BY <1>1 DEF IInv
  <2>1. pc = "gatherMasters" => \A m \in Master : task[m] # "none"
    BY <2>i DEF Phases
  <2>2. pc = "gatherNodes" => conf # "none" /\ \A h \in Host : task[h] # "none"
    BY <2>i DEF Phases
  <2>3. LoopRuns => \A h \in Host :
          task[h] = "volume" => vol[run][h] \in {"creating", "available", "error"}
    BY <2>i DEF LoopRuns, Polled
  <2>4. pc \in {"is_ready", "add_all_masters"} =>
          \A m \in Master : server[m] \in {"ACTIVE", "ERROR"} /\ builtBy[m] = run
    BY <2>i DEF BuildSoFar, BuildPC, PC, Cleanup
  <2>5. pc = "is_ready" => <<run, first>> \in member /\ builtBy[first] = run
    BY <2>i, <2>4 DEF Phases, Addresses
  <2>6. ASSUME pc = "add_all_masters", \A m \in Master : <<run, m>> \in member
        PROVE  Cardinality(member) >= Cardinality(Master)
    <3>1. member = {run} \X Master
      BY <2>i, <2>6 DEF BuildSoFar, Addresses
    <3>2. Cardinality(member) = Cardinality(Master) /\ Cardinality(Master) \in Nat
      BY <3>1, OnePerMaster, FS_CardinalityType
    <3> QED  BY <3>2
  <2> QED  BY <2>1, <2>2, <2>3, <2>4, <2>5, <2>6 DEF NeverWaitsInVain
<1> QED  BY <1>1, Invariant, PTL

\* A step of a coroutine takes it on and leaves the others where they are.
LEMMA TaskCounts ==
  ASSUME TypeOK, NEW h \in Host, Task(h)
  PROVE  Nearer
<1>1. PICK from \in TaskState, to \in TaskState : TaskGoto(h, from, to) /\ Turn[to] > Turn[from]
  <2> USE DEF TaskState, Turn
  <2>1. CASE CreateVolume(h)  BY <2>1 DEF CreateVolume
  <2>2. CASE CreateVolumeFails(h)  BY <2>2 DEF CreateVolumeFails
  <2>3. CASE CreateServer(h)  BY <2>3 DEF CreateServer
  <2>4. CASE CreateServerFails(h)  BY <2>4 DEF CreateServerFails
  <2>5. CASE Booted(h)  BY <2>5 DEF Booted
  <2>6. CASE BootFails(h)  BY <2>6 DEF BootFails
  <2> QED  BY <2>1, <2>2, <2>3, <2>4, <2>5, <2>6 DEF Task
<1>2. /\ pc' = pc /\ pc # "add_all_masters" /\ UNCHANGED <<conf, victim>>
      /\ task[h] = from /\ task' = [task EXCEPT ![h] = to]
  BY <1>1 DEF TaskGoto, LoopRuns
<1>3. task'[h] = to /\ \A g \in Host \ {h} : task'[g] = task[g]
  BY <1>2 DEF TypeOK
<1>4. from # to
  <2> HIDE DEF TaskState
  <2>1. Turn[to] \in Nat
    BY DEF Turn, TaskState
  <2> QED  BY <1>1, <2>1
<1>5. task' # task /\ \A g \in Host : task'[g] = task[g] \/ Turn[task'[g]] > Turn[task[g]]
  BY <1>1, <1>2, <1>3, <1>4
<1> QED
  BY <1>2, <1>5 DEF Nearer

LEMMA CountStep ==
  IInv /\ [Next]_vars /\ pc # "idle" /\ pc' # "idle"
    => IF Build \/ Remove \/ Loop THEN Nearer ELSE UNCHANGED <<process, member>>
<1> SUFFICES ASSUME IInv, [Next]_vars, pc # "idle", pc' # "idle"
             PROVE  IF Build \/ Remove \/ Loop THEN Nearer ELSE UNCHANGED <<process, member>>
  OBVIOUS
<1>i. TypeOK
  BY DEF IInv
<1>1. CASE ~(Build \/ Remove \/ Loop)
  <2>1. (\E h \in Host : Cloud(h)) \/ ScriptDies \/ UNCHANGED vars
    BY <1>1 DEF Next, Start, Die, End
  <2> QED
    BY <1>1, <2>1 DEF ScriptDies, Cloud, ServerSettles, ServerGone, VolumeSettles, network, vars, process, cloud
<1>2. ASSUME Stage[pc'] > Stage[pc] PROVE Nearer
  BY <1>2 DEF Nearer
<1>3. ASSUME Build PROVE Nearer
  <2>1. CASE \E m \in Master : AddMaster(m)
    <3>1. PICK m \in Master : AddMaster(m)
      BY <2>1
    <3>2. member' = member \cup {<<run, m>>} /\ <<run, m>> \notin member
          /\ pc = "add_all_masters" /\ UNCHANGED <<pc, task, conf, victim>>
      BY <3>1 DEF AddMaster, process
    <3> QED  BY <3>2 DEF Nearer
  <2>2. CASE ~\E m \in Master : AddMaster(m)
    <3>1. Stage[pc'] > Stage[pc]
      BY <1>3, <2>2 DEF Build, SetupNetworking, CreateSshKeypair, GetOrCreateLB,
         FloatingIPUnavailable, FloatingIPNotAssociated, CreateMastersTasks, MasterExists,
         MastersGathered, CreateInitialNodes, NodeExists, NodesGathered, ConfigureFailed, IsReady,
         BulkUpdateMembers, BulkUpdateRefused, AllMastersAdded, ApplyAddons,
         GatherRaisesBuilderError, GatherRaisesOther, Goto, End, Stage
    <3> QED  BY <3>1, <1>2
  <2> QED  BY <2>1, <2>2
<1>4. ASSUME Remove PROVE Nearer
  <2>1. Stage[pc'] > Stage[pc]
    BY <1>4 DEF Remove, GetInstances, InstancesDeleted, DeleteLB, DeleteSecgroup, DeleteVolumes,
       DeleteKeypair, Goto, End, Stage
  <2> QED  BY <2>1, <1>2
<1>5. ASSUME Loop PROVE Nearer
  <2>1. CASE Configure \/ ConfigureRaises
    BY <2>1 DEF Configure, ConfigureRaises, LoopRuns, Nearer
  <2>2. ASSUME NEW h \in Host, DeleteInstance(h) \/ DeleteInstanceFails(h) PROVE Nearer
    BY <2>2 DEF DeleteInstance, DeleteInstanceFails, Nearer
  <2> QED  BY <1>5, <1>i, <2>1, <2>2, TaskCounts DEF Loop
<1> QED  BY <1>1, <1>3, <1>4, <1>5

\* No command goes round in circles, for every number of masters and workers: whatever
\* the cloud does, every step of it counts.
THEOREM CommandsProgress == Spec => EveryStepCounts
<1>1. IInv /\ [Next]_vars
        => [pc # "idle" /\ pc' # "idle"
              => IF Build \/ Remove \/ Loop THEN Nearer ELSE UNCHANGED <<process, member>>]_vars
  BY CountStep
<1> QED  BY <1>1, Invariant, PTL DEF Spec, EveryStepCounts
=============================================================================

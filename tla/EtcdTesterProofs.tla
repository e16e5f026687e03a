-------------------------- MODULE EtcdTesterProofs --------------------------
(***************************************************************************)
(* Proofs about EtcdTester, for every choice of Faults, of the sizes and   *)
(* of the bounds: the configuration keeps its shape, every member of the   *)
(* etcd cluster has its entry in ClusterState, every instance is in the    *)
(* file or known to be lost, and a Create or a Terminate that returns nil  *)
(* has done what it says.                                                  *)
(***************************************************************************)
EXTENDS EtcdTester, FiniteSetTheorems, TLAPS

(* ClusterSize is never below the number of entries, and there are entries *)
(* only where there was a network: neither RemoveCommand nor a second      *)
(* Create can break the count.                                             *)
RecordOK(c) ==
  /\ Cardinality(c.ClusterState) <= c.ClusterSize
  /\ c.ClusterState # {} => c.VPC

(* Until Create has filled ClusterState it is empty.                       *)
FillInv ==
  at \in {"ec2Created", "bastion", "state"} =>
    /\ cfg.VPC /\ cfg.ClusterState = {}
    /\ Cardinality(cfg.Instances) <= cfg.ClusterSize

(* What memory and file know when a member is started or added ...         *)
FileInv ==
  /\ at = "start" => disk.ClusterState = cfg.ClusterState
  /\ at \in {"install", "addCommand"} =>
       target \in cfg.ClusterState \cap disk.ClusterState

(* ... and what they know of the instance that the operation is about.     *)
TargetInv ==
  /\ at = "added" => target \in Id
  /\ at = "removeCommand" => target \in cfg.ClusterState \cap cfg.Instances
  /\ at = "delete" => target \in cfg.Instances

(* An instance that exists is recorded in memory, and lies in the network. *)
MemoryInv ==
  /\ inst \subseteq cfg.Instances \cup lost
  /\ inst # {} => vpc

IInv ==
  /\ TypeOK
  /\ RecordOK(cfg) /\ RecordOK(disk)
  /\ FillInv /\ FileInv /\ TargetInv /\ MemoryInv
  /\ MembersKnown /\ InstancesRecorded

(* The step that is next says which operation runs.                        *)
OpInv ==
  /\ at = "off" => op = "none"
  /\ at \in {"ec2", "ec2Created", "bastion", "state", "start", "ready"} =>
       op = "Create"
  /\ at \in {"add", "added", "install", "addCommand", "startNew", "listNew"} =>
       op = "MemberAdd"
  /\ at \in {"list", "removeCommand", "delete"} => op = "MemberRemove"
  /\ at = "terminate" => op = "Terminate"

(* The deployer of the instances owns the network, which the bastion keeps *)
(* in use: when it has finished without an error nothing is left.          *)
GoneInv ==
  at = "terminate" /\ ~err /\ "ec2" \notin running =>
    inst = {} /\ ~bastion /\ ~vpc

(* Only members run etcd, and while Create starts them there is either no  *)
(* member yet or the whole of ClusterState, which has the right size.      *)
StartInv ==
  /\ up \subseteq members
  /\ at \in {"start", "ready"} =>
       /\ cfg.ClusterState # {} /\ todo \subseteq cfg.ClusterState
       /\ Cardinality(cfg.ClusterState) = cfg.ClusterSize
       /\ members \in {{}, cfg.ClusterState}

ReturnInv == OpInv /\ GoneInv /\ StartInv /\ TerminateMeansGone /\ CreateMeansReady
-----------------------------------------------------------------------------
(* Numbers.                                                                *)
LEMMA IdFinite == ASSUME NEW S \in SUBSET Id PROVE IsFiniteSet(S)
<1>1. IsFiniteSet(1..MaxInstances)
  BY MaxInstancesAssumption, FS_Interval
<1>2. QED BY <1>1, FS_Subset DEF Id

(* One entry more adds at most one, one entry less takes exactly one.      *)
LEMMA OneMore ==
  ASSUME NEW S \in SUBSET Id, NEW i \in Id
  PROVE  Cardinality(S \cup {i}) <= Cardinality(S) + 1
<1>1. IsFiniteSet(S)
  BY IdFinite
<1>2. Cardinality(S) \in Nat
  BY <1>1, FS_CardinalityType
<1>3. Cardinality(S \cup {i}) =
        IF i \in S THEN Cardinality(S) ELSE Cardinality(S) + 1
  BY <1>1, FS_AddElement
<1>4. QED BY <1>2, <1>3

LEMMA OneLess ==
  ASSUME NEW S \in SUBSET Id, NEW i \in S
  PROVE  /\ Cardinality(S) \in Nat \ {0}
         /\ Cardinality(S \ {i}) = Cardinality(S) - 1
<1>1. IsFiniteSet(S) /\ S # {}
  BY IdFinite
<1>2. Cardinality(S) \in Nat \ {0}
  BY <1>1, FS_CardinalityType, FS_EmptySet
<1>3. QED BY <1>1, <1>2, FS_RemoveElement

(* At most n of n instances become ready.                                  *)
LEMMA ReadyBound ==
  ASSUME NEW a \in Nat, NEW n \in Nat, NEW S \in SUBSET (a + 1 .. a + n)
  PROVE  Cardinality(S) <= n
<1>1. /\ IsFiniteSet(a + 1 .. a + n)
      /\ Cardinality(a + 1 .. a + n) <= n
  BY FS_Interval
<1>2. /\ Cardinality(S) \in Nat
      /\ Cardinality(S) <= Cardinality(a + 1 .. a + n)
  BY <1>1, FS_Subset, FS_CardinalityType
<1>3. Cardinality(a + 1 .. a + n) \in Nat
  BY <1>1, FS_CardinalityType
<1>4. QED BY <1>1, <1>2, <1>3

-----------------------------------------------------------------------------
(* The steps, by operation.                                                *)
LEMMA CallKeeps ==
  ASSUME IInv, NEW o \in Operation, NEW first \in {"ec2", "add", "list"},
         NEW i \in Id \cup {0}, Call(o, first, i)
  PROVE  IInv'
<1>1. TypeOK'
  <2>1. at' \in Step /\ op' \in Operation /\ err' \in BOOLEAN
    BY DEF Call, Step
  <2>2. target' \in Id \cup {0}
    BY DEF Call
  <2>3. ops' \in Nat
    BY DEF IInv, TypeOK, Call
  <2>4. QED BY <2>1, <2>2, <2>3 DEF IInv, TypeOK, Call, aws, etcd
<1>2. (RecordOK(cfg) /\ RecordOK(disk))'
  BY DEF IInv, RecordOK, Call
<1>3. (FillInv /\ FileInv /\ TargetInv)'
  BY DEF FillInv, FileInv, TargetInv, Call
<1>4. (MemoryInv /\ MembersKnown /\ InstancesRecorded)'
  BY DEF IInv, MemoryInv, MembersKnown, InstancesRecorded, Call, aws, etcd
<1>5. QED BY <1>1, <1>2, <1>3, <1>4 DEF IInv

LEMMA OtherKeeps ==
  ASSUME IInv, NEW e \in BOOLEAN, Other(e), up' \subseteq Id,
         UNCHANGED <<members, named>>
  PROVE  IInv'
<1>1. TypeOK'
  BY DEF IInv, TypeOK, Other, Sync, Operation, aws
<1>2. (RecordOK(cfg) /\ RecordOK(disk))'
  BY DEF IInv, RecordOK, Other, Sync
<1>3. (FillInv /\ FileInv /\ TargetInv)'
  BY DEF FillInv, FileInv, TargetInv, Other
<1>4. (MemoryInv /\ MembersKnown /\ InstancesRecorded)'
  BY DEF IInv, MemoryInv, MembersKnown, InstancesRecorded, Other, Sync, aws
<1>5. QED BY <1>1, <1>2, <1>3, <1>4 DEF IInv

(* The caller starts a process, ends it or calls an operation.             *)
LEMMA CallerKeeps == ASSUME IInv, Caller PROVE IInv'
<1> USE DEF IInv, TypeOK, RecordOK, FillInv, FileInv, TargetInv, MemoryInv,
            MembersKnown, InstancesRecorded, aws, etcd
<1>1. CASE NewTester
  BY <1>1 DEF NewTester, Sync, Config, Step
<1>2. CASE Exit
  BY <1>2 DEF Exit, ProcessEnds, Operation, Step
<1>3. CASE Create \/ MemberAdd
  BY <1>3, CallKeeps DEF Create, MemberAdd, Operation
<1>4. CASE \E i \in Id : MemberRemove(i)
  BY <1>4, CallKeeps DEF MemberRemove, Operation
<1>5. CASE List
  BY <1>5, OtherKeeps DEF List, ListMayFail, ListPossible
<1>6. ASSUME NEW i \in Id, Stop(i) \/ Restart(i) PROVE IInv'
  BY <1>6, OtherKeeps DEF Stop, Restart
<1>7. CASE Terminate
  <2>1. TypeOK'
    <3>1. ops' \in Nat
      BY <1>7 DEF Terminate
    <3>2. at' \in Step /\ op' \in Operation /\ running' \subseteq {"ec2", "bastion"}
      BY <1>7 DEF Terminate, Operation, Step
    <3>3. target' \in Id \cup {0} /\ err' \in BOOLEAN
      BY <1>7 DEF Terminate
    <3>4. QED BY <1>7, <3>1, <3>2, <3>3 DEF Terminate
  <2>2. (RecordOK(cfg) /\ RecordOK(disk))'
    BY <1>7 DEF Terminate
  <2>3. (FillInv /\ FileInv /\ TargetInv)'
    BY <1>7 DEF Terminate
  <2>4. (MemoryInv /\ MembersKnown /\ InstancesRecorded)'
    BY <1>7 DEF Terminate
  <2>5. QED BY <2>1, <2>2, <2>3, <2>4
<1>8. QED BY <1>1, <1>2, <1>3, <1>4, <1>5, <1>6, <1>7 DEF Caller

(* The process ends in the middle of an operation.                         *)
LEMMA DiesKeeps ==
  ASSUME IInv, ProcessDies, vpc' \in BOOLEAN, inst # {} => vpc'
  PROVE  IInv'
<1>1. TypeOK'
  BY DEF IInv, TypeOK, ProcessDies, ProcessEnds, Operation, Step, etcd
<1>2. (RecordOK(cfg) /\ RecordOK(disk))'
  BY DEF IInv, RecordOK, ProcessDies, ProcessEnds
<1>3. (FillInv /\ FileInv /\ TargetInv)'
  BY DEF FillInv, FileInv, TargetInv, ProcessDies, ProcessEnds
<1>4. (MemoryInv /\ MembersKnown /\ InstancesRecorded)'
  BY DEF IInv, MemoryInv, MembersKnown, InstancesRecorded, ProcessDies,
         ProcessEnds, etcd
<1>5. QED BY <1>1, <1>2, <1>3, <1>4 DEF IInv

LEMMA CrashKeeps == ASSUME IInv, Crash PROVE IInv'
BY DiesKeeps DEF Crash, IInv, TypeOK, MemoryInv

LEMMA CreateKeeps == ASSUME IInv, CreateSteps PROVE IInv'
<1> USE DEF IInv, aws, etcd
<1>0. cfg \in Config /\ disk \in Config
  BY DEF TypeOK
<1>1. CASE EC2Create
  <2>1. PICK ready \in SUBSET (born + 1 .. born + cfg.ClusterSize) :
          cfg' = [cfg EXCEPT !.VPC = TRUE, !.Instances = ready]
          /\ lost' = lost \cup ((born + 1 .. born + cfg.ClusterSize) \ ready)
          /\ inst' = inst \cup (born + 1 .. born + cfg.ClusterSize)
    BY <1>1 DEF EC2Create
  <2>2. born \in Nat /\ cfg.ClusterSize \in Nat
        /\ born + cfg.ClusterSize <= MaxInstances
    BY <1>0, <1>1, MaxInstancesAssumption DEF EC2Create, TypeOK, Config
  <2>3. (born + 1 .. born + cfg.ClusterSize) \subseteq Id
    BY <2>2, MaxInstancesAssumption DEF Id
  <2>4. Cardinality(ready) <= cfg.ClusterSize
    BY <2>2, ReadyBound
  <2>5. /\ cfg' \in Config
        /\ cfg'.VPC = TRUE /\ cfg'.Instances = ready
        /\ cfg'.ClusterState = cfg.ClusterState
        /\ cfg'.ClusterSize = cfg.ClusterSize
    <3>1. ready \in SUBSET Id
      BY <2>3
    <3>2. QED BY <1>0, <2>1, <3>1 DEF Config
  <2>6. cfg.ClusterState = {} /\ inst = {}
    BY <1>1 DEF EC2Create, RecordOK, MemoryInv
  <2>7. TypeOK'
    <3>1. born' \in 0..MaxInstances
      BY <1>1, <2>2, MaxInstancesAssumption DEF EC2Create
    <3>2. inst' \subseteq Id /\ lost' \subseteq Id
      BY <2>1, <2>3 DEF TypeOK
    <3>3. at' \in Step /\ vpc' \in BOOLEAN
      BY <1>1 DEF EC2Create, Goto, Step
    <3>4. QED BY <1>1, <2>5, <3>1, <3>2, <3>3 DEF TypeOK, EC2Create, Goto
  <2>8. (RecordOK(cfg) /\ RecordOK(disk))'
    BY <1>1, <2>5 DEF RecordOK, EC2Create
  <2>9. (FillInv /\ FileInv /\ TargetInv)'
    BY <1>1, <2>4, <2>5, <2>6 DEF FillInv, FileInv, TargetInv, EC2Create, Goto
  <2>10. (MemoryInv /\ MembersKnown /\ InstancesRecorded)'
    <3>1. inst' \subseteq cfg'.Instances \cup lost'
      BY <2>1, <2>5, <2>6
    <3>2. vpc' = TRUE /\ at' = "ec2Created" /\ UNCHANGED <<members, disk>>
      BY <1>1 DEF EC2Create, Goto
    <3>3. QED BY <2>5, <3>1, <3>2 DEF MemoryInv, MembersKnown, InstancesRecorded
  <2>11. QED BY <2>7, <2>8, <2>9, <2>10
<1>2. CASE EC2CreateFails
  <2>1. inst' \in {inst, inst \ cfg.Instances}
    BY <1>2 DEF EC2CreateFails
  <2>2. /\ up' \subseteq up /\ at = "ec2" /\ at' = "idle" /\ err' = TRUE
        /\ UNCHANGED <<orphan, bastion, born, members, named, disk, op, target,
                       todo, running, lost, ops>>
    BY <1>2 DEF EC2CreateFails, Return
  <2>3. vpc' \in BOOLEAN /\ (inst' # {} => vpc')
    <3>1. inst' # {} => vpc
      BY <2>1 DEF MemoryInv
    <3>2. CASE vpc' = (vpc /\ (bastion \/ ~cfg.VPC \/ inst' # {}))
      BY <3>1, <3>2
    <3>3. CASE vpc' = vpc \/ vpc' = TRUE
      BY <3>1, <3>3 DEF TypeOK
    <3>4. QED BY <1>2, <3>2, <3>3 DEF EC2CreateFails
  <2>4. /\ cfg' \in Config /\ (cfg'.VPC \/ cfg'.VPC = cfg.VPC)
        /\ cfg'.Instances = cfg.Instances
        /\ cfg'.ClusterState = cfg.ClusterState
        /\ cfg'.ClusterSize = cfg.ClusterSize
    BY <1>0, <1>2 DEF EC2CreateFails, Config
  <2>5. TypeOK'
    BY <2>1, <2>2, <2>3, <2>4 DEF TypeOK, Step
  <2>6. (RecordOK(cfg) /\ RecordOK(disk))'
    BY <2>2, <2>4 DEF RecordOK
  <2>7. (FillInv /\ FileInv /\ TargetInv)'
    BY <2>2 DEF FillInv, FileInv, TargetInv
  <2>8. (MemoryInv /\ MembersKnown /\ InstancesRecorded)'
    BY <2>1, <2>2, <2>3, <2>4 DEF MemoryInv, MembersKnown, InstancesRecorded
  <2>9. QED BY <2>5, <2>6, <2>7, <2>8
<1>3. CASE EC2Created
  BY <1>3 DEF EC2Created, Goto, Sync, TypeOK, Step, RecordOK, FillInv, FileInv,
     TargetInv, MemoryInv, MembersKnown, InstancesRecorded
<1>4. CASE BastionCreate
  BY <1>4 DEF BastionCreate, Goto, Return, TypeOK, Config, Step, RecordOK,
     FillInv, FileInv, TargetInv, MemoryInv, MembersKnown, InstancesRecorded
<1>5. CASE FillClusterState
  <2>1. /\ cfg.ClusterState = {} /\ Cardinality(cfg.Instances) <= cfg.ClusterSize
        /\ cfg.Instances \subseteq Id /\ cfg.ClusterSize \in Nat /\ cfg.VPC
    BY <1>0, <1>5 DEF FillClusterState, FillInv, Config
  <2>2. /\ cfg' \in Config
        /\ cfg'.VPC = cfg.VPC /\ cfg'.Instances = cfg.Instances
        /\ cfg'.ClusterState = cfg.Instances
        /\ cfg'.ClusterSize = cfg.ClusterSize
    BY <1>0, <1>5, <2>1 DEF FillClusterState, Config
  <2>3. UNCHANGED disk \/ disk' = cfg'
    BY <1>5 DEF FillClusterState, Sync
  <2>4. at' = "start" => disk' = cfg' 
    BY <1>5 DEF FillClusterState, Sync, Goto, Return
  <2>5. /\ at' \in {"start", "idle"} /\ UNCHANGED <<op, target, ops, running>>
        /\ todo' \in SUBSET Id /\ err' \in BOOLEAN
    BY <1>5, <2>1, <2>2 DEF FillClusterState, Goto, Return, TypeOK
  <2>6. UNCHANGED <<aws, etcd, lost>>
    BY <1>5 DEF FillClusterState
  <2>7. members = {}
    BY <2>1 DEF MembersKnown
  <2>8. TypeOK'
    BY <2>2, <2>3, <2>5, <2>6 DEF TypeOK, Step
  <2>9. (RecordOK(cfg) /\ RecordOK(disk))'
    BY <2>1, <2>2, <2>3 DEF RecordOK
  <2>10. (FillInv /\ FileInv /\ TargetInv)'
    BY <2>4, <2>5 DEF FillInv, FileInv, TargetInv
  <2>11. (MemoryInv /\ MembersKnown /\ InstancesRecorded)'
    <3>1. inst \subseteq disk.Instances \cup lost
      BY <1>5 DEF FillClusterState, InstancesRecorded
    <3>2. inst \subseteq cfg.Instances \cup lost /\ (inst # {} => vpc)
      BY DEF MemoryInv
    <3>3. MemoryInv'
      BY <2>2, <2>6, <3>2 DEF MemoryInv
    <3>4. MembersKnown'
      BY <2>6, <2>7 DEF MembersKnown
    <3>5. inst' \subseteq disk'.Instances \cup lost'
      BY <2>2, <2>3, <2>6, <3>1, <3>2
    <3>6. QED BY <3>3, <3>4, <3>5 DEF InstancesRecorded
  <2>12. QED BY <2>8, <2>9, <2>10, <2>11
<1>6. CASE AllStarted \/ CreateReturns
  BY <1>6 DEF AllStarted, CreateReturns, Goto, Return, Sync, TypeOK, Step,
     RecordOK, FillInv, FileInv, TargetInv, MemoryInv, MembersKnown,
     InstancesRecorded
<1>7. ASSUME NEW i \in Id, StartEtcd(i) PROVE IInv'
  <2>1. /\ UNCHANGED <<aws, cfg, disk, running, lost, op, target, ops>>
        /\ at = "start" /\ at' \in {"start", "idle"} /\ err' \in BOOLEAN
        /\ todo' \subseteq todo
    BY <1>7 DEF StartEtcd, Return, TypeOK
  <2>2. /\ members' \in {members, cfg.ClusterState}
        /\ named' \in {named, cfg.ClusterState}
        /\ up' \in {up, up \cup {i}}
    BY <1>7 DEF StartEtcd
  <2>3. cfg.ClusterState \subseteq Id
    BY <1>0 DEF Config
  <2>4. TypeOK'
    BY <2>1, <2>2, <2>3 DEF TypeOK, Step
  <2>5. (RecordOK(cfg) /\ RecordOK(disk))'
    BY <2>1 DEF RecordOK
  <2>6. (FillInv /\ FileInv /\ TargetInv)'
    BY <2>1 DEF FillInv, FileInv, TargetInv
  <2>7. (MemoryInv /\ MembersKnown /\ InstancesRecorded)'
    BY <2>1, <2>2 DEF FileInv, MemoryInv, MembersKnown, InstancesRecorded
  <2>8. QED BY <2>4, <2>5, <2>6, <2>7
<1>8. CASE EC2CreateOrphans
  <2>1. /\ UNCHANGED <<bastion, inst, born, etcd, cfg, disk, todo, running, lost>>
        /\ at = "ec2" /\ at' = "idle" /\ err' = TRUE /\ UNCHANGED <<op, target, ops>>
        /\ orphan' = TRUE /\ ~vpc
    BY <1>8 DEF EC2CreateOrphans, Return
  <2>0. vpc' \in BOOLEAN
    <3>1. Fails("deleteError") \in BOOLEAN
      BY DEF Fails
    <3>2. QED BY <1>8, <3>1 DEF EC2CreateOrphans
  <2>2. TypeOK'
    BY <2>0, <2>1 DEF TypeOK, Step
  <2>3. (RecordOK(cfg) /\ RecordOK(disk))'
    BY <2>1 DEF RecordOK
  <2>4. (FillInv /\ FileInv /\ TargetInv)'
    BY <2>1 DEF FillInv, FileInv, TargetInv
  <2>5. (MemoryInv /\ MembersKnown /\ InstancesRecorded)'
    BY <2>1 DEF MemoryInv, MembersKnown, InstancesRecorded
  <2>6. QED BY <2>2, <2>3, <2>4, <2>5
<1>9. CASE EC2CreateLeaves
  <2>1. PICK k \in 1 .. cfg.ClusterSize - 1 :
          /\ born + k <= MaxInstances /\ born' = born + k
          /\ inst' = inst \cup (born + 1 .. born + k)
          /\ lost' = lost \cup (born + 1 .. born + k)
    BY <1>9 DEF EC2CreateLeaves
  <2>2. born \in Nat /\ k \in Nat /\ inst = {}
    BY <1>0, <1>9, MaxInstancesAssumption DEF EC2CreateLeaves, TypeOK, Config,
       MemoryInv
  <2>3. born' \in 0..MaxInstances /\ (born + 1 .. born + k) \subseteq Id
    BY <2>1, <2>2, MaxInstancesAssumption DEF Id
  <2>4. /\ cfg' \in Config /\ cfg'.VPC = TRUE
        /\ cfg'.ClusterState = cfg.ClusterState
        /\ cfg'.ClusterSize = cfg.ClusterSize
    BY <1>0, <1>9 DEF EC2CreateLeaves, Config
  <2>5. /\ UNCHANGED <<orphan, bastion, etcd, disk, todo, running, op, target, ops>>
        /\ at' = "idle" /\ err' = TRUE /\ vpc' = TRUE
    BY <1>9 DEF EC2CreateLeaves, Return
  <2>6. TypeOK'
    BY <2>1, <2>3, <2>4, <2>5 DEF TypeOK, Step
  <2>7. (RecordOK(cfg) /\ RecordOK(disk))'
    BY <2>4, <2>5 DEF RecordOK
  <2>8. (FillInv /\ FileInv /\ TargetInv)'
    BY <2>5 DEF FillInv, FileInv, TargetInv
  <2>9. (MemoryInv /\ MembersKnown /\ InstancesRecorded)'
    BY <2>1, <2>2, <2>4, <2>5 DEF MemoryInv, MembersKnown, InstancesRecorded
  <2>10. QED BY <2>6, <2>7, <2>8, <2>9
<1>10. CASE EC2CreatePanics \/ FillPanics
  BY <1>10, DiesKeeps DEF EC2CreatePanics, FillPanics, TypeOK, MemoryInv
<1>11. QED
  BY <1>1, <1>2, <1>3, <1>4, <1>5, <1>6, <1>7, <1>8, <1>9, <1>10
  DEF CreateSteps

LEMMA AddKeeps == ASSUME IInv, AddSteps PROVE IInv'
<1> USE DEF IInv, aws, etcd
<1>0. cfg \in Config /\ disk \in Config
  BY DEF TypeOK
<1>1. CASE EC2Add
  <2>1. /\ at = "add" /\ born \in Nat /\ inst \subseteq disk.Instances \cup lost
    BY <1>1 DEF EC2Add, TypeOK, InstancesRecorded
  <2>2. CASE Return(TRUE) /\ UNCHANGED <<aws, etcd, cfg, disk, todo, running, lost>>
    BY <2>1, <2>2 DEF Return, TypeOK, Step, RecordOK, FillInv, FileInv, TargetInv,
       MemoryInv, MembersKnown, InstancesRecorded
  <2>3. ASSUME vpc, born < MaxInstances,
               inst' = inst \cup {born + 1}, born' = born + 1,
               UNCHANGED <<vpc, orphan, bastion, etcd, disk, ops>>
        PROVE  /\ born + 1 \in Id /\ inst' \subseteq Id
               /\ born' \in 0..MaxInstances
    BY <2>1, <2>3, MaxInstancesAssumption DEF TypeOK, Id
  <2>4. CASE /\ vpc /\ born < MaxInstances
             /\ inst' = inst \cup {born + 1} /\ born' = born + 1
             /\ cfg' = [cfg EXCEPT !.Instances = @ \cup {born + 1},
                                   !.EC2Size = @ + 1]
             /\ target' = born + 1 /\ at' = "added"
             /\ UNCHANGED <<vpc, orphan, bastion, etcd, disk, op, err, todo, running,
                            lost, ops>>
    <3>1. born + 1 \in Id /\ inst' \subseteq Id /\ born' \in 0..MaxInstances
      BY <2>3, <2>4
    <3>2. /\ cfg' \in Config
          /\ cfg'.VPC = cfg.VPC /\ cfg'.Instances = cfg.Instances \cup {born + 1}
          /\ cfg'.ClusterState = cfg.ClusterState
          /\ cfg'.ClusterSize = cfg.ClusterSize
      <4>1. /\ cfg.Instances \cup {born + 1} \in SUBSET Id
            /\ cfg.EC2Size + 1 \in Nat
        BY <1>0, <3>1 DEF Config
      <4>2. QED BY <1>0, <2>4, <4>1 DEF Config
    <3>3. TypeOK'
      BY <2>4, <3>1, <3>2 DEF TypeOK, Step
    <3>4. (RecordOK(cfg) /\ RecordOK(disk))'
      BY <2>4, <3>2 DEF RecordOK
    <3>5. (FillInv /\ FileInv /\ TargetInv)'
      BY <2>4, <3>1 DEF FillInv, FileInv, TargetInv
    <3>6. (MemoryInv /\ MembersKnown /\ InstancesRecorded)'
      BY <2>4, <3>2 DEF MemoryInv, MembersKnown, InstancesRecorded
    <3>7. QED BY <3>3, <3>4, <3>5, <3>6
  <2>5. CASE /\ vpc /\ born < MaxInstances
             /\ inst' = inst \cup {born + 1} /\ born' = born + 1
             /\ lost' = lost \cup {born + 1}
             /\ at' = "off" /\ op' = "none" /\ err' = FALSE
             /\ cfg' = disk /\ target' = 0 /\ todo' = {} /\ running' = {}
             /\ UNCHANGED <<vpc, orphan, bastion, etcd, disk, ops>>
    <3>1. born + 1 \in Id /\ inst' \subseteq Id /\ born' \in 0..MaxInstances
      BY <2>3, <2>5
    <3>2. TypeOK'
      BY <1>0, <2>5, <3>1 DEF TypeOK, Operation, Step
    <3>3. (RecordOK(cfg) /\ RecordOK(disk))'
      BY <2>5 DEF RecordOK
    <3>4. (FillInv /\ FileInv /\ TargetInv)'
      BY <2>5 DEF FillInv, FileInv, TargetInv
    <3>5. (MemoryInv /\ MembersKnown /\ InstancesRecorded)'
      BY <2>1, <2>5 DEF MemoryInv, MembersKnown, InstancesRecorded
    <3>6. QED BY <3>2, <3>3, <3>4, <3>5
  <2>6. QED BY <1>1, <2>2, <2>4, <2>5 DEF EC2Add
<1>2. CASE RecordNew
  <2>1. /\ cfg.ClusterState \in SUBSET Id /\ cfg.ClusterSize \in Nat
        /\ cfg.ClusterState # {} /\ at = "added" /\ target \in Id
    BY <1>0, <1>2 DEF RecordNew, TargetInv, Config
  <2>2. /\ cfg' \in Config
        /\ cfg'.VPC = cfg.VPC /\ cfg'.Instances = cfg.Instances
        /\ cfg'.ClusterState = cfg.ClusterState \cup {target}
        /\ cfg'.ClusterSize = cfg.ClusterSize + 1
    <3>1. /\ cfg.ClusterState \cup {target} \in SUBSET Id
          /\ cfg.ClusterSize + 1 \in Nat
      BY <2>1
    <3>2. cfg' = [cfg EXCEPT !.ClusterState = cfg.ClusterState \cup {target},
                             !.ClusterSize = cfg.ClusterSize + 1,
                             !.EC2Size = cfg.ClusterSize + 1]
      BY <1>0, <1>2 DEF RecordNew, Config
    <3>3. QED BY <1>0, <3>1, <3>2 DEF Config
  <2>3. /\ disk' = cfg' /\ at' \in {"install", "idle"} /\ err' \in BOOLEAN
        /\ UNCHANGED <<aws, etcd, op, target, todo, running, lost, ops>>
    BY <1>2 DEF RecordNew, Sync, Goto, Return, TypeOK
  <2>4. Cardinality(cfg'.ClusterState) <= cfg'.ClusterSize
    <3>1. Cardinality(cfg.ClusterState \cup {target})
            <= Cardinality(cfg.ClusterState) + 1
      BY <2>1, OneMore
    <3>2. /\ Cardinality(cfg.ClusterState) \in Nat
          /\ Cardinality(cfg.ClusterState \cup {target}) \in Nat
      BY <2>1, IdFinite, FS_AddElement, FS_CardinalityType
    <3>3. QED BY <2>1, <2>2, <3>1, <3>2 DEF RecordOK
  <2>5. TypeOK'
    BY <2>2, <2>3 DEF TypeOK, Step
  <2>6. (RecordOK(cfg) /\ RecordOK(disk))'
    BY <2>1, <2>2, <2>3, <2>4 DEF RecordOK
  <2>7. (FillInv /\ FileInv /\ TargetInv)'
    BY <2>2, <2>3 DEF FillInv, FileInv, TargetInv
  <2>8. (MemoryInv /\ MembersKnown /\ InstancesRecorded)'
    BY <2>2, <2>3 DEF MemoryInv, MembersKnown, InstancesRecorded
  <2>9. QED BY <2>5, <2>6, <2>7, <2>8
<1>3. CASE RecordNewPanics
  BY <1>3, DiesKeeps DEF RecordNewPanics, TypeOK, MemoryInv
<1>4. CASE InstallNew
  BY <1>4 DEF InstallNew, Goto, Return, TypeOK, Step, RecordOK, FillInv, FileInv,
     TargetInv, MemoryInv, MembersKnown, InstancesRecorded
<1>5. CASE AddCommand
  BY <1>0, <1>5 DEF AddCommand, Goto, Return, Sync, TypeOK, Config, Step,
     RecordOK, FillInv, FileInv, TargetInv, MemoryInv, MembersKnown,
     InstancesRecorded
<1>6. CASE StartNew
  <2>1. /\ UNCHANGED <<aws, members, cfg, disk, op, target, todo, running, lost, ops>>
        /\ at = "startNew" /\ at' \in {"listNew", "idle"} /\ err' \in BOOLEAN
    BY <1>6 DEF StartNew, Goto, Return, TypeOK
  <2>2. /\ named' \in {named, named \cup (members \cap {target})}
        /\ up' \in {up, up \cup (members \cap {target})}
    BY <1>6 DEF StartNew
  <2>3. TypeOK'
    BY <2>1, <2>2 DEF TypeOK, Step
  <2>4. (RecordOK(cfg) /\ RecordOK(disk))'
    BY <2>1 DEF RecordOK
  <2>5. (FillInv /\ FileInv /\ TargetInv)'
    BY <2>1 DEF FillInv, FileInv, TargetInv
  <2>6. (MemoryInv /\ MembersKnown /\ InstancesRecorded)'
    BY <2>1 DEF MemoryInv, MembersKnown, InstancesRecorded
  <2>7. QED BY <2>3, <2>4, <2>5, <2>6
<1>7. CASE AddReturns
  BY <1>7 DEF AddReturns, Return, Sync, TypeOK, Step, RecordOK, FillInv, FileInv,
     TargetInv, MemoryInv, MembersKnown, InstancesRecorded
<1>8. QED BY <1>1, <1>2, <1>3, <1>4, <1>5, <1>6, <1>7 DEF AddSteps

LEMMA RemoveKeeps == ASSUME IInv, RemoveSteps PROVE IInv'
<1> USE DEF IInv, aws, etcd
<1>0. cfg \in Config /\ disk \in Config
  BY DEF TypeOK
<1>1. CASE RemoveLists
  BY <1>1 DEF RemoveLists, Goto, Return, Sync, TypeOK, Step, RecordOK, FillInv,
     FileInv, TargetInv, MemoryInv, MembersKnown, InstancesRecorded
<1>2. CASE RemoveCommand
  <2>1. /\ target \in cfg.ClusterState /\ target \in cfg.Instances
        /\ cfg.ClusterState \in SUBSET Id /\ cfg.ClusterSize \in Nat
    BY <1>0, <1>2 DEF RemoveCommand, TargetInv, Config
  <2>2. /\ Cardinality(cfg.ClusterState) \in Nat \ {0}
        /\ Cardinality(cfg.ClusterState \ {target})
             = Cardinality(cfg.ClusterState) - 1
    BY <2>1, OneLess
  <2>3. /\ at' \in {"delete", "idle"} /\ err' \in BOOLEAN
        /\ UNCHANGED <<aws, op, target, todo, running, lost, ops>>
        /\ disk' \in {disk, cfg'}
    BY <1>2 DEF RemoveCommand, Goto, Return, Sync, TypeOK
  <2>4. CASE /\ cfg' = [cfg EXCEPT !.ClusterState = @ \ {target},
                                   !.ClusterSize = @ - 1]
             /\ members' = members \ {target} /\ named' = named \ {target}
             /\ up' = up \ {target} /\ disk' = cfg'
    <3>1. /\ cfg' \in Config
          /\ cfg'.VPC = cfg.VPC /\ cfg'.Instances = cfg.Instances
          /\ cfg'.ClusterState = cfg.ClusterState \ {target}
          /\ cfg'.ClusterSize = cfg.ClusterSize - 1
      <4>1. cfg.ClusterSize - 1 \in Nat
        BY <2>1, <2>2 DEF RecordOK
      <4>2. QED BY <1>0, <2>1, <2>4, <4>1 DEF Config
    <3>2. TypeOK'
      BY <2>3, <2>4, <3>1 DEF TypeOK, Step
    <3>3. (RecordOK(cfg) /\ RecordOK(disk))'
      BY <2>1, <2>2, <2>4, <3>1 DEF RecordOK
    <3>4. (FillInv /\ FileInv /\ TargetInv)'
      BY <2>1, <2>3, <3>1 DEF FillInv, FileInv, TargetInv
    <3>5. (MemoryInv /\ MembersKnown /\ InstancesRecorded)'
      BY <2>3, <2>4, <3>1 DEF MemoryInv, MembersKnown, InstancesRecorded
    <3>6. QED BY <3>2, <3>3, <3>4, <3>5
  <2>5. CASE /\ cfg' = cfg /\ members' \subseteq members
             /\ named' \subseteq named /\ up' \subseteq up
    <3>1. TypeOK'
      BY <2>3, <2>5 DEF TypeOK, Step
    <3>2. (RecordOK(cfg) /\ RecordOK(disk))'
      BY <2>3, <2>5 DEF RecordOK
    <3>3. (FillInv /\ FileInv /\ TargetInv)'
      BY <2>1, <2>3, <2>5 DEF FillInv, FileInv, TargetInv
    <3>4. (MemoryInv /\ MembersKnown /\ InstancesRecorded)'
      <4>1. inst \subseteq disk.Instances \cup lost
        BY <1>2 DEF RemoveCommand, InstancesRecorded
      <4>2. QED BY <2>3, <2>5, <4>1 DEF MemoryInv, MembersKnown, InstancesRecorded
    <3>5. QED BY <3>1, <3>2, <3>3, <3>4
  <2>6. QED BY <1>2, <2>4, <2>5 DEF RemoveCommand, Sync
<1>3. CASE EC2Delete
  <2>1. /\ target \in cfg.Instances /\ cfg.Instances \in SUBSET Id
        /\ cfg.EC2Size \in Nat /\ at = "delete"
    BY <1>0, <1>3 DEF EC2Delete, TargetInv, Config
  <2>2. Cardinality(cfg.Instances) \in Nat \ {0}
    BY <2>1, OneLess
  <2>3. /\ at' = "idle" /\ err' \in BOOLEAN /\ up' \subseteq up
        /\ inst' \in {inst, inst \ {target}}
        /\ UNCHANGED <<vpc, orphan, bastion, born, members, named, disk, op,
                       target, todo, running, ops>>
    BY <1>3 DEF EC2Delete, Return
  <2>4. /\ cfg' \in Config
        /\ cfg'.VPC = cfg.VPC /\ cfg'.ClusterState = cfg.ClusterState
        /\ cfg'.ClusterSize = cfg.ClusterSize
        /\ \/ /\ cfg'.Instances = cfg.Instances \ {target}
              /\ lost' = lost \cup (inst' \cap {target})
           \/ cfg'.Instances = cfg.Instances /\ lost' = lost
    <3>1. CASE /\ Cardinality(cfg.Instances) = cfg.EC2Size
               /\ cfg' = [cfg EXCEPT !.Instances = @ \ {target}, !.EC2Size = @ - 1]
               /\ lost' = lost \cup (inst' \cap {target})
      <4>1. cfg.EC2Size - 1 \in Nat
        BY <2>1, <2>2, <3>1
      <4>2. QED BY <1>0, <2>1, <3>1, <4>1 DEF Config
    <3>2. CASE UNCHANGED <<cfg, lost>>
      BY <1>0, <3>2
    <3>3. QED BY <1>3, <3>1, <3>2 DEF EC2Delete
  <2>5. TypeOK'
    BY <2>3, <2>4 DEF TypeOK, Step
  <2>6. (RecordOK(cfg) /\ RecordOK(disk))'
    BY <2>3, <2>4 DEF RecordOK
  <2>7. (FillInv /\ FileInv /\ TargetInv)'
    BY <2>3 DEF FillInv, FileInv, TargetInv
  <2>8. (MemoryInv /\ MembersKnown /\ InstancesRecorded)'
    BY <2>1, <2>3, <2>4 DEF MemoryInv, MembersKnown, InstancesRecorded
  <2>9. QED BY <2>5, <2>6, <2>7, <2>8
<1>4. QED BY <1>1, <1>2, <1>3 DEF RemoveSteps

LEMMA TerminateKeeps == ASSUME IInv, TerminateSteps PROVE IInv'
<1> USE DEF IInv, TypeOK, RecordOK, FillInv, FileInv, TargetInv, MemoryInv,
            MembersKnown, InstancesRecorded, aws, etcd
<1>1. CASE TerminateInstances
  BY <1>1 DEF TerminateInstances
<1>2. CASE TerminateNetwork
  <2>1. TypeOK'
    BY <1>2 DEF TerminateNetwork
  <2>2. (RecordOK(cfg) /\ RecordOK(disk))'
    BY <1>2 DEF TerminateNetwork
  <2>3. (FillInv /\ FileInv /\ TargetInv)'
    BY <1>2 DEF TerminateNetwork
  <2>4. (MemoryInv /\ MembersKnown /\ InstancesRecorded)'
    BY <1>2 DEF TerminateNetwork
  <2>5. QED BY <2>1, <2>2, <2>3, <2>4
<1>3. CASE TerminateBastion
  <2>1. TypeOK'
    BY <1>3 DEF TerminateBastion
  <2>2. (RecordOK(cfg) /\ RecordOK(disk))'
    BY <1>3 DEF TerminateBastion
  <2>3. (FillInv /\ FileInv /\ TargetInv)'
    BY <1>3 DEF TerminateBastion
  <2>4. (MemoryInv /\ MembersKnown /\ InstancesRecorded)'
    BY <1>3 DEF TerminateBastion
  <2>5. QED BY <2>1, <2>2, <2>3, <2>4
<1>4. CASE TerminateReturns
  BY <1>4 DEF TerminateReturns, Return, Step
<1>5. QED BY <1>1, <1>2, <1>3, <1>4 DEF TerminateSteps

-----------------------------------------------------------------------------
(* The theorems.                                                           *)
LEMMA InitOK == Init => IInv
<1>1. Cardinality({}) = 0
  BY FS_EmptySet
<1>2. Size \in Nat
  BY SizeAssumption, LimitAssumption
<1>3. SUFFICES ASSUME Init PROVE IInv
  OBVIOUS
<1>4. /\ cfg \in Config /\ disk = cfg
      /\ cfg.ClusterState = {} /\ cfg.ClusterSize = Size
  BY <1>2, <1>3 DEF Init, Config
<1>5. TypeOK
  <2>1. born \in 0..MaxInstances /\ ops \in Nat /\ target \in Id \cup {0}
    BY <1>3, MaxInstancesAssumption DEF Init
  <2>2. at \in Step /\ op \in Operation
    BY <1>3 DEF Init, Step, Operation
  <2>3. QED BY <1>3, <1>4, <2>1, <2>2 DEF Init, TypeOK
<1>6. RecordOK(cfg) /\ RecordOK(disk)
  BY <1>1, <1>2, <1>4 DEF RecordOK
<1>7. FillInv /\ FileInv /\ TargetInv
  BY <1>3 DEF Init, FillInv, FileInv, TargetInv
<1>8. MemoryInv /\ MembersKnown /\ InstancesRecorded
  BY <1>3 DEF Init, MemoryInv, MembersKnown, InstancesRecorded
<1>9. QED BY <1>5, <1>6, <1>7, <1>8 DEF IInv

LEMMA StepOK == IInv /\ [Next]_vars => IInv'
<1> SUFFICES ASSUME IInv, [Next]_vars PROVE IInv'
  OBVIOUS
<1>1. CASE UNCHANGED vars
  BY <1>1 DEF vars, aws, etcd, IInv, TypeOK, RecordOK, FillInv, FileInv, TargetInv,
     MemoryInv, MembersKnown, InstancesRecorded
<1>2. QED
  BY <1>1, CallerKeeps, CrashKeeps, CreateKeeps, AddKeeps, RemoveKeeps,
     TerminateKeeps DEF Next, Ended

LEMMA Invariance == Spec => []IInv
BY InitOK, StepOK, PTL DEF Spec

(* The configuration keeps its shape: no sequence of operations and faults *)
(* brings a size below zero.                                               *)
THEOREM EtcdTypeCorrect == Spec => []TypeOK
<1>1. IInv => TypeOK
  BY DEF IInv
<1>2. QED BY <1>1, Invariance, PTL

(* Whatever fails, every member of the etcd cluster has its entry in       *)
(* ClusterState, in memory and in the file.                                *)
THEOREM MembersStayKnown == Spec => []MembersKnown
<1>1. IInv => MembersKnown
  BY DEF IInv
<1>2. QED BY <1>1, Invariance, PTL

(* An instance that exists is in the file, or the process is between an    *)
(* EC2 call and the write, or has died there, or the EC2 deployer never    *)
(* recorded it: its loop gave up, or a later RunInstances call failed.     *)
THEOREM InstancesStayRecorded == Spec => []InstancesRecorded
<1>1. IInv => InstancesRecorded
  BY DEF IInv
<1>2. QED BY <1>1, Invariance, PTL
-----------------------------------------------------------------------------
(* What a return of nil means.                                             *)

(* As many as there are are all of them.                                   *)
LEMMA FullCount ==
  ASSUME NEW S \in SUBSET Id, NEW U, Cardinality(S \cap U) = Cardinality(S)
  PROVE  S \subseteq U
<1>1. IsFiniteSet(S) /\ S \cap U \subseteq S
  BY IdFinite
<1>2. S \cap U = S
  BY <1>1, FS_Subset
<1>3. QED BY <1>2

LEMMA CreateSettles ==
  ASSUME IInv, ReturnInv, CreateSteps PROVE ReturnInv'
<1> USE DEF ReturnInv, OpInv
<1>0. cfg \in Config /\ cfg.ClusterState \in SUBSET Id /\ todo \subseteq Id
  BY DEF IInv, TypeOK, Config
<1>1. CASE EC2Create
  <2>1. up = {}
    BY <1>1 DEF EC2Create, IInv, RecordOK, MembersKnown, StartInv
  <2>2. at' = "ec2Created" /\ UNCHANGED <<op, etcd>>
    BY <1>1 DEF EC2Create, Goto
  <2>3. QED BY <1>1, <2>1, <2>2 DEF EC2Create, Goto, etcd, GoneInv, StartInv,
            TerminateMeansGone, CreateMeansReady
<1>2. CASE EC2CreateFails
  BY <1>2 DEF EC2CreateFails, Return, GoneInv, StartInv, TerminateMeansGone,
     CreateMeansReady
<1>3. CASE EC2Created
  BY <1>3 DEF EC2Created, Goto, Sync, aws, etcd, GoneInv, StartInv,
     TerminateMeansGone, CreateMeansReady
<1>4. CASE BastionCreate
  BY <1>4 DEF BastionCreate, Goto, Return, etcd, GoneInv, StartInv,
     TerminateMeansGone, CreateMeansReady
<1>5. CASE FillClusterState
  <2>1. cfg.ClusterState = {} /\ members = {} /\ up = {}
    BY <1>5 DEF FillClusterState, IInv, FillInv, MembersKnown, StartInv
  <2>2. /\ UNCHANGED <<aws, etcd, op>>
        /\ \/ at' = "start" /\ Valid(cfg') /\ cfg'.ClusterState # {}
              /\ todo' = cfg'.ClusterState
           \/ at' = "idle" /\ err'
    BY <1>5 DEF FillClusterState, Goto, Return
  <2>3. op = "Create"
    BY <1>5 DEF FillClusterState
  <2>4. QED BY <2>1, <2>2, <2>3 DEF Valid, etcd, GoneInv, StartInv,
            TerminateMeansGone, CreateMeansReady
<1>6. CASE AllStarted
  BY <1>6 DEF AllStarted, Goto, aws, etcd, GoneInv, StartInv, TerminateMeansGone,
     CreateMeansReady
<1>7. CASE CreateReturns
  <2>1. /\ UNCHANGED <<aws, etcd, cfg, todo, op>>
        /\ at = "ready" /\ at' = "idle" /\ op = "Create"
    BY <1>7 DEF CreateReturns, Return
  <2>2. /\ cfg.ClusterState # {} /\ Cardinality(cfg.ClusterState) = cfg.ClusterSize
        /\ members \in {{}, cfg.ClusterState} /\ up \subseteq members
    BY <2>1 DEF StartInv
  <2>3. ASSUME ~err' PROVE /\ Cardinality(cfg.ClusterState \cap up) = cfg.ClusterSize
                           /\ disk' = cfg
    BY <1>7, <2>1, <2>3 DEF CreateReturns, Return, Sync
  <2>4. ASSUME ~err' PROVE members = cfg.ClusterState
    <3>1. cfg.ClusterState \subseteq up
      BY <1>0, <2>2, <2>3, <2>4, FullCount
    <3>2. QED BY <2>2, <3>1
  <2>5. CreateMeansReady'
    BY <2>1, <2>2, <2>3, <2>4 DEF CreateMeansReady, etcd
  <2>6. QED BY <2>1, <2>2, <2>5 DEF etcd, GoneInv, StartInv, TerminateMeansGone
<1>8. ASSUME NEW i \in Id, StartEtcd(i) PROVE ReturnInv'
  <2>1. /\ UNCHANGED <<aws, cfg, disk, op>>
        /\ at = "start" /\ op = "Create" /\ i \in todo
        /\ todo' \subseteq todo
        /\ \/ members' = cfg.ClusterState /\ up' = up \cup {i}
           \/ UNCHANGED <<members, up>>
        /\ at' = "start" \/ (at' = "idle" /\ err')
    BY <1>8 DEF StartEtcd, Return, etcd
  <2>2. QED BY <2>1 DEF GoneInv, StartInv, TerminateMeansGone, CreateMeansReady
<1>9. CASE EC2CreateOrphans \/ EC2CreateLeaves
  BY <1>9 DEF EC2CreateOrphans, EC2CreateLeaves, Return, etcd, GoneInv, StartInv,
     TerminateMeansGone, CreateMeansReady
<1>10. CASE EC2CreatePanics \/ FillPanics
  BY <1>10 DEF EC2CreatePanics, FillPanics, ProcessDies, ProcessEnds, etcd,
     GoneInv, StartInv, TerminateMeansGone, CreateMeansReady
<1>11. QED
  BY <1>1, <1>2, <1>3, <1>4, <1>5, <1>6, <1>7, <1>8, <1>9, <1>10
  DEF CreateSteps

LEMMA AddSettles ==
  ASSUME IInv, ReturnInv, AddSteps PROVE ReturnInv'
<1> USE DEF ReturnInv, OpInv, GoneInv, StartInv, TerminateMeansGone,
            CreateMeansReady, aws, etcd
<1>1. CASE EC2Add
  BY <1>1 DEF EC2Add, Return
<1>2. CASE RecordNew
  <2>1. at' \in {"install", "idle"} /\ op' = "MemberAdd"
        /\ UNCHANGED <<aws, etcd>>
    BY <1>2 DEF RecordNew, Goto, Return
  <2>2. QED BY <2>1
<1>3. CASE RecordNewPanics
  BY <1>3 DEF RecordNewPanics, ProcessDies, ProcessEnds
<1>4. CASE InstallNew
  BY <1>4 DEF InstallNew, Goto, Return
<1>5. CASE AddCommand
  <2>1. /\ at' \in {"startNew", "idle"} /\ op' = "MemberAdd"
        /\ up' = up /\ members \subseteq members'
    BY <1>5 DEF AddCommand, Goto, Return
  <2>2. QED BY <2>1
<1>6. CASE StartNew
  <2>1. /\ at' \in {"listNew", "idle"} /\ op' = "MemberAdd"
        /\ members' = members /\ up' \subseteq up \cup members
    BY <1>6 DEF StartNew, Goto, Return
  <2>2. QED BY <2>1
<1>7. CASE AddReturns
  BY <1>7 DEF AddReturns, Return
<1>8. QED BY <1>1, <1>2, <1>3, <1>4, <1>5, <1>6, <1>7 DEF AddSteps

LEMMA RemoveSettles ==
  ASSUME IInv, ReturnInv, RemoveSteps PROVE ReturnInv'
<1> USE DEF ReturnInv, OpInv, GoneInv, StartInv, TerminateMeansGone,
            CreateMeansReady, aws, etcd
<1>1. CASE RemoveLists
  BY <1>1 DEF RemoveLists, Goto, Return
<1>2. CASE RemoveCommand
  <2>1. /\ at' \in {"delete", "idle"} /\ op' = "MemberRemove"
        /\ \/ UNCHANGED etcd
           \/ members' = members \ {target} /\ up' = up \ {target}
    BY <1>2 DEF RemoveCommand, Goto, Return
  <2>2. QED BY <2>1
<1>3. CASE EC2Delete
  <2>1. /\ at' = "idle" /\ op' = "MemberRemove"
        /\ members' = members /\ up' \subseteq up
    BY <1>3 DEF EC2Delete, Return
  <2>2. QED BY <2>1
<1>4. QED BY <1>1, <1>2, <1>3 DEF RemoveSteps

LEMMA TerminateSettles ==
  ASSUME IInv, ReturnInv, TerminateSteps PROVE ReturnInv'
<1> USE DEF ReturnInv, OpInv, GoneInv, StartInv, TerminateMeansGone,
            CreateMeansReady
<1>1. CASE TerminateInstances
  BY <1>1 DEF TerminateInstances
<1>2. CASE TerminateNetwork
  BY <1>2 DEF TerminateNetwork, etcd
<1>3. CASE TerminateBastion
  BY <1>3 DEF TerminateBastion, etcd
<1>4. CASE TerminateReturns
  BY <1>4 DEF TerminateReturns, Return, aws, etcd
<1>5. QED BY <1>1, <1>2, <1>3, <1>4 DEF TerminateSteps

LEMMA CallerSettles ==
  ASSUME IInv, ReturnInv, Caller \/ Crash PROVE ReturnInv'
<1> USE DEF ReturnInv, OpInv, GoneInv, StartInv, TerminateMeansGone,
            CreateMeansReady, aws, etcd
<1>1. CASE NewTester
  BY <1>1 DEF NewTester
<1>2. CASE Exit \/ Crash
  BY <1>2 DEF Exit, Crash, ProcessDies, ProcessEnds
<1>3. CASE Create \/ MemberAdd \/ \E i \in Id : MemberRemove(i)
  BY <1>3 DEF Create, MemberAdd, MemberRemove, Call
<1>4. ASSUME NEW e, Other(e), UNCHANGED members, up' \subseteq members
      PROVE  ReturnInv'
  BY <1>4 DEF Other
<1>5. CASE List
  BY <1>4, <1>5 DEF List
<1>6. ASSUME NEW i \in Id, Stop(i) PROVE ReturnInv'
  BY <1>4, <1>6 DEF Stop
<1>7. ASSUME NEW i \in Id, Restart(i) PROVE ReturnInv'
  BY <1>4, <1>7 DEF Restart
<1>8. CASE Terminate
  BY <1>8 DEF Terminate
<1>9. QED BY <1>1, <1>2, <1>3, <1>5, <1>6, <1>7, <1>8 DEF Caller

LEMMA Settled == Spec => []ReturnInv
<1>1. Init => ReturnInv
  BY DEF Init, ReturnInv, OpInv, GoneInv, StartInv, TerminateMeansGone,
     CreateMeansReady
<1>2. IInv /\ ReturnInv /\ [Next]_vars => ReturnInv'
  <2> SUFFICES ASSUME IInv, ReturnInv, [Next]_vars PROVE ReturnInv'
    OBVIOUS
  <2>1. CASE UNCHANGED vars
    BY <2>1 DEF vars, aws, etcd, ReturnInv, OpInv, GoneInv, StartInv,
       TerminateMeansGone, CreateMeansReady
  <2>2. QED
    BY <2>1, CallerSettles, CreateSettles, AddSettles, RemoveSettles,
       TerminateSettles DEF Next, Ended
<1>3. QED BY <1>1, <1>2, Invariance, PTL DEF Spec

(* A Terminate that returns nil has left no instance, no bastion and no    *)
(* network but a VPC that no flag claims, in whatever order its two        *)
(* goroutines finish.                                                      *)
THEOREM TerminateLeavesNothing == Spec => []TerminateMeansGone
<1>1. ReturnInv => TerminateMeansGone
  BY DEF ReturnInv
<1>2. QED BY <1>1, Settled, PTL

(* A Create that returns nil has a cluster of the configured size, with    *)
(* every member running, and the same record in memory and in the file.    *)
THEOREM CreateLeavesReady == Spec => []CreateMeansReady
<1>1. ReturnInv => CreateMeansReady
  BY DEF ReturnInv
<1>2. QED BY <1>1, Settled, PTL
=============================================================================

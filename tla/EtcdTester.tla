------------------------------ MODULE EtcdTester ------------------------------
(***************************************************************************)
(* The etcd tester (internal/etcd): a cluster of etcd members, one per EC2 *)
(* instance, and a bastion instance from which etcdctl runs.  MemberAdd    *)
(* and MemberRemove change the cluster, its record ClusterState, and the   *)
(* instances of the EC2 deployer, in three systems that fail separately.   *)
(*                                                                         *)
(* The two EC2 deployers appear by what EC2Deployer shows of them.  A      *)
(* Create that fails may leave a VPC that no flag claims, or instances of  *)
(* the calls before the one that failed; one that returns nil may have     *)
(* recorded only some instances; a Terminate without an error leaves       *)
(* nothing that the deployer owns.  The VPC belongs to the first one and   *)
(* holds both; "vpc" stands for it with the key pair and security group.   *)
(***************************************************************************)
EXTENDS Naturals, FiniteSets

CONSTANTS
  Faults,        \* what may go wrong, a subset of FaultKind
  Size,          \* ClusterSize of the original configuration
  Limit,         \* the largest ClusterSize that is valid (code: 5)
  MaxInstances,  \* bound: instances ever launched
  MaxOps         \* bound: processes started plus operations called

FaultKind ==
  { "ec2Error",     \* Create or Add of an EC2 deployer returns an error
    "deleteError",  \* Delete or Terminate of an EC2 deployer does
    "slow",         \* a polling loop of an EC2 deployer reaches its deadline
    "sshError",     \* no connection, or a file is not sent
    "commandError", \* a command fails, or succeeds and is reported as failed
    "crash" }       \* the process dies

ASSUME FaultsAssumption == Faults \subseteq FaultKind
ASSUME LimitAssumption == Limit \in Nat
ASSUME SizeAssumption == Size \in 1..Limit
ASSUME MaxInstancesAssumption == MaxInstances \in Nat
ASSUME MaxOpsAssumption == MaxOps \in Nat

Id == 1..MaxInstances

VARIABLES
  vpc,      \* the network of the cluster exists, or part of it
  orphan,   \* there is a VPC whose createVPC failed: no flag claims it
  bastion,  \* the bastion instance exists, or its security group
  inst,     \* the instances of the cluster that exist
  born,     \* how many were launched so far
  members,  \* the membership of the etcd cluster
  named,    \* members that have joined, and so have published their name
  up,       \* instances on which etcd runs
  cfg,      \* the configuration in memory
  disk,     \* the configuration file
  at,       \* the next step of the operation, or "idle" or "off"
  op,       \* which operation that is
  err,      \* it returns an error
  target,   \* the instance that it adds or removes
  todo,     \* Create: instances on which etcd is not started yet
  running,  \* Terminate: deployers that have not finished
  lost,     \* history: instances that lost their record while they existed
  ops       \* operations called so far

aws == <<vpc, orphan, bastion, inst, born>>
etcd == <<members, named, up>>
vars == <<aws, etcd, cfg, disk, at, op, err, target, todo, running, lost, ops>>

(* VPC and Bastion: the ID of the security group is known, without which   *)
(* a deployer can neither add nor terminate.                               *)
Config == [VPC : BOOLEAN, Bastion : BOOLEAN, Instances : SUBSET Id,
           EC2Size : Nat, ClusterState : SUBSET Id, ClusterSize : Nat]

Operation == {"none", "Create", "MemberAdd", "MemberRemove", "Other",
              "Terminate"}
Step == {"off", "idle", "ec2", "ec2Created", "bastion", "state", "start",
         "ready", "add", "added", "install", "addCommand", "startNew",
         "listNew", "list", "removeCommand", "delete", "terminate"}

TypeOK ==
  /\ vpc \in BOOLEAN /\ orphan \in BOOLEAN /\ bastion \in BOOLEAN
  /\ inst \subseteq Id /\ born \in 0..MaxInstances
  /\ members \subseteq Id /\ named \subseteq Id /\ up \subseteq Id
  /\ cfg \in Config /\ disk \in Config
  /\ at \in Step /\ op \in Operation /\ err \in BOOLEAN
  /\ target \in Id \cup {0}
  /\ todo \subseteq Id /\ running \subseteq {"ec2", "bastion"}
  /\ lost \subseteq Id
  /\ ops \in Nat

Init ==
  /\ vpc = FALSE /\ orphan = FALSE /\ bastion = FALSE /\ inst = {} /\ born = 0
  /\ members = {} /\ named = {} /\ up = {}
  /\ disk = [VPC |-> FALSE, Bastion |-> FALSE, Instances |-> {},
             EC2Size |-> Size, ClusterState |-> {}, ClusterSize |-> Size]
  /\ cfg = disk
  /\ at = "off" /\ op = "none" /\ err = FALSE
  /\ target = 0 /\ todo = {} /\ running = {} /\ lost = {} /\ ops = 0

Sync == disk' = cfg'
Fails(f) == f \in Faults

-----------------------------------------------------------------------------
(* Processes.                                                              *)

(* ValidateAndSetDefaults.                                                 *)
Valid(c) ==
  /\ c.ClusterSize \in 1..Limit
  /\ c.ClusterState # {} => Cardinality(c.ClusterState) = c.ClusterSize

NewTester ==
  /\ at = "off" /\ ops < MaxOps
  /\ ops' = ops + 1
  /\ \/ /\ Valid(disk)
        /\ at' = "idle"
        /\ cfg' = [disk EXCEPT !.EC2Size = disk.ClusterSize]
        /\ Sync
     \/ /\ ~Valid(disk)
        /\ UNCHANGED <<at, cfg, disk>>
  /\ UNCHANGED <<aws, etcd, op, err, target, todo, running, lost>>

ProcessEnds ==
  /\ at' = "off" /\ op' = "none" /\ err' = FALSE
  /\ cfg' = disk
  /\ target' = 0 /\ todo' = {} /\ running' = {}
  /\ UNCHANGED <<orphan, bastion, inst, born, etcd, disk, ops>>

Exit == at = "idle" /\ ProcessEnds /\ UNCHANGED <<vpc, lost>>

(* What memory alone knew is lost.                                         *)
ProcessDies == ProcessEnds /\ lost' = lost \cup (inst \ disk.Instances)

Crash ==
  /\ Fails("crash") /\ at \notin {"off", "idle"}
  /\ ProcessDies /\ UNCHANGED vpc

Call(o, first, i) ==
  /\ at = "idle" /\ ops < MaxOps
  /\ op' = o /\ at' = first /\ target' = i /\ ops' = ops + 1 /\ err' = FALSE
  /\ UNCHANGED <<aws, etcd, cfg, disk, todo, running, lost>>

Goto(next) == at' = next /\ UNCHANGED <<op, err, target, ops>>
Return(e) == at' = "idle" /\ err' = e /\ UNCHANGED <<op, target, ops>>

-----------------------------------------------------------------------------
(* Create: EC2 instances, bastion, ClusterState, services, checks.  It     *)
(* undoes nothing when it fails.                                           *)

Create == born + Size <= MaxInstances /\ Call("Create", "ec2", 0)

(* The instances that become ready in time are recorded.                   *)
EC2Create ==
  /\ at = "ec2"
  /\ ~cfg.VPC /\ ~vpc
  /\ born + cfg.ClusterSize <= MaxInstances
  /\ vpc' = TRUE
  /\ born' = born + cfg.ClusterSize
  /\ \E ready \in SUBSET (born + 1 .. born + cfg.ClusterSize) :
       /\ Fails("slow") \/ ready = born + 1 .. born + cfg.ClusterSize
       /\ inst' = inst \cup (born + 1 .. born + cfg.ClusterSize)
       /\ lost' = lost \cup ((born + 1 .. born + cfg.ClusterSize) \ ready)
       /\ cfg' = [cfg EXCEPT !.VPC = TRUE, !.Instances = ready]
  /\ Goto("ec2Created")
  /\ UNCHANGED <<orphan, bastion, etcd, disk, todo, running>>

(* Its own rollback terminates what the configuration lists: all of a      *)
(* cluster that existed before.  The network stays while something is in   *)
(* it or a deletion fails.  IDs stay in the configuration.                 *)
EC2CreateFails ==
  /\ at = "ec2"
  /\ Fails("ec2Error") \/ cfg.VPC \/ vpc \/ orphan
  /\ inst' \in {inst \ cfg.Instances} \cup {s \in {inst} : Fails("deleteError")}
  /\ up' = up \cap inst'
  /\ \/ vpc' = (vpc /\ (bastion \/ ~cfg.VPC \/ inst' # {}))
     \/ Fails("slow") /\ vpc' = vpc
     \/ Fails("deleteError") /\ vpc' = TRUE
  /\ \E known \in {TRUE, cfg.VPC} : cfg' = [cfg EXCEPT !.VPC = known]
  /\ Return(TRUE)
  /\ UNCHANGED <<orphan, bastion, born, members, named, disk, todo, running,
                 lost>>

(* createVPC fails after it has made a VPC: VPCCreated is not set, and the *)
(* rollback does not try to delete it.                                     *)
EC2CreateOrphans ==
  /\ at = "ec2" /\ Fails("ec2Error") /\ ~cfg.VPC /\ ~vpc
  /\ orphan' = TRUE
  /\ vpc' \in {FALSE, Fails("deleteError")}
  /\ Return(TRUE)
  /\ UNCHANGED <<bastion, inst, born, etcd, cfg, disk, todo, running, lost>>

(* A later RunInstances call fails: the rollback knows no instance, and    *)
(* those of the calls before stay, with the network that they use.         *)
EC2CreateLeaves ==
  /\ at = "ec2" /\ Fails("ec2Error") /\ ~cfg.VPC /\ ~vpc
  /\ \E k \in 1 .. cfg.ClusterSize - 1 :
       /\ born + k <= MaxInstances
       /\ born' = born + k
       /\ inst' = inst \cup (born + 1 .. born + k)
       /\ lost' = lost \cup (born + 1 .. born + k)
  /\ vpc' = TRUE /\ cfg' = [cfg EXCEPT !.VPC = TRUE]
  /\ Return(TRUE)
  /\ UNCHANGED <<orphan, bastion, etcd, disk, todo, running>>

(* The VPC of an earlier createVPC that failed has no subnets, by whose    *)
(* number createInstances divides.  Its security group is made before.     *)
EC2CreatePanics ==
  /\ at = "ec2" /\ orphan /\ ~vpc
  /\ ProcessDies
  /\ vpc' = TRUE

\* variant with a bug: the file is written only at the end
EC2CreatedNoSync ==
  /\ at = "ec2Created"
  /\ Goto("bastion")
  /\ UNCHANGED <<aws, etcd, cfg, disk, todo, running, lost>>

EC2Created ==
  /\ at = "ec2Created"
  /\ Goto("bastion")
  /\ UNCHANGED <<aws, etcd, cfg, todo, running, lost>>
  /\ Sync

BastionCreate ==
  /\ at = "bastion"
  /\ \/ /\ ~bastion
        /\ bastion' = TRUE
        /\ cfg' = [cfg EXCEPT !.Bastion = TRUE]
        /\ Goto("state")
     \/ /\ Fails("ec2Error")
        /\ \E known \in BOOLEAN : cfg' = [cfg EXCEPT !.Bastion = known]
        /\ bastion' \in {bastion, bastion \/ Fails("deleteError")}
        /\ Return(TRUE)
  /\ UNCHANGED <<vpc, orphan, inst, born, etcd, disk, todo, running, lost>>

(* Every recorded instance becomes an entry of ClusterState.               *)
FillClusterState ==
  /\ at = "state" /\ cfg.ClusterState \cup cfg.Instances # {}
  /\ cfg' = [cfg EXCEPT !.ClusterState = @ \cup cfg.Instances,
                        !.EC2Size = cfg.ClusterSize]
  /\ IF Valid(cfg')
     THEN Sync /\ todo' = cfg'.ClusterState /\ Goto("start")
     ELSE UNCHANGED <<disk, todo>> /\ Return(TRUE)
  /\ UNCHANGED <<aws, etcd, running, lost>>

(* No instance was recorded: initialCluster[1:] of an empty string.        *)
FillPanics ==
  /\ at = "state" /\ cfg.ClusterState \cup cfg.Instances = {}
  /\ ProcessDies /\ UNCHANGED vpc

(* The service script of one instance: its error is only logged.  The      *)
(* initial cluster is all of ClusterState.                                 *)
StartEtcd(i) ==
  /\ at = "start" /\ i \in todo
  /\ \/ /\ i \in inst
        /\ members' = cfg.ClusterState /\ named' = cfg.ClusterState
        /\ up' = up \cup {i}
        /\ todo' = todo \ {i} /\ UNCHANGED <<at, op, err, target, ops>>
     \/ /\ Fails("commandError")
        /\ todo' = todo \ {i} /\ UNCHANGED <<etcd, at, op, err, target, ops>>
     \/ /\ Fails("sshError") \/ Fails("commandError") \/ i \notin inst
        /\ UNCHANGED <<etcd, todo>> /\ Return(TRUE)
  /\ UNCHANGED <<aws, cfg, disk, running, lost>>

AllStarted ==
  /\ at = "start" /\ todo = {}
  /\ Goto("ready")
  /\ UNCHANGED <<aws, etcd, cfg, disk, todo, running, lost>>

(* memberList from the bastion asks some entry of ClusterState.  A member  *)
(* without a name, or with an address that no entry has, is an error.      *)
ListPossible ==
  /\ bastion /\ cfg.ClusterState \cap up # {}
  /\ members \subseteq named /\ members \subseteq cfg.ClusterState
ListMayFail ==
  Fails("sshError") \/ ~ListPossible \/ ~(cfg.ClusterState \subseteq up)

\* variant with a bug: the count of ready members is only logged
CreateReturnsUnchecked ==
  /\ at = "ready"
  /\ UNCHANGED <<aws, etcd, cfg, todo, running, lost>>
  /\ \/ ListPossible /\ Sync /\ Return(FALSE)
     \/ ListMayFail /\ (Sync \/ UNCHANGED disk) /\ Return(TRUE)

(* Health of all members, then the list, then the count.                   *)
CreateReturns ==
  /\ at = "ready"
  /\ UNCHANGED <<aws, etcd, cfg, todo, running, lost>>
  /\ \/ /\ ListPossible
        /\ Sync
        /\ \/ Cardinality(cfg.ClusterState \cap up) = cfg.ClusterSize
              /\ Return(FALSE)
           \/ Cardinality(cfg.ClusterState \cap up) # cfg.ClusterSize
              /\ Return(TRUE)
     \/ ListMayFail /\ (Sync \/ UNCHANGED disk) /\ Return(TRUE)

-----------------------------------------------------------------------------
(* Stop, Restart, MemberList and ClusterStatus: one action each, as        *)
(* nothing is recorded but the file that ClusterStatus and MemberList      *)
(* write.                                                                  *)

Other(e) ==
  /\ at = "idle" /\ ops < MaxOps
  /\ op' = "Other" /\ err' = e /\ target' = 0 /\ ops' = ops + 1
  /\ UNCHANGED <<aws, cfg, at, todo, running, lost>>
  /\ Sync \/ (e /\ UNCHANGED disk)

Recorded(i) == i \in cfg.ClusterState \cap cfg.Instances

Stop(i) ==
  /\ \/ Recorded(i) /\ i \in inst /\ up' = up \ {i} /\ Other(FALSE)
     \/ /\ Recorded(i) /\ Fails("commandError")
        /\ up' = up \ {i} /\ Other(TRUE)
     \/ /\ ~Recorded(i) \/ i \notin inst \/ Fails("sshError")
           \/ Fails("commandError")
        /\ UNCHANGED up /\ Other(TRUE)
  /\ UNCHANGED <<members, named>>

(* The script stops etcd and starts it again in the background, so that    *)
(* its success does not say that etcd runs.  Only a member can.            *)
Restart(i) ==
  /\ \/ /\ Recorded(i) /\ i \in inst \cap members
        /\ up' = up \cup {i} /\ Other(FALSE)
     \/ /\ Recorded(i) /\ i \in inst
        /\ i \notin members \/ Fails("commandError")
        /\ up' \in {up, up \ {i}, up \cup ({i} \cap members)}
        /\ \E e \in BOOLEAN : Other(e)
     \/ /\ ~Recorded(i) \/ i \notin inst \/ Fails("sshError")
        /\ UNCHANGED up /\ Other(TRUE)
  /\ UNCHANGED <<members, named>>

List == (\E e \in {FALSE, ListMayFail} : Other(e)) /\ UNCHANGED etcd

-----------------------------------------------------------------------------
(* MemberAdd.                                                              *)

MemberAdd == born < MaxInstances /\ Call("MemberAdd", "add", 0)

(* When the new instance is not ready in time Add ends the process.        *)
EC2Add ==
  /\ at = "add"
  /\ \/ /\ cfg.VPC /\ vpc /\ born < MaxInstances
        /\ inst' = inst \cup {born + 1} /\ born' = born + 1
        /\ cfg' = [cfg EXCEPT !.Instances = @ \cup {born + 1},
                              !.EC2Size = @ + 1]
        /\ target' = born + 1
        /\ at' = "added"
        /\ UNCHANGED <<vpc, orphan, bastion, etcd, disk, op, err, todo, running,
                       lost, ops>>
     \/ /\ cfg.VPC /\ vpc /\ born < MaxInstances /\ Fails("slow")
        /\ inst' = inst \cup {born + 1} /\ born' = born + 1
        /\ lost' = lost \cup {born + 1}
        /\ at' = "off" /\ op' = "none" /\ err' = FALSE
        /\ cfg' = disk /\ target' = 0 /\ todo' = {} /\ running' = {}
        /\ UNCHANGED <<vpc, orphan, bastion, etcd, disk, ops>>
     \/ /\ Fails("ec2Error") \/ ~vpc \/ ~cfg.VPC
        /\ Return(TRUE)
        /\ UNCHANGED <<aws, etcd, cfg, disk, todo, running, lost>>

(* The file is written before the configuration is validated.              *)
RecordNew ==
  /\ at = "added" /\ cfg.ClusterState # {}
  /\ cfg' = [cfg EXCEPT !.ClusterState = @ \cup {target},
                        !.ClusterSize = @ + 1, !.EC2Size = cfg.ClusterSize + 1]
  /\ Sync
  /\ IF Valid(cfg') THEN Goto("install") ELSE Return(TRUE)
  /\ UNCHANGED <<aws, etcd, todo, running, lost>>

(* initialCluster[1:] of an empty string.                                  *)
RecordNewPanics ==
  /\ at = "added" /\ cfg.ClusterState = {}
  /\ ProcessDies /\ UNCHANGED vpc

InstallNew ==
  /\ at = "install"
  /\ \/ target \in inst /\ Goto("addCommand")
     \/ (Fails("sshError") \/ Fails("commandError") \/ target \notin inst)
        /\ Return(TRUE)
  /\ UNCHANGED <<aws, etcd, cfg, disk, todo, running, lost>>

HasQuorum == 2 * Cardinality(members \cap up) > Cardinality(members)

(* An error of the command is logged and MemberAdd goes on; an unexpected  *)
(* answer is an error.                                                     *)
AddCommand ==
  /\ at = "addCommand"
  /\ UNCHANGED <<aws, named, up, cfg, todo, running, lost>>
  /\ \/ /\ bastion /\ HasQuorum
        /\ members' = members \cup {target}
        /\ Sync /\ Goto("startNew")
     \/ /\ bastion
        /\ Fails("commandError") \/ ~HasQuorum
        /\ UNCHANGED members
        /\ Sync /\ Goto("startNew")
     \/ /\ ~bastion \/ Fails("sshError") \/ Fails("commandError")
        /\ UNCHANGED <<members, disk>> /\ Return(TRUE)

(* The service script, in the background: its error is only logged.  Only  *)
(* a member can join.                                                      *)
StartNew ==
  /\ at = "startNew"
  /\ \/ /\ target \in members \cap inst
        /\ named' = named \cup {target} /\ up' = up \cup {target}
        /\ Goto("listNew")
     \/ /\ target \notin members \cap inst \/ Fails("commandError")
        /\ UNCHANGED <<named, up>>
        /\ Goto("listNew")
     \/ /\ Fails("sshError") \/ Fails("commandError")
        /\ UNCHANGED <<named, up>> /\ Return(TRUE)
  /\ UNCHANGED <<aws, members, cfg, disk, todo, running, lost>>

AddReturns ==
  /\ at = "listNew"
  /\ UNCHANGED <<aws, etcd, cfg, todo, running, lost>>
  /\ Sync
  /\ \/ ListPossible /\ Return(FALSE)
     \/ ListMayFail /\ Return(TRUE)

-----------------------------------------------------------------------------
(* MemberRemove.                                                           *)

MemberRemove(i) == Call("MemberRemove", "list", i)

RemoveLists ==
  /\ at = "list"
  /\ UNCHANGED <<aws, etcd, cfg, todo, running, lost>>
  /\ Sync
  /\ \/ ListPossible /\ target \in cfg.ClusterState \cap cfg.Instances
        /\ Goto("removeCommand")
     \/ (ListMayFail \/ target \notin cfg.ClusterState \cap cfg.Instances)
        /\ Return(TRUE)

\* variant with a bug: a failed command counts the member out
RemoveCommandCounts ==
  /\ at = "removeCommand"
  /\ bastion /\ Fails("commandError")
  /\ cfg' = [cfg EXCEPT !.ClusterSize = @ - 1]
  /\ Sync /\ Goto("delete")
  /\ UNCHANGED <<aws, etcd, todo, running, lost>>

\* variant with a bug: the record is dropped whatever the command answers
RemoveCommandForgets ==
  /\ at = "removeCommand" /\ bastion
  /\ cfg' = [cfg EXCEPT !.ClusterState = @ \ {target}, !.ClusterSize = @ - 1]
  /\ Sync /\ Goto("delete")
  /\ UNCHANGED <<aws, etcd, todo, running, lost>>

(* The endpoints are those of the other entries.  An error of the command  *)
(* is logged and MemberRemove goes on; an unexpected answer is an error.   *)
RemoveCommand ==
  /\ at = "removeCommand"
  /\ \/ /\ bastion /\ target \in members /\ HasQuorum
        /\ (members \ {target}) \cap up # {}
        /\ members' = members \ {target} /\ named' = named \ {target}
        /\ up' = up \ {target}
        /\ \/ /\ cfg' = [cfg EXCEPT !.ClusterState = @ \ {target},
                                    !.ClusterSize = @ - 1]
           \/ Fails("commandError") /\ UNCHANGED cfg
        /\ Sync /\ Goto("delete")
     \/ /\ bastion
        /\ \/ Fails("commandError") \/ target \notin members \/ ~HasQuorum
           \/ (members \ {target}) \cap up = {}
        /\ UNCHANGED <<etcd, cfg>>
        /\ Sync /\ Goto("delete")
     \/ /\ ~bastion \/ Fails("sshError") \/ Fails("commandError")
        /\ UNCHANGED <<etcd, cfg, disk>> /\ Return(TRUE)
  /\ UNCHANGED <<aws, todo, running, lost>>

(* EC2 Delete refuses when its count is off; it forgets the instance, in   *)
(* memory only, whether or not it has terminated in time.                  *)
EC2Delete ==
  /\ at = "delete"
  /\ \/ /\ Cardinality(cfg.Instances) = cfg.EC2Size
        /\ cfg' = [cfg EXCEPT !.Instances = @ \ {target}, !.EC2Size = @ - 1]
        /\ inst' \in {inst \ {target}} \cup {s \in {inst} : Fails("slow")}
        /\ lost' = lost \cup (inst' \cap {target})
        /\ Return(FALSE)
     \/ /\ Cardinality(cfg.Instances) # cfg.EC2Size \/ Fails("deleteError")
        /\ inst' \in {inst} \cup {s \in {inst \ {target}} : Fails("deleteError")}
        /\ UNCHANGED <<cfg, lost>>
        /\ Return(TRUE)
  /\ up' = up \cap inst'
  /\ UNCHANGED <<vpc, orphan, bastion, born, members, named, disk, todo,
                 running>>

-----------------------------------------------------------------------------
(* Terminate: both deployers at once, each in a goroutine.                 *)

Terminate ==
  /\ at = "idle" /\ ops < MaxOps
  /\ op' = "Terminate" /\ at' = "terminate" /\ target' = 0 /\ ops' = ops + 1
  /\ err' = FALSE
  /\ running' = {"ec2", "bastion"}
  /\ UNCHANGED <<aws, etcd, cfg, disk, todo, lost>>

(* The recorded instances are terminated first ...                         *)
TerminateInstances ==
  /\ at = "terminate" /\ "ec2" \in running /\ cfg.Instances \cap inst # {}
  /\ inst' = inst \ cfg.Instances /\ up' = up \ cfg.Instances
  /\ UNCHANGED <<vpc, orphan, bastion, born, members, named, cfg, disk, at, op,
                 err, target, todo, running, lost, ops>>

(* ... then the network goes, unless an instance is still in it.  A VPC    *)
(* without VPCCreated is left alone.                                       *)
TerminateNetwork ==
  /\ at = "terminate" /\ "ec2" \in running
  /\ \/ /\ cfg.VPC /\ (vpc \/ orphan) /\ inst = {} /\ ~bastion
        /\ vpc' = FALSE /\ UNCHANGED err
     \/ /\ \/ ~cfg.VPC \/ ~vpc \/ bastion
           \/ inst # {} /\ (cfg.Instances \cap inst = {} \/ Fails("slow"))
           \/ Fails("deleteError")
        /\ vpc' \in {vpc, vpc /\ (inst # {} \/ bastion \/ ~cfg.VPC)}
        /\ err' = TRUE
  /\ running' = running \ {"ec2"}
  /\ UNCHANGED <<orphan, bastion, inst, born, etcd, cfg, disk, at, op, target,
                 todo, lost, ops>>

TerminateBastion ==
  /\ at = "terminate" /\ "bastion" \in running
  /\ \/ /\ cfg.Bastion
        /\ bastion' = FALSE /\ UNCHANGED err
     \/ /\ ~cfg.Bastion \/ Fails("deleteError") \/ Fails("slow")
        /\ bastion' \in {bastion, bastion /\ ~cfg.Bastion}
        /\ err' = TRUE
  /\ running' = running \ {"bastion"}
  /\ UNCHANGED <<vpc, orphan, inst, born, etcd, cfg, disk, at, op, target,
                 todo, lost, ops>>

\* variant with a bug: one receive for two goroutines
TerminateReturnsFirst ==
  /\ at = "terminate" /\ running # {"ec2", "bastion"}
  /\ Return(err)
  /\ running' = {}
  /\ UNCHANGED <<aws, etcd, cfg, disk, todo, lost>>

(* One receive for each goroutine.                                         *)
TerminateReturns ==
  /\ at = "terminate" /\ running = {}
  /\ Return(err)
  /\ UNCHANGED <<aws, etcd, cfg, disk, todo, running, lost>>

-----------------------------------------------------------------------------
CreateSteps ==
  \/ EC2Create \/ EC2CreateFails \/ EC2CreateOrphans \/ EC2CreateLeaves
  \/ EC2CreatePanics \/ EC2Created \/ BastionCreate \/ FillClusterState
  \/ FillPanics \/ AllStarted \/ CreateReturns
  \/ \E i \in Id : StartEtcd(i)

AddSteps ==
  \/ EC2Add \/ RecordNew \/ RecordNewPanics \/ InstallNew \/ AddCommand
  \/ StartNew \/ AddReturns

RemoveSteps == RemoveLists \/ RemoveCommand \/ EC2Delete

TerminateSteps ==
  TerminateInstances \/ TerminateNetwork \/ TerminateBastion \/ TerminateReturns

Caller ==
  \/ NewTester \/ Exit \/ Create \/ List \/ MemberAdd \/ Terminate
  \/ \E i \in Id : Stop(i) \/ Restart(i) \/ MemberRemove(i)

(* The bound is reached and the last process has ended.                    *)
Ended == at = "off" /\ ops = MaxOps /\ UNCHANGED vars

Next ==
  CreateSteps \/ AddSteps \/ RemoveSteps \/ TerminateSteps \/ Caller \/ Crash
  \/ Ended

Spec == Init /\ [][Next]_vars

-----------------------------------------------------------------------------
(* Properties.                                                             *)

(* Every member of the etcd cluster has an entry in ClusterState, in       *)
(* memory and in the file, through failing commands, answers that got lost *)
(* and restarts: MemberAdd records before it adds and MemberRemove removes *)
(* before it forgets, so that memberList can name every member.            *)
MembersKnown ==
  members \subseteq cfg.ClusterState /\ members \subseteq disk.ClusterState

(* An instance that exists is in the file, unless the process is between   *)
(* an EC2 call and Sync, or has died there, or the EC2 deployer never      *)
(* recorded it: its loop gave up, or a later RunInstances call failed.     *)
(* No other way, through MemberAdd, MemberRemove and restarts, loses one.  *)
InstancesRecorded ==
  at \notin {"ec2Created", "added"} => inst \subseteq disk.Instances \cup lost

(* A Terminate that returns nil has left nothing but a VPC that no flag    *)
(* claims, although the two deployers run at once and the VPC of one holds *)
(* the bastion of the other.                                               *)
TerminateMeansGone ==
  at = "idle" /\ op = "Terminate" /\ ~err => inst = {} /\ ~bastion /\ ~vpc

(* A Create that returns nil has a cluster of the configured size, with    *)
(* all members running and the same record in the file.                    *)
CreateMeansReady ==
  at = "idle" /\ op = "Create" /\ ~err =>
    /\ Cardinality(members \cap up) = cfg.ClusterSize
    /\ members = cfg.ClusterState /\ disk = cfg

(* "MemberRemove removes a member from the cluster": when it has returned  *)
(* nil the member is out, and the counts that the e2e test compares agree. *)
RemovedMeansRemoved ==
  at = "idle" /\ op = "MemberRemove" /\ ~err =>
    /\ target \notin members
    /\ Cardinality(cfg.ClusterState) = cfg.ClusterSize
    /\ Cardinality(cfg.Instances) = cfg.ClusterSize
=============================================================================

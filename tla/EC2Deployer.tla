----------------------------- MODULE EC2Deployer -----------------------------
(***************************************************************************)
(* The embedded EC2 deployer (internal/ec2): Create, Add, Delete,          *)
(* Terminate and Stop on one cluster of EC2 instances, with the key pair,  *)
(* VPC, internet gateway, subnets and security group it needs.             *)
(*                                                                         *)
(* A mutex serialises the four operations, so one of them runs at a time:  *)
(* "at" is its next step, most steps being one call to AWS.  Create undoes *)
(* its work when a step fails, with the delete functions of Terminate.     *)
(* The configuration is a record in memory, "cfg", and in a file, "disk";  *)
(* a process starts from the file.                                         *)
(***************************************************************************)
EXTENDS Naturals, FiniteSets

CONSTANTS
  Faults,            \* what may go wrong, a subset of FaultKind
  Size,              \* ClusterSize of the original configuration
  RunInstancesBatch, \* the most instances of one RunInstances call (code: 7)
  Wait,              \* Create waits until the instances are ready (code: TRUE)
  MaxInstances,      \* bound: instances ever launched
  MaxOps             \* bound: processes started plus operations called

FaultKind ==
  { "apiError",     \* a call that creates or looks up fails
    "deleteError",  \* a call that deletes, or checks a deletion, fails
    "slow",         \* a polling loop reaches its deadline
    "stop",         \* Stop() closes stopc
    "crash" }       \* the process dies: also os.Exit in wait(), or a SIGINT

ASSUME FaultsAssumption == Faults \subseteq FaultKind
ASSUME SizeAssumption == Size \in Nat \ {0}
ASSUME BatchAssumption == RunInstancesBatch \in Nat \ {0}
ASSUME WaitAssumption == Wait \in BOOLEAN
ASSUME MaxInstancesAssumption == MaxInstances \in Nat
ASSUME MaxOpsAssumption == MaxOps \in Nat

Id == 1..MaxInstances

(* createSubnets makes three, one per availability zone suffix, in order.  *)
Subnet == {"a", "b", "c"}
NextSubnet(created) ==
  CASE "a" \notin created -> "a"
    [] "b" \notin created -> "b"
    [] OTHER              -> "c"

VARIABLES
  cloud,     \* what exists at AWS, except for the instances
  inst,      \* the state of every instance at AWS
  given,     \* the VPC and its subnets existed before the deployer
  cfg,       \* the configuration in memory
  disk,      \* the configuration file
  at,        \* the next step of the running operation, or "idle" or "off"
  op,        \* which operation that is
  errs,      \* what it will return: TRUE for an error
  interrupted, \* catchStopc has seen stopc closed, and waits for its goroutine
  stopped,   \* stopc is closed
  tokens,    \* the instances that this Create or Add launched (by client
             \* token), or that Delete terminates
  left,      \* instances not launched yet, in the groups not yet started
  chunk,     \* instances not launched yet in the current group
  waiting,   \* the instances that wait() has not found ready yet
  ops        \* operations called so far

aws == <<cloud, inst, given>>
plan == <<tokens, left, chunk, waiting>>
vars == <<aws, cfg, disk, at, op, errs, interrupted, stopped, plan, ops>>

Resource == {"key", "vpc", "igw", "attachment", "sg"} \cup Subnet
InstanceState == {"none", "pending", "running", "shutting-down", "terminated"}
Config == [KeyCreated : BOOLEAN, VPCID : BOOLEAN, VPCCreated : BOOLEAN,
           InternetGatewayID : BOOLEAN, SubnetIDs : SUBSET Subnet,
           SecurityGroupIDs : BOOLEAN, Instances : SUBSET Id,
           ClusterSize : Nat]
CreateStep == {"key", "keyMade", "network", "associate", "attrs", "igw",
               "attach", "routes", "mark", "subnets", "sg", "ingress", "run",
               "poll", "wait", "created"}
TearStep == {"instances", "instancesWait", "delsg", "delsubnets", "detach",
             "deligw", "delvpc", "delkey", "torn"}
Step == {"off", "idle", "add", "addPoll", "addWait", "deleteWait"} \cup CreateStep \cup TearStep

TypeOK ==
  /\ cloud \subseteq Resource
  /\ inst \in [Id -> InstanceState]
  /\ given \in BOOLEAN
  /\ cfg \in Config /\ disk \in Config
  /\ at \in Step
  /\ op \in {"none", "Create", "Add", "Delete", "Terminate"}
  /\ errs \in BOOLEAN /\ interrupted \in BOOLEAN /\ stopped \in BOOLEAN
  /\ tokens \subseteq Id /\ waiting \subseteq Id
  /\ left \in Nat /\ chunk \in Nat /\ ops \in Nat

(* With VPCID set by the user the VPC is there, subnets and gateway too;   *)
(* the user may also name the subnets to use.                              *)
Init ==
  /\ given \in BOOLEAN
  /\ cloud = IF given THEN {"vpc", "igw", "attachment"} \cup Subnet ELSE {}
  /\ inst = [i \in Id |-> "none"]
  /\ disk \in [KeyCreated : {FALSE}, VPCID : {given}, VPCCreated : {FALSE},
               InternetGatewayID : {FALSE},
               SubnetIDs : IF given THEN {{}, {"a"}, {"a", "b"}} ELSE {{}},
               SecurityGroupIDs : {FALSE}, Instances : {{}},
               ClusterSize : {Size}]
  /\ cfg = disk
  /\ at = "off" /\ op = "none" /\ errs = FALSE
  /\ interrupted = FALSE /\ stopped = FALSE
  /\ tokens = {} /\ left = 0 /\ chunk = 0 /\ waiting = {} /\ ops = 0

Live == {i \in Id : inst[i] \in {"pending", "running", "shutting-down"}}
Launched == {i \in Id : inst[i] # "none"}

(* What AWS wants deleted first.                                           *)
Blocked(r) ==
  CASE r = "sg"         -> Live # {}
    [] r = "attachment" -> Live # {}
    [] r = "vpc"        -> cloud \cap ({"sg", "attachment"} \cup Subnet) # {}
    [] OTHER            -> FALSE

Sync == disk' = cfg'
APIFails == "apiError" \in Faults
DeleteFails == "deleteError" \in Faults

-----------------------------------------------------------------------------
(* Processes and calls.                                                    *)

(* A process loads the file; NewDeployer writes it back.                   *)
NewDeployer ==
  /\ at = "off" /\ ops < MaxOps
  /\ at' = "idle" /\ ops' = ops + 1
  /\ cfg' = disk
  /\ UNCHANGED <<aws, disk, op, errs, interrupted, stopped, plan>>

(* The process ends, and memory is lost.  A VPC or gateway whose ID is not *)
(* in the file can no longer be found by any run: the model drops it.      *)
ProcessEnds ==
  /\ at' = "off" /\ op' = "none" /\ errs' = FALSE
  /\ interrupted' = FALSE /\ stopped' = FALSE
  /\ cfg' = disk
  /\ tokens' = {} /\ left' = 0 /\ chunk' = 0 /\ waiting' = {}
  /\ cloud' = IF disk.VPCID THEN cloud
              ELSE cloud \ {"vpc", "igw", "attachment"}
  /\ UNCHANGED <<inst, given, disk, ops>>

Exit == at = "idle" /\ ProcessEnds
Crash == "crash" \in Faults /\ at \notin {"off", "idle"} /\ ProcessEnds

Stop ==
  /\ "stop" \in Faults /\ at # "off" /\ ~stopped
  /\ stopped' = TRUE
  /\ UNCHANGED <<aws, cfg, disk, at, op, errs, interrupted, plan, ops>>

Call(o, first) ==
  /\ at = "idle" /\ ops < MaxOps
  /\ op' = o /\ at' = first /\ ops' = ops + 1 /\ errs' = FALSE
  /\ tokens' = {}
  /\ UNCHANGED <<aws, cfg, disk, interrupted, stopped, left, chunk, waiting>>

Create == Cardinality(Launched) + cfg.ClusterSize <= MaxInstances
          /\ Call("Create", "key")
Terminate == Call("Terminate", "instances")

-----------------------------------------------------------------------------
(* Create.  Its deferred functions run Sync() and then the deletions.      *)

Fail ==
  /\ at' = "instances" /\ errs' = TRUE /\ interrupted' = FALSE
  /\ UNCHANGED <<plan, op, stopped, ops>>

(* The steps that run in the goroutine of catchStopc.                      *)
InGoroutine ==
  \/ at \in CreateStep \ {"network", "associate", "mark", "created"}
  \/ at = "network" /\ cfg.SubnetIDs = {}

(* case <-stopc: whatever the goroutine returns, catchStopc returns an     *)
(* error, but only after the goroutine has returned.                       *)
Interrupt ==
  /\ stopped /\ ~interrupted /\ op = "Create" /\ InGoroutine
  /\ interrupted' = TRUE
  /\ UNCHANGED <<aws, cfg, disk, at, op, errs, stopped, plan, ops>>

Goto(next) == at' = next /\ UNCHANGED <<op, errs, interrupted, stopped, ops>>

(* The goroutine returns nil; Create goes on with the next function.       *)
Return(next) ==
  IF interrupted THEN Fail ELSE Goto(next) /\ UNCHANGED plan

(* A call to AWS, or a check before it, fails and Create reverts.          *)
StepFails(possible) ==
  /\ APIFails \/ ~possible
  /\ UNCHANGED <<aws, cfg>>
  /\ Sync
  /\ Fail

CreateKeyPair ==
  /\ at = "key"
  /\ \/ /\ cfg.KeyCreated
        /\ UNCHANGED <<aws, cfg>>
        /\ IF interrupted THEN Sync ELSE UNCHANGED disk
        /\ Return("network")
     \/ /\ ~cfg.KeyCreated /\ "key" \notin cloud
        /\ cloud' = cloud \cup {"key"}
        /\ UNCHANGED <<inst, given, cfg, disk>>
        /\ Goto("keyMade") /\ UNCHANGED plan
     \/ ~cfg.KeyCreated /\ StepFails("key" \notin cloud)

(* The private key is on disk: the flag is set and the file written.       *)
KeyPairMade ==
  /\ at = "keyMade"
  /\ \/ /\ cfg' = [cfg EXCEPT !.KeyCreated = TRUE]
        /\ Sync /\ UNCHANGED aws
        /\ Return("network")
     \/ StepFails(TRUE)

CreateVPC ==
  /\ at = "network" /\ ~cfg.VPCID
  /\ \/ /\ cloud' = cloud \cup {"vpc"}
        /\ cfg' = [cfg EXCEPT !.VPCID = TRUE]
        /\ UNCHANGED <<inst, given, disk>>
        /\ Goto("attrs") /\ UNCHANGED plan
     \/ StepFails(TRUE)

(* Tags and enableDNSHostnames.                                            *)
VPCAttributes ==
  /\ at = "attrs"
  /\ \/ UNCHANGED <<aws, cfg, disk>> /\ Goto("igw") /\ UNCHANGED plan
     \/ StepFails(TRUE)

CreateInternetGateway ==
  /\ at = "igw"
  /\ \/ /\ cloud' = cloud \cup {"igw"}
        /\ cfg' = [cfg EXCEPT !.InternetGatewayID = TRUE]
        /\ UNCHANGED <<inst, given, disk>>
        /\ Goto("attach") /\ UNCHANGED plan
     \/ StepFails(TRUE)

AttachInternetGateway ==
  /\ at = "attach"
  /\ \/ /\ cloud' = cloud \cup {"attachment"}
        /\ UNCHANGED <<inst, given, cfg, disk>>
        /\ Goto("routes") /\ UNCHANGED plan
     \/ StepFails(TRUE)

(* Routes, and the Sync() that ends createVPC.                             *)
CreateRoutes ==
  /\ at = "routes"
  /\ \/ UNCHANGED <<aws, cfg>> /\ Sync /\ Return("mark")
     \/ StepFails(TRUE)

MarkVPCCreated ==
  /\ at = "mark"
  /\ cfg' = [cfg EXCEPT !.VPCCreated = TRUE]
  /\ Sync
  /\ UNCHANGED aws
  /\ Goto("subnets") /\ UNCHANGED plan

(* One CreateSubnet call of the loop, and the Sync() after the last.       *)
CreateSubnet ==
  /\ at = "subnets"
  /\ LET s == NextSubnet(cfg.SubnetIDs) IN
     \/ /\ s \notin cloud
        /\ cloud' = cloud \cup {s}
        /\ cfg' = [cfg EXCEPT !.SubnetIDs = @ \cup {s}]
        /\ UNCHANGED <<inst, given>>
        /\ IF cfg'.SubnetIDs = Subnet
           THEN Sync /\ Return("sg")
           ELSE UNCHANGED disk /\ Goto("subnets") /\ UNCHANGED plan
     \/ StepFails(s \notin cloud)

\* variant with a bug: a VPC that was found is marked as created
GetSubnetsMarks ==
  /\ at = "network" /\ cfg.VPCID
  /\ \/ /\ "vpc" \in cloud /\ cfg.SubnetIDs \subseteq cloud
        /\ cfg' = [cfg EXCEPT !.SubnetIDs = cloud \cap Subnet,
                              !.VPCCreated = TRUE]
        /\ Sync
        /\ UNCHANGED aws
        /\ Return("associate")
     \/ StepFails("vpc" \in cloud /\ cfg.SubnetIDs \subseteq cloud)

(* VPCID is set: getSubnets lists its subnets, or those of the             *)
(* configuration are described.                                            *)
GetSubnets ==
  /\ at = "network" /\ cfg.VPCID
  /\ \/ /\ "vpc" \in cloud /\ cfg.SubnetIDs \subseteq cloud
        /\ IF cfg.SubnetIDs = {}
           THEN /\ cfg' = [cfg EXCEPT !.SubnetIDs = cloud \cap Subnet]
                /\ Sync
           ELSE UNCHANGED <<cfg, disk>>
        /\ UNCHANGED aws
        /\ Return("associate")
     \/ StepFails("vpc" \in cloud /\ cfg.SubnetIDs \subseteq cloud)

AssociatePublicIP ==
  /\ at = "associate"
  /\ \/ UNCHANGED <<aws, cfg, disk>> /\ Goto("sg") /\ UNCHANGED plan
     \/ StepFails(TRUE)

\* variant with a bug: a group that exists is used again
CreateSecurityGroupReuses ==
  /\ at = "sg"
  /\ \/ /\ "vpc" \in cloud
        /\ cloud' = cloud \cup {"sg"}
        /\ cfg' = [cfg EXCEPT !.SecurityGroupIDs = TRUE]
        /\ UNCHANGED <<inst, given, disk>>
        /\ Goto("ingress") /\ UNCHANGED plan
     \/ StepFails("vpc" \in cloud)

CreateSecurityGroup ==
  /\ at = "sg"
  /\ \/ /\ ~cfg.SecurityGroupIDs /\ "sg" \notin cloud /\ "vpc" \in cloud
        /\ cloud' = cloud \cup {"sg"}
        /\ cfg' = [cfg EXCEPT !.SecurityGroupIDs = TRUE]
        /\ UNCHANGED <<inst, given, disk>>
        /\ Goto("ingress") /\ UNCHANGED plan
     \/ StepFails(~cfg.SecurityGroupIDs /\ "sg" \notin cloud
                  /\ "vpc" \in cloud)

(* Ingress rules, and the start of createInstances.                        *)
AuthorizeIngress ==
  /\ at = "ingress"
  /\ \/ /\ UNCHANGED <<aws, cfg>>
        /\ Sync
        /\ IF interrupted THEN Fail
           ELSE /\ Goto("run")
                /\ tokens' = {} /\ left' = cfg.ClusterSize /\ chunk' = 0
                /\ UNCHANGED waiting
     \/ StepFails(TRUE)

Min2(a, b) == IF a < b THEN a ELSE b

(* subnetAllocBatch: the size of one group; with fewer instances than      *)
(* subnets every instance is a group of its own.                           *)
Alloc ==
  IF cfg.ClusterSize > Cardinality(cfg.SubnetIDs)
  THEN cfg.ClusterSize \div Cardinality(cfg.SubnetIDs) ELSE 1

(* A cluster in a VPC without subnets: integer divide by zero.             *)
DividePanics ==
  /\ at = "run" /\ cfg.SubnetIDs = {}
  /\ ProcessEnds

CanRun == {"key", "sg"} \cup cfg.SubnetIDs \subseteq cloud

(* RunInstances launches all n of a call or none.                          *)
LaunchN(n) ==
  /\ LET new == {i \in Id \ Launched :
                   Cardinality({j \in Id \ Launched : j < i}) < n}
     IN /\ inst' = [i \in Id |-> IF i \in new THEN "pending" ELSE inst[i]]
        /\ tokens' = tokens \cup new
  /\ UNCHANGED <<cloud, given, waiting>>

\* variant with a bug: every batch counts as a full one
RunInstancesFixedBatch ==
  /\ at = "run" /\ cfg.SubnetIDs # {} /\ CanRun
  /\ LET n == IF chunk > 0 THEN chunk ELSE Min2(Alloc, left)
     IN /\ LaunchN(Min2(n, RunInstancesBatch))
        /\ chunk' = n - RunInstancesBatch
        /\ left' = IF chunk' = 0 THEN left - Min2(Alloc, left) ELSE left
  /\ Goto("run")
  /\ UNCHANGED <<cfg, disk>>

\* variant with a bug: a group ends with its first batch
RunInstancesOneBatch ==
  /\ at = "run" /\ cfg.SubnetIDs # {}
  /\ \/ /\ CanRun
        /\ LaunchN(Min2(Min2(Alloc, left), RunInstancesBatch))
        /\ chunk' = 0
        /\ left' = left - Min2(Alloc, left)
        /\ IF left' = 0
           THEN Goto("poll") /\ cfg' = [cfg EXCEPT !.Instances = {}]
           ELSE Goto("run") /\ UNCHANGED cfg
        /\ UNCHANGED disk
     \/ StepFails(CanRun)

(* One RunInstances call: at most a batch of the current group.  After the *)
(* last call the map of instances starts empty.                            *)
RunInstances ==
  /\ at = "run" /\ cfg.SubnetIDs # {}
  /\ LET n == IF chunk > 0 THEN chunk ELSE Min2(Alloc, left)
         x == Min2(n, RunInstancesBatch)
     IN \/ /\ CanRun
           /\ LaunchN(x)
           /\ chunk' = n - x
           /\ left' = IF chunk' = 0 THEN left - Min2(Alloc, left) ELSE left
           /\ IF left' = 0
              THEN Goto("poll") /\ cfg' = [cfg EXCEPT !.Instances = {}]
              ELSE Goto("run") /\ UNCHANGED cfg
           /\ UNCHANGED disk
        \/ StepFails(CanRun)

NewlyRunning == {i \in tokens \ cfg.Instances : inst[i] = "running"}

(* The loop finds instances running and records them in memory.            *)
PollInstances ==
  /\ at = "poll" /\ NewlyRunning # {}
  /\ cfg' = [cfg EXCEPT !.Instances = @ \cup NewlyRunning]
  /\ Goto("poll")
  /\ UNCHANGED <<aws, disk, plan>>

(* All are running, or the deadline has passed: no error either way.  With *)
(* Wait those that were recorded are then waited for.                      *)
InstancesCreated ==
  /\ at = "poll"
  /\ \/ Cardinality(cfg.Instances) = cfg.ClusterSize
     \/ "slow" \in Faults
  /\ UNCHANGED <<aws, cfg>>
  /\ Sync
  /\ IF Wait
     THEN /\ Goto("wait") /\ waiting' = cfg.Instances
          /\ UNCHANGED <<tokens, left, chunk>>
     ELSE Return("created")

(* The log of cloud-init says that an instance is ready.  wait() looks     *)
(* every five seconds, without a deadline: the instance need not be.       *)
InstanceReady(i) ==
  /\ at \in {"wait", "addWait"} /\ i \in waiting
  /\ waiting' = waiting \ {i}
  /\ UNCHANGED <<aws, cfg, disk, at, op, errs, interrupted, stopped, tokens,
                 left, chunk, ops>>

(* wait() has found them all.                                              *)
WaitReturns ==
  /\ at = "wait" /\ waiting = {}
  /\ UNCHANGED <<aws, cfg>>
  /\ Sync
  /\ Return("created")

Done == at' = "idle" /\ UNCHANGED <<op, interrupted, stopped, plan, ops>>

CreateReturns ==
  /\ at = "created"
  /\ UNCHANGED <<aws, cfg, errs>> /\ Sync
  /\ Done

-----------------------------------------------------------------------------
(* Add and Delete: neither can be interrupted, nor undoes anything.        *)

AddPossible == cfg.SubnetIDs # {} /\ cfg.SecurityGroupIDs

Add == AddPossible /\ Cardinality(Launched) < MaxInstances /\ Call("Add", "add")

ReturnError == errs' = TRUE /\ Done

AddRunInstances ==
  /\ at = "add"
  /\ \/ /\ CanRun
        /\ LaunchN(1)
        /\ at' = "addPoll"
        /\ UNCHANGED <<op, errs, interrupted, stopped, left, chunk, ops>>
     \/ (APIFails \/ ~CanRun) /\ UNCHANGED aws /\ ReturnError
  /\ UNCHANGED <<cfg, disk>>

(* The instance is running: it is recorded in memory, and waited for.      *)
AddPoll ==
  /\ at = "addPoll" /\ NewlyRunning # {}
  /\ cfg' = [cfg EXCEPT !.Instances = @ \cup NewlyRunning, !.ClusterSize = @ + 1]
  /\ at' = "addWait" /\ waiting' = NewlyRunning
  /\ UNCHANGED <<aws, disk, op, errs, interrupted, stopped, tokens, left,
                 chunk, ops>>

(* The deadline passes: wait() is called for an instance without address,  *)
(* and calls os.Exit.                                                      *)
AddNotReady == at = "addPoll" /\ "slow" \in Faults /\ ProcessEnds

AddReturns ==
  /\ at = "addWait" /\ waiting = {}
  /\ UNCHANGED <<aws, cfg, errs>> /\ Sync
  /\ Done

\* variant with a bug: every recorded instance ends
DeleteAll(i) ==
  /\ at = "idle" /\ ops < MaxOps
  /\ Cardinality(cfg.Instances) = cfg.ClusterSize
  /\ i \in cfg.Instances
  /\ op' = "Delete" /\ ops' = ops + 1 /\ tokens' = {i}
  /\ inst' = [j \in Id |-> IF j \in cfg.Instances \cap Live
                            THEN "shutting-down" ELSE inst[j]]
  /\ at' = "deleteWait" /\ errs' = FALSE
  /\ UNCHANGED <<cloud, given, cfg, disk, interrupted, stopped, left, chunk,
                 waiting>>

Delete(i) ==
  /\ at = "idle" /\ ops < MaxOps
  /\ Cardinality(cfg.Instances) = cfg.ClusterSize
  /\ i \in cfg.Instances
  /\ op' = "Delete" /\ ops' = ops + 1 /\ tokens' = {i}
  /\ \/ /\ inst' = [inst EXCEPT ![i] = IF @ = "terminated" THEN @
                                       ELSE "shutting-down"]
        /\ at' = "deleteWait" /\ errs' = FALSE
     \/ /\ DeleteFails
        /\ UNCHANGED inst /\ at' = "idle" /\ errs' = TRUE
  /\ UNCHANGED <<cloud, given, cfg, disk, interrupted, stopped, left, chunk,
                 waiting>>

(* Terminated or not when the loop ends, the instance is forgotten, in     *)
(* memory only.                                                            *)
DeleteReturns ==
  /\ at = "deleteWait"
  /\ \/ /\ \A i \in tokens : inst[i] = "terminated" \/ "slow" \in Faults
        /\ cfg' = [cfg EXCEPT !.Instances = @ \ tokens, !.ClusterSize = @ - 1]
        /\ UNCHANGED errs
        /\ Done
     \/ DeleteFails /\ UNCHANGED cfg /\ ReturnError
  /\ UNCHANGED <<aws, disk>>

-----------------------------------------------------------------------------
(* The deletions, of Terminate and of a Create that failed.  They clear    *)
(* nothing in the configuration.                                           *)

Then(next, e) ==
  /\ at' = next /\ errs' = (errs \/ e)
  /\ UNCHANGED <<inst, given, cfg, disk, op, interrupted, stopped, plan, ops>>

TerminateInstances ==
  /\ at = "instances"
  /\ IF cfg.Instances = {}
     THEN at' = "delsg" /\ UNCHANGED inst
     ELSE /\ at' = "instancesWait"
          /\ \/ inst' = [i \in Id |->
                  IF i \in cfg.Instances \cap Live THEN "shutting-down"
                  ELSE inst[i]]
             \/ DeleteFails /\ UNCHANGED inst  \* the error is overwritten
  /\ UNCHANGED <<cloud, given, cfg, disk, op, errs, interrupted, stopped, plan,
                 ops>>

\* variant with a bug: no deadline, and lookups are repeated until they work
InstancesTerminatedNoDeadline ==
  /\ at = "instancesWait"
  /\ cfg.Instances \cap Live = {}
  /\ Cardinality(cfg.Instances) = cfg.ClusterSize
  /\ Then("delsg", FALSE)
  /\ UNCHANGED cloud

(* ClusterSize instances have terminated, or the deadline passes, as it    *)
(* must when fewer were recorded: no error.  A failed lookup is one.       *)
InstancesTerminated ==
  /\ at = "instancesWait"
  /\ \/ /\ \/ cfg.Instances \cap Live = {}
           \/ Faults \cap {"slow", "deleteError"} # {}
        /\ Then("delsg", FALSE)
     \/ DeleteFails /\ Then("delsg", TRUE)
  /\ UNCHANGED cloud

AfterSecurityGroup ==
  IF cfg.VPCCreated THEN "delsubnets"
  ELSE IF cfg.KeyCreated THEN "delkey" ELSE "torn"

\* variant with a bug: a dependency violation is taken for a missing group
DeleteSecurityGroupIgnoresDependency ==
  /\ at = "delsg"
  /\ \/ /\ cfg.SecurityGroupIDs
        /\ cloud' = IF Blocked("sg") THEN cloud ELSE cloud \ {"sg"}
        /\ Then(AfterSecurityGroup, FALSE)
     \/ /\ DeleteFails \/ ~cfg.SecurityGroupIDs
        /\ UNCHANGED cloud
        /\ Then(AfterSecurityGroup, TRUE)

(* Without an ID the check that follows describes every group: an error.   *)
DeleteSecurityGroup ==
  /\ at = "delsg"
  /\ \/ /\ cfg.SecurityGroupIDs /\ ("sg" \in cloud => ~Blocked("sg"))
        /\ cloud' = cloud \ {"sg"}
        /\ \E e \in {FALSE, DeleteFails} : Then(AfterSecurityGroup, e)
     \/ /\ \/ DeleteFails \/ ~cfg.SecurityGroupIDs
           \/ "sg" \in cloud /\ Blocked("sg")
        /\ UNCHANGED cloud
        /\ Then(AfterSecurityGroup, TRUE)

(* The subnets "gone" are deleted in order before the loop ends: at a      *)
(* subnet that is not there, without an error and whatever is left, or at  *)
(* one that cannot be deleted.                                             *)
DeleteSubnet ==
  /\ at = "delsubnets"
  /\ \E gone \in {{}, {"a"}, {"a", "b"}, Subnet} :
       LET s == NextSubnet(gone) IN
       /\ gone \subseteq cloud \cap cfg.SubnetIDs
       /\ cloud' = cloud \ gone
       /\ \/ gone = cfg.SubnetIDs /\ gone # {} /\ Live = {}
             /\ \E e \in {FALSE, DeleteFails} : Then("detach", e)
          \/ s \in cfg.SubnetIDs \ gone /\ s \notin cloud
             /\ Then("detach", FALSE)
          \/ s \in (cfg.SubnetIDs \ gone) \cap cloud /\ (DeleteFails \/ Live # {})
             /\ Then("detach", TRUE)
          \/ cfg.SubnetIDs = {} /\ Then("detach", TRUE)

AfterVPC == IF cfg.KeyCreated THEN "delkey" ELSE "torn"

(* deleteVPC ends with the first error.                                    *)
DetachInternetGateway ==
  /\ at = "detach"
  /\ \/ /\ cfg.InternetGatewayID /\ "attachment" \in cloud
        /\ ~Blocked("attachment")
        /\ cloud' = cloud \ {"attachment"}
        /\ Then("deligw", FALSE)
     \/ /\ \/ DeleteFails \/ ~cfg.InternetGatewayID
           \/ "attachment" \notin cloud \/ Blocked("attachment")
        /\ UNCHANGED cloud
        /\ Then(AfterVPC, TRUE)

DeleteInternetGateway ==
  /\ at = "deligw"
  /\ \/ cloud' = cloud \ {"igw"} /\ Then("delvpc", FALSE)
     \/ DeleteFails /\ UNCHANGED cloud /\ Then(AfterVPC, TRUE)

(* Ten attempts.  The error may also be one of the check that follows.     *)
DeleteVPC ==
  /\ at = "delvpc"
  /\ \/ /\ ~Blocked("vpc")
        /\ cloud' = cloud \ {"vpc"}
        /\ \E e \in {FALSE, DeleteFails} : Then(AfterVPC, e)
     \/ /\ DeleteFails \/ Blocked("vpc")
        /\ UNCHANGED cloud
        /\ Then(AfterVPC, TRUE)

DeleteKeyPair ==
  /\ at = "delkey"
  /\ \/ /\ cloud' = cloud \ {"key"}
        /\ \E e \in {FALSE, DeleteFails} : Then("torn", e)
     \/ DeleteFails /\ UNCHANGED cloud /\ Then("torn", TRUE)

(* Terminate writes the file when there was no error.                      *)
TearReturns ==
  /\ at = "torn"
  /\ UNCHANGED <<aws, cfg, errs>>
  /\ IF op = "Terminate" /\ ~errs THEN Sync ELSE UNCHANGED disk
  /\ Done

-----------------------------------------------------------------------------
(* AWS: instances start and terminate.                                     *)
InstanceChanges(i) ==
  /\ \/ inst[i] = "pending" /\ inst' = [inst EXCEPT ![i] = "running"]
     \/ inst[i] = "shutting-down" /\ inst' = [inst EXCEPT ![i] = "terminated"]
  /\ UNCHANGED <<cloud, given, cfg, disk, at, op, errs, interrupted, stopped,
                 plan, ops>>

CreateSteps ==
  \/ CreateKeyPair \/ KeyPairMade \/ CreateVPC \/ VPCAttributes
  \/ CreateInternetGateway \/ AttachInternetGateway \/ CreateRoutes
  \/ MarkVPCCreated \/ CreateSubnet \/ GetSubnets \/ AssociatePublicIP
  \/ CreateSecurityGroup \/ AuthorizeIngress \/ DividePanics \/ RunInstances
  \/ PollInstances \/ InstancesCreated \/ WaitReturns \/ CreateReturns

AddDeleteSteps ==
  AddRunInstances \/ AddPoll \/ AddNotReady \/ AddReturns \/ DeleteReturns

TearSteps ==
  \/ TerminateInstances \/ InstancesTerminated \/ DeleteSecurityGroup
  \/ DeleteSubnet \/ DetachInternetGateway \/ DeleteInternetGateway
  \/ DeleteVPC \/ DeleteKeyPair \/ TearReturns

DeployerStep == CreateSteps \/ AddDeleteSteps \/ TearSteps

AWSStep == \E i \in Id : InstanceChanges(i)

ReadyStep == \E i \in Id : InstanceReady(i)

Caller ==
  \/ NewDeployer \/ Create \/ Terminate \/ Add \/ Exit
  \/ \E i \in Id : Delete(i)

Environment == Crash \/ Stop \/ Interrupt \/ ReadyStep

(* The bound is reached and the last process has ended.                    *)
Ended == at = "off" /\ ops = MaxOps /\ UNCHANGED vars

Next == DeployerStep \/ AWSStep \/ Caller \/ Environment \/ Ended

Spec == Init /\ [][Next]_vars

(* The goroutine of the operation runs, and instances change state.  That  *)
(* one becomes ready is not said.                                          *)
FairSpec == Spec /\ WF_vars(DeployerStep) /\ WF_vars(AWSStep)

-----------------------------------------------------------------------------
(* Properties.                                                             *)

(* A Terminate that returns nil has left nothing of what the configuration *)
(* says is the deployer's, and no instance at all, not even one that was   *)
(* never recorded: the checks after each deletion are enough, whatever     *)
(* failed or crashed before.                                               *)
TerminatedMeansGone ==
  at = "idle" /\ op = "Terminate" /\ ~errs =>
    /\ Live = {}
    /\ "sg" \notin cloud
    /\ cfg.KeyCreated => "key" \notin cloud
    /\ cfg.VPCCreated =>
         cloud \cap ({"vpc", "igw", "attachment"} \cup Subnet) = {}

(* A VPC that the user brought is never deleted, nor any of its subnets,   *)
(* its gateway or the attachment, through any sequence of failed           *)
(* creations, retries from the file, rollbacks and terminations.           *)
ExistingVPCKept ==
  given => {"vpc", "igw", "attachment"} \cup Subnet \subseteq cloud

(* The groups and batches of createInstances add up: when they have all    *)
(* been launched there are ClusterSize new instances.                      *)
LaunchesClusterSize ==
  at = "poll" => Cardinality(tokens) = cfg.ClusterSize

(* A Create that returns nil with its map full knows every live instance,  *)
(* so that none that an earlier, failed Create launched is left running.   *)
CreatedKnowsInstances ==
  at = "idle" /\ op = "Create" /\ ~errs
    /\ Cardinality(cfg.Instances) = cfg.ClusterSize
  => Live \subseteq cfg.Instances

(* The contract of the Deployer interface: a deployer is reverting when it *)
(* is at a deletion, and its instances are up until asked to end.          *)
Phase ==
  IF at \in {"off", "idle"} THEN at
  ELSE IF at \in TearStep THEN "reverting" ELSE "working"
Up == {i \in Id : inst[i] \in {"pending", "running"}}
Ending == {i \in Id : inst[i] = "shutting-down"}

Contract == INSTANCE EC2Contract
  WITH Instance <- Id, Base <- Resource,
       phase <- Phase, up <- Up, ending <- Ending, base <- cloud

(* Every step keeps it: a Create that fails has stopped creating when it   *)
(* begins to delete, whatever Stop() interrupts, and returns an error; no  *)
(* other operation both makes and ends instances, or ends more than one.   *)
ContractKept == Contract!Spec

(* Every operation returns or ends the process, whatever deadlines pass    *)
(* and lookups fail, unless wait() waits for good for an instance: of the  *)
(* loops only that one has no deadline.                                    *)
OperationsReturn ==
  \/ at \notin {"idle", "off"} ~> at \in {"idle", "off"}
  \/ <>[](at \in {"wait", "addWait"} /\ waiting # {})

(* "VPCCreated is true to indicate that EC2 VPC has been created, so needs *)
(* be cleaned later": between operations the file says so when it has.     *)
VPCCreatedIsTrue ==
  at = "idle" /\ op = "Create" /\ ~given /\ "vpc" \in cloud => disk.VPCCreated
=============================================================================

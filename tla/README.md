# A formal model of aws-k8s-tester

`aws-k8s-tester` creates Kubernetes clusters and related machines on AWS for tests, and deletes them again.
Nearly everything it can get wrong is of one kind: a resource exists at AWS and the program does not know it
(it leaks), or the program believes something about AWS that is not so (a delete that "succeeded", a flag that
is stale, a count that is off). The code reaches such states through failures in the middle of a sequence of
calls, interrupts, deadlines of polling loops, and processes that die and are started again from a
configuration file.

The modules here keep **what exists at AWS** apart from **what the program has recorded** of it, in memory and in
the file, and state the properties that relate the two. TLC checks them on small instances; TLAPS proves the
most important ones for every value of the constants.

## Inventory

| Component | State it keeps | Operations | How it interacts |
|---|---|---|---|
| EKS tester, `internal/eks/tester.go`, `eks.go`, `vpc.go`, ... | `eksconfig.Config` in memory (six `Status...Created` flags, cluster status, IDs, stack names) and in a YAML file; `stopc`; a goroutine per stage | `Up`, `Down`, `Stop`, `IsUp`, `GetWorkerNodeLogs`, uploads | IAM, CloudFormation, EKS, EC2; `catchStopc` selects between the stage, `stopc` and signals |
| EKS ALB plugin, `internal/eks/alb` | one flag `ALBIngressController.Created`, security group ID, load balancer ARNs | `DeployBackend`, `CreateRBAC`, `DeployIngressController`, `CreateSecurityGroup`, `CreateIngressObjects`, two deletes, three tests | called by Up and Down; `kubectl`, EC2, ELBv2 |
| EKS commands, `cmd/aws-k8s-tester/eks` | none of their own | create, delete, test, sidecar | each command is a process that loads the file and calls the tester |
| EC2 deployer, `internal/ec2`, `ec2config` | `ec2config.Config`: `KeyCreated`, `VPCID`, `VPCCreated`, subnets, security group, `Instances`, `ClusterSize`; its file | `Create`, `Add`, `Delete`, `Terminate`, `Stop`, uploads | EC2; used by the etcd, Kubernetes, kubeadm and CSI testers |
| etcd tester, `internal/etcd` | `ClusterState`, `ClusterSize`, two EC2 configurations | `Create`, `Stop`, `Restart`, `MemberAdd`, `MemberRemove`, `MemberList`, `Cluster`, `ClusterStatus`, `Put`, `Terminate` | two EC2 deployers that share a VPC, terminated concurrently; SSH, etcdctl |
| Kubernetes deployer, `internal/kubernetes` | three configurations and a load balancer | `Create`, `Terminate` | etcd tester and EC2 deployers in goroutines |
| kubeadm deployer, `internal/kubeadm` | a master and a worker configuration, the join command | `Create`, `Terminate` | two EC2 deployers, SSH |
| SSH client, `internal/ssh` | a map of retries per command | `Connect`, `Run`, `Send`, `Download` | used by all deployers |
| kubetest deployer, `kubetest/eks` | the path of the file | `Up`, `Down`, `IsUp`, `Stop` | runs the commands as child processes, interrupts them |
| CSI tester, `internal/csi` | one EC2 deployer, IAM resources | create, run, delete | EC2 deployer, SSH, IAM |
| EKS S3 plugin, `internal/eks/s3`, and `internal/ec2/s3.go` | which buckets are known to exist | create, upload, delete | S3; every deployer of the same tag shares the bucket |
| prow status, `internal/prow` | the jobs, a cached page, the time of the last update | refresh, serve page, summary, readiness | git, HTTP; requests run at once |
| the rest: `internal/{sidecar,alb-log,pki}`, `pkg`, other commands | none that outlives a call | | |

What is hard in them:

* **Interleaving.** `catchStopc` returns on a signal while its goroutine still creates; Up then deletes beside it.
* **Partial failure.** Every stage may fail; the rollback must know precisely what was made.
* **Crash and restart.** AWS has accepted a call and the file does not say so.
* **Deadlines.** Most polling loops end without an error when their time is up; `wait()` of the EC2 deployer and the handshake of the SSH client have none.
* **Order.** AWS rejects deletions of resources that others depend on.
* **Two records.** Flags and counts are kept in memory, in a file, and implied by AWS itself.

The full list of hazards, each at its line, is in `PROJECT.json` together with the property that covers it.

## Modules

### `EKSTester`: Up, Down and the goroutine between them

| Model | Code |
|---|---|
| `cloud`, `deleting`, `eks` | the resources at AWS: role, policy attachment, VPC stack, cluster, key pair, node group, and the ALB's security group and load balancer; which deletions AWS has accepted; the status of the cluster |
| `rec`, `out`, `status` | memory: the `Status...Created` flags, `ALBIngressController.Created` (`"alb"`), whether the ID of the security group and the ARNs are known (`"sg"`, `"lb"`), the role ARN and the VPC outputs, `ClusterState.Status` |
| `disk` | the file: what `Sync()` wrote last |
| `main`, `idx`, `cmd` | the main goroutine: which stage of Up or of `down()` it is in |
| `worker` | the goroutine of `catchStopc`: `call` (before the AWS call), `made` (AWS has accepted, the flag is not yet set), `wait` (polling), `done` (blocked on `errc`) |
| `leaked` | a history variable: resources that lost their record while they existed |

The create functions have one shape (check the configuration, call AWS, set the flag, `Sync`, poll or look up
again, `Sync`, return), and the delete functions another (skip without the flag, call, poll; a deferred function
clears the flag and calls `Sync`). Each step of these shapes is **one generic action**: `WorkerCall` is the
call of all of the create functions, `TearAccepted` that of all the delete functions, and so on; where the
functions differ the action says so (`CallAllowed`, `Async`, the status of the cluster, the ALB's lines). The map
of `PROJECT.json` names one function per action, chosen so that all of them are named by some action.

Up and Down are processes. `NewTester` loads the file and looks up the role, the VPC stack and the cluster as
`newTesterEmbedded` does; `Exit`, `Crash` and `TerminateOnExit` end the process or go on with Down. A signal is
received only in the select (`termChan` has no buffer). `Stop()` closes `stopc`, which the create functions also
read while they wait. AWS answers a creation only when what it needs exists and its name is free, and refuses or
fails a deletion that has dependents.

### `EC2Deployer`: the machines

| Model | Code |
|---|---|
| `cloud`, `inst` | key pair, VPC, internet gateway and its attachment, subnets, security group; the state of every instance |
| `given` | the VPC existed before: `VPCID` was set by the user |
| `cfg`, `disk` | `ec2config.Config` in memory and in the file |
| `at`, `op`, `errs` | the next step of the operation that holds `md.mu`, which one, and whether it has an error |
| `interrupted`, `stopped` | `catchStopc` has seen `stopc` closed; `stopc` is closed |
| `tokens`, `left`, `chunk` | `createInstances`: instances launched by this call, those not yet launched, the rest of the current group |
| `waiting` | `wait()`: the recorded instances whose init script it has not yet seen to be ready |

One action is one call to AWS with what the code does before the next one. Create's deferred functions (Sync,
then the deletions) are the same actions as those of Terminate, as in the code; `op` tells them apart at the end.
With `Wait`, the default, Create and Add end in `wait()`, which reads the state of each instance over SSH in a loop without a deadline:
`ReadyStep` is the environment's, and an instance need never become ready. `RunInstances` is the loop of groups (`ClusterSize / len(SubnetIDs)`, then the remainder) and batches (seven in
the code, `RunInstancesBatch` here).

### `EtcdTester`: a cluster whose members are instances

| Model | Code |
|---|---|
| `vpc`, `bastion`, `inst`, `born` | AWS: the network, the bastion instance, the instances of the cluster |
| `orphan` | a VPC that exists although `createVPC` failed, so that `VPCCreated` is false and nothing deletes it |
| `members`, `named`, `up` | etcd: the membership, which members have joined and published a name, where etcd runs |
| `cfg`, `disk` | `etcdconfig.Config`: `EC2.Instances`, `EC2.ClusterSize` (`EC2Size`), `ClusterState`, `ClusterSize`, and what of the network the deployers know (`VPC`, `Bastion`) |
| `at`, `op`, `err`, `target` | the next step of the operation that holds `md.mu`, which one, whether it returns an error, the instance it is about |
| `todo`, `running` | the loop of Create over `ClusterState`; the two goroutines of Terminate |
| `lost` | a history variable: instances that exist and lost their record |

A MemberAdd or MemberRemove changes three systems: EC2, etcd and the record. Each of its actions is one call to
one of them, with what the code does before the next call. The calls of the EC2 deployer appear by
what `EC2Deployer` shows of them: one action for `Add` and `Delete` each, two for `Terminate`, because the bastion's runs between them, and for `Create` one per outcome. It
succeeds, with fewer instances recorded than launched if its polling ended at the deadline; it fails and undoes itself; a failing `createVPC` leaves an unclaimed VPC
(`EC2CreateOrphans`); a RunInstances call that fails leaves those that were launched before it (`EC2CreateLeaves`); a given VPC without subnets divides by zero (`EC2CreatePanics`).
A Create whose deployer recorded no instance goes on to `initialCluster[1:]` of nothing and panics (`FillPanics`). A command over SSH may fail, or may be applied and reported as failed
("commandError"), because `Run` retries and then returns the last error. What the code only logs (the service scripts,
`member add`, `member remove`) is a branch that goes on with `err` unchanged. etcd is external: a change of the
membership needs a quorum, `member list` is answered by any running member, and a member that never joined has no name.

### `EC2Contract`: what the deployers above rely on

`EC2Contract` has six variables: the phase of the operation, which operation, whether it has failed, the instances that
live, those that were asked to end, and what else exists. A Create works and then only reverts; Terminate only reverts;
a Terminate without an error has left neither an instance nor the security group. `EC2Deployer` defines the mapping
(`Phase`, `Up`, `Ending`, the base is `cloud`) and states `ContractKept == Contract!Spec`, where `Contract` is the instance with that mapping:
checked in run `ec2`, proved in `EC2ContractProofs`. `EtcdTester`, `Kubernetes` and `Kubeadm` have for each call of an EC2 deployer one action per outcome
that `EC2Deployer` has. That these are all of them is read from the code: it is not stated as a refinement (see Plan).

### `Kubernetes` and `NodeFiles`: three deployers, two goroutines and a load balancer

| Model | Code |
|---|---|
| `nodes`, `vpc`, `lb` | AWS: what exists of each group (masters, etcd, workers), the masters' VPC, the load balancer |
| `known` | the nodes that the EC2 deployers have recorded: those that ran before the polling of their Create ended, which the stages work on |
| `blame` | a history variable: which of the causes in `Cause` have occurred, each of which makes the code leave something or misjudge it |
| `cfg`, `disk` | memory and file: which deployer has recorded something, the load balancer, the ID of the VPC and the etcd addresses |
| `at`, `op`, `errs`, `ess` | the step of the main goroutine, the operation, its result, the errors collected |
| `go`, `got` | the two goroutines of Create (etcd, workers) and those of `terminate()`; results received from `errc` |
| `err`, `own` | the **named result** that the main goroutine and the two others all assign, and what each assigned last: under the fault "race" a test of `err` reads what another of them wrote |
| `files`, `stage`, `todo` | the files of every node; the thirty-odd stages in which they are downloaded or sent, and the nodes that a stage has not finished |

`NodeFiles` is the data of the stages: which files each component sends, and, from the flags, units and environment
files that `kubernetesconfig` generates, which it will read. `srv` is `/srv/kubernetes`, where the components overwrite each
other's `ca.crt`, `server.key` and so on.

### `MCParts`: parts that share no state

Seven smaller parts, each in a module of its own, are checked in one model: in a behaviour one of them moves.

* **`SSHClient`** (`internal/ssh`): the retry budget of a command lives in a map under the command, outlives the call that failed,
  and is used up by reconnections that fail. `retries`, `budget`, `tries`, `cutOff`. Nothing is said of the time a call takes: the handshake, a new session and a command
  without `WithTimeout` have no deadline, so that no liveness is stated.
* **`CSITester`** (`internal/csi`): five IAM calls create, five delete; `iam` is what exists, `known` what `iamResources` has. AWS refuses
  a deletion while a link exists. A rollback that needs a role that was never made panics, which is the finding of run `csi_undo`; and when the EC2 instance
  cannot be created, `return nil, ...` sets the named result `tester` that the deferred cleanup then dereferences, so that NewTester panics and everything stays. `NothingLeft`
  is therefore about a tester that NewTester has returned.
* **`KubetestDeployer`** (`kubetest/eks`, its use in the end-to-end suite, and `process.Control`): up to three processes, the create process with the goroutine of
  `catchStopc`, and two delete processes, on one configuration file that `Sync` truncates and then writes. A file that was truncated and not written is
  `Empty`: `eksconfig.Load` accepts it as a configuration of nothing, but it names no region, so that `awsapi.New`, and with it NewTester, refuses it, and the suite that loads it finds no path
  of the binary and starts no process. No Down thus takes it for a cluster of nothing. `Torn` is what two processes write over each other, and does not parse.
  Up only sends a SIGINT and does not wait, so that the create process may run to its end after a Down has loaded the file: `outran`. Both timers of
  `process.Control` fire at the same moment, so that after a timeout a Down is killed, too; a Stop before the first command has started
  dereferences a nil `Process` (`main = "panic"`).
* **`Kubeadm`** (`internal/kubeadm`): every step of Create and Terminate with the file, over processes. The line that copies `admin.conf` is
  commented out in the script of `kubeadm init`: on its own Create cannot get past kubectl; the model takes the copy for external.
* **`NodeGroup`** (`internal/eks/worker_node.go`): the stage that `EKSTester` has as one is taken apart: the stack, the ports, `checkASG`, and the nodes that join. Instances have IDs as
  in `WorkerNodes`, and one that is lost is replaced by another ID; an error of `checkASG` starts over from the stack (`again`), past rules that are there already.
* **`S3Bucket`** (`internal/eks/s3`, `internal/ec2/s3.go`): deployers with the same tag share a bucket, each with its own map of the buckets that exist.
* **`ProwStatus`** (`internal/prow`): requests refresh the page under `status.mu`. A test is a pair of category and provider. `Tables` is `munge`: of a new category the table
  gets the provider that came first, and of the others those that have a second entry, so that the table depends on the order of a Go map.
  The readiness handler is not modelled: without tests it writes no header, which net/http answers with 200 all the same.

### `EKSTesterProofs`, `EC2DeployerProofs`, `EC2ContractProofs`, `EtcdTesterProofs`, `KubernetesProofs`, `CSITesterProofs`, `KubeadmProofs`, `PartsProofs`

The theorems; see below.

## Runs

| Run | Instance | What it shows |
|---|---|---|
| `rollback` | creations fail, `Stop()`; three processes; no ALB | `RollsBackEverything`: a failed Up leaves nothing; `DownSuccessMeansGone`; `NoDependencyViolation`: the order of `down()` is right at every stage at which it may start |
| `faults` | all seven faults, ALB; two processes | `NothingUntracked`, `FlagsOnDisk`, `TeardownComplete`: what leaks leaks through one of the two windows named in `NothingUntracked` and through nothing else; `TypeOK` |
| `live` | all faults, ALB; one process, fair | `CallsReturn` |
| `signal` | signals only | **violates** `RollsBackEverything` (`tester.go:354`) |
| `timeout` | deletions that outlive their loop | **violates** `DownSuccessMeansGone` (`tester.go:504`) |
| `ec2` | all five faults, cluster of 3, batches of 2, 4 instances, 5 operations or processes, VPC made or given; fair | `TerminatedMeansGone`, `ExistingVPCKept`, `LaunchesClusterSize`, `CreatedKnowsInstances`, `TypeOK`; `OperationsReturn`: operations end unless `wait()` waits for good; `ContractKept`: all of it implements `EC2Contract` |
| `ec2_stop` | `Stop()` only, one instance | **violates** `VPCCreatedIsTrue` (`ec2config/config.go:121`) |
| `etcd` | all six faults, a cluster of 2 that may grow to 3 (a fourth instance meets the limit), 7 operations or processes | `MembersKnown`, `InstancesRecorded`, `TerminateMeansGone`, `CreateMeansReady`, `TypeOK` |
| `etcd_remove` | no fault; a cluster of 3 of which members are stopped | **violates** `RemovedMeansRemoved` (`storagetester/tester.go:31`): the instance of a member that is still in the cluster is deleted, and MemberRemove returns nil |
| `k8s` | all six faults, two masters and a worker, 5 operations or processes; fair | `TerminateMeansGone`, `RollsBackEverything`, `CreateMeansComplete`: what nil and an error mean, in every order of the goroutines; `ServicesFindTheirFiles`: whatever later stages overwrite, every service finds the binary, unit, flags and keys it reads; `OperationsReturn` (unless an EC2 Create waits for good), `TypeOK` |
| `parts` | seven parts, all faults of each; see Bounds | SSH: `TriesAsBudgeted`. CSI: `NothingLeft`. Kubetest: `DownMeansGone`, `FileKnows`. kubeadm: `KubeadmTerminates`, `KubeadmRollsBack`, `CreateMeansJoined`. Node group: `SecondRound`, `WorkersRecorded`. S3: `BucketReady`. Prow: `PageTellsUpstream` |
| `csi_undo` | a creation fails | **violates** `CreatedResourcesDeleted` (`csi/iam.go:90`): the rollback panics, or leaves the instance profile |

Some of these hold only under a condition, and the condition is what the model says of the code:
`RollsBackEverything` of `Kubernetes` and of `Kubeadm` (`KubeadmRollsBack`) except what `Cause` names, and every cause is something the code does: a failed Create of
an EC2 deployer or of etcd that leaves what nobody tries to delete ("left"), a polling deadline ("slow"), a failed deletion, a misread `err`, a crash, and a VPC of an earlier process.
No failure of the load balancer, of a command or of a file that is sent is among them.
`CreateMeansComplete` excepts a misread `err`; it and `CreateMeansJoined` say of nodes that missed the polling deadline only that they were launched: they are not recorded, no stage
works on them, and Create returns nil.
`InstancesRecorded` excepts instances in `lost`: those of a crash and those that the EC2 deployer never recorded; that MemberAdd, MemberRemove and restarts lose no other is what it says.
`SecondRound` says that privileged ports, which a second round authorizes again, are the only rule that ends it. `WorkersRecorded`
holds for at most one batch of instances (ten): of more, `ids = ids[:10]` describes the first ten twice; and if no instance was lost since `checkASG` listed the group, which is
not called again while the nodes join: a later replacement is not recorded. `BucketReady` excepts a deployer whose thirtieth try failed (the
loop then ends like a success) and a bucket that another deployer has deleted. `DownMeansGone` excepts a timeout of `process.Control`, whose two timers kill the rollback as well, and
`outran`.

Why the faults of `rollback` are only failing creations and `Stop()`: under any other fault the code really
leaves something behind. A signal and an outlived loop are the two findings; `clusterFailed` makes `down()` refuse
(`tester.go:513`), a failed deletion clears its flag and is not repeated, and with the ALB controller a failure
between its security group and line 456 leaves that group behind (the Created flag is set last). The
`faults` run covers all of these at once with the weaker property that says exactly which resources those are.

### Bounds

* `MaxRuns` bounds processes. Two are needed for "the process dies and the next one cleans up", three for a
  create, a delete and a create or delete after it. Within a process nothing is bounded: stages are finite, and loops do
  not count.
* `Size = 3` with `RunInstancesBatch = 2`: with three subnets of the deployer's own every instance is a group;
  with the one or two subnets of a given VPC there are groups of three and of one with a remainder, and a group needs two batches.
  `MaxInstances = 4` allows a Create followed by an Add, or instances launched by a failed Create and then
  not enough for another.
* `MaxOps = 5` allows a process, Create, Terminate, a second process and one more operation.
* `EtcdTester`: `Limit = 3` stands for the five of the code, so that the fourth instance is the one too many that is
  written to the file before it is refused. `MaxOps = 7` allows a process, Create, MemberAdd, MemberRemove, a crash, a second process,
  and another operation and Terminate.

* `Kubernetes`: two masters make every stage finish in different orders; `MaxOps = 5` allows a process, Create, a crash, a second process, Terminate.
* `MCParts`: two commands and three calls with a budget up to two let a call find what an earlier one left; two resources, so that one is being made while the
  other exists, and up to three processes of kubetest; two masters and workers, three operations; a batch of two and up to three instances, the
  smallest group beyond a batch; `MaxMade = 4` leaves room for a replacement of one of them; two deployers that share a bucket, with two tries instead of thirty; two requests, and two providers of one of two categories.

### Fairness

Three runs state liveness. In `EKSTester`, `FairSpec` assumes weak fairness of the program's own steps (goroutines are scheduled; every polling loop of
Up and Down has a deadline, so that "give up" is a step of the program and no assumption about AWS) and of AWS's own steps
(an accepted deletion ends or fails). `EC2Deployer` assumes it of `DeployerStep` and of `AWSStep` (an instance goes on to running or terminated), but not of `ReadyStep`, that an
instance becomes ready: `wait()` has no deadline, and `OperationsReturn` says that an operation ends unless it stays there for good. `Kubernetes` assumes it of the steps of a running
operation except for Create of a deployer below it, and `OperationsReturn` there excepts the same. Nothing is assumed of
operators, of faults, of `Stop` or of signals. The other parts state no liveness: the SSH client that they use may wait for good.

## Proofs

Every invariant and every action property that a passing run checks is also a theorem, and so is the refinement of `EC2Contract`;
what is left to TLC alone is liveness. Unless it says otherwise below, a theorem holds for every choice of `Faults` and of the
bounds; the constants are constrained only by the named assumptions of the modules (the faults are known kinds, sizes are numbers,
a bucket is tried for at least once as in the code's loop of thirty).

**EKSTesterProofs.** The inductive invariant is
`IInv == TypeOK /\ ControlInv /\ NothingUntracked /\ FlagsOnDisk /\ TornInv`. `NothingUntracked` is not inductive
alone: `ControlInv` says where `idx` and the worker's stage can be for each `main` (a worker that has made a
resource is at a resource stage; only rollbacks and Down tear), and `TornInv` says that the resources already
passed by `down()` are neither in `rec` nor, with no goroutine left, unaccounted for. `FlagsOnDisk` is needed because the
flag that survives a crash is the one in the file. From it: `TypeCorrect`, `Tracked` (`NothingUntracked`),
`FlagsAgree` (`FlagsOnDisk`), `Complete` (`TeardownComplete`).

What nil and an error mean needs a hypothesis, because the code does not keep it under every fault:
`Quiet == Faults \subseteq {"apiError", "clusterFailed", "stop"} /\ ~ALBEnabled`. It leaves out `signal` and `deleteTimeout`, with which the
runs of these names refute the statements; crashes and failed deletions, which lose records
(`Tracked` says which); and the ALB controller, whose flag is set last. The hypothesis is as weak as it can be: with any one of the faults `crash`, `deleteError`, `deleteTimeout`
and `signal` added, or with the ALB controller, TLC finds each of the three properties violated by the code, within two processes. Under it `QuietInv` is inductive with `IInv`: `JoinedInv` (a goroutine runs only while the
main one waits for it, and nothing has leaked), `DeletionInv` (a deletion runs only while `down()` waits for it, so that no later `down()` reads the status
`DELETING`), `OrderInv` (every resource that `down()` has passed is gone). That AWS never has to refuse a deletion then follows from the lemma `DependentsFirst`: what depends on
a resource is earlier among the stages. From it, for any number of processes: `DownLeavesNothing` (`DownSuccessMeansGone`), `DependentsGoFirst`
(`NoDependencyViolation`), and, without a failed cluster, which `down()` refuses to delete, `RollsBack` (`RollsBackEverything`).

**EC2DeployerProofs.** `IInv == TypeOK /\ DeleteInv /\ GivenInv /\ ExistingVPCKept`. `DeleteInv` (an instance that is being
deleted was recorded, so `ClusterSize` is not zero) makes the decrement stay a natural number. `GivenInv` says that with
a VPC of the user's, memory **and file** hold its ID and never the flag `VPCCreated`, and that no step
that makes or deletes a VPC is reached: the file matters because a process starts from it. From it:
`EC2TypeCorrect` and `VPCKept` (`ExistingVPCKept`).

**EC2ContractProofs.** `CInv == TypeOK /\ OffInv /\ OpInv /\ LiveInv /\ RecordInv /\ GoneInv`. `GoneInv` is the heart: it says what a Terminate
without an error so far has made sure of at each of its steps (no live instance and no security group after the subnets' turn, no gateway at `deleteVPC`, and so
on), and it needs `LiveInv` (an instance holds its security group, so that a deletion of the group that works proves the instances gone) because
the error of `TerminateInstances` is overwritten in the code. `OpInv` says which operation can be at which step. The steps are first summed up
(`Gained`, `Lost`, `CreateGoes`, `TearGoes`, ...), and invariant and refinement follow from the sums. From it: `Terminates`
(`TerminatedMeansGone`) and `Implements` (`ContractKept`).

Its last part counts instances, for every cluster size, batch and number of subnets. `CountInv == RoomInv /\ GroupInv /\ OwnInv`. `GroupInv` is the invariant of the loops of
`createInstances`: launched plus not yet launched is `ClusterSize`, but for the part of the current group that is already launched while `left` still counts the whole group;
from it the remainder and the last batch come out right. `OwnInv` says that from the security group on, only instances of this call live: the group did not
exist before, and no instance lives without one, whatever an earlier process launched. `RoomInv` keeps the bound `MaxInstances` from cutting a launch short. The lemma `FirstCount` (the n
lowest of a set of IDs are n) is proved by a least counterexample, since induction is out of reach. From it: `Launches` (`LaunchesClusterSize`)
and `CreatedKnows` (`CreatedKnowsInstances`).

**EtcdTesterProofs.** `IInv` adds to `TypeOK`, `MembersKnown` and `InstancesRecorded`: `RecordOK` of memory and of the file
(`ClusterSize` is at least the number of entries, which is why `ClusterSize--` cannot go below zero, and there are entries only
with a network, which is why a second Create finds `ClusterState` empty or fails); `FillInv`, `FileInv` and `TargetInv` (what
memory and file hold while an operation is at a given step); `MemoryInv` (an instance that exists is in memory or lost).
`MembersKnown` needs the file as well as memory, because a process that dies goes on from the file: it holds since MemberAdd
writes the record before `member add` and MemberRemove drops it only after `member remove` has succeeded. The counting rests on three lemmas
about cardinalities (`OneMore`, `OneLess`, `ReadyBound`). From it: `EtcdTypeCorrect`, `MembersStayKnown`, `InstancesStayRecorded`.
What nil means is `ReturnInv`, inductive with it: `GoneInv` (the deployer of the instances owns the network but for a VPC that no flag claims, and the bastion is in it, so that once it has finished without an error
nothing is left, although the other goroutine may still run) and `StartInv` (while Create starts etcd, either no member has started or the whole of `ClusterState`, which has the right size). From it:
`TerminateLeavesNothing`, `CreateLeavesReady`.

**KubernetesProofs.** `IInv == TypeOK /\ OpInv /\ GoInv /\ TermInv /\ RollInv /\ DoneInv /\ FilesInv`, for any masters and workers. `GoInv` counts: `got`
is the number of goroutines whose result was received, so that none is left when the main goroutine goes on.
`TermInv` follows `terminate()` to the masters, whose VPC cannot be deleted with anything in it, recorded or not. `RollInv` holds while `blame` is empty: before a first Create nothing exists
(`FreshInv`), a running one has recorded all but what its current step makes (`MadeInv`), and a failed one takes it back, the masters last (`TakenInv`). `DoneInv` holds while `err` was not
misread: a result of nil stands for nodes that were launched and, unless a deadline is to blame, are in `known`, and an error received is never forgotten; it ties `own`, `ess` and the state of each goroutine together, since the main
goroutine tests a variable that the others assign. `FilesInv` says that the files of the stages that are over are on the nodes in `known`. It is inductive because of facts about `NodeFiles` alone (`Holds`):
what a path holds does not depend on the stage that writes it, so that overwritten keys are the same keys, and every file that a flag names is sent by some stage. From it:
`TypeCorrect`, `TerminateLeavesNothing`, `RollsBack`, `CreateCompletes`, `FilesFound`.

**KubeadmProofs.** `IInv` has `ControlInv`, `RecordInv` (the masters are recorded first and never forgotten, in memory and in the file), `TerminateInv`,
`MadeInv` (what Create has made at each step, and which nodes it has recorded) and `RollbackInv` (what exists is recorded while `blame` is empty). From it: `KubeadmTypeCorrect`,
`TerminateLeavesNothing`, `CreateRollsBack`, `CreateJoins`.

**CSITesterProofs.** `CreateInv` and `SmoothInv`: as long as no call has failed, `iam` is exactly `SoFar`, a function of the stage. From it: `CSITypeCorrect`,
`LeavesNothing`.

**PartsProofs.** The properties as `MCParts` composes them. A step of the composition moves one part or none (`PartsMove`). For the
CSI tester and the kubeadm deployer the invariants of their own proof modules carry over (`CsiInv`, `KubeadmInv`). The others are proved here:

* SSH: while reconnections work, retries left and tries made add up to the budget (`SshIInv`). Theorem `SshTriesAsBudgeted`.
* kubetest: `KubetestInv` is `LostInv` (what nobody waits for any more is the one resource that was being made), `SuiteInv` (which of the three processes may run beside which;
  the Down of `after` starts off) and `KnowInv` (memory of every process, and the file whenever it is neither empty nor torn,
  tell of all that exists but for what is lost, being made, or being rolled back, unless the create process outran a Down). The last is what makes two Downs and a rollback on one file safe: the records
  differ, and each is enough. Theorems `KubetestDownLeavesNothing` (`DownMeansGone`), `KubetestFileKnows` (`FileKnows`).
* node group: `PortsInv` (which rules there can be at each point of a round) gives `GroupSecondRound`, and `WorkersInv` (what `checkASG` has left to describe is the whole group until it has,
  as long as no instance is lost) gives `GroupRecorded`.
* S3: `BucketInv` (a deployer that has come as far as the policy has a bucket of ours with what it set before, or another has deleted the bucket since) gives `BucketsReady`.
* prow: `LockInv` and `PageInv` (whoever refreshes holds the lock alone, so its counts are those of `all`) give `PageTells`.
* `PartsTypeCorrect`: the types of all of them. For the bucket it takes `TriesLeft`: a deployer that creates has a try left.

They assume of the constants that `MaxRetries`, `MaxCalls`, `Batch`, `MaxSize` and `MaxMade` are natural numbers, that no node is both a master and a worker, and `MaxTries` and `Resources` positive ones.

**Model-checked only.** Liveness (`CallsReturn`, `OperationsReturn` of `EC2Deployer` and of `Kubernetes`), which is out of the prover's reach. The findings
are counterexamples and stay with TLC as well.

## What is not modelled

* In `EKSTester`: the access-log bucket (created before the rollback is deferred; `S3Bucket` has it), uploads of logs, what kubectl applies,
  the fields of the configuration that no control depends on, partial attachment of several policies, and
  `IsUp` and `GetWorkerNodeLogs`, which make and delete nothing at AWS (they write the configuration without `md.mu`: a hazard without a property).
* In `EC2Deployer`: uploads (their bucket is in `S3Bucket`), the subnet of each instance, instances that AWS forgets an hour after
  termination, the ten attempts of `deleteVPC` (one step), and tags. A VPC made by a process that dies before its ID is in the
  file cannot be found by any later process; the model drops it then.
* In `EtcdTester`: installation scripts and flags of the service, versions, `Put`, `Cluster`, member IDs, logs; the inside of the EC2 deployer's calls, which
  `EC2Deployer` has (a crash in the middle of one, for example).
* In `Kubernetes`: flags that name no file, the cloud-controller-manager's configuration, logs and their upload; the inside of the deployers below it.
* In `Kubeadm`: the text of scripts and flags, `uploadLogs`, whose errors are dropped. In `CSITester`: the text of the IAM policies.
* In `NodeGroup`: outputs that a complete stack lacks. In `ProwStatus`: branches of duplicate entries, git rows, layout, and the handlers that only read.
* In all but `KubetestDeployer`: `Sync` writes the file in one step; `ioutil.WriteFile` does not. Errors of `Sync` are ignored, as by most callers.
* Components with status `not_modelled` in `PROJECT.json`, with the reason there.

## Plan

Done: `EKSTester`, `EC2Deployer`, `EtcdTester`, the contract and its refinement, `Kubernetes`, and the seven parts, with a theorem for every safety property of the
passing runs.

Left, in order of importance:

1. Properties of `EKSTester` that say what is left under the faults that `Quiet` excludes, one fault at a time (which resource, and that a later Down finds the rest).
2. A proof that the EC2 deployers as `EtcdTester`, `Kubernetes` and `Kubeadm` show them refine `EC2Contract`, as `EC2Deployer` does. A call is one step there,
   so that the contract has to be composed with itself first (a call and its return as one step).
3. The ALB stages apart, as `NodeGroup` has the node group's; `GetWorkerNodeLogs` and `IsUp` beside Up.
4. The files that the testers write and cannot load again (`etcd.go:949`).

------------------------------ MODULE EKSTester ------------------------------
(***************************************************************************)
(* The embedded EKS tester (internal/eks): the commands "eks create        *)
(* cluster" (Up) and "eks delete cluster" (Down), each a process that      *)
(* loads the configuration file, works on a copy of it in memory, and      *)
(* writes it back with Sync() as AWS resources come and go.                *)
(*                                                                         *)
(* Up runs one create function per stage.  Each runs in a goroutine of its *)
(* own ("worker") while the main goroutine waits in the select statement   *)
(* of catchStopc for its result, for Stop() or for a signal.  When a stage *)
(* fails, the deferred function of Up calls down(), which walks the        *)
(* resources in reverse and deletes those whose "created" flag is set.     *)
(*                                                                         *)
(* The model keeps the truth about AWS apart from what the program has     *)
(* recorded of it, in memory and in the file: the difference is what leaks.*)
(***************************************************************************)
EXTENDS Naturals, Sequences, FiniteSets

CONSTANTS
  Faults,      \* what may go wrong in this instance, a subset of FaultKind
  ALBEnabled,  \* cfg.ALBIngressController.Enable
  MaxRuns      \* bound: how many processes are started, one after another

FaultKind ==
  { "apiError",       \* a create call, or the wait for its result, fails
    "clusterFailed",  \* EKS reports the new cluster as FAILED
    "deleteError",    \* a delete call, or the wait for its result, fails
    "deleteTimeout",  \* AWS is still deleting when the polling loop gives up
    "stop",           \* Stop() closes stopc
    "signal",         \* SIGINT or SIGTERM arrives
    "crash" }         \* the process dies

ASSUME FaultsAssumption == Faults \subseteq FaultKind
ASSUME ALBEnabledAssumption == ALBEnabled \in BOOLEAN
ASSUME MaxRunsAssumption == MaxRuns \in Nat

(* The AWS resources whose creation is recorded by a Status...Created flag *)
(* of the configuration, and the two of the ALB ingress controller that    *)
(* are covered by the single flag ALBIngressController.Created ("alb").    *)
Base == {"role", "policy", "vpc", "cluster", "keypair", "node"}
ALBResource == {"sg", "lb"}
Resource == Base \cup ALBResource

(* The stages of Up in order: the last five only with the ALB controller.  *)
UpStages == <<"role", "policy", "vpc", "cluster", "cni", "keypair", "node",
              "secret", "backend", "rbac", "controller", "sg", "lb">>
LastStage == IF ALBEnabled THEN 13 ELSE 8
Stage == {"role", "policy", "vpc", "cluster", "cni", "keypair", "node",
          "secret", "backend", "rbac", "controller", "sg", "lb"}

\* variants with a bug: the VPC stack before the cluster; no key pair
DownStagesVPCFirst == <<"lb", "sgTry", "node", "sg", "keypair", "vpc",
                        "cluster", "policy", "role">>
DownStagesNoKeyPair == <<"lb", "sgTry", "node", "sg", "cluster", "vpc",
                         "policy", "role">>

(* down() deletes in this order and tries the security group twice.        *)
DownStages == <<"lb", "sgTry", "node", "sg", "keypair", "cluster", "vpc",
                "policy", "role">>

(* AWS: what must exist for a creation to succeed, and what, as long as it *)
(* exists, makes a deletion fail with a dependency violation.              *)
Needs(r) ==
  CASE r = "policy"  -> {"role"}
    [] r = "cluster" -> {"role", "vpc"}
    [] r = "node"    -> {"vpc", "keypair"}
    [] r = "sg"      -> {"vpc"}
    [] r = "lb"      -> {"sg", "cluster", "node"}
    [] OTHER         -> {}

Dependents(r) ==
  CASE r = "vpc"  -> {"cluster", "node", "sg", "lb"}
    [] r = "sg"   -> {"node", "lb"}
    [] r = "role" -> {"policy"}
    [] OTHER      -> {}

(* Deletions AWS only starts on request and completes later.               *)
Async == {"node", "cluster", "vpc"}

VARIABLES
  cloud,     \* the resources that exist at AWS
  deleting,  \* those of Async whose deletion AWS has accepted and not ended
  eks,       \* status of the cluster at AWS
  rec,       \* memory: created flags, and "sg"/"lb" when their IDs are known
  out,       \* memory: which of the role ARN and the VPC outputs are known
  status,    \* memory: cfg.ClusterState.Status
  disk,      \* the configuration file: the last Sync() of rec, out, status
  main,      \* program counter of the main goroutine
  idx,       \* its position in UpStages or DownStages
  worker,    \* the goroutine of catchStopc
  cmd,       \* which of Up and Down the main goroutine runs
  stopped,   \* stopc is closed
  outcome,   \* how Up or Down ended
  downErr,   \* down() has collected an error
  leaked,    \* history: resources that lost their record while they existed
  runs       \* how many processes were started

cloudVars == <<cloud, deleting, eks>>
cfgVars   == <<rec, out, status, disk>>
ctlVars   == <<main, idx, cmd, outcome, downErr>>
vars == <<cloudVars, cfgVars, ctlVars, worker, stopped, leaked, runs>>

EKSStatus == {"NONE", "CREATING", "ACTIVE", "FAILED", "DELETING"}
Status == EKSStatus \cup {"DELETE_COMPLETE", "ERROR"}
Flag == Resource \cup {"alb"}
Output == {"role", "vpc"}
WorkerAt == {"none", "call", "made", "wait", "done"}
Worker == [stage : Stage \cup {"none"}, at : WorkerAt, err : BOOLEAN]
NoWorker == [stage |-> "none", at |-> "none", err |-> FALSE]
File == [rec : SUBSET Flag, out : SUBSET Output, status : Status]

(* The state has the shape of the configuration and of the goroutines.     *)
TypeOK ==
  /\ cloud \subseteq Resource
  /\ deleting \subseteq Async
  /\ eks \in EKSStatus
  /\ rec \subseteq Flag
  /\ out \subseteq Output
  /\ status \in Status
  /\ disk \in File
  /\ main \in {"off", "launch", "select", "join", "down", "tear", "wait",
               "returned"}
  /\ idx \in 1..14
  /\ worker \in Worker
  /\ cmd \in {"create", "delete"}
  /\ stopped \in BOOLEAN
  /\ outcome \in {"none", "ok", "active", "refused", "torn"}
  /\ downErr \in BOOLEAN
  /\ leaked \subseteq Resource
  /\ runs \in Nat

Init ==
  /\ cloud = {} /\ deleting = {} /\ eks = "NONE"
  /\ rec = {} /\ out = {} /\ status = "NONE"
  /\ disk = [rec |-> {}, out |-> {}, status |-> "NONE"]
  /\ main = "off" /\ idx = 1 /\ cmd = "create"
  /\ outcome = "none" /\ downErr = FALSE
  /\ worker = NoWorker
  /\ stopped = FALSE
  /\ leaked = {}
  /\ runs = 0

(* cfg.Sync(): the file becomes what memory is after the step.             *)
Sync == disk' = [rec |-> rec', out |-> out', status |-> status']

-----------------------------------------------------------------------------
(* Process start: the file is loaded, then newTesterEmbedded looks up the  *)
(* role, the VPC stack and the cluster.  A lookup that fails, or a stack   *)
(* that has no outputs yet, leaves what the file says.                     *)
NewTester(c) ==
  /\ main = "off"
  /\ runs < MaxRuns
  /\ runs' = runs + 1
  /\ rec' = disk.rec
  /\ \E found \in SUBSET (cloud \cap Output) : out' = disk.out \cup found
  /\ status' \in {disk.status} \cup (IF "cluster" \in cloud THEN {eks} ELSE {})
  /\ Sync
  /\ cmd' = c
  /\ idx' = 1
  /\ downErr' = FALSE
  /\ IF c = "create"
     THEN IF status' = "ACTIVE"   \* Up refuses, before it defers down()
          THEN main' = "returned" /\ outcome' = "active"
          ELSE main' = "launch" /\ outcome' = "none"
     ELSE main' = "down" /\ outcome' = "none"
  /\ UNCHANGED <<cloudVars, worker, stopped, leaked>>

(* The process ends, by os.Exit after Up or Down has returned or by a      *)
(* crash, and its goroutines end with it.  A resource that the worker has  *)
(* created and not yet recorded is lost.                                   *)
ProcessEnds ==
  /\ main' = "off" /\ idx' = 1 /\ outcome' = "none" /\ downErr' = FALSE
  /\ cmd' = "create"
  /\ worker' = NoWorker
  /\ stopped' = FALSE
  /\ rec' = {} /\ out' = {} /\ status' = "NONE"
  /\ leaked' = IF worker.at = "made" /\ worker.stage \in cloud
               THEN leaked \cup {worker.stage} ELSE leaked
  /\ UNCHANGED <<cloudVars, disk, runs>>

Exit == main = "returned" /\ ProcessEnds

Crash == "crash" \in Faults /\ main # "off" /\ ProcessEnds

(* With --terminate-on-exit the process that has created the cluster calls *)
(* Down itself.                                                            *)
TerminateOnExit ==
  /\ main = "returned" /\ cmd = "create" /\ outcome = "ok"
  /\ main' = "down" /\ cmd' = "delete" /\ outcome' = "none" /\ idx' = 1
  /\ UNCHANGED <<cloudVars, cfgVars, downErr, worker, stopped, leaked, runs>>

-----------------------------------------------------------------------------
(* Up, main goroutine.                                                     *)

(* Start the next stage in a goroutine and wait in catchStopc.             *)
Launch ==
  /\ main = "launch"
  /\ main' = "select"
  /\ worker' = [stage |-> UpStages[idx], at |-> "call", err |-> FALSE]
  /\ UNCHANGED <<cloudVars, cfgVars, idx, cmd, outcome, downErr, stopped,
                 leaked, runs>>

(* Up has an error: its deferred functions call Sync(), then down().       *)
RollBack ==
  /\ main' = "down" /\ idx' = 1
  /\ UNCHANGED <<rec, out, status>>
  /\ Sync
  /\ UNCHANGED <<cmd, outcome, downErr>>

(* case err = <-errc                                                       *)
SelectDone ==
  /\ main = "select"
  /\ worker.at = "done"
  /\ worker' = NoWorker
  /\ \/ /\ worker.err
        /\ RollBack
     \/ /\ ~worker.err
        /\ idx < LastStage
        /\ main' = "launch" /\ idx' = idx + 1
        /\ UNCHANGED <<cfgVars, cmd, outcome, downErr>>
     \/ /\ ~worker.err
        /\ idx = LastStage
        /\ rec' = IF ALBEnabled THEN rec \cup {"alb"} ELSE rec
        /\ UNCHANGED <<out, status>>
        /\ Sync
        /\ main' = "returned" /\ outcome' = "ok"
        /\ UNCHANGED <<idx, cmd, downErr>>
  /\ UNCHANGED <<cloudVars, stopped, leaked, runs>>

(* createAWSCredentialSecret is called without catchStopc.                 *)
Interruptible == main = "select" /\ UpStages[idx] # "secret"

\* variant with a bug: the goroutine is not waited for
SelectStopNoJoin ==
  /\ Interruptible /\ stopped
  /\ RollBack
  /\ UNCHANGED <<cloudVars, worker, stopped, leaked, runs>>

(* case <-stopc: wait for the goroutine, whatever it returns is an error.  *)
SelectStop ==
  /\ Interruptible /\ stopped
  /\ main' = "join"
  /\ UNCHANGED <<cloudVars, cfgVars, idx, cmd, outcome, downErr, worker,
                 stopped, leaked, runs>>

Join ==
  /\ main = "join" /\ worker.at = "done"
  /\ worker' = NoWorker
  /\ RollBack
  /\ UNCHANGED <<cloudVars, stopped, leaked, runs>>

(* case sig := <-termc: return at once; the goroutine is left running.     *)
(* termChan has no buffer: a signal that finds main elsewhere is dropped.  *)
SelectSignal ==
  /\ "signal" \in Faults /\ Interruptible
  /\ RollBack
  /\ UNCHANGED <<cloudVars, worker, stopped, leaked, runs>>

Stop ==
  /\ "stop" \in Faults /\ main # "off" /\ ~stopped
  /\ stopped' = TRUE
  /\ UNCHANGED <<cloudVars, cfgVars, ctlVars, worker, leaked, runs>>

-----------------------------------------------------------------------------
(* Up, the goroutine that runs one create function.                        *)

Finish(e) == worker' = [worker EXCEPT !.at = "done", !.err = e]

(* The checks of the configuration that precede the create call.           *)
CallAllowed ==
  CASE worker.stage = "cluster" -> out = Output
    [] worker.stage = "sg"      -> "vpc" \in out
    [] worker.stage = "lb"      -> "vpc" \in out /\ "sg" \in rec
    [] OTHER                    -> TRUE

(* AWS accepts the call: only attaching a policy may be repeated.          *)
CallPossible ==
  /\ Needs(worker.stage) \subseteq cloud
  /\ worker.stage \in cloud => worker.stage = "policy"

WorkerCallFails ==
  /\ worker.at = "call"
  /\ \/ ~CallAllowed
     \/ worker.stage \in Resource /\ ~CallPossible
     \/ "apiError" \in Faults
  /\ Finish(TRUE)
  /\ UNCHANGED <<rec, out, status>>
  /\ IF worker.stage \in ALBResource /\ CallAllowed THEN Sync ELSE UNCHANGED disk
  /\ UNCHANGED <<cloudVars, ctlVars, stopped, leaked, runs>>

WorkerCall ==
  /\ worker.at = "call"
  /\ CallAllowed
  /\ UNCHANGED <<rec, out, status>>
  /\ IF worker.stage = "lb" THEN Sync ELSE UNCHANGED disk
  /\ \/ /\ worker.stage \in Resource
        /\ CallPossible
        /\ cloud' = cloud \cup {worker.stage}
        /\ eks' = IF worker.stage = "cluster" THEN "CREATING" ELSE eks
        /\ worker' = [worker EXCEPT !.at = "made"]
        /\ leaked' = leaked \ {worker.stage}
     \/ /\ worker.stage \notin Resource  \* kubectl only, no AWS resource
        /\ Finish(FALSE)
        /\ UNCHANGED <<cloud, eks, leaked>>
  /\ UNCHANGED <<deleting, ctlVars, stopped, runs>>

\* variant with a bug: the flag is only set in memory
WorkerRecordNoSync ==
  /\ worker.at = "made"
  /\ rec' = rec \cup {worker.stage}
  /\ status' = IF worker.stage = "cluster" THEN "CREATING" ELSE status
  /\ worker' = [worker EXCEPT !.at = "wait"]
  /\ UNCHANGED <<out, disk, cloudVars, ctlVars, stopped, leaked, runs>>

(* The flag is set, and for the base resources written to the file.        *)
WorkerRecord ==
  /\ worker.at = "made"
  /\ rec' = rec \cup {worker.stage}
  /\ status' = IF worker.stage = "cluster" THEN "CREATING" ELSE status
  /\ UNCHANGED out
  /\ IF worker.stage \in Base THEN Sync ELSE UNCHANGED disk
  /\ worker' = [worker EXCEPT !.at = "wait"]
  /\ UNCHANGED <<cloudVars, ctlVars, stopped, leaked, runs>>

(* CreateIngressObjects may fail after kubectl apply and before it has     *)
(* found the ARNs of the load balancers.                                   *)
WorkerIngressFails ==
  /\ worker.at = "made" /\ worker.stage = "lb" /\ "apiError" \in Faults
  /\ UNCHANGED <<rec, out, status>>
  /\ Sync
  /\ Finish(TRUE)
  /\ UNCHANGED <<cloudVars, ctlVars, stopped, leaked, runs>>

(* The polling loops of createVPC, createCluster and createWorkerNode read *)
(* stopc; a stop makes them return nil with nothing learned.  To the check *)
(* that ends CreateIngressObjects it is a failure.                         *)
WorkerStopped ==
  /\ worker.at = "wait" /\ stopped
  /\ \/ worker.stage \in Async /\ Finish(FALSE)
     \/ worker.stage = "lb" /\ Finish(TRUE)
  /\ worker.stage = "cluster" => status # "ACTIVE"
  /\ UNCHANGED <<cloudVars, cfgVars, ctlVars, stopped, leaked, runs>>

(* createCluster copies the status it polls and returns on FAILED.         *)
WorkerPoll ==
  /\ worker.at = "wait" /\ worker.stage = "cluster"
  /\ "cluster" \in cloud
  /\ status' = eks
  /\ UNCHANGED <<rec, out>>
  /\ Sync
  /\ IF eks = "FAILED" THEN Finish(TRUE) ELSE UNCHANGED worker
  /\ UNCHANGED <<cloudVars, ctlVars, stopped, leaked, runs>>

(* All but a policy and a key pair are looked up again before the return.  *)
WorkerSucceeds ==
  /\ worker.at = "wait"
  /\ worker.stage \in cloud \cup {"policy", "keypair"}
  /\ worker.stage = "cluster" => status = "ACTIVE"
  /\ out' = out \cup ({worker.stage} \cap Output)
  /\ UNCHANGED <<rec, status>>
  /\ Sync
  /\ Finish(FALSE)
  /\ UNCHANGED <<cloudVars, ctlVars, stopped, leaked, runs>>

(* The wait ends in an error: a check fails or the loop runs out of time.  *)
(* createVPC may also run out of time and return nil without the outputs.  *)
WorkerWaitFails ==
  /\ worker.at = "wait"
  /\ "apiError" \in Faults \/ worker.stage \notin cloud
  /\ UNCHANGED <<rec, out, status>>
  /\ \/ /\ Finish(TRUE)
        /\ IF worker.stage = "sg" THEN Sync ELSE UNCHANGED disk
     \/ worker.stage = "vpc" /\ Finish(FALSE) /\ Sync
  /\ UNCHANGED <<cloudVars, ctlVars, stopped, leaked, runs>>

-----------------------------------------------------------------------------
(* down(), called by Down and by the deferred function of Up.              *)

DownRefused ==
  /\ main = "down"
  /\ status \in {"DELETING", "FAILED"}
  /\ main' = "returned" /\ outcome' = "refused"
  /\ UNCHANGED <<cloudVars, cfgVars, idx, cmd, downErr, worker, stopped,
                 leaked, runs>>

DownStarts ==
  /\ main = "down"
  /\ status \notin {"DELETING", "FAILED"}
  /\ main' = "tear" /\ idx' = 1
  /\ UNCHANGED <<cloudVars, cfgVars, cmd, outcome, downErr, worker, stopped,
                 leaked, runs>>

(* The flag that decides whether down() touches the resource.              *)
Created(r) == IF r \in Base THEN r \in rec ELSE "alb" \in rec

TearSkip ==
  /\ main = "tear" /\ idx <= Len(DownStages)
  /\ ~Created(DownStages[idx])
  /\ idx' = idx + 1
  /\ UNCHANGED <<cloudVars, cfgVars, main, cmd, outcome, downErr, worker,
                 stopped, leaked, runs>>

\* variant with a bug: the file is not written
ClearFlagNoSync(r, e) ==
  /\ rec' = rec \ {r}
  /\ leaked' = leaked \cup ({r} \cap cloud')
  /\ downErr' = (downErr \/ e)
  /\ main' = "tear" /\ idx' = idx + 1
  /\ UNCHANGED <<disk, cmd, outcome>>

(* The deferred function of every deleteX: the flag is cleared and the     *)
(* file written, whether or not the resource is gone.                      *)
ClearFlag(r, e) ==
  /\ rec' = rec \ {r}
  /\ leaked' = leaked \cup ({r} \cap cloud')
  /\ downErr' = (downErr \/ e)
  /\ main' = "tear" /\ idx' = idx + 1
  /\ Sync
  /\ UNCHANGED <<cmd, outcome>>

TearRejected(r) ==
  /\ main = "tear" /\ idx <= Len(DownStages) /\ r = DownStages[idx]
  /\ r \in Base /\ Created(r)
  /\ \/ "deleteError" \in Faults
     \/ r \notin Async /\ Dependents(r) \cap cloud # {}
  /\ status' = IF r = "cluster" THEN "ERROR" ELSE status
  /\ UNCHANGED <<out, cloudVars>>
  /\ ClearFlag(r, TRUE)
  /\ UNCHANGED <<worker, stopped, runs>>

\* variant with a bug: every deletion is taken for one that ends later
TearAcceptedAllAsync(r) ==
  /\ main = "tear" /\ idx <= Len(DownStages) /\ r = DownStages[idx]
  /\ r \in Base /\ Created(r)
  /\ deleting' = deleting \cup ({r} \cap cloud)
  /\ main' = "wait"
  /\ UNCHANGED <<cloud, eks, cfgVars, idx, cmd, outcome, downErr, worker,
                 stopped, leaked, runs>>

TearAccepted(r) ==
  /\ main = "tear" /\ idx <= Len(DownStages) /\ r = DownStages[idx]
  /\ r \in Base /\ Created(r)
  /\ IF r \in Async
     THEN /\ deleting' = deleting \cup ({r} \cap cloud)
          /\ eks' = IF r = "cluster" /\ r \in cloud THEN "DELETING" ELSE eks
          /\ UNCHANGED cloud
     ELSE /\ Dependents(r) \cap cloud = {}
          /\ cloud' = cloud \ {r}
          /\ UNCHANGED <<deleting, eks>>
  /\ main' = "wait"
  /\ UNCHANGED <<cfgVars, idx, cmd, outcome, downErr, worker, stopped, leaked,
                 runs>>

(* deleteCluster copies the status it polls into the configuration, or the *)
(* error of the poll.                                                      *)
TearPoll ==
  /\ main = "wait" /\ DownStages[idx] = "cluster"
  /\ \/ "cluster" \in cloud /\ status' = eks
     \/ "deleteError" \in Faults /\ status' = "ERROR"
  /\ UNCHANGED <<rec, out>>
  /\ Sync
  /\ UNCHANGED <<cloudVars, ctlVars, worker, stopped, leaked, runs>>

(* The resource is gone, as the next call to AWS tells.                    *)
TearDone(r) ==
  /\ main = "wait" /\ r = DownStages[idx] /\ r \notin cloud
  /\ status' = IF r = "cluster" THEN "DELETE_COMPLETE" ELSE status
  /\ out' = IF r = "role" THEN out \ {"role"} ELSE out
  /\ UNCHANGED cloudVars
  /\ ClearFlag(r, FALSE)
  /\ UNCHANGED <<worker, stopped, runs>>

\* variant with a bug: the loop has no deadline
TearGivesUpNoDeadline(r) ==
  /\ main = "wait" /\ r = DownStages[idx] /\ r \notin cloud
  /\ UNCHANGED <<out, status, cloudVars>>
  /\ ClearFlag(r, TRUE)
  /\ UNCHANGED <<worker, stopped, runs>>

(* The loop gives up: without an error on a resource that its last call    *)
(* could still describe, with one when that call failed.                   *)
TearGivesUp(r) ==
  /\ main = "wait" /\ r = DownStages[idx]
  /\ UNCHANGED <<out, status, cloudVars>>
  /\ \/ /\ r \in cloud
        /\ r \in deleting => "deleteTimeout" \in Faults
        /\ ClearFlag(r, FALSE)
     \/ /\ "deleteError" \in Faults
        /\ ClearFlag(r, TRUE)
  /\ UNCHANGED <<worker, stopped, runs>>

(* DeleteIngressObjects: fails early without the ARNs or when kubectl      *)
(* fails; errors of DeleteLoadBalancer are only logged.                    *)
TearIngress ==
  /\ main = "tear" /\ idx <= Len(DownStages)
  /\ DownStages[idx] = "lb" /\ Created("lb")
  /\ UNCHANGED <<rec, out, status>>
  /\ \/ /\ "lb" \in rec
        /\ \/ cloud' = cloud \ {"lb"}
           \/ "deleteError" \in Faults /\ UNCHANGED cloud
        /\ UNCHANGED downErr
        /\ Sync
     \/ /\ "deleteError" \in Faults \/ "lb" \notin rec
        /\ UNCHANGED <<cloud, disk>>
        /\ downErr' = TRUE
     \/ /\ "deleteError" \in Faults /\ "lb" \in rec
        /\ cloud' = cloud \ {"lb"}
        /\ downErr' = TRUE
        /\ Sync
  /\ idx' = idx + 1
  /\ UNCHANGED <<deleting, eks, main, cmd, outcome, worker, stopped, leaked,
                 runs>>

(* DeleteSecurityGroup, called before and after the node group is deleted: *)
(* a dependency violation counts as success, other errors of the first     *)
(* call are only logged.  After the second call Created is reset.          *)
TearSecurityGroup ==
  /\ main = "tear" /\ idx <= Len(DownStages)
  /\ DownStages[idx] \in {"sgTry", "sg"} /\ Created("sg")
  /\ disk' = IF "sg" \in rec
             THEN [rec |-> rec, out |-> out, status |-> status] ELSE disk
  /\ \/ /\ "sg" \in rec
        /\ cloud' = IF Dependents("sg") \cap cloud = {}
                    THEN cloud \ {"sg"} ELSE cloud
        /\ UNCHANGED downErr
     \/ /\ "deleteError" \in Faults \/ "sg" \notin rec
        /\ UNCHANGED cloud
        /\ downErr' = (downErr \/ DownStages[idx] = "sg")
  /\ IF DownStages[idx] = "sg"
     THEN /\ rec' = rec \ {"alb"}
          /\ leaked' = leaked \cup (cloud' \cap ALBResource)
     ELSE UNCHANGED <<rec, leaked>>
  /\ idx' = idx + 1
  /\ UNCHANGED <<deleting, eks, out, status, main, cmd, outcome, worker,
                 stopped, runs>>

DownReturns ==
  /\ main = "tear" /\ idx > Len(DownStages)
  /\ UNCHANGED <<rec, out, status>>
  /\ Sync
  /\ main' = "returned" /\ outcome' = "torn"
  /\ UNCHANGED <<cloudVars, idx, cmd, downErr, worker, stopped, leaked, runs>>

-----------------------------------------------------------------------------
(* AWS: the cluster becomes ACTIVE or FAILED; an accepted deletion ends,   *)
(* or a stack goes to DELETE_FAILED because of a dependency.               *)

EKSCreated ==
  /\ eks = "CREATING"
  /\ eks' \in {"ACTIVE"} \cup {s \in {"FAILED"} : "clusterFailed" \in Faults}
  /\ UNCHANGED <<cloud, deleting, cfgVars, ctlVars, worker, stopped, leaked,
                 runs>>

AWSDeleted(r) ==
  /\ r \in deleting
  /\ Dependents(r) \cap cloud = {}
  /\ cloud' = cloud \ {r}
  /\ deleting' = deleting \ {r}
  /\ eks' = IF r = "cluster" THEN "NONE" ELSE eks
  /\ UNCHANGED <<cfgVars, ctlVars, worker, stopped, leaked, runs>>

AWSDeleteFailed(r) ==
  /\ r \in deleting
  /\ Dependents(r) \cap cloud # {}
  /\ deleting' = deleting \ {r}
  /\ UNCHANGED <<cloud, eks, cfgVars, ctlVars, worker, stopped, leaked, runs>>

-----------------------------------------------------------------------------
WorkerStep ==
  \/ WorkerCallFails \/ WorkerCall \/ WorkerRecord \/ WorkerIngressFails
  \/ WorkerStopped \/ WorkerPoll \/ WorkerSucceeds \/ WorkerWaitFails

UpStep == Launch \/ SelectDone \/ SelectStop \/ Join

DownStep ==
  \/ DownRefused \/ DownStarts \/ TearSkip \/ TearPoll
  \/ TearIngress \/ TearSecurityGroup \/ DownReturns
  \/ \E r \in Base : \/ TearRejected(r) \/ TearAccepted(r)
                     \/ TearDone(r) \/ TearGivesUp(r)

AWSStep ==
  EKSCreated \/ \E r \in Async : AWSDeleted(r) \/ AWSDeleteFailed(r)

Environment ==
  \/ \E c \in {"create", "delete"} : NewTester(c)
  \/ TerminateOnExit \/ Exit \/ Crash \/ Stop \/ SelectSignal

(* All the processes of this instance have ended.                          *)
Terminated == main = "off" /\ runs = MaxRuns /\ UNCHANGED vars

Next == WorkerStep \/ UpStep \/ DownStep \/ AWSStep \/ Environment \/ Terminated

Spec == Init /\ [][Next]_vars

(* The goroutines are scheduled and their polling loops end; AWS completes *)
(* what it has accepted.  Nothing is assumed of operators and of faults.   *)
FairSpec ==
  /\ Spec
  /\ WF_vars(UpStep) /\ WF_vars(DownStep) /\ WF_vars(AWSStep)
  /\ WF_vars(WorkerStep)

-----------------------------------------------------------------------------
(* Properties.                                                             *)

(* Whatever fails, at every moment a base resource that exists at AWS is   *)
(* recorded in the configuration file, or is in the window between the     *)
(* create call and Sync(), or is one of those that a failed deletion or a  *)
(* crash in that window has made the program forget: nothing else leaks.   *)
NothingUntracked ==
  \A r \in Base \cap cloud :
    \/ r \in disk.rec
    \/ r \in leaked
    \/ worker.at = "made" /\ worker.stage = r

(* The flags of the running process and of the file agree, so that a crash *)
(* at any moment loses none of them.                                       *)
FlagsOnDisk == main # "off" => rec \cap Base = disk.rec \cap Base

(* When down() has run to its end and no goroutine was left behind, every  *)
(* base resource still there was forgotten by a failed deletion or crash.  *)
TeardownComplete ==
  main = "returned" /\ outcome = "torn" /\ worker.at = "none"
    => Base \cap cloud \subseteq leaked

UpFailed == main = "returned" /\ cmd = "create"
            /\ outcome \in {"refused", "torn"}

(* "If it fails at any point of operation, it rolls back everything": when *)
(* Up has returned the error of a stage nothing is left at AWS.            *)
RollsBackEverything == UpFailed => cloud = {}

(* When Down returns nil nothing is left at AWS.                           *)
DownSuccessMeansGone ==
  main = "returned" /\ cmd = "delete" /\ outcome = "torn" /\ ~downErr
    => cloud = {}

(* The order of down(): what is being deleted has no dependents left, so   *)
(* that AWS never answers with a dependency violation.                     *)
NoDependencyViolation ==
  main = "wait" => Dependents(DownStages[idx]) \cap cloud = {}

(* Every call of Up and Down returns, whatever AWS answers.                *)
CallsReturn == main \notin {"off", "returned"} ~> main \in {"off", "returned"}
=============================================================================

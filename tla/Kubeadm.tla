------------------------------ MODULE Kubeadm ------------------------------
(***************************************************************************)
(* The kubeadm deployer (internal/kubeadm): masters and workers from two   *)
(* EC2 deployers in one VPC, a load balancer before them, kubelet on every *)
(* node, "kubeadm init" on one master and "kubeadm join" on every worker.  *)
(* A failure terminates everything.  The processes "create cluster" and    *)
(* "delete cluster" share the configuration file.  An EC2 deployer appears *)
(* by what its Create and Terminate may return and leave: nil may leave    *)
(* nodes that it has not recorded, an error what it never tries to delete. *)
(* It may also wait for ever, which no property here is about.             *)
(* The init script does not copy the administrator's kubeconfig to where   *)
(* kubectl looks for it: Create gets past kubectl only if something else   *)
(* (a custom script of the EC2 configuration) does, which is the           *)
(* fault-free case here.                                                   *)
(***************************************************************************)
EXTENDS Naturals

CONSTANTS
  Masters, Workers,  \* the nodes
  Faults,            \* a subset of {"createError", "deleteError", "timeout",
                     \* "crash"}; timeout: polling stops before all nodes run
  MaxOps             \* bound: how many operations are started

Sub == {"masters", "workers"}
NodesOf(g) == IF g = "masters" THEN Masters ELSE Workers

VARIABLES
  nodes,     \* the instances of both deployers: none, some or up
  recorded,  \* the nodes that the deployers have recorded
  vpc, lb,   \* the VPC that the masters' deployer claims; the load balancer:
             \* none, made or registered
  conf,      \* what the configuration in memory names or flags
  file,      \* the same in the file
  kubelet,   \* the nodes whose kubelet was started
  inited,    \* the masters where kubeadm init ran, which is one
  joined,    \* the workers that have joined
  admin,     \* the master from which KUBECONFIG was fetched, as a set
  step,      \* the next step of the operation
  op, errs,  \* the operation and whether it returned an error
  fails,     \* the workers' Terminate has failed
  blame,     \* why a rollback may leave something
  had,       \* the masters were recorded as Terminate was called
  ops

aws == <<nodes, recorded, vpc, lb>>
cluster == <<kubelet, inited, joined, admin>>
call == <<op, had, ops>>
vars == <<nodes, recorded, vpc, lb, conf, file, kubelet, inited, joined, admin,
          step, op, errs, fails, blame, had, ops>>

(* Why a rollback may leave something: a Create that failed left what      *)
(* nobody tries to delete (nodes of the RunInstances calls before the one  *)
(* that failed, a VPC whose createVPC failed), polling stopped early, a    *)
(* deletion failed, something was there before, or a process died.         *)
Cause == {"left", "slow", "delete", "again", "crash"}

Named == Sub \cup {"lb", "registered"}
CreateSteps == {"masters", "flagMasters", "workers", "flagWorkers", "validate",
                "lb", "flagLB", "register", "kubeletMasters", "init",
                "kubeletWorkers", "join", "fetch"}
TerminateSteps == {"deregister", "deleteLB", "workersDown", "mastersDown"}

TypeOK ==
  /\ nodes \in [Sub -> {"none", "some", "up"}]
  /\ recorded \subseteq Masters \cup Workers
  /\ vpc \in BOOLEAN /\ lb \in {"none", "made", "registered"}
  /\ conf \subseteq Named /\ file \subseteq Named
  /\ kubelet \subseteq Masters \cup Workers
  /\ inited \in {{}} \cup {{m} : m \in Masters}
  /\ joined \subseteq Workers /\ admin \subseteq Masters
  /\ step \in {"off", "idle"} \cup CreateSteps \cup TerminateSteps
  /\ op \in {"none", "Create", "Terminate"}
  /\ errs \in BOOLEAN /\ fails \in BOOLEAN /\ had \in BOOLEAN
  /\ blame \subseteq Cause /\ ops \in Nat

Nothing == nodes = [g \in Sub |-> "none"] /\ ~vpc /\ lb = "none"

Init ==
  /\ nodes = [g \in Sub |-> "none"] /\ recorded = {} /\ vpc = FALSE /\ lb = "none"
  /\ conf = {} /\ file = {}
  /\ kubelet = {} /\ inited = {} /\ joined = {} /\ admin = {}
  /\ step = "off" /\ op = "none" /\ errs = FALSE /\ fails = FALSE
  /\ blame = {} /\ had = FALSE /\ ops = 0

CreateFails == "createError" \in Faults
DeleteFails == "deleteError" \in Faults
Sync == file' = conf'
Goto(next) == step' = next /\ UNCHANGED <<call, errs, fails>>

-----------------------------------------------------------------------------
(* The processes.                                                          *)

(* Load and NewDeployer, which ends with Sync().                           *)
NewDeployer ==
  /\ step = "off" /\ ops < MaxOps
  /\ conf' = file /\ Sync
  /\ step' = "idle" /\ op' = "none" /\ errs' = FALSE
  /\ UNCHANGED <<aws, cluster, fails, blame, had, ops>>

(* The command has returned; create with --terminate-on-exit and without   *)
(* an error may call Terminate before.                                     *)
Exit ==
  /\ step = "idle" /\ op # "none"
  /\ step' = "off"
  /\ UNCHANGED <<aws, conf, file, cluster, call, errs, fails, blame>>

Crash ==
  /\ "crash" \in Faults /\ step \notin {"off", "idle"}
  /\ step' = "off" /\ fails' = FALSE /\ op' = "none"
  /\ blame' = blame \cup {"crash"}
  /\ UNCHANGED <<aws, conf, file, cluster, errs, had, ops>>

Begin(o, first) ==
  /\ step = "idle" /\ ops < MaxOps
  /\ ops' = ops + 1 /\ op' = o /\ step' = first
  /\ had' = ("masters" \in conf) /\ errs' = FALSE
  /\ UNCHANGED <<aws, conf, file, cluster, fails, blame>>

Create == op = "none" /\ Begin("Create", "masters")
Terminate ==
  /\ op = "none" \/ (op = "Create" /\ ~errs)
  /\ Begin("Terminate", "deregister")

-----------------------------------------------------------------------------
(* Create.                                                                 *)

(* The deferred function: terminate().                                     *)
Fail == Goto("deregister") /\ UNCHANGED <<conf, file, cluster>>
StepFails == CreateFails /\ Fail /\ UNCHANGED <<aws, blame>>

InVPC == lb # "none" \/ nodes["workers"] # "none"

(* Nodes exist that their deployer has not recorded: it does not terminate *)
(* them, and cannot delete the security group that they use.               *)
Stray(g) == nodes[g] # "none" /\ ~(NodesOf(g) \subseteq recorded)

(* Nil, at once when all nodes run or at the deadline with those that do.  *)
EC2Creates(g, next) ==
  /\ nodes' = [nodes EXCEPT ![g] = "up"] /\ vpc' = TRUE
  /\ conf' = conf \cup {g}
  /\ \E ready \in SUBSET NodesOf(g) :
       /\ "timeout" \in Faults \/ ready = NodesOf(g)
       /\ recorded' = (recorded \ NodesOf(g)) \cup ready
       /\ blame' = IF ready = NodesOf(g) THEN blame ELSE blame \cup {"slow"}
  /\ Goto(next) /\ UNCHANGED <<lb, file, cluster>>

(* An error: with nothing left, or with a VPC that no flag claims and      *)
(* nobody deletes (createVPC failed); after RunInstances calls, whose      *)
(* nodes are never recorded; or after a failed deletion.                   *)
EC2Fails(g) ==
  /\ CreateFails
  /\ \/ /\ \/ UNCHANGED blame
           \/ g = "masters" /\ blame' = blame \cup {"left"}
        /\ UNCHANGED <<nodes, recorded, vpc, conf>>
     \/ /\ nodes' = [nodes EXCEPT ![g] = "some"] /\ vpc' = TRUE
        /\ recorded' = recorded \ NodesOf(g)
        /\ conf' = conf \cup {g} /\ blame' = blame \cup {"left"}
     \/ /\ DeleteFails
        /\ nodes' \in {nodes, [nodes EXCEPT ![g] = "some"]} /\ vpc' = TRUE
        /\ conf' = conf \cup {g} /\ blame' = blame \cup {"delete"}
        /\ UNCHANGED recorded
  /\ Goto("deregister") /\ UNCHANGED <<lb, file, cluster>>

(* Create of a group's EC2 deployer, whose configuration is part of this   *)
(* one.                                                                    *)
EC2Create(g, next) == EC2Creates(g, next) \/ EC2Fails(g)

CreateMasters ==
  /\ step = "masters" /\ Nothing /\ "masters" \notin conf
  /\ EC2Create("masters", "flagMasters")

(* The key pair, or the VPC that the file names, is there: Create fails.   *)
CreateMastersAgain ==
  /\ step = "masters" /\ (~Nothing \/ "masters" \in conf)
  /\ Fail /\ blame' = blame \cup {"again"} /\ UNCHANGED aws

Flag(at, next) ==
  /\ step = at
  /\ UNCHANGED conf /\ Sync
  /\ Goto(next) /\ UNCHANGED <<aws, cluster, blame>>

(* The flag is set and the VPC's ID copied to the workers' configuration.  *)
FlagMasters == Flag("flagMasters", "workers")

CreateWorkers == step = "workers" /\ EC2Create("workers", "flagWorkers")

FlagWorkers == Flag("flagWorkers", "validate")

Validate == Flag("validate", "lb") \/ (step = "validate" /\ StepFails)

CreateLoadBalancer ==
  /\ step = "lb"
  /\ \/ /\ lb' = "made" /\ Goto("flagLB")
        /\ UNCHANGED <<nodes, recorded, vpc, conf, file, cluster, blame>>
     \/ StepFails

FlagLoadBalancer ==
  /\ step = "flagLB"
  /\ conf' = conf \cup {"lb"} /\ Sync
  /\ Goto("register") /\ UNCHANGED <<aws, cluster, blame>>

RegisterInstances ==
  /\ step = "register"
  /\ \/ /\ lb' = "registered"
        /\ conf' = conf \cup {"registered"} /\ Sync
        /\ Goto("kubeletMasters")
        /\ UNCHANGED <<nodes, recorded, vpc, cluster, blame>>
     \/ StepFails

(* One recorded node after the other: sendKubeletEnvFile for all, then     *)
(* startKubeletService, in the order of a map.                             *)
Kubelet(at, group, next) ==
  /\ step = at
  /\ \/ \E n \in group \ kubelet :
          /\ kubelet' = kubelet \cup {n}
          /\ UNCHANGED <<aws, conf, file, inited, joined, admin, step, call,
                         errs, fails, blame>>
     \/ /\ group \subseteq kubelet
        /\ Goto(next) /\ UNCHANGED <<aws, conf, file, cluster, blame>>
     \/ ~(group \subseteq kubelet) /\ StepFails

KubeletMasters == Kubelet("kubeletMasters", Masters \cap recorded, "init")

\* variant with a bug: a failed script does not undo what there is
KubeadmInitReturns ==
  /\ step = "init"
  /\ \/ \E m \in Masters \cap recorded :
          /\ inited' = {m}
          /\ Goto("kubeletWorkers")
          /\ UNCHANGED <<aws, conf, file, kubelet, joined, admin, blame>>
     \/ /\ CreateFails /\ step' = "idle" /\ errs' = TRUE
        /\ UNCHANGED <<aws, conf, file, cluster, call, fails, blame>>

(* runKubeadmInit on the first master of a map, if there is one: the       *)
(* script, the join command from its log, the controller manager, flannel. *)
KubeadmInit ==
  /\ step = "init"
  /\ \/ \E m \in Masters \cap recorded :
          /\ inited' = {m}
          /\ Goto("kubeletWorkers")
          /\ UNCHANGED <<aws, conf, file, kubelet, joined, admin, blame>>
     \/ /\ Masters \cap recorded = {}
        /\ Goto("kubeletWorkers") /\ UNCHANGED <<aws, conf, file, cluster, blame>>
     \/ StepFails

KubeletWorkers == Kubelet("kubeletWorkers", Workers \cap recorded, "join")

\* variant with a bug: the first worker is taken for all
KubeadmJoinFirst ==
  /\ step = "join"
  /\ \/ \E w \in Workers \cap recorded :
          /\ joined' = joined \cup {w}
          /\ Goto("fetch")
          /\ UNCHANGED <<aws, conf, file, kubelet, inited, admin, blame>>
     \/ StepFails

(* Without a master that is initialised the command fails.                 *)
KubeadmJoin ==
  /\ step = "join"
  /\ \/ \E w \in (Workers \cap recorded) \ joined :
          /\ inited # {}
          /\ joined' = joined \cup {w}
          /\ UNCHANGED <<aws, conf, file, kubelet, inited, admin, step, call,
                         errs, fails, blame>>
     \/ /\ Workers \cap recorded \subseteq joined
        /\ Goto("fetch") /\ UNCHANGED <<aws, conf, file, cluster, blame>>
     \/ /\ ~(Workers \cap recorded \subseteq joined)
        /\ CreateFails \/ inited = {}
        /\ Fail /\ UNCHANGED <<aws, blame>>

(* fetchKubeconfig from the first master of the map, which may be another  *)
(* than before: there kubectl finds no cluster.  With no master the file   *)
(* it writes is empty.  The error of uploadLogs is dropped.                *)
FetchKubeconfig ==
  /\ step = "fetch"
  /\ UNCHANGED <<aws, blame>>
  /\ \/ /\ inited # {} \/ Masters \cap recorded = {}
        /\ admin' = inited
        /\ UNCHANGED conf /\ Sync
        /\ Goto("idle") /\ UNCHANGED <<kubelet, inited, joined>>
     \/ (CreateFails \/ Masters \cap recorded # inited) /\ Fail

-----------------------------------------------------------------------------
(* terminate().  It does not write the file.                               *)

(* Errors of the load balancer are noted in a list that nothing reads.     *)
Deregister ==
  /\ step = "deregister"
  /\ lb' \in IF "registered" \notin conf THEN {lb}
             ELSE {IF lb = "none" THEN lb ELSE "made"}
                    \cup (IF DeleteFails THEN {lb} ELSE {})
  /\ conf' = conf \ {"registered"}
  /\ Goto("deleteLB")
  /\ UNCHANGED <<nodes, recorded, vpc, file, cluster, blame>>

DeleteLoadBalancer ==
  /\ step = "deleteLB"
  /\ IF "lb" \in conf
     THEN \/ lb' = "none" /\ UNCHANGED blame
          \/ DeleteFails /\ UNCHANGED lb /\ blame' = blame \cup {"delete"}
     ELSE UNCHANGED <<lb, blame>>
  /\ conf' = conf \ {"lb"}
  /\ Goto("workersDown")
  /\ UNCHANGED <<nodes, recorded, vpc, file, cluster>>

Lost(e) == blame' = IF e /\ DeleteFails THEN blame \cup {"delete"} ELSE blame

(* Terminate of the EC2 deployers, also of one that has created nothing.   *)
TerminateWorkers ==
  /\ step = "workersDown"
  /\ \E e \in BOOLEAN :
       /\ IF "workers" \in conf
          THEN \/ /\ ~Stray("workers")
                  /\ ~e /\ nodes' = [nodes EXCEPT !["workers"] = "none"]
               \/ /\ Stray("workers")
                  /\ e /\ nodes' = [nodes EXCEPT !["workers"] = "some"]
               \/ /\ DeleteFails \/ nodes["workers"] = "none"
                  /\ e /\ UNCHANGED nodes
          ELSE UNCHANGED nodes
       /\ fails' = e /\ Lost(e)
  /\ step' = "mastersDown"
  /\ UNCHANGED <<recorded, vpc, lb, conf, file, cluster, call, errs>>

\* variant with a bug: the workers' error is overwritten
TerminateMastersOverwrites ==
  /\ step = "mastersDown"
  /\ \E e \in BOOLEAN :
       /\ nodes' = [nodes EXCEPT !["masters"] = "none"]
       /\ vpc' = InVPC
       /\ Lost(e) /\ errs' = (op = "Create" \/ e)
  /\ step' = "idle" /\ fails' = FALSE
  /\ UNCHANGED <<recorded, lb, conf, file, cluster, call>>

(* Nil means that the VPC is gone too, which takes that nothing is in it.  *)
TerminateMasters ==
  /\ step = "mastersDown"
  /\ \E e \in BOOLEAN :
       /\ IF "masters" \in conf
          THEN \/ /\ vpc /\ ~InVPC /\ ~Stray("masters") /\ ~e /\ vpc' = FALSE
                  /\ nodes' = [nodes EXCEPT !["masters"] = "none"]
               \/ /\ ~vpc \/ InVPC \/ Stray("masters") \/ DeleteFails
                  /\ e /\ UNCHANGED vpc
                  /\ nodes' \in {[nodes EXCEPT !["masters"] =
                                     IF Stray("masters") THEN "some" ELSE "none"]}
                       \cup (IF DeleteFails THEN {nodes} ELSE {})
          ELSE UNCHANGED <<nodes, vpc>>
       /\ Lost(e)
       /\ errs' = (op = "Create" \/ fails \/ e)
  /\ step' = "idle" /\ fails' = FALSE
  /\ UNCHANGED <<recorded, lb, conf, file, cluster, call>>

Next ==
  \/ NewDeployer \/ Exit \/ Crash \/ Create \/ Terminate
  \/ CreateMasters \/ CreateMastersAgain \/ FlagMasters
  \/ CreateWorkers \/ FlagWorkers \/ Validate
  \/ CreateLoadBalancer \/ FlagLoadBalancer \/ RegisterInstances
  \/ KubeletMasters \/ KubeadmInit \/ KubeletWorkers \/ KubeadmJoin
  \/ FetchKubeconfig
  \/ Deregister \/ DeleteLoadBalancer \/ TerminateWorkers \/ TerminateMasters

Spec == Init /\ [][Next]_vars

-----------------------------------------------------------------------------
Returns(o) == step = "idle" /\ op = o

(* Terminate that returns nil with masters in the configuration leaves     *)
(* nothing of that cluster, although it drops the load balancer's errors   *)
(* and does not see nodes that were never recorded: the VPC is not deleted *)
(* under a load balancer or a node.                                        *)
TerminateMeansGone == Returns("Terminate") /\ ~errs /\ had => Nothing

(* A Create that fails leaves nothing, unless something in Cause happened: *)
(* no failure of the load balancer, of a command or of kubeadm does it.    *)
RollsBackEverything == Returns("Create") /\ errs /\ blame = {} => Nothing

(* A Create that returns nil has launched every node and recorded it but   *)
(* for those that were still not running at a deadline; every recorded     *)
(* node has its kubelet, every recorded worker has joined, everything is   *)
(* behind the load balancer, the KUBECONFIG is that of the master that     *)
(* made the cluster, and all of it is in the file.                         *)
CreateMeansJoined ==
  Returns("Create") /\ ~errs =>
    /\ nodes = [g \in Sub |-> "up"] /\ lb = "registered"
    /\ recorded = Masters \cup Workers \/ "slow" \in blame
    /\ recorded \subseteq kubelet /\ Workers \cap recorded \subseteq joined
    /\ admin = inited /\ (inited # {} \/ Masters \cap recorded = {})
    /\ file = Named
=============================================================================

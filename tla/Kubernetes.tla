------------------------------ MODULE Kubernetes ------------------------------
(***************************************************************************)
(* The embedded Kubernetes deployer (internal/kubernetes/k8s.go): one EC2  *)
(* deployer makes the master nodes and the VPC, then the etcd tester and a *)
(* second EC2 deployer work in that VPC at the same time, then a load      *)
(* balancer is made and every node gets its files over SSH.                *)
(*                                                                         *)
(* The three deployers below it appear by what their Create and Terminate  *)
(* may return and leave behind, which is what EC2Deployer and EtcdTester   *)
(* say of them: an EC2 deployer that returns nil has launched all of its   *)
(* nodes but may have recorded only some, and its Create may wait for      *)
(* ever; one that fails may leave what it never tries to delete.           *)
(*                                                                         *)
(* In Create the two goroutines and the main one share the named result    *)
(* err: "race" makes a test of it read what another of them assigned in    *)
(* between.                                                                *)
(***************************************************************************)
EXTENDS NodeFiles, FiniteSets

CONSTANTS
  Faults,   \* what may go wrong, a subset of FaultKind
  Masters,  \* the master nodes
  Workers,  \* the worker nodes
  MaxOps    \* bound: processes started plus operations called

FaultKind ==
  { "createError",   \* a Create or a call to AWS fails
    "deleteError",   \* a Terminate or a deletion fails
    "slow",          \* an EC2 deployer stops polling before all nodes run
    "commandError",  \* a download or a file sent to a node fails
    "race",          \* a test of err reads another goroutine's value
    "crash" }        \* the process dies

ASSUME FaultsAssumption == Faults \subseteq FaultKind
ASSUME NodesAssumption == Masters \cap Workers = {}
ASSUME MaxOpsAssumption == MaxOps \in Nat

Sub == {"etcd", "workers"}
Group == {"masters"} \cup Sub
Node == Masters \cup Workers
NodesOf(group) == IF group = "masters" THEN Masters ELSE Workers

(* What went wrong: a Create that failed left what nobody tries to delete  *)
(* (instances of etcd, nodes of the RunInstances calls before the one that *)
(* failed, a VPC whose createVPC failed and that no flag claims); a        *)
(* deletion failed; polling stopped before all nodes were recorded; err    *)
(* was misread; a process died, or used the VPC of an earlier one.         *)
Cause == {"left", "delete", "slow", "race", "crash", "again"}

VARIABLES
  nodes,    \* what exists of each group: none, some or all of it ("up")
  known,    \* the nodes that the EC2 deployers have recorded
  vpc,      \* the masters' VPC exists
  lb,       \* the load balancer at AWS
  files,    \* the files on every node
  cfg,      \* the configuration in memory
  disk,     \* the configuration file
  at,       \* the next step of the running operation, or "idle" or "off"
  op,       \* which operation that is, or was
  errs,     \* what it returned: TRUE for an error
  ess,      \* the errors collected so far: TRUE for some
  go,       \* the goroutine of each group
  err,      \* the named result of Create: TRUE for an error
  own,      \* what each goroutine last assigned to err
  got,      \* results received from errc
  stage,    \* the stage of the files
  todo,     \* nodes that this stage has not finished
  had,      \* the masters were recorded when Terminate was called
  blame,    \* history: what went wrong, a set of Cause
  ops       \* processes started and operations called

aws == <<nodes, known, vpc, lb>>
routines == <<go, err, own, got>>
copying == <<files, stage, todo>>
vars == <<aws, copying, cfg, disk, at, op, errs, ess, routines, had, blame, ops>>

Config == [masters : BOOLEAN, etcd : BOOLEAN, workers : BOOLEAN,
           lb : BOOLEAN, registered : BOOLEAN, vpcid : BOOLEAN,
           servers : BOOLEAN]
CreateStep == {"masters", "flag", "wait", "check", "validate", "lb", "flagLB",
               "register", "copy", "created"}
TearStep == {"deregister", "deleteLB", "subs", "collect", "mastersDown"}

TypeOK ==
  /\ nodes \in [Group -> {"none", "some", "up"}] /\ known \subseteq Node
  /\ vpc \in BOOLEAN /\ lb \in {"none", "made", "registered"}
  /\ files \in [Node -> [Path -> Content \cup {"none"}]]
  /\ cfg \in Config /\ disk \in Config
  /\ at \in {"off", "idle"} \cup CreateStep \cup TearStep
  /\ op \in {"none", "Create", "Terminate"}
  /\ errs \in BOOLEAN /\ ess \in BOOLEAN /\ err \in BOOLEAN /\ had \in BOOLEAN
  /\ go \in [Sub -> {"none", "create", "test", "terminate", "nil", "error"}]
  /\ own \in [Sub \cup {"main"} -> BOOLEAN]
  /\ got \in 0..2
  /\ stage \in 1..Len(Stages) /\ todo \subseteq Node
  /\ blame \subseteq Cause
  /\ ops \in Nat

Empty == [n \in Node |-> [p \in Path |-> "none"]]
NoConfig == [masters |-> FALSE, etcd |-> FALSE, workers |-> FALSE, lb |-> FALSE,
             registered |-> FALSE, vpcid |-> FALSE, servers |-> FALSE]
Quiet == [g \in Sub |-> "none"]
NoErrors == [g \in Sub \cup {"main"} |-> FALSE]

Init ==
  /\ nodes = [g \in Group |-> "none"] /\ known = {} /\ vpc = FALSE /\ lb = "none"
  /\ files = Empty /\ stage = 1 /\ todo = {}
  /\ cfg = NoConfig /\ disk = NoConfig
  /\ at = "off" /\ op = "none" /\ errs = FALSE /\ ess = FALSE
  /\ go = Quiet /\ err = FALSE /\ own = NoErrors /\ got = 0
  /\ had = FALSE /\ blame = {} /\ ops = 0

EndRoutines == go' = Quiet /\ err' = FALSE /\ own' = NoErrors /\ got' = 0
Sync == disk' = cfg'
Nothing == lb = "none" /\ ~vpc /\ \A g \in Group : nodes[g] = "none"

-----------------------------------------------------------------------------
(* Processes and calls.                                                    *)

(* The commands load the file, validate it and write it back.              *)
NewDeployer ==
  /\ at = "off" /\ ops < MaxOps
  /\ at' = "idle" /\ ops' = ops + 1
  /\ cfg' = disk
  /\ UNCHANGED <<aws, copying, disk, op, errs, ess, routines, had, blame>>

ProcessEnds ==
  /\ at' = "off" /\ op' = "none" /\ errs' = FALSE /\ ess' = FALSE
  /\ cfg' = disk
  /\ files' = Empty /\ stage' = 1 /\ todo' = {}
  /\ EndRoutines
  /\ had' = FALSE
  /\ UNCHANGED <<aws, disk, ops>>

Exit == at = "idle" /\ ProcessEnds /\ UNCHANGED blame

(* Also the runtime's "concurrent map iteration and map write": the etcd   *)
(* goroutine writes the file while the workers' Create fills its map.      *)
Crash ==
  /\ "crash" \in Faults /\ at \notin {"off", "idle"}
  /\ ProcessEnds
  /\ blame' = blame \cup {"crash"}

Call(o, first) ==
  /\ at = "idle" /\ ops < MaxOps
  /\ op' = o /\ at' = first /\ ops' = ops + 1
  /\ errs' = FALSE /\ ess' = FALSE /\ had' = cfg.masters
  /\ UNCHANGED <<aws, copying, cfg, disk, routines>>

(* A process calls Create once, and before Terminate.  What went wrong     *)
(* earlier no longer counts when nothing is left of it; a VPC that no flag *)
(* claims stays.                                                           *)
Create ==
  /\ op = "none" /\ Call("Create", "masters")
  /\ blame' = (IF Nothing THEN blame \cap {"left"} ELSE blame)
               \cup (IF cfg.vpcid THEN {"again"} ELSE {})

(* After a failed Create, a signal (Terminate waits for the mutex until    *)
(* Create has returned), a successful Create, or on its own.               *)
Terminate == op # "Terminate" /\ Call("Terminate", "deregister") /\ UNCHANGED blame

-----------------------------------------------------------------------------
(* Create: the nodes.                                                      *)

(* err is set: the deferred function calls terminate().                    *)
Fail ==
  /\ at' = "deregister" /\ ess' = FALSE
  /\ files' = Empty /\ stage' = 1 /\ todo' = {}
  /\ UNCHANGED <<cfg, disk, op, errs, routines, had, ops>>

CreateFails == "createError" \in Faults
DeleteFails == "deleteError" \in Faults
Goto(next) == at' = next /\ UNCHANGED <<copying, op, errs, ess, had, ops>>

(* What the VPC cannot be deleted under.                                   *)
InVPC == lb # "none" \/ \E g \in Sub : nodes[g] # "none"

(* Nodes exist that their EC2 deployer has not recorded: it does not       *)
(* terminate them, and cannot delete the security group that they use.     *)
Stray(g) == g # "etcd" /\ nodes[g] # "none" /\ ~(NodesOf(g) \subseteq known)

(* Nil from Create of an EC2 deployer.                                     *)
Records(g) ==
  \E ready \in SUBSET NodesOf(g) :
    /\ "slow" \in Faults \/ ready = NodesOf(g)
    /\ known' = (known \ NodesOf(g)) \cup ready
    /\ blame' = IF ready = NodesOf(g) THEN blame ELSE blame \cup {"slow"}

(* A RunInstances call fails after others, or its answer is lost.          *)
Launches(g) ==
  /\ nodes' = [nodes EXCEPT ![g] = "some"]
  /\ known' = known \ NodesOf(g)
  /\ blame' = blame \cup {"left"}

(* Terminate of the masters' EC2 deployer: the instances go first, nil     *)
(* means that the VPC is gone too.                                         *)
TerminateEC2Masters(e) ==
  \/ /\ vpc /\ ~InVPC /\ ~Stray("masters") /\ ~e
     /\ vpc' = FALSE /\ nodes' = [nodes EXCEPT !["masters"] = "none"]
  \/ /\ ~vpc \/ InVPC \/ Stray("masters") \/ DeleteFails
     /\ e
     /\ \/ UNCHANGED vpc
        \/ DeleteFails /\ ~InVPC /\ ~Stray("masters") /\ vpc' = FALSE
     /\ nodes' = [nodes EXCEPT !["masters"] =
                    IF Stray("masters") \/ (DeleteFails /\ vpc' /\ @ # "none")
                    THEN "some" ELSE "none"]

CreateMasters ==
  /\ at = "masters" /\ ~cfg.vpcid
  /\ nodes["masters"] = "none" /\ ~vpc
  /\ \/ /\ nodes' = [nodes EXCEPT !["masters"] = "up"] /\ Records("masters")
        /\ vpc' = TRUE
        /\ cfg' = [cfg EXCEPT !.vpcid = TRUE]
        /\ Goto("flag") /\ UNCHANGED <<disk, routines>>
     \/ /\ CreateFails
        /\ blame' \in {blame, blame \cup {"left"}}
        /\ Fail /\ UNCHANGED <<nodes, known, vpc>>
     \/ CreateFails /\ Launches("masters") /\ vpc' = TRUE /\ Fail
     \/ /\ CreateFails /\ DeleteFails
        /\ nodes' \in {nodes, [nodes EXCEPT !["masters"] = "some"]}
        /\ vpc' = TRUE
        /\ Fail /\ blame' = blame \cup {"delete"} /\ UNCHANGED known
  /\ UNCHANGED lb

(* The key pair exists already, or the file names the VPC and the security *)
(* group: the EC2 deployer fails, and with the names deletes what they     *)
(* stand for.                                                              *)
CreateMastersAgain ==
  /\ at = "masters"
  /\ cfg.vpcid \/ nodes["masters"] # "none" \/ vpc
  /\ IF cfg.vpcid THEN \E e \in BOOLEAN : TerminateEC2Masters(e)
     ELSE UNCHANGED <<nodes, vpc>>
  /\ Fail /\ UNCHANGED <<known, lb, blame>>

(* The flag is set, the VPC's ID copied to the others, the file written    *)
(* (twice), and the goroutines start.                                      *)
FlagMasters ==
  /\ at = "flag"
  /\ cfg' = [cfg EXCEPT !.masters = TRUE] /\ Sync
  /\ go' = [g \in Sub |-> "create"]
  /\ Goto("wait")
  /\ UNCHANGED <<aws, err, own, got, blame>>

Routine(g, next) == go' = [go EXCEPT ![g] = next]
Assign(who, e) == own' = [own EXCEPT ![who] = e] /\ err' = e

(* err = Create() of the etcd tester or the workers' EC2 deployer.  The    *)
(* second undoes a failure, but for nodes it has not recorded; the first   *)
(* leaves the instances it made, and nil means that it has recorded all.   *)
SubCreate(g) ==
  /\ go[g] = "create"
  /\ \/ /\ nodes' = [nodes EXCEPT ![g] = "up"]
        /\ Assign(g, FALSE)
        /\ IF g = "etcd" THEN UNCHANGED <<known, blame>> ELSE Records(g)
     \/ /\ CreateFails
        /\ Assign(g, TRUE)
        /\ \/ UNCHANGED <<nodes, known, blame>>
           \/ /\ g = "etcd" \/ DeleteFails
              /\ nodes' = [nodes EXCEPT ![g] = "some"]
              /\ blame' = blame \cup {IF g = "etcd" THEN "left" ELSE "delete"}
              /\ UNCHANGED known
           \/ g = "workers" /\ Launches(g)
  /\ Routine(g, "test")
  /\ UNCHANGED <<vpc, lb, copying, cfg, disk, at, op, errs, ess, got, had, ops>>

(* What a test of err finds: mostly what the goroutine just assigned.      *)
Reads_err(who, e) ==
  \/ e = own[who] /\ UNCHANGED blame
  \/ /\ "race" \in Faults /\ err # own[who] /\ e = err
     /\ blame' = blame \cup {"race"}

(* if err != nil: send the error, or set the flag, write the file and send *)
(* nil.                                                                    *)
SubTest(g) ==
  /\ go[g] = "test"
  /\ \E e \in BOOLEAN :
       /\ Reads_err(g, e)
       /\ Routine(g, IF e THEN "error" ELSE "nil")
       /\ IF e THEN UNCHANGED <<cfg, disk>>
          ELSE cfg' = [cfg EXCEPT ![g] = TRUE] /\ Sync
  /\ UNCHANGED <<aws, copying, at, op, errs, ess, err, own, got, had, ops>>

(* err = <-errc, in the main goroutine.                                    *)
Receive ==
  /\ at = "wait"
  /\ \E g \in Sub :
       /\ go[g] \in {"nil", "error"}
       /\ Routine(g, "none")
       /\ Assign("main", go[g] = "error")
  /\ got' = got + 1
  /\ Goto("check")
  /\ UNCHANGED <<aws, cfg, disk, blame>>

(* Note the error; after the second result return if there was one.        *)
Check ==
  /\ at = "check"
  /\ \E e \in BOOLEAN :
       /\ Reads_err("main", e)
       /\ IF got < 2
          THEN /\ at' = "wait" /\ ess' = (ess \/ e)
               /\ UNCHANGED <<copying, cfg, disk, op, errs, routines, had, ops>>
          ELSE IF ess \/ e THEN Fail
          ELSE Goto("validate") /\ UNCHANGED <<cfg, disk, routines>>
  /\ UNCHANGED aws

-----------------------------------------------------------------------------
(* Create: the load balancer.                                              *)

StepFails == CreateFails /\ Fail /\ UNCHANGED aws

\* variant with a bug: the configuration is not validated again
ValidateSkipped ==
  /\ at = "validate"
  /\ Goto("lb") /\ UNCHANGED <<aws, cfg, disk, routines, blame>>

(* ValidateAndSetDefaults, which has the members' addresses only now; it   *)
(* ends with Sync().                                                       *)
Validate ==
  /\ at = "validate"
  /\ \/ /\ cfg' = [cfg EXCEPT !.servers = nodes["etcd"] = "up"] /\ Sync
        /\ Goto("lb") /\ UNCHANGED <<aws, routines>>
     \/ StepFails
  /\ UNCHANGED blame

CreateLoadBalancer ==
  /\ at = "lb"
  /\ \/ /\ lb' = "made" /\ Goto("flagLB")
        /\ UNCHANGED <<nodes, known, vpc, cfg, disk, routines>>
     \/ StepFails
  /\ UNCHANGED blame

FlagLoadBalancer ==
  /\ at = "flagLB"
  /\ cfg' = [cfg EXCEPT !.lb = TRUE] /\ Sync
  /\ Goto("register") /\ UNCHANGED <<aws, routines, blame>>

(* The nodes of a stage: those of its group that are recorded.             *)
Todo(i) == NodesOf(Stages[i].group) \cap known

(* RegisterInstancesWithLoadBalancer, with the masters and workers that    *)
(* are recorded; the first stage follows.                                  *)
RegisterInstances ==
  /\ at = "register"
  /\ \/ /\ lb' = "registered"
        /\ cfg' = [cfg EXCEPT !.registered = TRUE] /\ Sync
        /\ at' = "copy" /\ stage' = 1 /\ todo' = Todo(1)
        /\ UNCHANGED <<nodes, known, vpc, files, op, errs, ess, routines, had, ops>>
     \/ StepFails
  /\ UNCHANGED blame

-----------------------------------------------------------------------------
(* Create: the files.                                                      *)

(* A file that is there is overwritten: cp and tee.                        *)
Overwrite(f, sent) ==
  [p \in Path |-> IF \E s \in sent : s[1] = p
                  THEN (CHOOSE s \in sent : s[1] = p)[2] ELSE f[p]]

(* One node of the stage gets its files.  The downloads run at the same    *)
(* time and all are waited for; a file that cannot be made or sent ends    *)
(* Create at once.                                                         *)
Deliver(n) ==
  /\ at = "copy" /\ n \in todo
  /\ \/ /\ files' = [files EXCEPT ![n] = Overwrite(@, Stages[stage].files)]
        /\ todo' = todo \ {n}
        /\ UNCHANGED <<stage, cfg, disk, at, op, errs, ess, routines, had, ops>>
     \/ /\ "commandError" \in Faults /\ Stages[stage].kind = "download"
        /\ ess' = TRUE /\ todo' = todo \ {n}
        /\ UNCHANGED <<files, stage, cfg, disk, at, op, errs, routines, had, ops>>
     \/ /\ "commandError" \in Faults /\ Stages[stage].kind = "send"
        /\ Fail
  /\ UNCHANGED <<aws, blame>>

\* variant with a bug: the errors of the downloads are not looked at
StageEndsAnyway ==
  /\ at = "copy" /\ todo = {}
  /\ IF stage = Len(Stages)
     THEN at' = "created" /\ UNCHANGED <<stage, todo>>
     ELSE at' = "copy" /\ stage' = stage + 1 /\ todo' = Todo(stage')
  /\ UNCHANGED <<aws, files, cfg, disk, op, errs, ess, routines, had, blame, ops>>

StageEnds ==
  /\ at = "copy" /\ todo = {}
  /\ IF ess THEN Fail
     ELSE /\ IF stage = Len(Stages)
             THEN at' = "created" /\ UNCHANGED <<stage, todo>>
             ELSE /\ at' = "copy" /\ stage' = stage + 1
                  /\ todo' = Todo(stage')
          /\ UNCHANGED <<files, cfg, disk, op, errs, ess, routines, had, ops>>
  /\ UNCHANGED <<aws, blame>>

CreateReturns ==
  /\ at = "created"
  /\ UNCHANGED cfg /\ Sync
  /\ Goto("idle") /\ UNCHANGED <<aws, routines, blame>>

-----------------------------------------------------------------------------
(* terminate(): of Terminate, or of a Create that failed.  It does not     *)
(* write the file.                                                         *)

Tear(next) == at' = next /\ UNCHANGED <<copying, disk, op, errs, had, ops>>
Noted(e) == ess' = (ess \/ e) /\ blame' = IF e THEN blame \cup {"delete"} ELSE blame

(* The flag is cleared even if the call failed.                            *)
Deregister ==
  /\ at = "deregister"
  /\ IF cfg.registered
     THEN /\ cfg' = [cfg EXCEPT !.registered = FALSE]
          /\ \/ lb # "none" /\ lb' = "made" /\ Noted(FALSE)
             \/ (DeleteFails \/ lb = "none") /\ UNCHANGED lb /\ Noted(TRUE)
     ELSE UNCHANGED <<cfg, lb, ess, blame>>
  /\ Tear("deleteLB")
  /\ UNCHANGED <<nodes, known, vpc, routines>>

(* Deleting a load balancer that is not there succeeds.                    *)
DeleteLoadBalancer ==
  /\ at = "deleteLB"
  /\ IF cfg.lb
     THEN /\ cfg' = [cfg EXCEPT !.lb = FALSE]
          /\ \/ lb' = "none" /\ Noted(FALSE)
             \/ DeleteFails /\ UNCHANGED lb /\ Noted(TRUE)
     ELSE UNCHANGED <<cfg, lb, ess, blame>>
  /\ Tear("subs")
  /\ UNCHANGED <<nodes, known, vpc, routines>>


\* variant with a bug: the masters are counted too
StartTerminateThree ==
  /\ at = "subs"
  /\ go' = [g \in Sub |-> IF cfg[g] THEN "terminate" ELSE "none"]
  /\ got' = 2 - Cardinality({g \in Group : cfg[g]})
  /\ Tear("collect")
  /\ UNCHANGED <<aws, cfg, err, own, ess, blame>>

(* One goroutine for each group that is recorded; got counts what is       *)
(* received, up to their number.                                           *)
StartTerminate ==
  /\ at = "subs"
  /\ go' = [g \in Sub |-> IF cfg[g] THEN "terminate" ELSE "none"]
  /\ got' = 2 - Cardinality({g \in Sub : cfg[g]})
  /\ Tear("collect")
  /\ UNCHANGED <<aws, cfg, err, own, ess, blame>>

(* Terminate of the etcd tester or of the workers' EC2 deployer.  Nodes    *)
(* without a record stay, and make it fail.                                *)
SubTerminate(g) ==
  /\ go[g] = "terminate"
  /\ \/ /\ ~Stray(g)
        /\ nodes' = [nodes EXCEPT ![g] = "none"]
        /\ cfg' = [cfg EXCEPT ![g] = FALSE]
        /\ Routine(g, "nil")
     \/ /\ Stray(g)
        /\ nodes' = [nodes EXCEPT ![g] = "some"]
        /\ Routine(g, "error") /\ UNCHANGED cfg
     \/ /\ DeleteFails \/ nodes[g] = "some"
        /\ nodes' \in {nodes} \cup {n \in {[nodes EXCEPT ![g] = "none"]} : ~Stray(g)}
        /\ Routine(g, "error") /\ UNCHANGED cfg
  /\ UNCHANGED <<known, vpc, lb, copying, disk, at, op, errs, ess, err, own, got,
                 had, blame, ops>>

Collect ==
  /\ at = "collect" /\ got < 2
  /\ \E g \in Sub :
       /\ go[g] \in {"nil", "error"}
       /\ Routine(g, "none")
       /\ Noted(go[g] = "error")
  /\ got' = got + 1
  /\ Tear("collect")
  /\ UNCHANGED <<aws, cfg, err, own>>

\* variant with a bug: the masters are not waited for the others
CollectedEarly ==
  /\ at = "collect"
  /\ Tear("mastersDown")
  /\ UNCHANGED <<aws, cfg, ess, routines, blame>>

Collected ==
  /\ at = "collect" /\ got = 2
  /\ Tear("mastersDown")
  /\ UNCHANGED <<aws, cfg, ess, routines, blame>>

Returned(e) ==
  /\ errs' = (op = "Create" \/ ess \/ e)
  /\ at' = "idle" /\ ess' = FALSE /\ EndRoutines
  /\ UNCHANGED <<known, lb, copying, disk, op, had, ops>>

\* variant with a bug: an error of the masters' Terminate is only logged
TerminateMastersLogs ==
  /\ at = "mastersDown"
  /\ IF cfg.masters
     THEN \E e \in BOOLEAN :
            /\ TerminateEC2Masters(e)
            /\ cfg' = [cfg EXCEPT !.masters = FALSE]
            /\ Returned(FALSE)
     ELSE UNCHANGED <<nodes, vpc, cfg>> /\ Returned(FALSE)
  /\ UNCHANGED blame

TerminateMasters ==
  /\ at = "mastersDown"
  /\ IF cfg.masters
     THEN \E e \in BOOLEAN :
            /\ TerminateEC2Masters(e)
            /\ cfg' = IF e THEN cfg ELSE [cfg EXCEPT !.masters = FALSE]
            /\ blame' = IF e /\ vpc /\ ~InVPC THEN blame \cup {"delete"} ELSE blame
            /\ Returned(e)
     ELSE UNCHANGED <<nodes, vpc, cfg, blame>> /\ Returned(FALSE)

-----------------------------------------------------------------------------
SubSteps(g) == SubCreate(g) \/ SubTest(g) \/ SubTerminate(g)

Steps ==
  \/ CreateMasters \/ CreateMastersAgain \/ FlagMasters
  \/ \E g \in Sub : SubSteps(g)
  \/ Receive \/ Check \/ Validate
  \/ CreateLoadBalancer \/ FlagLoadBalancer \/ RegisterInstances
  \/ \E n \in Node : Deliver(n)
  \/ StageEnds \/ CreateReturns
  \/ Deregister \/ DeleteLoadBalancer \/ StartTerminate
  \/ Collect \/ Collected \/ TerminateMasters

Next ==
  \/ NewDeployer \/ Exit \/ Crash \/ Create \/ Terminate
  \/ Steps

Spec == Init /\ [][Next]_vars

(* A running operation goes on: every step is a call that returns, but for *)
(* Create of a deployer, which waits without a deadline until it can read  *)
(* from every instance that it is ready.                                   *)
FairSpec ==
  Spec /\ WF_vars(Steps /\ ~CreateMasters /\ \A g \in Sub : ~SubCreate(g))

-----------------------------------------------------------------------------
Returns(o) == at = "idle" /\ op = o

(* Terminate that returns nil with the masters recorded when it was called *)
(* leaves nothing but a VPC that no flag claims: the masters' VPC cannot   *)
(* be deleted with anything in it, recorded or not.                        *)
TerminateMeansGone ==
  Returns("Terminate") /\ ~errs /\ had => Nothing

(* A Create that fails leaves nothing, unless something in Cause happened: *)
(* no failure of a call, of a command or of a file that is sent does it.   *)
RollsBackEverything ==
  Returns("Create") /\ errs /\ blame = {} => Nothing

(* A Create that returns nil has launched every node, and recorded it but  *)
(* for those that were still not running at a deadline; the instances are  *)
(* registered and the API server is pointed to etcd, and its file says all *)
(* of it for a later Terminate; not if err was misread.                    *)
CreateMeansComplete ==
  Returns("Create") /\ ~errs /\ "race" \notin blame =>
    /\ \A g \in Group : nodes[g] = "up"
    /\ known = Node \/ "slow" \in blame
    /\ vpc /\ lb = "registered"
    /\ cfg = [k \in DOMAIN NoConfig |-> TRUE] /\ disk = cfg

(* After a Create that returns nil every service of a recorded node finds  *)
(* there the binary, unit, environment and every file that its flags name, *)
(* with the half of the key pair it takes it for, whatever later stages    *)
(* overwrote.                                                              *)
ServicesFindTheirFiles ==
  Returns("Create") /\ ~errs =>
    \A group \in {"masters", "workers"} : \A n \in NodesOf(group) \cap known :
      \A c \in Services(group) : \A read \in Reads(c) :
        files[n][read[1]] = read[2]

(* Every call returns, or its process dies; or Create waits for ever for   *)
(* the instances of a deployer.                                            *)
OperationsReturn ==
  \/ at \notin {"off", "idle"} ~> at \in {"off", "idle"}
  \/ <>[](at = "masters" \/ (at = "wait" /\ \E g \in Sub : go[g] = "create"))
=============================================================================

---------------------------- MODULE KubeadmProofs ----------------------------
(***************************************************************************)
(* Proofs about Kubeadm, for any masters, workers, faults and number of    *)
(* operations: what Terminate leaves, what a Create that fails leaves, and *)
(* what one that succeeds has made.                                        *)
(***************************************************************************)
EXTENDS Kubeadm, TLAPS

ControlInv == step \in CreateSteps => op = "Create" /\ ~errs

(* The masters are recorded first and never forgotten.                     *)
RecordInv ==
  /\ "masters" \notin conf => conf = {}
  /\ "masters" \notin file => file = {}

TerminateInv ==
  /\ step \in TerminateSteps /\ op = "Terminate" /\ had => "masters" \in conf
  /\ step = "idle" /\ op = "Terminate" /\ ~errs /\ had => Nothing

(* What Create has made when it has come to a step.                        *)
WithMasters == CreateSteps \ {"masters"}
WithWorkers == WithMasters \ {"flagMasters", "workers"}
WithLB == {"register", "kubeletMasters", "init", "kubeletWorkers", "join", "fetch"}
Registered == WithLB \ {"register"}

Has(g) == NodesOf(g) \subseteq recorded \/ "slow" \in blame

MadeInv ==
  /\ step \in WithMasters => nodes["masters"] = "up" /\ "masters" \in conf
  /\ step \in WithMasters => Has("masters")
  /\ step \in WithWorkers => nodes["workers"] = "up" /\ "workers" \in conf
  /\ step \in WithWorkers => Has("workers")
  /\ step \in WithLB => "lb" \in conf
  /\ step \in Registered => lb = "registered" /\ "registered" \in conf
  /\ step \in {"init", "kubeletWorkers", "join", "fetch"} =>
       Masters \cap recorded \subseteq kubelet
  /\ step \in {"kubeletWorkers", "join", "fetch"} =>
       inited # {} \/ Masters \cap recorded = {}
  /\ step \in {"join", "fetch"} => Workers \cap recorded \subseteq kubelet
  /\ step = "fetch" => Workers \cap recorded \subseteq joined

(* While nothing is to blame, what exists is recorded, or was made by the  *)
(* call that has just returned.                                            *)
Known ==
  /\ ~Stray("masters") /\ ~Stray("workers")
  /\ nodes["masters"] # "none" \/ vpc => "masters" \in conf
  /\ "masters" \in conf => vpc
  /\ nodes["workers"] # "none" => "workers" \in conf
  /\ lb # "none" => "lb" \in conf \/ step = "flagLB"

RollbackInv ==
  op = "Create" /\ blame = {} =>
    /\ step \in WithMasters \cup TerminateSteps => Known
    /\ step \in {"flagMasters", "workers", "flagWorkers", "validate", "lb"} => lb = "none"
    /\ step \in {"flagMasters", "workers"} => nodes["workers"] = "none"
    /\ step \in {"workersDown", "mastersDown"} => lb = "none"
    /\ step = "mastersDown" => nodes["workers"] = "none"
    /\ step = "idle" /\ errs => Nothing

IInv ==
  /\ TypeOK /\ ControlInv /\ RecordInv /\ TerminateInv /\ MadeInv
  /\ RollbackInv /\ CreateMeansJoined

-----------------------------------------------------------------------------
LEMMA InitIInv == Init => IInv
<1> SUFFICES ASSUME Init PROVE IInv
  OBVIOUS
<1>1. TypeOK
  BY DEF Init, TypeOK, Sub, Named
<1>2. ControlInv /\ RecordInv /\ MadeInv
  BY DEF Init, ControlInv, RecordInv, MadeInv, CreateSteps, WithMasters,
         WithWorkers, WithLB, Registered
<1>3. TerminateInv /\ RollbackInv /\ CreateMeansJoined
  BY DEF Init, TerminateInv, RollbackInv, CreateMeansJoined, Returns
<1>4. QED BY <1>1, <1>2, <1>3 DEF IInv

-----------------------------------------------------------------------------
(* Types.                                                                  *)

LEMMA ProcessTypeOK ==
  ASSUME TypeOK, NewDeployer \/ Exit \/ Crash \/ Create \/ Terminate PROVE TypeOK'
<1>1. CASE NewDeployer
  BY <1>1 DEF TypeOK, NewDeployer, Sync, aws, cluster
<1>2. CASE Exit
  BY <1>2 DEF TypeOK, Exit, aws, cluster, call
<1>3. CASE Crash
  BY <1>3 DEF TypeOK, Crash, aws, cluster, Cause
<1>4. ASSUME NEW o \in {"Create", "Terminate"},
             NEW s \in CreateSteps \cup TerminateSteps, Begin(o, s)
      PROVE TypeOK'
  <2>1. had' \in BOOLEAN
    <3>1. had' = ("masters" \in conf)
      BY <1>4 DEF Begin
    <3>2. ("masters" \in conf) \in BOOLEAN
      OBVIOUS
    <3>3. QED BY <3>1, <3>2
  <2>2. ops' = ops + 1 /\ op' = o /\ step' = s /\ errs' = FALSE
    BY <1>4 DEF Begin
  <2>3. UNCHANGED <<aws, conf, file, cluster, fails, blame>>
    BY <1>4 DEF Begin
  <2>4. UNCHANGED <<nodes, recorded, vpc, lb, conf, file, kubelet, inited, joined,
                    admin, fails, blame>>
    BY <2>3 DEF aws, cluster
  <2>5. op' \in {"none", "Create", "Terminate"} /\ errs' \in BOOLEAN
        /\ step' \in {"off", "idle"} \cup CreateSteps \cup TerminateSteps
    BY <2>2
  <2>6. ops \in Nat
    BY DEF TypeOK
  <2>7. ops' \in Nat
    BY <2>6, <2>2
  <2>8. QED BY <2>1, <2>4, <2>5, <2>7 DEF TypeOK
<1>5. QED
  BY <1>1, <1>2, <1>3, <1>4 DEF Create, Terminate, CreateSteps, TerminateSteps

LEMMA FailTypeOK == ASSUME TypeOK, StepFails PROVE TypeOK'
  BY DEF TypeOK, StepFails, Fail, Goto, aws, cluster, call, TerminateSteps

LEMMA EC2TypeOK ==
  ASSUME TypeOK, NEW g \in Sub, NEW s \in CreateSteps, EC2Create(g, s)
  PROVE TypeOK'
<1>1. nodes \in [Sub -> {"none", "some", "up"}] /\ g \in Named
      /\ NodesOf(g) \subseteq Masters \cup Workers
  BY DEF TypeOK, Named, NodesOf
<1>2. CASE EC2Creates(g, s)
  <2>1. PICK up \in SUBSET NodesOf(g) :
          /\ recorded' = (recorded \ NodesOf(g)) \cup up
          /\ blame' \in {blame, blame \cup {"slow"}}
    BY <1>2 DEF EC2Creates
  <2>2. recorded' \subseteq Masters \cup Workers /\ blame' \subseteq Cause
    BY <1>1, <2>1 DEF TypeOK, Cause
  <2>3. nodes' \in [Sub -> {"none", "some", "up"}]
    BY <1>1, <1>2 DEF EC2Creates
  <2>4. QED BY <1>1, <1>2, <2>2, <2>3 DEF EC2Creates, TypeOK, Goto, cluster, call
<1>3. CASE EC2Fails(g)
  <2>1. nodes' \in {nodes, [nodes EXCEPT ![g] = "some"]}
        /\ recorded' \in {recorded, recorded \ NodesOf(g)} /\ vpc' \in {vpc, TRUE}
        /\ conf' \in {conf, conf \cup {g}}
        /\ blame' \in {blame, blame \cup {"left"}, blame \cup {"delete"}}
    BY <1>3 DEF EC2Fails
  <2>2. nodes' \in [Sub -> {"none", "some", "up"}]
    BY <1>1, <2>1
  <2>3. recorded' \subseteq Masters \cup Workers /\ vpc' \in BOOLEAN
        /\ conf' \subseteq Named /\ blame' \subseteq Cause
    BY <1>1, <2>1 DEF TypeOK, Cause
  <2>4. QED
    BY <1>3, <2>2, <2>3 DEF EC2Fails, TypeOK, Goto, cluster, call, TerminateSteps
<1>4. QED BY <1>2, <1>3 DEF EC2Create

LEMMA FlagTypeOK ==
  ASSUME TypeOK, NEW a, NEW s \in CreateSteps, Flag(a, s) PROVE TypeOK'
  BY DEF TypeOK, Flag, Sync, Goto, aws, cluster, call

LEMMA KubeletTypeOK ==
  ASSUME TypeOK, NEW a, NEW g \in SUBSET (Masters \cup Workers),
         NEW s \in CreateSteps, Kubelet(a, g, s)
  PROVE TypeOK'
<1>1. CASE StepFails
  BY <1>1, FailTypeOK
<1>2. CASE ~StepFails
  BY <1>2 DEF TypeOK, Kubelet, Goto, aws, cluster, call
<1>3. QED BY <1>1, <1>2

LEMMA CreateTypeOK ==
  ASSUME TypeOK,
         \/ CreateMasters \/ CreateMastersAgain \/ FlagMasters
         \/ CreateWorkers \/ FlagWorkers \/ Validate
         \/ CreateLoadBalancer \/ FlagLoadBalancer \/ RegisterInstances
         \/ KubeletMasters \/ KubeadmInit \/ KubeletWorkers \/ KubeadmJoin
         \/ FetchKubeconfig
  PROVE TypeOK'
<1> USE DEF CreateSteps
<1>1. CASE CreateMasters
  BY <1>1, EC2TypeOK DEF CreateMasters, Sub
<1>2. CASE CreateMastersAgain
  BY <1>2 DEF CreateMastersAgain, Fail, Goto, TypeOK, aws, cluster, call,
              TerminateSteps, Cause
<1>3. CASE FlagMasters \/ FlagWorkers
  BY <1>3, FlagTypeOK DEF FlagMasters, FlagWorkers
<1>4. CASE CreateWorkers
  BY <1>4, EC2TypeOK DEF CreateWorkers, Sub
<1>5. CASE Validate
  BY <1>5, FlagTypeOK, FailTypeOK DEF Validate
<1>6. CASE StepFails
  BY <1>6, FailTypeOK
<1>7. CASE CreateLoadBalancer /\ ~StepFails
  BY <1>7 DEF CreateLoadBalancer, TypeOK, Goto, cluster, call
<1>8. CASE FlagLoadBalancer
  BY <1>8 DEF FlagLoadBalancer, TypeOK, Sync, Goto, aws, cluster, call, Named
<1>9. CASE RegisterInstances /\ ~StepFails
  BY <1>9 DEF RegisterInstances, TypeOK, Sync, Goto, cluster, call, Named
<1>10. CASE KubeletMasters \/ KubeletWorkers
  BY <1>10, KubeletTypeOK DEF KubeletMasters, KubeletWorkers
<1>11. CASE KubeadmInit /\ ~StepFails
  BY <1>11 DEF KubeadmInit, TypeOK, Goto, aws, cluster, call
<1>12. CASE KubeadmJoin /\ ~StepFails
  BY <1>12 DEF KubeadmJoin, Fail, TypeOK, Goto, aws, cluster, call, TerminateSteps
<1>13. CASE FetchKubeconfig
  BY <1>13 DEF FetchKubeconfig, TypeOK, Sync, Fail, Goto, aws, cluster, call,
               TerminateSteps
<1>14. QED
  BY <1>1, <1>2, <1>3, <1>4, <1>5, <1>6, <1>7, <1>8, <1>9, <1>10, <1>11, <1>12,
     <1>13

LEMMA TerminateTypeOK ==
  ASSUME TypeOK,
         Deregister \/ DeleteLoadBalancer \/ TerminateWorkers \/ TerminateMasters
  PROVE TypeOK'
<1> USE DEF TerminateSteps
<1>1. CASE Deregister
  BY <1>1 DEF Deregister, TypeOK, Goto, cluster, call
<1>2. CASE DeleteLoadBalancer
  BY <1>2 DEF DeleteLoadBalancer, TypeOK, Goto, cluster, call, Cause
<1>3. CASE TerminateWorkers
  <2>1. nodes' \in [Sub -> {"none", "some", "up"}]
    BY <1>3 DEF TerminateWorkers, TypeOK
  <2>2. QED BY <1>3, <2>1 DEF TerminateWorkers, TypeOK, Lost, cluster, call, Cause
<1>4. CASE TerminateMasters
  <2>1. nodes' \in [Sub -> {"none", "some", "up"}]
    BY <1>4 DEF TerminateMasters, TypeOK
  <2>2. QED BY <1>4, <2>1 DEF TerminateMasters, TypeOK, Lost, cluster, call, Cause
<1>5. QED BY <1>1, <1>2, <1>3, <1>4

LEMMA NextTypeOK == IInv /\ [Next]_vars => TypeOK'
<1> SUFFICES ASSUME TypeOK, [Next]_vars PROVE TypeOK'
  BY DEF IInv
<1>1. CASE UNCHANGED vars
  BY <1>1 DEF TypeOK, vars
<1>2. QED BY <1>1, ProcessTypeOK, CreateTypeOK, TerminateTypeOK DEF Next

-----------------------------------------------------------------------------
(* Create: a failed step that made nothing begins the deferred terminate.  *)
Clean ==
  /\ UNCHANGED <<aws, conf, file, cluster, op, errs, had, blame>>
  /\ step' = "deregister"

LEMMA StepFailsClean == ASSUME StepFails PROVE Clean
  BY DEF StepFails, Fail, Goto, Clean, call

LEMMA CleanKeeps ==
  ASSUME IInv, Clean, step \in CreateSteps, step \notin {"masters", "flagLB"}
  PROVE ControlInv' /\ RecordInv' /\ TerminateInv' /\ MadeInv'
        /\ RollbackInv' /\ CreateMeansJoined'
<1> USE DEF CreateSteps, TerminateSteps
<1>1. op' = "Create"
  BY DEF IInv, ControlInv, Clean
<1>2. ControlInv' /\ TerminateInv' /\ CreateMeansJoined'
  BY <1>1 DEF ControlInv, TerminateInv, CreateMeansJoined, Returns, Clean
<1>3. RecordInv'
  BY DEF IInv, RecordInv, Clean
<1>4. MadeInv'
  BY DEF MadeInv, WithMasters, WithWorkers, WithLB, Registered, Clean
<1>5. RollbackInv'
  BY <1>1 DEF IInv, RollbackInv, Known, Stray, Clean, aws, WithMasters
<1>6. QED BY <1>2, <1>3, <1>4, <1>5

(* A Create of an EC2 deployer that failed, and one that returned nil.     *)
LEMMA EC2FailsSo ==
  ASSUME NEW g, EC2Fails(g)
  PROVE \/ Clean
        \/ /\ step' = "deregister" /\ conf' \in {conf, conf \cup {g}} /\ blame' # {}
           /\ UNCHANGED <<file, op, errs, had>>
<1>1. /\ step' = "deregister" /\ conf' \in {conf, conf \cup {g}}
      /\ UNCHANGED <<file, op, errs, had, lb, cluster>>
  BY DEF EC2Fails, Goto, call
<1>2. \/ UNCHANGED <<nodes, recorded, vpc, conf, blame>>
      \/ blame' = blame \cup {"left"} \/ blame' = blame \cup {"delete"}
  BY DEF EC2Fails
<1>3. QED BY <1>1, <1>2 DEF Clean, aws

LEMMA EC2CreatesSo ==
  ASSUME NEW g \in Sub, NEW s, EC2Creates(g, s), nodes \in [Sub -> {"none", "some", "up"}]
  PROVE /\ nodes'[g] = "up" /\ \A h \in Sub \ {g} : nodes'[h] = nodes[h]
        /\ vpc' /\ conf' = conf \cup {g} /\ step' = s
        /\ UNCHANGED <<lb, file, op, errs, had>>
        /\ Has(g)' /\ \A h \in Sub : Has(h) => Has(h)'
        /\ blame' = {} => blame = {} /\ recorded' = recorded \cup NodesOf(g)
<1>1. PICK up \in SUBSET NodesOf(g) :
        /\ recorded' = (recorded \ NodesOf(g)) \cup up
        /\ blame' = IF up = NodesOf(g) THEN blame ELSE blame \cup {"slow"}
  BY DEF EC2Creates
<1>2. CASE up = NodesOf(g)
  <2>1. recorded' = recorded \cup NodesOf(g) /\ blame' = blame
    BY <1>1, <1>2
  <2>2. QED BY <2>1 DEF EC2Creates, Goto, call, Has, NodesOf
<1>3. CASE up # NodesOf(g)
  <2>1. "slow" \in blame'
    BY <1>1, <1>3
  <2>2. QED BY <2>1 DEF EC2Creates, Goto, call, Has
<1>4. QED BY <1>2, <1>3

LEMMA BlamedKeeps ==
  ASSUME IInv, step' = "deregister", op' = "Create", ~errs', blame' # {},
         "masters" \in conf' \/ conf' = conf, conf \subseteq conf', file' = file
  PROVE ControlInv' /\ RecordInv' /\ TerminateInv' /\ MadeInv'
        /\ RollbackInv' /\ CreateMeansJoined'
<1> USE DEF CreateSteps, TerminateSteps
<1>1. ControlInv' /\ RecordInv' /\ TerminateInv' /\ CreateMeansJoined'
  BY DEF IInv, RecordInv, ControlInv, TerminateInv, CreateMeansJoined, Returns
<1>2. MadeInv' /\ RollbackInv'
  BY DEF MadeInv, RollbackInv, WithMasters, WithWorkers, WithLB, Registered
<1>3. QED BY <1>1, <1>2

LEMMA MastersKeep ==
  ASSUME IInv, CreateMasters
  PROVE ControlInv' /\ RecordInv' /\ TerminateInv' /\ MadeInv'
        /\ RollbackInv' /\ CreateMeansJoined'
<1> USE DEF CreateSteps, TerminateSteps
<1>1. op = "Create" /\ ~errs /\ conf = {} /\ Nothing /\ step = "masters"
  BY DEF IInv, ControlInv, RecordInv, CreateMasters
<1>2. CASE Clean
  <2>2. ControlInv' /\ RecordInv' /\ TerminateInv' /\ CreateMeansJoined'
    BY <1>1, <1>2 DEF IInv, RecordInv, ControlInv, TerminateInv,
                      CreateMeansJoined, Returns, Clean
  <2>3. MadeInv'
    BY <1>2 DEF MadeInv, WithMasters, WithWorkers, WithLB, Registered, Clean
  <2>4. RollbackInv'
    BY <1>1, <1>2 DEF RollbackInv, Known, Stray, Nothing, Sub, Clean, aws, WithMasters
  <2>5. QED BY <2>2, <2>3, <2>4
<1>3. CASE EC2Creates("masters", "flagMasters")
  <2>1. /\ nodes'["masters"] = "up" /\ nodes'["workers"] = "none" /\ Has("masters")'
        /\ vpc' /\ lb' = "none" /\ conf' = {"masters"} /\ step' = "flagMasters"
        /\ UNCHANGED <<op, errs, file>>
        /\ blame' = {} => NodesOf("masters") \subseteq recorded'
    BY <1>1, <1>3, EC2CreatesSo DEF Nothing, Sub, IInv, TypeOK
  <2>2. ControlInv' /\ RecordInv' /\ TerminateInv' /\ CreateMeansJoined'
    BY <1>1, <2>1 DEF IInv, RecordInv, ControlInv, TerminateInv,
                      CreateMeansJoined, Returns
  <2>3. MadeInv'
    BY <2>1 DEF MadeInv, WithMasters, WithWorkers, WithLB, Registered
  <2>4. RollbackInv'
    BY <1>1, <2>1 DEF RollbackInv, Known, Stray, WithMasters
  <2>5. QED BY <2>2, <2>3, <2>4
<1>4. CASE EC2Fails("masters") /\ ~Clean
  BY <1>1, <1>4, EC2FailsSo, BlamedKeeps
<1>5. QED BY <1>2, <1>3, <1>4 DEF CreateMasters, EC2Create

LEMMA MastersAgainKeep ==
  ASSUME IInv, CreateMastersAgain
  PROVE ControlInv' /\ RecordInv' /\ TerminateInv' /\ MadeInv'
        /\ RollbackInv' /\ CreateMeansJoined'
<1> USE DEF CreateSteps, TerminateSteps
<1>1. op' = "Create" /\ step' = "deregister" /\ blame' # {} /\ UNCHANGED <<conf, file>>
  BY DEF IInv, ControlInv, CreateMastersAgain, Fail, Goto, call
<1>2. ControlInv' /\ RecordInv' /\ TerminateInv' /\ CreateMeansJoined'
  BY <1>1 DEF IInv, RecordInv, ControlInv, TerminateInv, CreateMeansJoined, Returns
<1>3. MadeInv' /\ RollbackInv'
  BY <1>1 DEF MadeInv, RollbackInv, WithMasters, WithWorkers, WithLB, Registered
<1>4. QED BY <1>2, <1>3

LEMMA WorkersKeep ==
  ASSUME IInv, CreateWorkers
  PROVE ControlInv' /\ RecordInv' /\ TerminateInv' /\ MadeInv'
        /\ RollbackInv' /\ CreateMeansJoined'
<1> USE DEF CreateSteps, TerminateSteps
<1>1. op = "Create" /\ step = "workers" /\ "masters" \in conf
      /\ nodes["masters"] = "up" /\ nodes \in [Sub -> {"none", "some", "up"}]
  BY DEF IInv, TypeOK, ControlInv, MadeInv, WithMasters, CreateWorkers
<1>2. CASE Clean
  BY <1>1, <1>2, CleanKeeps
<1>3. CASE EC2Creates("workers", "flagWorkers")
  <2>1. /\ nodes'["masters"] = "up" /\ nodes'["workers"] = "up"
        /\ Has("workers")' /\ (Has("masters") => Has("masters")')
        /\ vpc' /\ conf' = conf \cup {"workers"} /\ step' = "flagWorkers"
        /\ UNCHANGED <<lb, file, op, errs>>
        /\ blame' = {} => blame = {} /\ recorded' = recorded \cup NodesOf("workers")
    BY <1>1, <1>3, EC2CreatesSo DEF Sub
  <2>2. ControlInv' /\ RecordInv' /\ TerminateInv' /\ CreateMeansJoined'
    BY <1>1, <2>1 DEF IInv, RecordInv, ControlInv, TerminateInv,
                      CreateMeansJoined, Returns
  <2>3. MadeInv'
    BY <1>1, <2>1 DEF IInv, MadeInv, WithMasters, WithWorkers, WithLB, Registered
  <2>4. RollbackInv'
    BY <1>1, <2>1 DEF IInv, RollbackInv, Known, Stray, WithMasters
  <2>5. QED BY <2>2, <2>3, <2>4
<1>4. CASE EC2Fails("workers") /\ ~Clean
  <2>1. ~errs
    BY <1>1 DEF IInv, ControlInv
  <2>2. QED BY <1>1, <1>4, <2>1, EC2FailsSo, BlamedKeeps
<1>5. QED BY <1>2, <1>3, <1>4 DEF CreateWorkers, EC2Create

(* A step of Create after the instances: it changes the load balancer, the *)
(* records or the cluster, and goes on.                                    *)
LEMMA LaterKeep ==
  ASSUME IInv, UNCHANGED <<nodes, recorded, vpc, op, errs, had, blame>>,
         step \in WithMasters, step' \in WithMasters,
         conf \subseteq conf', file' = conf' \/ file' = file,
         MadeInv', lb' # "none" => "lb" \in conf' \/ step' = "flagLB",
         step' \in {"flagMasters", "workers", "flagWorkers", "validate", "lb"}
           => step \in {"flagMasters", "workers", "flagWorkers", "validate", "lb"}
              /\ lb' = lb,
         step' \in {"flagMasters", "workers"} => step \in {"flagMasters", "workers"}
  PROVE ControlInv' /\ RecordInv' /\ TerminateInv' /\ MadeInv'
        /\ RollbackInv' /\ CreateMeansJoined'
<1> USE DEF CreateSteps, TerminateSteps, WithMasters
<1>1. op = "Create" /\ "masters" \in conf
  BY DEF IInv, ControlInv, MadeInv
<1>2. ControlInv' /\ RecordInv' /\ TerminateInv' /\ CreateMeansJoined'
  BY <1>1 DEF IInv, RecordInv, ControlInv, TerminateInv, CreateMeansJoined, Returns
<1>3. RollbackInv'
  BY <1>1 DEF IInv, RollbackInv, Known, Stray
<1>4. QED BY <1>2, <1>3

LEMMA FlagsKeep ==
  ASSUME IInv, FlagMasters \/ FlagWorkers \/ Validate
  PROVE ControlInv' /\ RecordInv' /\ TerminateInv' /\ MadeInv'
        /\ RollbackInv' /\ CreateMeansJoined'
<1>1. CASE StepFails /\ step = "validate"
  BY <1>1, StepFailsClean, CleanKeeps DEF CreateSteps
<1>2. ASSUME NEW a, NEW b, Flag(a, b),
             <<a, b>> \in {<<"flagMasters", "workers">>,
                           <<"flagWorkers", "validate">>, <<"validate", "lb">>}
      PROVE ControlInv' /\ RecordInv' /\ TerminateInv' /\ MadeInv'
            /\ RollbackInv' /\ CreateMeansJoined'
  <2>1. UNCHANGED <<nodes, recorded, vpc, lb, conf, op, errs, had, blame>> /\ file' = conf'
        /\ step = a /\ step' = b
    BY <1>2 DEF Flag, Sync, Goto, call, aws
  <2>2. MadeInv'
    BY <1>2, <2>1 DEF IInv, MadeInv, Has, WithMasters, WithWorkers, WithLB,
                      Registered, CreateSteps
  <2>3. op = "Create" /\ ~errs
    BY <1>2, <2>1 DEF IInv, ControlInv, CreateSteps
  <2>4. ControlInv' /\ RecordInv' /\ TerminateInv' /\ CreateMeansJoined'
    BY <1>2, <2>1, <2>3 DEF IInv, RecordInv, ControlInv, TerminateInv,
                      CreateMeansJoined, Returns, TerminateSteps
  <2>5. RollbackInv'
    BY <1>2, <2>1, <2>3 DEF IInv, RollbackInv, Known, Stray, WithMasters, CreateSteps
  <2>6. QED BY <2>2, <2>4, <2>5
<1>3. QED BY <1>1, <1>2 DEF FlagMasters, FlagWorkers, Validate

LEMMA LoadBalancerKeep ==
  ASSUME IInv, CreateLoadBalancer \/ FlagLoadBalancer \/ RegisterInstances
  PROVE ControlInv' /\ RecordInv' /\ TerminateInv' /\ MadeInv'
        /\ RollbackInv' /\ CreateMeansJoined'
<1> USE DEF CreateSteps, WithMasters, WithWorkers, WithLB, Registered
<1>0. step \in WithWorkers /\ "masters" \in conf /\ "workers" \in conf
      /\ nodes["masters"] = "up" /\ nodes["workers"] = "up"
      /\ Has("masters") /\ Has("workers")
  BY DEF IInv, MadeInv, CreateLoadBalancer, FlagLoadBalancer, RegisterInstances
<1>1. CASE StepFails /\ step \in {"lb", "register"}
  BY <1>1, StepFailsClean, CleanKeeps
<1>2. CASE CreateLoadBalancer /\ ~StepFails
  <2>1. step = "lb" /\ step' = "flagLB" /\ UNCHANGED <<nodes, recorded, vpc, conf, file>>
        /\ UNCHANGED <<op, errs, had, blame>>
    BY <1>2 DEF CreateLoadBalancer, Goto, call
  <2>2. MadeInv'
    BY <1>0, <2>1 DEF MadeInv, Has
  <2>3. QED BY <2>1, <2>2, LaterKeep
<1>3. CASE FlagLoadBalancer
  <2>1. step = "flagLB" /\ step' = "register" /\ UNCHANGED <<nodes, recorded, vpc, lb>>
        /\ conf' = conf \cup {"lb"} /\ file' = conf'
        /\ UNCHANGED <<op, errs, had, blame>>
    BY <1>3 DEF FlagLoadBalancer, Goto, call, aws, Sync
  <2>2. MadeInv'
    BY <1>0, <2>1 DEF MadeInv, Has
  <2>3. QED BY <2>1, <2>2, LaterKeep
<1>4. CASE RegisterInstances /\ ~StepFails
  <2>1. step = "register" /\ step' = "kubeletMasters" /\ UNCHANGED <<nodes, recorded, vpc>>
        /\ lb' = "registered" /\ conf' = conf \cup {"registered"} /\ file' = conf'
        /\ UNCHANGED <<op, errs, had, blame>>
    BY <1>4 DEF RegisterInstances, Goto, call, Sync
  <2>2. "lb" \in conf
    BY <2>1 DEF IInv, MadeInv
  <2>3. MadeInv'
    BY <1>0, <2>1, <2>2 DEF MadeInv, Has
  <2>4. QED BY <2>1, <2>2, <2>3, LaterKeep
<1>5. QED
  BY <1>1, <1>2, <1>3, <1>4 DEF CreateLoadBalancer, RegisterInstances

LEMMA ClusterKeep ==
  ASSUME IInv, KubeletMasters \/ KubeadmInit \/ KubeletWorkers \/ KubeadmJoin
  PROVE ControlInv' /\ RecordInv' /\ TerminateInv' /\ MadeInv'
        /\ RollbackInv' /\ CreateMeansJoined'
<1> USE DEF CreateSteps, WithMasters, WithWorkers, WithLB, Registered
<1>0. step \in {"kubeletMasters", "init", "kubeletWorkers", "join"}
  BY DEF KubeletMasters, Kubelet, KubeadmInit, KubeletWorkers, KubeadmJoin
<1>1. /\ nodes["masters"] = "up" /\ nodes["workers"] = "up" /\ lb = "registered"
      /\ {"masters", "workers", "lb", "registered"} \subseteq conf
      /\ Has("masters") /\ Has("workers")
  BY <1>0 DEF IInv, MadeInv
<1>2. CASE Clean
  BY <1>0, <1>2, CleanKeeps
<1>3. CASE ~Clean
  <2>0. ~StepFails /\ ~(Fail /\ UNCHANGED <<aws, blame>>)
    BY <1>3, StepFailsClean DEF Fail, Goto, call, Clean
  <2>1. UNCHANGED <<nodes, recorded, vpc, lb, conf, file, op, errs, had, blame>>
    BY <2>0 DEF KubeletMasters, Kubelet, KubeadmInit, KubeletWorkers,
                KubeadmJoin, aws, call, Goto
  <2>2. CASE KubeletMasters \/ KubeletWorkers
    <3>1. \/ step' = step
          \/ step = "kubeletMasters" /\ step' = "init" /\ Masters \cap recorded \subseteq kubelet
          \/ step = "kubeletWorkers" /\ step' = "join" /\ Workers \cap recorded \subseteq kubelet
      BY <2>0, <2>2 DEF KubeletMasters, KubeletWorkers, Kubelet, Goto
    <3>2. kubelet \subseteq kubelet' /\ UNCHANGED <<inited, joined>>
      BY <2>0, <2>2 DEF KubeletMasters, KubeletWorkers, Kubelet, Goto, cluster
    <3>3. MadeInv'
      BY <1>0, <1>1, <2>1, <3>1, <3>2 DEF IInv, MadeInv, Has
    <3>4. QED BY <1>0, <1>1, <2>1, <3>1, <3>3, LaterKeep
  <2>3. CASE KubeadmInit
    <3>1. step = "init" /\ step' = "kubeletWorkers"
          /\ (inited' # {} \/ Masters \cap recorded = {})
          /\ UNCHANGED <<kubelet, joined>>
      BY <2>0, <2>3 DEF KubeadmInit, Goto, cluster
    <3>2. MadeInv'
      BY <1>1, <2>1, <3>1 DEF IInv, MadeInv, Has
    <3>3. QED BY <1>1, <2>1, <3>1, <3>2, LaterKeep
  <2>4. CASE KubeadmJoin
    <3>1. step = "join" /\ UNCHANGED <<kubelet, inited>>
          /\ \/ step' = step
             \/ step' = "fetch" /\ Workers \cap recorded \subseteq joined'
      <4>0. step = "join"
        BY <2>4 DEF KubeadmJoin
      <4>1. CASE UNCHANGED <<kubelet, inited, step>>
        BY <4>0, <4>1
      <4>2. CASE Workers \cap recorded \subseteq joined /\ Goto("fetch") /\ UNCHANGED cluster
        BY <4>0, <4>2 DEF Goto, cluster
      <4>3. QED BY <2>0, <2>4, <4>1, <4>2 DEF KubeadmJoin
    <3>2. MadeInv'
      BY <1>1, <2>1, <3>1 DEF IInv, MadeInv, Has
    <3>3. QED BY <1>1, <2>1, <3>1, <3>2, LaterKeep
  <2>5. QED BY <2>2, <2>3, <2>4
<1>4. QED BY <1>2, <1>3

(* The last step: Sync, and Create returns.                                *)
LEMMA FetchKeep ==
  ASSUME IInv, FetchKubeconfig
  PROVE ControlInv' /\ RecordInv' /\ TerminateInv' /\ MadeInv'
        /\ RollbackInv' /\ CreateMeansJoined'
<1> USE DEF CreateSteps, WithMasters, WithWorkers, WithLB, Registered
<1>1. step = "fetch" /\ op = "Create"
  BY DEF FetchKubeconfig, IInv, ControlInv
<1>2. CASE Fail
  <2>1. Clean
    BY <1>2 DEF FetchKubeconfig, Fail, Goto, call, Clean
  <2>2. QED BY <1>1, <2>1, CleanKeeps
<1>3. CASE ~Fail
  <2>1. admin' = inited /\ (inited # {} \/ Masters \cap recorded = {})
    BY <1>3 DEF FetchKubeconfig
  <2>2. UNCHANGED <<nodes, recorded, vpc, lb, conf, kubelet, inited, joined, op, errs,
                    had, blame>>
        /\ file' = conf /\ step' = "idle"
    BY <1>3 DEF FetchKubeconfig, aws, Sync, Goto, call
  <2>3. admin' = inited' /\ (inited' # {} \/ Masters \cap recorded' = {})
    BY <2>1, <2>2
  <2>4. nodes' = [g \in Sub |-> "up"]
    BY <1>1, <2>2 DEF IInv, TypeOK, MadeInv, Sub
  <2>5. recorded' \subseteq kubelet' /\ Workers \cap recorded' \subseteq joined'
        /\ lb' = "registered"
    BY <1>1, <2>2 DEF IInv, TypeOK, MadeInv
  <2>12. recorded' = Masters \cup Workers \/ "slow" \in blame'
    BY <1>1, <2>2 DEF IInv, TypeOK, MadeInv, Has, NodesOf
  <2>6. file' = Named
    BY <1>1, <2>2 DEF IInv, TypeOK, MadeInv, Named, Sub
  <2>7. CreateMeansJoined'
    BY <2>3, <2>4, <2>5, <2>6, <2>12 DEF CreateMeansJoined
  <2>8. ControlInv' /\ RecordInv' /\ TerminateInv' /\ MadeInv'
    BY <1>1, <2>2 DEF IInv, ControlInv, RecordInv, TerminateInv, MadeInv, TerminateSteps
  <2>9. ~errs'
    BY <1>1, <2>2 DEF IInv, ControlInv
  <2>10. RollbackInv'
    BY <2>2, <2>9 DEF RollbackInv, TerminateSteps
  <2>11. QED BY <2>7, <2>8, <2>10
<1>4. QED BY <1>2, <1>3

-----------------------------------------------------------------------------
(* The processes.                                                          *)
LEMMA ProcessKeep ==
  ASSUME IInv, NewDeployer \/ Exit \/ Crash \/ Create \/ Terminate
  PROVE ControlInv' /\ RecordInv' /\ TerminateInv' /\ MadeInv'
        /\ RollbackInv' /\ CreateMeansJoined'
<1> USE DEF CreateSteps, TerminateSteps, WithMasters, WithWorkers, WithLB, Registered
<1>1. CASE NewDeployer
  <2>1. step' = "idle" /\ op' = "none" /\ conf' = file /\ file' = file
    BY <1>1 DEF NewDeployer, Sync
  <2>2. QED
    BY <2>1 DEF IInv, ControlInv, RecordInv, TerminateInv, MadeInv, RollbackInv,
                CreateMeansJoined, Returns
<1>2. CASE Exit \/ Crash
  <2>1. step' = "off" /\ UNCHANGED <<conf, file>>
    BY <1>2 DEF Exit, Crash
  <2>2. QED
    BY <2>1 DEF IInv, ControlInv, RecordInv, TerminateInv, MadeInv, RollbackInv,
                CreateMeansJoined, Returns
<1>3. CASE Create
  <2>1. step' = "masters" /\ op' = "Create" /\ errs' = FALSE /\ UNCHANGED <<conf, file>>
    BY <1>3 DEF Create, Begin
  <2>2. QED
    BY <2>1 DEF IInv, ControlInv, RecordInv, TerminateInv, MadeInv, RollbackInv,
                CreateMeansJoined, Returns
<1>4. CASE Terminate
  <2>1. step' = "deregister" /\ op' = "Terminate" /\ UNCHANGED <<conf, file>>
    BY <1>4 DEF Terminate, Begin
  <2>2. had' => "masters" \in conf
    BY <1>4 DEF Terminate, Begin
  <2>3. QED
    BY <2>1, <2>2 DEF IInv, ControlInv, RecordInv, TerminateInv, MadeInv, RollbackInv,
                CreateMeansJoined, Returns
<1>5. QED BY <1>1, <1>2, <1>3, <1>4

-----------------------------------------------------------------------------
(* terminate().                                                            *)

(* A step before the last: no new record is made, those of the instances   *)
(* stay.                                                                   *)
Tearing ==
  /\ step \in TerminateSteps /\ step' \in TerminateSteps
  /\ conf' \subseteq conf /\ conf \cap Sub \subseteq conf' /\ file' = file
  /\ UNCHANGED <<op, had>>

LEMMA TearingKeeps ==
  ASSUME IInv, Tearing
  PROVE ControlInv' /\ RecordInv' /\ TerminateInv' /\ MadeInv' /\ CreateMeansJoined'
<1> USE DEF CreateSteps, TerminateSteps, WithMasters, WithWorkers, WithLB, Registered
<1>1. ControlInv' /\ MadeInv' /\ CreateMeansJoined'
  BY DEF Tearing, ControlInv, MadeInv, CreateMeansJoined, Returns
<1>2. RecordInv'
  BY DEF Tearing, IInv, RecordInv, Sub
<1>3. TerminateInv'
  BY DEF Tearing, IInv, TerminateInv, Sub
<1>4. QED BY <1>1, <1>2, <1>3

LEMMA TearingKeep ==
  ASSUME IInv, Deregister \/ DeleteLoadBalancer \/ TerminateWorkers
  PROVE ControlInv' /\ RecordInv' /\ TerminateInv' /\ MadeInv'
        /\ RollbackInv' /\ CreateMeansJoined'
<1> USE DEF TerminateSteps
<1>1. Tearing
  BY DEF Deregister, DeleteLoadBalancer, TerminateWorkers, Tearing, Goto, call, Sub
<1>2. RollbackInv'
  <2>1. SUFFICES ASSUME op = "Create", blame' = {}
                 PROVE /\ Known'
                       /\ step' \in {"workersDown", "mastersDown"} => lb' = "none"
                       /\ step' = "mastersDown" => nodes'["workers"] = "none"
    BY <1>1 DEF RollbackInv, Tearing
  <2>2. blame = {}
    BY <2>1 DEF Deregister, DeleteLoadBalancer, TerminateWorkers, Lost
  <2>8. recorded' = recorded
    BY DEF Deregister, DeleteLoadBalancer, TerminateWorkers
  <2>3. Known /\ (step \in {"workersDown", "mastersDown"} => lb = "none")
    BY <1>1, <2>1, <2>2 DEF IInv, RollbackInv, Tearing
  <2>4. CASE Deregister
    <3>1. step = "deregister" /\ step' = "deleteLB" /\ UNCHANGED <<nodes, vpc>>
          /\ conf' = conf \ {"registered"} /\ (lb = "none" => lb' = "none")
      BY <2>4 DEF Deregister, Goto
    <3>2. QED BY <2>3, <2>8, <3>1 DEF Known, Stray
  <2>5. CASE DeleteLoadBalancer
    <3>1. step = "deleteLB" /\ step' = "workersDown" /\ UNCHANGED <<nodes, vpc>>
          /\ conf' = conf \ {"lb"}
      BY <2>5 DEF DeleteLoadBalancer, Goto
    <3>2. lb' = "none"
      BY <2>1, <2>3, <2>5, <3>1 DEF DeleteLoadBalancer, Known
    <3>3. QED BY <2>3, <2>8, <3>1, <3>2 DEF Known, Stray
  <2>6. CASE TerminateWorkers
    <3>1. step = "workersDown" /\ step' = "mastersDown" /\ UNCHANGED <<vpc, lb, conf>>
      BY <2>6 DEF TerminateWorkers
    <3>2. nodes \in [Sub -> {"none", "some", "up"}]
      BY DEF IInv, TypeOK
    <3>3. PICK e \in BOOLEAN :
            /\ IF "workers" \in conf
               THEN \/ /\ ~Stray("workers")
                       /\ ~e /\ nodes' = [nodes EXCEPT !["workers"] = "none"]
                    \/ /\ Stray("workers")
                       /\ e /\ nodes' = [nodes EXCEPT !["workers"] = "some"]
                    \/ /\ DeleteFails \/ nodes["workers"] = "none"
                       /\ e /\ UNCHANGED nodes
               ELSE UNCHANGED nodes
            /\ Lost(e)
      BY <2>6 DEF TerminateWorkers
    <3>4. ~(e /\ DeleteFails)
      BY <2>1, <3>3 DEF Lost
    <3>5. nodes'["workers"] = "none" /\ nodes'["masters"] = nodes["masters"]
      BY <2>3, <3>2, <3>3, <3>4 DEF Known, Sub
    <3>6. QED BY <2>3, <2>8, <3>1, <3>5 DEF Known, Stray
  <2>7. QED BY <2>4, <2>5, <2>6
<1>3. QED BY <1>1, <1>2, TearingKeeps

(* The masters' Terminate: nil only when the VPC could go, which takes     *)
(* that no load balancer and no worker is in it.                           *)
LEMMA TerminateMastersKeep ==
  ASSUME IInv, TerminateMasters
  PROVE ControlInv' /\ RecordInv' /\ TerminateInv' /\ MadeInv'
        /\ RollbackInv' /\ CreateMeansJoined'
<1> USE DEF CreateSteps, TerminateSteps, WithMasters, WithWorkers, WithLB, Registered
<1>1. PICK e \in BOOLEAN :
        /\ IF "masters" \in conf
           THEN \/ /\ vpc /\ ~InVPC /\ ~Stray("masters") /\ ~e /\ vpc' = FALSE
                   /\ nodes' = [nodes EXCEPT !["masters"] = "none"]
                \/ /\ ~vpc \/ InVPC \/ Stray("masters") \/ DeleteFails
                   /\ e /\ UNCHANGED vpc
                   /\ nodes' \in {[nodes EXCEPT !["masters"] =
                                      IF Stray("masters") THEN "some" ELSE "none"]}
                        \cup (IF DeleteFails THEN {nodes} ELSE {})
           ELSE UNCHANGED <<nodes, vpc>>
        /\ Lost(e)
        /\ errs' = (op = "Create" \/ fails \/ e)
  BY DEF TerminateMasters
<1>2. step = "mastersDown" /\ step' = "idle" /\ UNCHANGED <<lb, conf, file, op, had>>
  BY DEF TerminateMasters, call
<1>3. ControlInv' /\ RecordInv' /\ MadeInv'
  BY <1>2 DEF IInv, ControlInv, RecordInv, MadeInv
<1>4. nodes \in [Sub -> {"none", "some", "up"}]
  BY DEF IInv, TypeOK
<1>5. ASSUME "masters" \in conf, ~e PROVE Nothing'
  BY <1>1, <1>2, <1>4, <1>5 DEF InVPC, Nothing, Sub
<1>6. errs' = (op = "Create" \/ fails \/ e)
  BY <1>1
<1>7. op = "Create" => errs'
  BY <1>6
<1>8. CreateMeansJoined'
  BY <1>2, <1>7 DEF CreateMeansJoined, Returns
<1>9. TerminateInv'
  <2>1. SUFFICES ASSUME op = "Terminate", ~errs', had PROVE Nothing'
    BY <1>2 DEF TerminateInv
  <2>2. "masters" \in conf /\ ~e
    BY <1>2, <1>6, <2>1 DEF IInv, TerminateInv
  <2>3. QED BY <1>5, <2>2
<1>10. RollbackInv'
  <2>1. SUFFICES ASSUME op = "Create", blame' = {} PROVE Nothing'
    BY <1>2 DEF RollbackInv
  <2>2. blame = {} /\ ~(e /\ DeleteFails)
    BY <1>1, <2>1 DEF Lost
  <2>3. Known /\ lb = "none" /\ nodes["workers"] = "none"
    BY <1>2, <2>1, <2>2 DEF IInv, RollbackInv
  <2>4. CASE "masters" \in conf
    <3>1. vpc /\ ~InVPC /\ ~Stray("masters")
      BY <2>3, <2>4 DEF Known, InVPC
    <3>2. ~e
      BY <1>1, <2>2, <2>4, <3>1
    <3>3. QED BY <1>5, <2>4, <3>2
  <2>5. CASE "masters" \notin conf
    BY <1>1, <1>2, <1>4, <2>3, <2>5 DEF Known, Nothing, Sub
  <2>6. QED BY <2>4, <2>5
<1>11. QED BY <1>3, <1>8, <1>9, <1>10

-----------------------------------------------------------------------------
LEMMA NextIInv == IInv /\ [Next]_vars => IInv'
<1> SUFFICES ASSUME IInv, [Next]_vars PROVE IInv'
  OBVIOUS
<1>1. TypeOK'
  BY NextTypeOK
<1>2. ControlInv' /\ RecordInv' /\ TerminateInv' /\ MadeInv'
      /\ RollbackInv' /\ CreateMeansJoined'
  <2>1. CASE UNCHANGED vars
    BY <2>1 DEF vars, IInv, ControlInv, RecordInv, TerminateInv, MadeInv,
                RollbackInv, Known, Stray, Has, CreateMeansJoined, Returns, Nothing
  <2>2. CASE Next
    BY <2>2, MastersKeep, MastersAgainKeep, WorkersKeep, FlagsKeep,
       LoadBalancerKeep, ClusterKeep, FetchKeep, ProcessKeep, TearingKeep,
       TerminateMastersKeep DEF Next
  <2>3. QED BY <2>1, <2>2
<1>3. QED BY <1>1, <1>2 DEF IInv

LEMMA SpecIInv == Spec => []IInv
<1>1. QED BY InitIInv, NextIInv, PTL DEF Spec

(* Every variable keeps its type, for any nodes, faults and operations.    *)
THEOREM KubeadmTypeCorrect == Spec => []TypeOK
<1>1. IInv => TypeOK
  BY DEF IInv
<1>2. QED BY <1>1, SpecIInv, PTL

(* Terminate that returns nil, with masters recorded as it was called, has *)
(* left no instance, no load balancer and not the VPC of that cluster,     *)
(* although it drops the errors of the load balancer and does not know of  *)
(* nodes that were never recorded.                                         *)
THEOREM TerminateLeavesNothing == Spec => []TerminateMeansGone
<1>1. IInv => TerminateMeansGone
  BY DEF IInv, TerminateInv, TerminateMeansGone, Returns
<1>2. QED BY <1>1, SpecIInv, PTL

(* A Create that fails has undone everything, unless something in Cause    *)
(* happened: an EC2 deployer's Create left what nobody deletes, its polling *)
(* ended early, a deletion failed too, an earlier process had created      *)
(* something, or one died.  Errors of the load balancer's creation, of the *)
(* nodes' commands and of kubeadm are not among them.                      *)
THEOREM CreateRollsBack == Spec => []RollsBackEverything
<1>1. IInv => RollsBackEverything
  BY DEF IInv, RollbackInv, RollsBackEverything, Returns
<1>2. QED BY <1>1, SpecIInv, PTL

(* A Create that returns nil has launched every node, has started, joined  *)
(* and recorded all that ran by the deadline of the EC2 deployer, which is *)
(* every node if polling was not cut short, and has it all in the file.    *)
THEOREM CreateJoins == Spec => []CreateMeansJoined
<1>1. IInv => CreateMeansJoined
  BY DEF IInv
<1>2. QED BY <1>1, SpecIInv, PTL
=============================================================================

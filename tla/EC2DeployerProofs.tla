-------------------------- MODULE EC2DeployerProofs --------------------------
(***************************************************************************)
(* Proofs about EC2Deployer, for every choice of Faults, of the cluster    *)
(* size, of the batch and of the bounds: the configuration keeps its       *)
(* shape, and a VPC that was there before stays.                           *)
(***************************************************************************)
EXTENDS EC2Deployer, FiniteSetTheorems, TLAPS

(* Delete decrements ClusterSize only when an instance was recorded.       *)
DeleteInv == at = "deleteWait" => cfg.ClusterSize # 0

VPCStep == {"attrs", "igw", "attach", "routes", "mark", "subnets",
            "delsubnets", "detach", "deligw", "delvpc"}

(* With a VPC of the user's, memory and file have its ID and never the     *)
(* flag, so that the steps that make or delete a VPC are not reached.      *)
GivenInv ==
  given =>
    /\ cfg.VPCID /\ ~cfg.VPCCreated
    /\ disk.VPCID /\ ~disk.VPCCreated
    /\ at \notin VPCStep

IInv == TypeOK /\ DeleteInv /\ GivenInv /\ ExistingVPCKept

-----------------------------------------------------------------------------
(* Numbers.                                                                *)
LEMMA IdFinite == ASSUME NEW S \in SUBSET Id PROVE IsFiniteSet(S)
<1>1. IsFiniteSet(1..MaxInstances)
  BY MaxInstancesAssumption, FS_Interval
<1>2. QED BY <1>1, FS_Subset DEF Id

LEMMA SubnetFinite == ASSUME NEW S \in SUBSET Subnet PROVE IsFiniteSet(S)
<1>1. IsFiniteSet(Subnet)
  <2>1. Subnet = (({} \cup {"a"}) \cup {"b"}) \cup {"c"}
    BY DEF Subnet
  <2>2. IsFiniteSet({})
    BY FS_EmptySet
  <2>3. IsFiniteSet({} \cup {"a"})
    BY <2>2, FS_AddElement
  <2>4. IsFiniteSet(({} \cup {"a"}) \cup {"b"})
    BY <2>3, FS_AddElement
  <2>5. IsFiniteSet((({} \cup {"a"}) \cup {"b"}) \cup {"c"})
    BY <2>4, FS_AddElement
  <2>6. QED BY <2>1, <2>5
<1>2. QED BY <1>1, FS_Subset

(* A subset of the identifiers that is not empty has not zero elements.    *)
LEMMA RecordedNotZero ==
  ASSUME NEW S \in SUBSET Id, NEW i \in S PROVE Cardinality(S) # 0
  BY IdFinite, FS_EmptySet

(* The size of a group is a number: where there are subnets the division   *)
(* is defined.                                                             *)
LEMMA AllocNat ==
  ASSUME TypeOK, cfg.SubnetIDs # {} PROVE Alloc \in Nat
<1>1. cfg.ClusterSize \in Nat /\ cfg.SubnetIDs \in SUBSET Subnet
  BY DEF TypeOK, Config
<1>2. IsFiniteSet(cfg.SubnetIDs)
  BY <1>1, SubnetFinite
<1>3. Cardinality(cfg.SubnetIDs) \in Nat /\ Cardinality(cfg.SubnetIDs) # 0
  BY <1>2, FS_CardinalityType, FS_EmptySet
<1> DEFINE n == Cardinality(cfg.SubnetIDs)
<1>4. n \in Nat /\ n > 0
  BY <1>3
<1> HIDE DEF n
<1>5. cfg.ClusterSize \div n \in Nat
  BY <1>1, <1>4
<1>6. QED BY <1>5 DEF Alloc, n

-----------------------------------------------------------------------------
(* Shared steps.                                                           *)

(* A file that is written from memory, or not at all, keeps its shape.     *)
LEMMA SyncTyped ==
  ASSUME TypeOK, cfg' \in Config, Sync \/ UNCHANGED disk
  PROVE  disk' \in Config
  BY DEF TypeOK, Sync

(* What the steps of Create leave typed when AWS and the sizes of the      *)
(* groups are left alone.                                                  *)
LEMMA PlainTyped ==
  ASSUME TypeOK, cfg' \in Config, Sync \/ UNCHANGED disk,
         cloud' \subseteq Resource, UNCHANGED <<inst, given, plan, stopped, ops>>,
         at' \in Step, op' = op, errs' \in BOOLEAN, interrupted' \in BOOLEAN
  PROVE  TypeOK'
<1>1. disk' \in Config
  BY SyncTyped
<1>2. QED BY <1>1 DEF TypeOK, plan

(* Add and Delete write two fields.                                        *)
LEMMA ResizeTyped ==
  ASSUME NEW c \in Config, NEW S, S \subseteq Id, NEW n \in Nat
  PROVE  [c EXCEPT !.Instances = S, !.ClusterSize = n] \in Config
  BY DEF Config

LEMMA StepFailsTyped ==
  ASSUME TypeOK, NEW p \in BOOLEAN, StepFails(p) PROVE TypeOK'
<1>1. at' \in Step /\ errs' \in BOOLEAN /\ interrupted' \in BOOLEAN
  BY DEF StepFails, Fail, Step, TearStep
<1>2. cfg' \in Config /\ cloud' \subseteq Resource
  BY DEF TypeOK, StepFails, aws
<1>3. UNCHANGED <<inst, given, plan, stopped, ops, op>> /\ Sync
  BY DEF StepFails, Fail, aws, plan
<1>4. QED BY <1>1, <1>2, <1>3, PlainTyped

LEMMA ReturnTyped ==
  ASSUME TypeOK, NEW s \in Step, Return(s)
  PROVE  /\ at' \in {s, "instances"} /\ at' \in Step
         /\ errs' \in BOOLEAN /\ interrupted' \in BOOLEAN
         /\ UNCHANGED <<op, plan, stopped, ops>>
  BY DEF TypeOK, Return, Fail, Goto, Step, TearStep, plan

LEMMA GotoTyped ==
  ASSUME TypeOK, NEW s \in Step, Goto(s)
  PROVE  /\ at' = s /\ errs' \in BOOLEAN /\ interrupted' \in BOOLEAN
         /\ UNCHANGED <<op, stopped, ops>>
  BY DEF TypeOK, Goto

LEMMA ProcessEndsTyped == ASSUME TypeOK, ProcessEnds PROVE TypeOK'
  BY DEF TypeOK, ProcessEnds, Step

LEMMA LaunchTyped ==
  ASSUME TypeOK, NEW n \in Nat, LaunchN(n)
  PROVE  /\ inst' \in [Id -> InstanceState] /\ tokens' \subseteq Id
         /\ UNCHANGED <<cloud, given, waiting>>
<1>1. \A i \in Id : inst'[i] \in InstanceState
  BY DEF TypeOK, LaunchN, InstanceState
<1>2. QED BY <1>1 DEF TypeOK, LaunchN

-----------------------------------------------------------------------------
(* Type correctness, one group of actions at a time.                       *)
LEMMA CreateTypeOK == TypeOK /\ CreateSteps => TypeOK'
<1> SUFFICES ASSUME TypeOK, CreateSteps PROVE TypeOK'
  OBVIOUS
<1> USE DEF aws
<1>a. CreateStep \subseteq Step /\ "torn" \in Step /\ "idle" \in Step
  BY DEF Step, TearStep
<1>b. cfg \in Config /\ cloud \subseteq Resource
  BY DEF TypeOK
<1>1. CASE CreateKeyPair
  <2>1. CASE Return("network") /\ UNCHANGED <<aws, cfg>>
             /\ (Sync \/ UNCHANGED disk)
    BY <1>a, <1>b, <2>1, ReturnTyped, PlainTyped DEF CreateStep
  <2>2. CASE /\ cloud' = cloud \cup {"key"} /\ UNCHANGED <<inst, given, cfg, disk>>
             /\ Goto("keyMade") /\ UNCHANGED plan
    BY <1>a, <1>b, <2>2, GotoTyped, PlainTyped DEF CreateStep, Resource
  <2>3. CASE StepFails("key" \notin cloud)
    BY <2>3, StepFailsTyped
  <2>4. QED BY <1>1, <2>1, <2>2, <2>3 DEF CreateKeyPair
<1>2. CASE KeyPairMade
  <2>1. CASE /\ cfg' = [cfg EXCEPT !.KeyCreated = TRUE]
             /\ Sync /\ UNCHANGED aws /\ Return("network")
    <3>1. cfg' \in Config
      BY <1>b, <2>1 DEF Config
    <3>2. QED BY <1>a, <1>b, <2>1, <3>1, ReturnTyped, PlainTyped DEF CreateStep
  <2>2. QED BY <1>2, <2>1, StepFailsTyped DEF KeyPairMade
<1>3. CASE CreateVPC \/ CreateInternetGateway
  <2>1. ASSUME NEW r \in {"vpc", "igw"}, cloud' = cloud \cup {r},
               \/ cfg' = [cfg EXCEPT !.VPCID = TRUE]
               \/ cfg' = [cfg EXCEPT !.InternetGatewayID = TRUE],
               UNCHANGED <<inst, given, disk, plan>>,
               NEW a \in {"attrs", "attach"}, Goto(a)
        PROVE  TypeOK'
    <3>1. cfg' \in Config
      BY <1>b, <2>1 DEF Config
    <3>2. QED
      BY <1>a, <1>b, <2>1, <3>1, GotoTyped, PlainTyped DEF CreateStep, Resource
  <2>2. QED BY <1>3, <2>1, StepFailsTyped DEF CreateVPC, CreateInternetGateway
<1>4. CASE VPCAttributes \/ AttachInternetGateway \/ AssociatePublicIP
  <2>1. ASSUME cloud' = cloud \/ cloud' = cloud \cup {"attachment"},
               UNCHANGED <<inst, given, cfg, disk, plan>>,
               NEW a \in {"igw", "routes", "sg"}, Goto(a)
        PROVE  TypeOK'
    BY <1>a, <1>b, <2>1, GotoTyped, PlainTyped DEF CreateStep, Resource
  <2>2. QED
    BY <1>4, <2>1, StepFailsTyped
    DEF VPCAttributes, AttachInternetGateway, AssociatePublicIP
<1>5. CASE CreateRoutes \/ InstancesCreated \/ WaitReturns
  <2>1. ASSUME UNCHANGED <<aws, cfg>>, Sync, NEW a \in {"mark", "created"},
               Return(a)
        PROVE  TypeOK'
    BY <1>a, <1>b, <2>1, ReturnTyped, PlainTyped DEF CreateStep
  <2>2. ASSUME UNCHANGED <<aws, cfg, tokens, left, chunk>>, Sync, Goto("wait"),
               waiting' = cfg.Instances
        PROVE  TypeOK'
    <3>1. disk' \in Config /\ waiting' \subseteq Id
      BY <1>b, <2>2, SyncTyped DEF Config
    <3>2. at' \in Step /\ UNCHANGED <<op, errs, interrupted, stopped, ops>>
      BY <1>a, <2>2 DEF Goto, CreateStep
    <3>3. QED BY <2>2, <3>1, <3>2 DEF TypeOK
  <2>3. QED
    BY <1>5, <2>1, <2>2, StepFailsTyped DEF CreateRoutes, InstancesCreated, WaitReturns
<1>6. CASE MarkVPCCreated
  <2>1. cfg' \in Config
    BY <1>b, <1>6 DEF MarkVPCCreated, Config
  <2>2. QED
    BY <1>a, <1>b, <1>6, <2>1, GotoTyped, PlainTyped DEF MarkVPCCreated, CreateStep
<1>7. CASE CreateSubnet
  <2> DEFINE s == NextSubnet(cfg.SubnetIDs)
  <2>1. s \in Subnet
    BY DEF NextSubnet, Subnet
  <2> HIDE DEF s
  <2>2. CASE StepFails(s \notin cloud)
    BY <2>2, StepFailsTyped
  <2>3. CASE /\ cloud' = cloud \cup {s}
             /\ cfg' = [cfg EXCEPT !.SubnetIDs = @ \cup {s}]
             /\ UNCHANGED <<inst, given>>
             /\ IF cfg'.SubnetIDs = Subnet
                THEN Sync /\ Return("sg")
                ELSE UNCHANGED disk /\ Goto("subnets") /\ UNCHANGED plan
    <3>1. cfg' \in Config /\ cloud' \subseteq Resource
      BY <1>b, <2>1, <2>3 DEF Config, Resource
    <3>2. CASE Sync /\ Return("sg")
      BY <1>a, <2>3, <3>1, <3>2, ReturnTyped, PlainTyped DEF CreateStep
    <3>3. CASE UNCHANGED <<disk, plan>> /\ Goto("subnets")
      BY <1>a, <2>3, <3>1, <3>3, GotoTyped, PlainTyped DEF CreateStep
    <3>4. QED BY <2>3, <3>2, <3>3
  <2>4. QED BY <1>7, <2>2, <2>3 DEF CreateSubnet, s
<1>8. CASE GetSubnets
  <2>1. CASE StepFails("vpc" \in cloud /\ cfg.SubnetIDs \subseteq cloud)
    BY <2>1, StepFailsTyped
  <2>2. ASSUME \/ cfg' = [cfg EXCEPT !.SubnetIDs = cloud \cap Subnet] /\ Sync
               \/ UNCHANGED <<cfg, disk>>,
               UNCHANGED aws, Return("associate")
        PROVE  TypeOK'
    <3>1. cfg' \in Config
      BY <1>b, <2>2 DEF Config
    <3>2. QED
      BY <1>a, <1>b, <2>2, <3>1, ReturnTyped, PlainTyped DEF CreateStep
  <2>3. QED BY <1>8, <2>1, <2>2 DEF GetSubnets
<1>9. CASE CreateSecurityGroup
  <2>1. CASE /\ cloud' = cloud \cup {"sg"}
             /\ cfg' = [cfg EXCEPT !.SecurityGroupIDs = TRUE]
             /\ UNCHANGED <<inst, given, disk, plan>> /\ Goto("ingress")
    <3>1. cfg' \in Config
      BY <1>b, <2>1 DEF Config
    <3>2. QED
      BY <1>a, <1>b, <2>1, <3>1, GotoTyped, PlainTyped DEF CreateStep, Resource
  <2>2. QED BY <1>9, <2>1, StepFailsTyped DEF CreateSecurityGroup
<1>10. CASE AuthorizeIngress
  <2>1. CASE Goto("run") /\ tokens' = {} /\ left' = cfg.ClusterSize
             /\ chunk' = 0 /\ UNCHANGED <<aws, cfg, waiting>> /\ Sync
    BY <1>a, <2>1, GotoTyped, SyncTyped DEF TypeOK, Config, CreateStep
  <2>2. CASE Fail /\ UNCHANGED <<aws, cfg>> /\ Sync
    BY <1>b, <2>2, PlainTyped DEF Fail, Step, TearStep
  <2>3. QED BY <1>10, <2>1, <2>2, StepFailsTyped DEF AuthorizeIngress
<1>11. CASE DividePanics
  BY <1>11, ProcessEndsTyped DEF DividePanics
<1>12. CASE RunInstances
  <2> DEFINE n == IF chunk > 0 THEN chunk ELSE Min2(Alloc, left)
             x == Min2(n, RunInstancesBatch)
  <2>1. CASE StepFails(CanRun)
    BY <2>1, StepFailsTyped DEF CanRun
  <2>2. CASE /\ cfg.SubnetIDs # {} /\ LaunchN(x) /\ chunk' = n - x
             /\ left' = IF chunk' = 0 THEN left - Min2(Alloc, left) ELSE left
             /\ \/ Goto("poll") /\ cfg' = [cfg EXCEPT !.Instances = {}]
                \/ Goto("run") /\ UNCHANGED cfg
             /\ UNCHANGED disk
    <3>1. Alloc \in Nat /\ left \in Nat /\ chunk \in Nat
      BY <2>2, AllocNat DEF TypeOK
    <3>2. n \in Nat
      BY <3>1 DEF Min2
    <3>3. x \in Nat /\ n - x \in Nat
      BY <3>2, BatchAssumption DEF Min2
    <3>4. left' \in Nat
      BY <2>2, <3>1 DEF Min2
    <3>5. cfg' \in Config
      BY <1>b, <2>2 DEF Config
    <3> HIDE DEF n, x
    <3>6. /\ inst' \in [Id -> InstanceState] /\ tokens' \subseteq Id
          /\ UNCHANGED <<cloud, given, waiting>>
      BY <2>2, <3>3, LaunchTyped
    <3>7. at' \in Step /\ UNCHANGED <<op, errs, interrupted, stopped, ops>>
      BY <1>a, <2>2 DEF Goto, CreateStep
    <3>8. QED BY <2>2, <3>3, <3>4, <3>5, <3>6, <3>7 DEF TypeOK
  <2>3. QED BY <1>12, <2>1, <2>2 DEF RunInstances
<1>13. CASE PollInstances
  <2>1. cfg' \in Config
    BY <1>b, <1>13 DEF PollInstances, NewlyRunning, TypeOK, Config
  <2>2. QED
    BY <1>a, <1>b, <1>13, <2>1, GotoTyped, PlainTyped DEF PollInstances, CreateStep
<1>14. CASE CreateReturns
  BY <1>a, <1>b, <1>14, PlainTyped DEF CreateReturns, Done, TypeOK
<1>15. QED
  BY <1>1, <1>2, <1>3, <1>4, <1>5, <1>6, <1>7, <1>8, <1>9, <1>10, <1>11,
     <1>12, <1>13, <1>14 DEF CreateSteps

LEMMA AddDeleteTypeOK == TypeOK /\ DeleteInv /\ AddDeleteSteps => TypeOK'
<1> SUFFICES ASSUME TypeOK, DeleteInv, AddDeleteSteps PROVE TypeOK'
  OBVIOUS
<1> USE DEF aws
<1>a. CreateStep \subseteq Step /\ {"addPoll", "addWait", "idle"} \subseteq Step
  BY DEF Step
<1>b. cfg \in Config /\ cloud \subseteq Resource
  BY DEF TypeOK
<1>1. CASE AddRunInstances
  <2>1. CASE LaunchN(1) /\ at' = "addPoll"
             /\ UNCHANGED <<cfg, disk, op, errs, interrupted, stopped, left,
                            chunk, ops>>
    <3>1. /\ inst' \in [Id -> InstanceState] /\ tokens' \subseteq Id
          /\ UNCHANGED <<cloud, given, waiting>>
      BY <2>1, LaunchTyped
    <3>2. QED BY <1>a, <2>1, <3>1 DEF TypeOK
  <2>2. CASE UNCHANGED <<aws, cfg, disk>> /\ ReturnError
    BY <1>a, <1>b, <2>2, PlainTyped DEF ReturnError, Done, TypeOK
  <2>3. QED BY <1>1, <2>1, <2>2 DEF AddRunInstances
<1>2. CASE AddPoll
  <2>1. NewlyRunning \subseteq Id
    BY DEF NewlyRunning, TypeOK
  <2>2. cfg.ClusterSize \in Nat /\ cfg.Instances \subseteq Id
    BY <1>b DEF Config
  <2>3. cfg.ClusterSize + 1 \in Nat /\ cfg.Instances \cup NewlyRunning \subseteq Id
    BY <2>1, <2>2
  <2>4. cfg' = [cfg EXCEPT !.Instances = cfg.Instances \cup NewlyRunning,
                           !.ClusterSize = cfg.ClusterSize + 1]
    BY <1>2 DEF AddPoll
  <2>5. cfg' \in Config
    BY <1>b, <2>3, <2>4, ResizeTyped
  <2>6. disk' \in Config
    BY <1>2, <2>5, SyncTyped DEF AddPoll
  <2>7. QED BY <1>a, <1>2, <2>1, <2>5, <2>6 DEF AddPoll, TypeOK
<1>3. CASE AddNotReady
  BY <1>3, ProcessEndsTyped DEF AddNotReady
<1>4. CASE AddReturns
  BY <1>a, <1>b, <1>4, PlainTyped DEF AddReturns, Done, TypeOK
<1>5. CASE DeleteReturns
  <2>1. CASE cfg' = [cfg EXCEPT !.Instances = @ \ tokens, !.ClusterSize = @ - 1]
             /\ UNCHANGED <<aws, disk, errs>> /\ Done
    <3>1. cfg.ClusterSize \in Nat /\ cfg.ClusterSize # 0
      BY <1>b, <1>5 DEF DeleteInv, DeleteReturns, Config
    <3>2. cfg.ClusterSize - 1 \in Nat
      BY <3>1
    <3>3. cfg.Instances \ tokens \subseteq Id
      BY <1>b DEF Config
    <3>4. cfg' = [cfg EXCEPT !.Instances = cfg.Instances \ tokens,
                             !.ClusterSize = cfg.ClusterSize - 1]
      BY <2>1
    <3>5. cfg' \in Config
      BY <1>b, <3>2, <3>3, <3>4, ResizeTyped
    <3>6. QED BY <1>a, <1>b, <2>1, <3>5, PlainTyped DEF Done, TypeOK
  <2>2. CASE UNCHANGED <<aws, cfg, disk>> /\ ReturnError
    BY <1>a, <1>b, <2>2, PlainTyped DEF ReturnError, Done, TypeOK
  <2>3. QED BY <1>5, <2>1, <2>2 DEF DeleteReturns
<1>6. QED BY <1>1, <1>2, <1>3, <1>4, <1>5 DEF AddDeleteSteps

LEMMA TearTypeOK == TypeOK /\ TearSteps => TypeOK'
<1> SUFFICES ASSUME TypeOK, TearSteps PROVE TypeOK'
  OBVIOUS
<1>1. TearStep \subseteq Step /\ "idle" \in Step
  BY DEF Step
<1>2. ASSUME NEW s \in TearStep, NEW e \in BOOLEAN, Then(s, e),
             cloud' \subseteq Resource
      PROVE  TypeOK'
  BY <1>1, <1>2, PlainTyped DEF Then, TypeOK, plan
<1>3. AfterVPC \in TearStep /\ AfterSecurityGroup \in TearStep
  BY DEF AfterVPC, AfterSecurityGroup, TearStep
<1>4. \A S : cloud \ S \subseteq Resource
  BY DEF TypeOK
<1>5. cloud \subseteq Resource
  BY DEF TypeOK
<1>a. {FALSE, DeleteFails} \subseteq BOOLEAN
  BY DEF DeleteFails
<1>6. CASE TerminateInstances
  <2>1. inst' \in [Id -> InstanceState]
    BY <1>6 DEF TerminateInstances, TypeOK, InstanceState
  <2>2. at' \in Step
    BY <1>1, <1>6 DEF TerminateInstances, TearStep
  <2>3. QED BY <1>6, <2>1, <2>2 DEF TerminateInstances, TypeOK, plan
<1>7. CASE InstancesTerminated
  BY <1>2, <1>5, <1>7 DEF InstancesTerminated, TearStep
<1>8. CASE DeleteSecurityGroup
  <2>1. cloud' \subseteq Resource
    BY <1>4, <1>5, <1>8 DEF DeleteSecurityGroup
  <2>2. PICK e \in BOOLEAN : Then(AfterSecurityGroup, e)
    BY <1>8, <1>a DEF DeleteSecurityGroup
  <2>3. QED BY <1>2, <1>3, <2>1, <2>2
<1>9. CASE DeleteSubnet
  <2>1. PICK gone : cloud' = cloud \ gone
    BY <1>9 DEF DeleteSubnet
  <2>2. cloud' \subseteq Resource
    BY <1>4, <2>1
  <2>3. PICK e \in BOOLEAN : Then("detach", e)
    BY <1>9, <1>a DEF DeleteSubnet
  <2>4. QED BY <1>2, <2>2, <2>3 DEF TearStep
<1>10. CASE DetachInternetGateway
  BY <1>2, <1>3, <1>4, <1>5, <1>10 DEF DetachInternetGateway, TearStep
<1>11. CASE DeleteInternetGateway
  BY <1>2, <1>3, <1>4, <1>5, <1>11 DEF DeleteInternetGateway, TearStep
<1>12. CASE DeleteVPC
  <2>1. cloud' \subseteq Resource
    BY <1>4, <1>5, <1>12 DEF DeleteVPC
  <2>2. PICK e \in BOOLEAN : Then(AfterVPC, e)
    BY <1>12, <1>a DEF DeleteVPC
  <2>3. QED BY <1>2, <1>3, <2>1, <2>2
<1>13. CASE DeleteKeyPair
  <2>1. cloud' \subseteq Resource
    BY <1>4, <1>5, <1>13 DEF DeleteKeyPair
  <2>2. PICK e \in BOOLEAN : Then("torn", e)
    BY <1>13, <1>a DEF DeleteKeyPair
  <2>3. QED BY <1>2, <2>1, <2>2 DEF TearStep
<1>14. CASE TearReturns
  BY <1>1, <1>14, PlainTyped DEF TearReturns, Done, TypeOK, aws
<1>15. QED
  BY <1>6, <1>7, <1>8, <1>9, <1>10, <1>11, <1>12, <1>13, <1>14 DEF TearSteps

LEMMA CallerTypeOK ==
  TypeOK /\ (Caller \/ Environment \/ AWSStep \/ Ended \/ UNCHANGED vars)
    => TypeOK'
<1> SUFFICES ASSUME TypeOK,
                    Caller \/ Environment \/ AWSStep \/ Ended \/ UNCHANGED vars
             PROVE  TypeOK'
  OBVIOUS
<1>a. ops + 1 \in Nat
  BY DEF TypeOK
<1>1. CASE NewDeployer
  <2>1. cfg' \in Config /\ at' \in Step /\ ops' \in Nat
    BY <1>1, <1>a DEF NewDeployer, TypeOK, Step
  <2>2. QED BY <1>1, <2>1 DEF NewDeployer, TypeOK, aws, plan
<1>9. CASE Stop \/ Interrupt
  BY <1>9 DEF Stop, Interrupt, TypeOK, aws, plan
<1>6. ASSUME NEW o \in {"Create", "Terminate", "Add"},
             NEW first \in {"key", "instances", "add"}, Call(o, first)
      PROVE  TypeOK'
  <2>1. at' \in Step /\ ops' \in Nat /\ op' \in {"Create", "Add", "Terminate"}
    BY <1>6, <1>a DEF Call, Step, CreateStep, TearStep
  <2>2. QED BY <1>6, <2>1 DEF Call, TypeOK, aws
<1>7. CASE Create \/ Terminate \/ Add
  BY <1>6, <1>7 DEF Create, Terminate, Add
<1>2. CASE Exit \/ Crash
  BY <1>2, ProcessEndsTyped DEF Exit, Crash
<1>3. ASSUME NEW i \in Id, Delete(i) PROVE TypeOK'
  <2>1. inst' \in [Id -> InstanceState]
    BY <1>3 DEF Delete, TypeOK, InstanceState
  <2>2. at' \in Step /\ errs' \in BOOLEAN /\ tokens' \subseteq Id
    BY <1>3 DEF Delete, Step
  <2>3. QED BY <1>3, <2>1, <2>2 DEF Delete, TypeOK
<1>4. ASSUME NEW i \in Id, InstanceChanges(i) PROVE TypeOK'
  BY <1>4 DEF InstanceChanges, TypeOK, InstanceState, plan
<1>10. ASSUME NEW i \in Id, InstanceReady(i) PROVE TypeOK'
  BY <1>10 DEF InstanceReady, TypeOK, aws
<1>5. CASE Ended \/ UNCHANGED vars
  BY <1>5 DEF Ended, vars, aws, plan, TypeOK
<1>8. QED
  BY <1>1, <1>2, <1>3, <1>4, <1>5, <1>7, <1>9, <1>10
  DEF Caller, Environment, ReadyStep, AWSStep

LEMMA NextDeleteInv == TypeOK /\ DeleteInv /\ [Next]_vars => DeleteInv'
<1> SUFFICES ASSUME TypeOK, DeleteInv, [Next]_vars PROVE DeleteInv'
  OBVIOUS
<1>1. ASSUME NEW i \in Id, Delete(i) PROVE DeleteInv'
  BY <1>1, RecordedNotZero DEF Delete, DeleteInv, TypeOK, Config
<1>2. CASE AWSStep \/ Environment \/ Ended \/ UNCHANGED vars
  BY <1>2
  DEF AWSStep, InstanceChanges, Environment, Crash, ProcessEnds, Stop,
      Interrupt, ReadyStep, InstanceReady, Ended, vars, aws, DeleteInv
<1>3. CASE NewDeployer \/ Create \/ Terminate \/ Add \/ Exit
  BY <1>3
  DEF NewDeployer, Create, Terminate, Add, Call, Exit, ProcessEnds, DeleteInv
<1>4. CASE AddDeleteSteps
  BY <1>4
  DEF AddDeleteSteps, AddRunInstances, AddPoll, AddNotReady, AddReturns,
      DeleteReturns, ReturnError, Done, ProcessEnds, DeleteInv
<1>5. CASE CreateSteps
  BY <1>5
  DEF CreateSteps, CreateKeyPair, KeyPairMade, CreateVPC, VPCAttributes,
      CreateInternetGateway, AttachInternetGateway, CreateRoutes,
      MarkVPCCreated, CreateSubnet, GetSubnets, AssociatePublicIP,
      CreateSecurityGroup, AuthorizeIngress, DividePanics, RunInstances,
      PollInstances, InstancesCreated, WaitReturns, CreateReturns, Return, Fail, Goto,
      StepFails, Done, ProcessEnds, DeleteInv
<1>6. CASE TearSteps
  BY <1>6
  DEF TearSteps, TerminateInstances, InstancesTerminated, DeleteSecurityGroup,
      DeleteSubnet, DetachInternetGateway, DeleteInternetGateway, DeleteVPC,
      DeleteKeyPair, TearReturns, Then, AfterVPC, AfterSecurityGroup, Done,
      DeleteInv
<1>7. QED
  BY <1>1, <1>2, <1>3, <1>4, <1>5, <1>6 DEF Next, DeployerStep, Caller

-----------------------------------------------------------------------------
(* A VPC of the user's.                                                    *)

(* No step that makes or deletes a VPC is reached, and no step sets        *)
(* VPCCreated or forgets VPCID.                                            *)
LEMMA CreateGiven ==
  TypeOK /\ GivenInv /\ ExistingVPCKept /\ CreateSteps
    => GivenInv' /\ ExistingVPCKept'
<1> SUFFICES ASSUME TypeOK, GivenInv, ExistingVPCKept, CreateSteps, given'
             PROVE  GivenInv' /\ ExistingVPCKept'
  BY DEF GivenInv, ExistingVPCKept
<1>1. given /\ cfg \in Config /\ disk \in Config
  BY DEF TypeOK, CreateSteps, CreateKeyPair, KeyPairMade, CreateVPC,
      VPCAttributes, CreateInternetGateway, AttachInternetGateway, CreateRoutes,
      MarkVPCCreated, CreateSubnet, GetSubnets, AssociatePublicIP,
      CreateSecurityGroup, AuthorizeIngress, DividePanics, RunInstances,
      PollInstances, InstancesCreated, WaitReturns, CreateReturns, StepFails,
      LaunchN,
      ProcessEnds, aws
<1>2. /\ cfg.VPCID /\ ~cfg.VPCCreated /\ disk.VPCID /\ ~disk.VPCCreated
      /\ at \notin VPCStep
      /\ {"vpc", "igw", "attachment"} \cup Subnet \subseteq cloud
  BY <1>1 DEF GivenInv, ExistingVPCKept
(* What every step that is reached leaves.                                 *)
<1>3. /\ cloud \subseteq cloud'
      /\ cfg'.VPCID = cfg.VPCID /\ cfg'.VPCCreated = cfg.VPCCreated
      /\ disk' \in {disk, cfg'}
      /\ at' \notin VPCStep
  <2> USE DEF VPCStep
  <2>1. CASE CreateKeyPair \/ KeyPairMade
    BY <1>1, <1>2, <2>1
    DEF CreateKeyPair, KeyPairMade, StepFails, Fail, Return, Goto, Sync, aws,
        Config
  <2>2. CASE GetSubnets \/ AssociatePublicIP
    BY <1>1, <1>2, <2>2
    DEF GetSubnets, AssociatePublicIP, StepFails, Fail, Return, Goto, Sync, aws,
        Config
  <2>3. CASE CreateSecurityGroup \/ AuthorizeIngress
    BY <1>1, <1>2, <2>3
    DEF CreateSecurityGroup, AuthorizeIngress, StepFails, Fail, Goto, Sync, aws,
        Config
  <2>4. CASE RunInstances \/ DividePanics
    BY <1>1, <1>2, <2>4
    DEF RunInstances, LaunchN, DividePanics, ProcessEnds, StepFails, Fail, Goto,
        Sync, aws, Config
  <2>5. CASE PollInstances \/ InstancesCreated \/ WaitReturns \/ CreateReturns
    BY <1>1, <1>2, <2>5
    DEF PollInstances, InstancesCreated, WaitReturns, CreateReturns, Fail, Return, Goto, Done,
        Sync, aws, Config
  <2>6. CASE CreateVPC \/ VPCAttributes \/ CreateInternetGateway
             \/ AttachInternetGateway \/ CreateRoutes \/ MarkVPCCreated
             \/ CreateSubnet
    BY <1>2, <2>6
    DEF CreateVPC, VPCAttributes, CreateInternetGateway, AttachInternetGateway,
        CreateRoutes, MarkVPCCreated, CreateSubnet
  <2>7. QED BY <2>1, <2>2, <2>3, <2>4, <2>5, <2>6 DEF CreateSteps
<1>4. QED BY <1>2, <1>3 DEF GivenInv, ExistingVPCKept

LEMMA OthersGiven ==
  ASSUME TypeOK, GivenInv, ExistingVPCKept,
         AddDeleteSteps \/ AWSStep \/ Caller \/ Environment \/ Ended \/ UNCHANGED vars
  PROVE  GivenInv' /\ ExistingVPCKept'
<1> SUFFICES ASSUME given' PROVE GivenInv' /\ ExistingVPCKept'
  BY DEF GivenInv, ExistingVPCKept
<1>1. given' = given
  BY DEF AddDeleteSteps, AddRunInstances, AddPoll, AddNotReady, AddReturns,
      DeleteReturns, LaunchN, AWSStep, InstanceChanges, Caller, NewDeployer,
      Create, Terminate, Add, Call, Exit, Delete, Environment, Crash, Stop,
      Interrupt, ReadyStep, InstanceReady, ProcessEnds, Ended, aws, vars
<1>2. /\ cfg.VPCID /\ ~cfg.VPCCreated /\ disk.VPCID /\ ~disk.VPCCreated
      /\ at \notin VPCStep
      /\ {"vpc", "igw", "attachment"} \cup Subnet \subseteq cloud
      /\ cfg \in Config /\ disk \in Config
  BY <1>1 DEF GivenInv, ExistingVPCKept, TypeOK
<1>3. /\ cloud' = cloud
      /\ cfg'.VPCID /\ ~cfg'.VPCCreated
      /\ disk' \in {disk, cfg'}
      /\ at' \notin VPCStep
  <2> USE DEF VPCStep
  <2>1. CASE AddDeleteSteps
    BY <1>2, <2>1
    DEF AddDeleteSteps, AddRunInstances, AddPoll, AddNotReady, AddReturns,
        DeleteReturns, ReturnError, Done, LaunchN, ProcessEnds, Sync, aws, Config
  <2>2. CASE Caller
    BY <1>2, <2>2
    DEF Caller, NewDeployer, Create, Terminate, Add, Call, Exit, Delete,
        ProcessEnds, aws
  <2>3. CASE AWSStep \/ Environment \/ Ended \/ UNCHANGED vars
    BY <1>2, <2>3
    DEF AWSStep, InstanceChanges, Environment, Crash, Stop, Interrupt, ReadyStep,
        InstanceReady, ProcessEnds, Ended, aws, vars
  <2>4. QED BY <2>1, <2>2, <2>3
<1>4. QED BY <1>2, <1>3 DEF GivenInv, ExistingVPCKept

(* VPCCreated is false: only the security group, the instances and the key *)
(* pair are deleted.                                                       *)
LEMMA TearGiven ==
  TypeOK /\ GivenInv /\ ExistingVPCKept /\ TearSteps
    => GivenInv' /\ ExistingVPCKept'
<1> SUFFICES ASSUME TypeOK, GivenInv, ExistingVPCKept, TearSteps, given'
             PROVE  GivenInv' /\ ExistingVPCKept'
  BY DEF GivenInv, ExistingVPCKept
<1>1. given' = given
  BY DEF TearSteps, TerminateInstances, InstancesTerminated,
      DeleteSecurityGroup, DeleteSubnet, DetachInternetGateway,
      DeleteInternetGateway, DeleteVPC, DeleteKeyPair, TearReturns, Then, aws
<1>2. /\ cfg.VPCID /\ ~cfg.VPCCreated /\ disk.VPCID /\ ~disk.VPCCreated
      /\ at \notin VPCStep
      /\ {"vpc", "igw", "attachment"} \cup Subnet \subseteq cloud
  BY <1>1 DEF GivenInv, ExistingVPCKept
<1>3. /\ cloud \ {"sg", "key"} \subseteq cloud'
      /\ cfg' = cfg /\ disk' \in {disk, cfg'}
      /\ at' \notin VPCStep
  <2> USE DEF VPCStep
  <2>1. CASE TerminateInstances \/ InstancesTerminated
    BY <2>1 DEF TerminateInstances, InstancesTerminated, Then
  <2>2. CASE DeleteSecurityGroup
    BY <1>2, <2>2 DEF DeleteSecurityGroup, Then, AfterSecurityGroup
  <2>3. CASE DeleteKeyPair \/ TearReturns
    BY <2>3 DEF DeleteKeyPair, TearReturns, Then, Done, Sync, aws
  <2>4. CASE DeleteSubnet \/ DetachInternetGateway \/ DeleteInternetGateway
             \/ DeleteVPC
    BY <1>2, <2>4
    DEF DeleteSubnet, DetachInternetGateway, DeleteInternetGateway, DeleteVPC
  <2>5. QED BY <2>1, <2>2, <2>3, <2>4 DEF TearSteps
<1>4. {"sg", "key"} \cap ({"vpc", "igw", "attachment"} \cup Subnet) = {}
  BY DEF Subnet
<1>5. QED BY <1>2, <1>3, <1>4 DEF GivenInv, ExistingVPCKept

-----------------------------------------------------------------------------
(* The inductive invariant.                                                *)

LEMMA InitIInv == Init => IInv
<1> SUFFICES ASSUME Init PROVE IInv
  OBVIOUS
<1>1. disk \in Config /\ disk.VPCID = given /\ disk.VPCCreated = FALSE
  BY SizeAssumption DEF Init, Config, Subnet
<1>2. cloud \subseteq Resource
  BY DEF Init, Resource
<1>3. TypeOK
  BY <1>1, <1>2 DEF Init, TypeOK, Step, InstanceState
<1>4. GivenInv /\ DeleteInv /\ ExistingVPCKept
  BY <1>1 DEF Init, GivenInv, VPCStep, DeleteInv, ExistingVPCKept
<1>5. QED BY <1>3, <1>4 DEF IInv

LEMMA NextIInv == IInv /\ [Next]_vars => IInv'
<1> SUFFICES ASSUME IInv, [Next]_vars PROVE IInv'
  OBVIOUS
<1>1. TypeOK /\ DeleteInv /\ GivenInv /\ ExistingVPCKept
  BY DEF IInv
<1>2. \/ CreateSteps \/ AddDeleteSteps \/ TearSteps
      \/ Caller \/ Environment \/ AWSStep \/ Ended \/ UNCHANGED vars
  BY DEF Next, DeployerStep
<1>3. TypeOK'
  BY <1>1, <1>2, CreateTypeOK, AddDeleteTypeOK, TearTypeOK, CallerTypeOK
<1>4. DeleteInv'
  BY <1>1, NextDeleteInv
<1>5. GivenInv' /\ ExistingVPCKept'
  BY <1>1, <1>2, CreateGiven, OthersGiven, TearGiven
<1>6. QED BY <1>3, <1>4, <1>5 DEF IInv

LEMMA SpecIInv == Spec => []IInv
  BY InitIInv, NextIInv, PTL DEF Spec

(* The record in memory and the one in the file keep their shape, the      *)
(* cluster size never becomes negative and no operation is left at a step  *)
(* that does not exist, whatever the faults and the sizes.                 *)
THEOREM EC2TypeCorrect == Spec => []TypeOK
<1>1. IInv => TypeOK
  BY DEF IInv
<1>2. QED BY <1>1, SpecIInv, PTL

(* A VPC that the user brought, its subnets and its gateway stay, for      *)
(* every cluster size and every sequence of calls, faults and crashes.     *)
THEOREM VPCKept == Spec => []ExistingVPCKept
<1>1. IInv => ExistingVPCKept
  BY DEF IInv
<1>2. QED BY <1>1, SpecIInv, PTL
=============================================================================

-------------------------- MODULE EC2ContractProofs --------------------------
(***************************************************************************)
(* EC2Deployer implements EC2Contract, and a Terminate without an error    *)
(* has left nothing, for every cluster size, batch, bound and set of       *)
(* faults.  The steps of Create and of the deletions are first summed up   *)
(* by what they do to AWS and to the records of instances; the invariant   *)
(* and the refinement then follow from the sums.  The last part counts the *)
(* instances a Create launches.                                            *)
(***************************************************************************)
EXTENDS EC2DeployerProofs, WellFoundedInduction

AddStep == {"add", "addPoll", "addWait"}

OpInv ==
  /\ at \in CreateStep => op = "Create"
  /\ at \in AddStep => op = "Add"
  /\ at = "deleteWait" => op = "Delete"
  /\ at \in TearStep => op = "Terminate" \/ (op = "Create" /\ errs)

(* An instance holds its security group.                                   *)
LiveInv == Live # {} => "sg" \in cloud

RecordInv == cfg.Instances \subseteq Launched /\ disk.Instances \subseteq Launched

Network == {"vpc", "igw", "attachment"} \cup Subnet

(* What a Terminate without an error so far has made sure of.              *)
GoneInv ==
  op = "Terminate" /\ ~errs =>
    /\ at \in {"delsubnets", "detach", "deligw", "delvpc", "delkey", "torn", "idle"}
         => Live = {} /\ "sg" \notin cloud
    /\ at = "delvpc" => "igw" \notin cloud
    /\ at \in {"delkey", "torn", "idle"} /\ cfg.VPCCreated => cloud \cap Network = {}
    /\ at \in {"torn", "idle"} /\ cfg.KeyCreated => "key" \notin cloud

(* A process has not called anything.                                      *)
OffInv == at = "off" => op = "none"

CInv == TypeOK /\ OffInv /\ OpInv /\ LiveInv /\ RecordInv /\ GoneInv

-----------------------------------------------------------------------------
(* Sums.                                                                   *)

(* Create and Add make things, and instances only in a security group.     *)
Gained ==
  /\ cloud \subseteq cloud'
  /\ inst' \in [Id -> InstanceState]
  /\ \A i \in Id : inst'[i] # inst[i] =>
       inst[i] = "none" /\ inst'[i] = "pending" /\ "sg" \in cloud
  /\ cfg'.Instances \subseteq cfg.Instances \cup {i \in Id : inst[i] = "running"}
  /\ disk'.Instances \subseteq cfg'.Instances \cup disk.Instances

CreateGoes ==
  at \in CreateStep /\ at' \in CreateStep /\ UNCHANGED <<op, errs>> /\ Gained
CreateFailed ==
  /\ at \in CreateStep /\ at' = "instances" /\ op' = op /\ errs'
  /\ Gained /\ inst' = inst
CreateEnds ==
  /\ at \in CreateStep /\ at' = "idle" /\ UNCHANGED <<aws, op, errs>> /\ Gained

(* The deletions delete, and end instances.                                *)
Lost ==
  /\ cloud' \subseteq cloud
  /\ inst' \in [Id -> InstanceState]
  /\ \A i \in Id : inst'[i] # inst[i] => i \in Live /\ inst'[i] = "shutting-down"

TearGoes ==
  /\ at \in TearStep /\ at' \in TearStep /\ op' = op /\ (errs => errs')
  /\ Lost /\ UNCHANGED <<cfg, disk>>
  /\ Live # {} /\ "sg" \in cloud => "sg" \in cloud'

LEMMA GainedNothing ==
  ASSUME TypeOK, UNCHANGED <<cloud, inst>>, cfg'.Instances \subseteq cfg.Instances,
         Sync \/ UNCHANGED disk
  PROVE Gained
  BY DEF TypeOK, Gained, Sync

LEMMA GainedCloud ==
  ASSUME TypeOK, cloud \subseteq cloud', UNCHANGED inst,
         cfg'.Instances \subseteq cfg.Instances, Sync \/ UNCHANGED disk
  PROVE Gained
  BY DEF TypeOK, Gained, Sync

LEMMA StepFailed ==
  ASSUME TypeOK, at \in CreateStep, NEW p \in BOOLEAN, StepFails(p)
  PROVE CreateFailed
<1>1. UNCHANGED <<cloud, inst>> /\ cfg' = cfg /\ Sync
  BY DEF StepFails, aws
<1>2. Gained
  BY <1>1, GainedNothing
<1>3. QED BY <1>1, <1>2 DEF StepFails, Fail, CreateFailed

LEMMA Returned ==
  ASSUME TypeOK, at \in CreateStep, NEW s \in CreateStep, Return(s), Gained,
         UNCHANGED inst
  PROVE CreateGoes \/ CreateFailed
  BY DEF Return, Fail, Goto, CreateGoes, CreateFailed

LEMMA Gone ==
  ASSUME TypeOK, at \in CreateStep, NEW s \in CreateStep, Goto(s), Gained
  PROVE CreateGoes
  BY DEF Goto, CreateGoes

LEMMA LaunchGains ==
  ASSUME TypeOK, NEW n \in Nat, LaunchN(n), CanRun,
         cfg'.Instances \subseteq cfg.Instances, UNCHANGED disk
  PROVE Gained
<1> DEFINE new == {i \in Id \ Launched :
                     Cardinality({j \in Id \ Launched : j < i}) < n}
<1>1. inst' = [i \in Id |-> IF i \in new THEN "pending" ELSE inst[i]]
  BY DEF LaunchN
<1>2. new \subseteq Id \ Launched
  OBVIOUS
<1> HIDE DEF new
<1>3. inst \in [Id -> InstanceState]
  BY DEF TypeOK
<1>4. inst' \in [Id -> InstanceState]
  BY <1>1, <1>3 DEF InstanceState
<1>5. \A i \in Id : inst'[i] # inst[i] => inst[i] = "none" /\ inst'[i] = "pending"
  BY <1>1, <1>2 DEF Launched
<1>6. cloud' = cloud /\ "sg" \in cloud
  BY DEF LaunchN, CanRun
<1>7. QED BY <1>4, <1>5, <1>6 DEF Gained

-----------------------------------------------------------------------------
(* Create.                                                                 *)

LEMMA CreateSum ==
  ASSUME TypeOK, CreateSteps
  PROVE CreateGoes \/ CreateFailed \/ CreateEnds \/ ProcessEnds
<1> USE DEF CreateStep
<1>1. CASE CreateKeyPair
  <2>1. CASE cfg.KeyCreated /\ Return("network")
    <3>1. UNCHANGED <<cloud, inst>> /\ cfg' = cfg /\ (Sync \/ UNCHANGED disk)
      BY <1>1, <2>1 DEF CreateKeyPair, aws, StepFails
    <3>2. Gained
      BY <3>1, GainedNothing
    <3>3. QED BY <1>1, <2>1, <3>1, <3>2, Returned DEF CreateKeyPair
  <2>2. CASE Goto("keyMade") /\ cloud' = cloud \cup {"key"} /\ UNCHANGED <<inst, cfg, disk>>
    BY <1>1, <2>2, GainedCloud, Gone DEF CreateKeyPair
  <2>3. CASE StepFails("key" \notin cloud)
    BY <1>1, <2>3, StepFailed DEF CreateKeyPair
  <2>4. QED BY <1>1, <2>1, <2>2, <2>3 DEF CreateKeyPair
<1>2. CASE KeyPairMade
  <2>1. CASE cfg' = [cfg EXCEPT !.KeyCreated = TRUE] /\ Sync /\ UNCHANGED aws /\ Return("network")
    <3>1. cfg'.Instances = cfg.Instances
      BY <2>1 DEF TypeOK, Config
    <3>2. Gained
      BY <2>1, <3>1, GainedNothing DEF aws
    <3>3. QED BY <1>2, <2>1, <3>2, Returned DEF KeyPairMade, aws
  <2>2. QED BY <1>2, <2>1, StepFailed DEF KeyPairMade
<1>3. CASE CreateVPC
  <2>1. CASE cloud' = cloud \cup {"vpc"} /\ cfg' = [cfg EXCEPT !.VPCID = TRUE]
             /\ UNCHANGED <<inst, given, disk>> /\ Goto("attrs")
    <3>1. cfg'.Instances = cfg.Instances
      BY <2>1 DEF TypeOK, Config
    <3>2. QED BY <1>3, <2>1, <3>1, GainedCloud, Gone DEF CreateVPC
  <2>2. QED BY <1>3, <2>1, StepFailed DEF CreateVPC
<1>4. CASE VPCAttributes
  BY <1>4, GainedNothing, Gone, StepFailed DEF VPCAttributes, aws
<1>5. CASE CreateInternetGateway
  <2>1. CASE cloud' = cloud \cup {"igw"} /\ cfg' = [cfg EXCEPT !.InternetGatewayID = TRUE]
             /\ UNCHANGED <<inst, given, disk>> /\ Goto("attach")
    <3>1. cfg'.Instances = cfg.Instances
      BY <2>1 DEF TypeOK, Config
    <3>2. QED BY <1>5, <2>1, <3>1, GainedCloud, Gone DEF CreateInternetGateway
  <2>2. QED BY <1>5, <2>1, StepFailed DEF CreateInternetGateway
<1>6. CASE AttachInternetGateway
  BY <1>6, GainedCloud, Gone, StepFailed DEF AttachInternetGateway
<1>7. CASE CreateRoutes
  <2>1. CASE UNCHANGED <<aws, cfg>> /\ Sync /\ Return("mark")
    <3>1. Gained /\ UNCHANGED inst
      BY <2>1, GainedNothing DEF aws
    <3>2. QED BY <1>7, <2>1, <3>1, Returned DEF CreateRoutes
  <2>2. QED BY <1>7, <2>1, StepFailed DEF CreateRoutes
<1>8. CASE MarkVPCCreated
  <2>1. cfg'.Instances = cfg.Instances
    BY <1>8 DEF MarkVPCCreated, TypeOK, Config
  <2>2. QED BY <1>8, <2>1, GainedNothing, Gone DEF MarkVPCCreated, aws
<1>9. CASE CreateSubnet
  <2> DEFINE s == NextSubnet(cfg.SubnetIDs)
  <2>1. CASE StepFails(s \notin cloud)
    BY <1>9, <2>1, StepFailed DEF CreateSubnet
  <2>2. CASE /\ cloud' = cloud \cup {s}
             /\ cfg' = [cfg EXCEPT !.SubnetIDs = @ \cup {s}]
             /\ UNCHANGED <<inst, given>>
             /\ IF cfg'.SubnetIDs = Subnet
                THEN Sync /\ Return("sg")
                ELSE UNCHANGED disk /\ Goto("subnets") /\ UNCHANGED plan
    <3>1. cfg'.Instances = cfg.Instances
      BY <2>2 DEF TypeOK, Config
    <3>2. Gained
      BY <2>2, <3>1, GainedCloud
    <3>3. QED BY <1>9, <2>2, <3>2, Returned, Gone DEF CreateSubnet
  <2>3. QED BY <1>9, <2>1, <2>2 DEF CreateSubnet
<1>10. CASE GetSubnets
  <2>1. CASE StepFails("vpc" \in cloud /\ cfg.SubnetIDs \subseteq cloud)
    BY <1>10, <2>1, StepFailed DEF GetSubnets
  <2>2. CASE UNCHANGED aws /\ Return("associate")
             /\ \/ cfg' = [cfg EXCEPT !.SubnetIDs = cloud \cap Subnet] /\ Sync
                \/ UNCHANGED <<cfg, disk>>
    <3>1. cfg'.Instances = cfg.Instances /\ (Sync \/ UNCHANGED disk)
      BY <2>2 DEF TypeOK, Config
    <3>2. Gained /\ UNCHANGED inst
      BY <2>2, <3>1, GainedNothing DEF aws
    <3>3. QED BY <1>10, <2>2, <3>2, Returned DEF GetSubnets
  <2>3. QED BY <1>10, <2>1, <2>2 DEF GetSubnets
<1>11. CASE AssociatePublicIP
  BY <1>11, GainedNothing, Gone, StepFailed DEF AssociatePublicIP, aws
<1>12. CASE CreateSecurityGroup
  <2>1. CASE cloud' = cloud \cup {"sg"} /\ cfg' = [cfg EXCEPT !.SecurityGroupIDs = TRUE]
             /\ UNCHANGED <<inst, given, disk>> /\ Goto("ingress")
    <3>1. cfg'.Instances = cfg.Instances
      BY <2>1 DEF TypeOK, Config
    <3>2. QED BY <1>12, <2>1, <3>1, GainedCloud, Gone DEF CreateSecurityGroup
  <2>2. QED BY <1>12, <2>1, StepFailed DEF CreateSecurityGroup
<1>13. CASE AuthorizeIngress
  <2>1. CASE UNCHANGED <<aws, cfg>> /\ Sync /\ (Fail \/ Goto("run"))
    <3>1. Gained /\ UNCHANGED inst
      BY <2>1, GainedNothing DEF aws
    <3>2. QED BY <1>13, <2>1, <3>1, Gone DEF AuthorizeIngress, Fail, CreateFailed
  <2>2. QED BY <1>13, <2>1, StepFailed DEF AuthorizeIngress
<1>14. CASE DividePanics
  BY <1>14 DEF DividePanics
<1>15. CASE RunInstances
  <2> DEFINE n == IF chunk > 0 THEN chunk ELSE Min2(Alloc, left)
             x == Min2(n, RunInstancesBatch)
  <2>1. x \in Nat
    BY <1>15, AllocNat, BatchAssumption DEF TypeOK, Min2, RunInstances
  <2>2. CASE StepFails(CanRun)
    BY <1>15, <2>2, StepFailed DEF RunInstances, CanRun
  <2>3. CASE CanRun /\ LaunchN(x) /\ UNCHANGED disk
             /\ \/ Goto("poll") /\ cfg' = [cfg EXCEPT !.Instances = {}]
                \/ Goto("run") /\ UNCHANGED cfg
    <3>1. cfg'.Instances \subseteq cfg.Instances
      BY <2>3 DEF TypeOK, Config
    <3>2. Gained
      BY <2>1, <2>3, <3>1, LaunchGains
    <3>3. QED BY <1>15, <2>3, <3>2, Gone DEF RunInstances
  <2> HIDE DEF n, x
  <2>4. QED BY <1>15, <2>2, <2>3 DEF RunInstances, n, x
<1>16. CASE PollInstances
  <2>1. cfg'.Instances = cfg.Instances \cup NewlyRunning
    BY <1>16 DEF PollInstances, TypeOK, Config
  <2>2. NewlyRunning \subseteq {i \in Id : inst[i] = "running"}
    BY DEF NewlyRunning, TypeOK
  <2>3. Gained
    BY <1>16, <2>1, <2>2 DEF PollInstances, aws, Gained, TypeOK
  <2>4. QED BY <1>16, <2>3, Gone DEF PollInstances
<1>17. CASE InstancesCreated
  <2>1. Gained /\ UNCHANGED inst
    BY <1>17, GainedNothing DEF InstancesCreated, aws
  <2>2. CASE Goto("wait")
    BY <1>17, <2>1, <2>2, Gone DEF InstancesCreated
  <2>3. QED BY <1>17, <2>1, <2>2, Returned DEF InstancesCreated
<1>18. CASE CreateReturns
  <2>1. Gained
    BY <1>18, GainedNothing DEF CreateReturns, aws
  <2>2. QED BY <1>18, <2>1 DEF CreateReturns, CreateEnds, Done
<1>19. CASE WaitReturns
  <2>1. Gained /\ UNCHANGED inst
    BY <1>19, GainedNothing DEF WaitReturns, aws
  <2>2. QED BY <1>19, <2>1, Returned DEF WaitReturns
<1>20. QED
  BY <1>1, <1>2, <1>3, <1>4, <1>5, <1>6, <1>7, <1>8, <1>9, <1>10, <1>11, <1>12,
     <1>13, <1>14, <1>15, <1>16, <1>17, <1>18, <1>19 DEF CreateSteps

-----------------------------------------------------------------------------
(* The deletions.                                                          *)

LEMMA ThenGoes ==
  ASSUME TypeOK, at \in TearStep, NEW s \in TearStep, NEW e \in BOOLEAN,
         Then(s, e), cloud' \subseteq cloud,
         Live # {} /\ "sg" \in cloud => "sg" \in cloud'
  PROVE TearGoes
  BY DEF Then, TearGoes, Lost, TypeOK

LEMMA AfterInTear ==
  AfterSecurityGroup \in TearStep /\ AfterVPC \in TearStep
  BY DEF AfterSecurityGroup, AfterVPC, TearStep

LEMMA TearSum ==
  ASSUME TypeOK, TearSteps
  PROVE TearGoes \/ TearReturns
<1> USE DEF TearStep
<1>0. DeleteFails \in BOOLEAN
  BY DEF DeleteFails
<1>1. CASE TerminateInstances
  <2>1. inst \in [Id -> InstanceState]
    BY DEF TypeOK
  <2>2. inst' \in [Id -> InstanceState]
         /\ \A i \in Id : inst'[i] # inst[i] => i \in Live /\ inst'[i] = "shutting-down"
    BY <1>1, <2>1 DEF TerminateInstances, InstanceState
  <2>3. QED BY <1>1, <2>2 DEF TerminateInstances, TearGoes, Lost
<1>2. CASE InstancesTerminated
  BY <1>2, ThenGoes DEF InstancesTerminated
<1>3. CASE DeleteSecurityGroup
  BY <1>0, <1>3, ThenGoes, AfterInTear DEF DeleteSecurityGroup, Blocked
<1>4. CASE DeleteSubnet
  <2>1. PICK gone \in {{}, {"a"}, {"a", "b"}, Subnet}, e \in BOOLEAN :
          cloud' = cloud \ gone /\ Then("detach", e)
    BY <1>0, <1>4 DEF DeleteSubnet
  <2>2. "sg" \notin gone
    BY DEF Subnet
  <2>3. QED BY <1>4, <2>1, <2>2, ThenGoes DEF DeleteSubnet
<1>5. CASE DetachInternetGateway
  BY <1>5, ThenGoes, AfterInTear DEF DetachInternetGateway
<1>6. CASE DeleteInternetGateway
  BY <1>6, ThenGoes, AfterInTear DEF DeleteInternetGateway
<1>7. CASE DeleteVPC
  BY <1>0, <1>7, ThenGoes, AfterInTear DEF DeleteVPC
<1>8. CASE DeleteKeyPair
  BY <1>0, <1>8, ThenGoes DEF DeleteKeyPair
<1>9. QED
  BY <1>1, <1>2, <1>3, <1>4, <1>5, <1>6, <1>7, <1>8 DEF TearSteps

-----------------------------------------------------------------------------
(* Add, Delete, the caller and AWS.                                        *)

AddGoes ==
  /\ at \in AddStep /\ at' \in AddStep /\ UNCHANGED <<op, errs, cloud>>
  /\ Gained
  /\ \A i, k \in Id : inst'[i] # inst[i] /\ inst'[k] # inst[k] => i = k
AddEnds ==
  /\ at \in AddStep \cup {"deleteWait"} /\ at' = "idle" /\ op' = op
  /\ UNCHANGED aws /\ Gained

(* A call for one instance launches one at most.                           *)
LEMMA LaunchOne ==
  ASSUME TypeOK, LaunchN(1), NEW i \in Id, NEW k \in Id,
         inst'[i] # inst[i], inst'[k] # inst[k]
  PROVE i = k
<1> DEFINE below(m) == {j \in Id \ Launched : j < m}
           new == {m \in Id \ Launched : Cardinality(below(m)) < 1}
<1>1. i \in new /\ k \in new
  <2>1. inst' = [m \in Id |-> IF m \in new THEN "pending" ELSE inst[m]]
    BY DEF LaunchN
  <2> HIDE DEF new
  <2>2. QED BY <2>1
<1>2. ASSUME NEW a \in new, NEW b \in new PROVE ~(a < b)
  <2>1. SUFFICES ASSUME a < b PROVE FALSE
    OBVIOUS
  <2>2. a \in below(b) /\ below(b) \in SUBSET Id
    BY <2>1
  <2>3. Cardinality(below(b)) < 1
    BY <1>2
  <2> HIDE DEF below, new
  <2>4. Cardinality(below(b)) # 0 /\ Cardinality(below(b)) \in Nat
    BY <2>2, RecordedNotZero, IdFinite, FS_CardinalityType
  <2>5. QED BY <2>3, <2>4
<1>3. ~(i < k) /\ ~(k < i)
  BY <1>1, <1>2
<1>4. QED BY <1>3, MaxInstancesAssumption DEF Id

LEMMA AddDeleteSum ==
  ASSUME TypeOK, AddDeleteSteps
  PROVE AddGoes \/ AddEnds \/ ProcessEnds
<1> USE DEF AddStep
<1>1. CASE AddRunInstances
  <2>1. CASE CanRun /\ LaunchN(1) /\ at' = "addPoll" /\ UNCHANGED <<op, errs>>
             /\ UNCHANGED <<cfg, disk>>
    <3>1. Gained
      BY <2>1, LaunchGains
    <3>2. cloud' = cloud
      BY <2>1 DEF LaunchN
    <3>3. QED BY <1>1, <2>1, <3>1, <3>2, LaunchOne DEF AddRunInstances, AddGoes
  <2>2. CASE UNCHANGED aws /\ ReturnError /\ UNCHANGED <<cfg, disk>>
    <3>1. Gained
      BY <2>2, GainedNothing DEF aws
    <3>2. QED BY <1>1, <2>2, <3>1 DEF AddRunInstances, ReturnError, Done, AddEnds
  <2>3. QED BY <1>1, <2>1, <2>2 DEF AddRunInstances
<1>2. CASE AddPoll
  <2>1. cfg'.Instances = cfg.Instances \cup NewlyRunning
    BY <1>2 DEF AddPoll, TypeOK, Config
  <2>2. NewlyRunning \subseteq {i \in Id : inst[i] = "running"}
    BY DEF NewlyRunning, TypeOK
  <2>3. Gained
    BY <1>2, <2>1, <2>2 DEF AddPoll, aws, Gained, TypeOK
  <2>4. QED BY <1>2, <2>3 DEF AddPoll, AddGoes, aws
<1>3. CASE AddNotReady
  BY <1>3 DEF AddNotReady
<1>4. CASE AddReturns
  <2>1. Gained
    BY <1>4, GainedNothing DEF AddReturns, aws
  <2>2. QED BY <1>4, <2>1 DEF AddReturns, AddEnds, Done
<1>5. CASE DeleteReturns
  <2>1. cfg'.Instances \subseteq cfg.Instances
    BY <1>5 DEF DeleteReturns, TypeOK, Config
  <2>2. Gained
    BY <1>5, <2>1, GainedNothing DEF DeleteReturns, aws
  <2>3. QED BY <1>5, <2>2 DEF DeleteReturns, ReturnError, Done, AddEnds
<1>6. QED BY <1>1, <1>2, <1>3, <1>4, <1>5 DEF AddDeleteSteps

-----------------------------------------------------------------------------
(* The invariant.                                                          *)

LEMMA GainedKeeps ==
  ASSUME TypeOK, LiveInv, RecordInv, Gained PROVE LiveInv' /\ RecordInv'
<1>1. LiveInv'
  BY DEF LiveInv, Gained, Live, TypeOK
<1>2. RecordInv'
  BY DEF RecordInv, Gained, Launched, TypeOK
<1>3. QED BY <1>1, <1>2

LEMMA EndKeeps ==
  ASSUME CInv, ProcessEnds PROVE OpInv' /\ LiveInv' /\ RecordInv' /\ GoneInv'
<1>1. OpInv' /\ GoneInv'
  BY DEF ProcessEnds, OpInv, GoneInv, CreateStep, AddStep, TearStep
<1>2. LiveInv'
  BY DEF CInv, ProcessEnds, LiveInv, Live
<1>3. RecordInv'
  BY DEF CInv, ProcessEnds, RecordInv, Launched
<1>4. QED BY <1>1, <1>2, <1>3

LEMMA CreateKeepsC ==
  ASSUME CInv, CreateSteps PROVE OpInv' /\ LiveInv' /\ RecordInv' /\ GoneInv'
<1>1. CASE ProcessEnds
  BY <1>1, EndKeeps
<1>2. CASE CreateGoes \/ CreateFailed \/ CreateEnds
  <2>1. Gained /\ op' = "Create" /\ at \in CreateStep
    BY <1>2 DEF CInv, OpInv, CreateGoes, CreateFailed, CreateEnds
  <2>2. LiveInv' /\ RecordInv'
    BY <2>1, GainedKeeps DEF CInv
  <2>3. OpInv'
    BY <1>2, <2>1 DEF CreateGoes, CreateFailed, CreateEnds, OpInv, CreateStep,
                      AddStep, TearStep
  <2>4. GoneInv'
    BY <2>1 DEF GoneInv
  <2>5. QED BY <2>2, <2>3, <2>4
<1>3. QED BY <1>1, <1>2, CreateSum DEF CInv

LEMMA AddDeleteKeepsC ==
  ASSUME CInv, AddDeleteSteps PROVE OpInv' /\ LiveInv' /\ RecordInv' /\ GoneInv'
<1>1. CASE ProcessEnds
  BY <1>1, EndKeeps
<1>2. CASE AddGoes \/ AddEnds
  <2>1. Gained /\ op' \in {"Add", "Delete"}
    BY <1>2 DEF CInv, OpInv, AddGoes, AddEnds
  <2>2. LiveInv' /\ RecordInv'
    BY <2>1, GainedKeeps DEF CInv
  <2>3. OpInv'
    BY <1>2 DEF CInv, AddGoes, AddEnds, OpInv, CreateStep, AddStep, TearStep
  <2>4. GoneInv'
    BY <2>1 DEF GoneInv
  <2>5. QED BY <2>2, <2>3, <2>4
<1>3. QED BY <1>1, <1>2, AddDeleteSum DEF CInv

(* With Terminate so far without an error each deletion has been checked:  *)
(* the security group goes only without instances, the VPC last.           *)
LEMMA TearGone ==
  ASSUME CInv, TearSteps PROVE GoneInv'
<1> USE DEF TearStep
<1>1. TypeOK /\ LiveInv /\ GoneInv
  BY DEF CInv
<1>2. CASE TerminateInstances
  BY <1>2 DEF TerminateInstances, GoneInv
<1>3. CASE InstancesTerminated
  BY <1>3 DEF InstancesTerminated, Then, GoneInv
<1>4. CASE DeleteSecurityGroup
  <2>1. Live' = Live
    BY <1>4 DEF DeleteSecurityGroup, Then, Live
  <2>2. CASE cfg.SecurityGroupIDs /\ ("sg" \in cloud => ~Blocked("sg"))
             /\ cloud' = cloud \ {"sg"}
    <3>1. Live' = {} /\ "sg" \notin cloud'
      BY <1>1, <2>1, <2>2 DEF Blocked, LiveInv
    <3>2. PICK e \in BOOLEAN : at' = AfterSecurityGroup /\ cfg' = cfg
      BY <1>4 DEF DeleteSecurityGroup, Then
    <3>3. QED BY <3>1, <3>2 DEF AfterSecurityGroup, GoneInv
  <2>3. CASE Then(AfterSecurityGroup, TRUE)
    BY <2>3 DEF Then, GoneInv
  <2>4. QED BY <1>4, <2>2, <2>3 DEF DeleteSecurityGroup
<1>5. CASE DeleteSubnet
  <2>1. at = "delsubnets" /\ at' = "detach" /\ UNCHANGED <<inst, cfg, op>>
        /\ cloud' \subseteq cloud /\ (errs => errs')
    BY <1>5 DEF DeleteSubnet, Then
  <2>2. QED BY <1>1, <2>1 DEF GoneInv, Live
<1>6. CASE DetachInternetGateway
  <2>1. at = "detach" /\ UNCHANGED <<inst, cfg, op>> /\ cloud' \subseteq cloud
        /\ (errs => errs') /\ (at' = "deligw" \/ errs')
    BY <1>6 DEF DetachInternetGateway, Then
  <2>2. QED BY <1>1, <2>1 DEF GoneInv, Live
<1>7. CASE DeleteInternetGateway
  <2>1. at = "deligw" /\ UNCHANGED <<inst, cfg, op>> /\ cloud' \subseteq cloud
        /\ (errs => errs')
        /\ ((at' = "delvpc" /\ "igw" \notin cloud') \/ errs')
    BY <1>7 DEF DeleteInternetGateway, Then
  <2>2. QED BY <1>1, <2>1 DEF GoneInv, Live
<1>8. CASE DeleteVPC
  <2>1. at = "delvpc" /\ UNCHANGED <<inst, cfg, op>> /\ cloud' \subseteq cloud
        /\ (errs => errs') /\ at' = AfterVPC
        /\ ((~Blocked("vpc") /\ cloud' = cloud \ {"vpc"}) \/ errs')
    BY <1>8 DEF DeleteVPC, Then
  <2>2. AfterVPC \in {"delkey", "torn"} /\ (AfterVPC = "torn" => ~cfg.KeyCreated)
    BY DEF AfterVPC
  <2>3. CASE op = "Terminate" /\ ~errs' /\ ~errs
    <3>1. Live = {} /\ "sg" \notin cloud /\ "igw" \notin cloud
      BY <1>1, <2>1, <2>3 DEF GoneInv
    <3>2. cloud \cap ({"sg", "attachment"} \cup Subnet) = {} /\ cloud' = cloud \ {"vpc"}
      BY <2>1, <2>3 DEF Blocked
    <3>3. cloud' \cap Network = {}
      BY <3>1, <3>2 DEF Network
    <3>4. Live' = {} /\ "sg" \notin cloud'
      BY <2>1, <3>1 DEF Live
    <3>5. QED BY <2>1, <2>2, <3>3, <3>4 DEF GoneInv
  <2>4. CASE ~(op = "Terminate" /\ ~errs' /\ ~errs)
    BY <2>1, <2>4 DEF GoneInv
  <2>5. QED BY <2>3, <2>4
<1>9. CASE DeleteKeyPair
  <2>1. at = "delkey" /\ at' = "torn" /\ UNCHANGED <<inst, cfg, op>>
        /\ cloud' \subseteq cloud /\ (errs => errs')
        /\ ("key" \notin cloud' \/ errs')
    BY <1>9 DEF DeleteKeyPair, Then
  <2>2. QED BY <1>1, <2>1 DEF GoneInv, Live
<1>10. CASE TearReturns
  BY <1>1, <1>10 DEF TearReturns, Done, GoneInv, Live, aws
<1>11. QED
  BY <1>2, <1>3, <1>4, <1>5, <1>6, <1>7, <1>8, <1>9, <1>10 DEF TearSteps

LEMMA TearKeepsC ==
  ASSUME CInv, TearSteps PROVE OpInv' /\ LiveInv' /\ RecordInv' /\ GoneInv'
<1>1. CASE TearGoes
  <2>1. OpInv'
    BY <1>1 DEF CInv, TearGoes, OpInv, CreateStep, AddStep, TearStep
  <2>2. Live' \subseteq Live
    BY <1>1 DEF TearGoes, Lost, Live
  <2>3. LiveInv'
    BY <1>1, <2>2 DEF CInv, TearGoes, LiveInv
  <2>4. Launched \subseteq Launched'
    BY <1>1 DEF TearGoes, Lost, Launched
  <2>5. RecordInv'
    BY <1>1, <2>4 DEF CInv, TearGoes, RecordInv
  <2>6. QED BY <2>1, <2>3, <2>5, TearGone
<1>2. CASE TearReturns
  <2>1. OpInv'
    BY <1>2 DEF TearReturns, Done, OpInv, CreateStep, AddStep, TearStep
  <2>2. LiveInv'
    BY <1>2 DEF CInv, TearReturns, aws, LiveInv, Live
  <2>3. RecordInv'
    BY <1>2 DEF CInv, TearReturns, aws, RecordInv, Launched, Sync
  <2>4. QED BY <2>1, <2>2, <2>3, TearGone
<1>3. QED BY <1>1, <1>2, TearSum DEF CInv

(* An instance that the file names has been launched, so that ending it    *)
(* makes no other instance live.                                           *)
LEMMA CallerKeepsC ==
  ASSUME CInv, Caller PROVE OpInv' /\ LiveInv' /\ RecordInv' /\ GoneInv'
<1> USE DEF CreateStep, AddStep, TearStep
<1>1. CASE Exit
  BY <1>1, EndKeeps DEF Exit
<1>2. CASE NewDeployer
  <2>1. OpInv' /\ UNCHANGED <<cloud, inst, disk, op, errs>> /\ cfg' = disk
        /\ at = "off" /\ at' = "idle"
    BY <1>2 DEF NewDeployer, aws, OpInv
  <2>2. LiveInv' /\ RecordInv'
    BY <2>1 DEF CInv, LiveInv, Live, RecordInv, Launched
  <2>3. op # "Terminate"
    BY <2>1 DEF CInv, OffInv
  <2>4. QED BY <2>1, <2>2, <2>3 DEF GoneInv
<1>3. ASSUME NEW o \in {"Create", "Terminate", "Add"}, NEW s, Call(o, s),
             <<o, s>> \in {<<"Create", "key">>, <<"Terminate", "instances">>,
                           <<"Add", "add">>}
      PROVE OpInv' /\ LiveInv' /\ RecordInv' /\ GoneInv'
  <2>1. at' = s /\ op' = o /\ UNCHANGED <<cloud, inst, cfg, disk>>
    BY <1>3 DEF Call, aws
  <2>2. OpInv' /\ GoneInv'
    BY <1>3, <2>1 DEF OpInv, GoneInv
  <2>3. LiveInv' /\ RecordInv'
    BY <2>1 DEF CInv, LiveInv, Live, RecordInv, Launched
  <2>4. QED BY <2>2, <2>3
<1>4. CASE Create
  BY <1>3, <1>4 DEF Create
<1>5. CASE Terminate
  BY <1>3, <1>5 DEF Terminate
<1>6. CASE Add
  BY <1>3, <1>6 DEF Add
<1>7. ASSUME NEW i \in Id, Delete(i)
      PROVE OpInv' /\ LiveInv' /\ RecordInv' /\ GoneInv'
  <2>1. op' = "Delete" /\ at' \in {"deleteWait", "idle"}
        /\ UNCHANGED <<cloud, cfg, disk>> /\ i \in cfg.Instances
    BY <1>7 DEF Delete
  <2>2. OpInv' /\ GoneInv'
    BY <2>1 DEF OpInv, GoneInv
  <2>3. inst \in [Id -> InstanceState] /\ inst[i] # "none"
    BY <2>1 DEF CInv, TypeOK, RecordInv, Launched
  <2>4. Live' = Live /\ Launched' = Launched
    BY <1>7, <2>3 DEF Delete, Live, Launched, InstanceState
  <2>5. QED BY <2>1, <2>2, <2>4 DEF CInv, LiveInv, RecordInv
<1>8. QED BY <1>1, <1>2, <1>4, <1>5, <1>6, <1>7 DEF Caller

LEMMA OthersKeepC ==
  ASSUME CInv, Environment \/ AWSStep \/ Ended \/ UNCHANGED vars
  PROVE OpInv' /\ LiveInv' /\ RecordInv' /\ GoneInv'
<1>1. CASE Crash
  BY <1>1, EndKeeps DEF Crash
<1>2. CASE Stop \/ Interrupt \/ ReadyStep \/ Ended \/ UNCHANGED vars
  <2>1. UNCHANGED <<cloud, inst, cfg, disk, at, op, errs>>
    BY <1>2 DEF Stop, Interrupt, ReadyStep, InstanceReady, Ended, vars, aws
  <2>2. QED
    BY <2>1 DEF CInv, OpInv, LiveInv, Live, RecordInv, Launched, GoneInv
<1>3. ASSUME NEW i \in Id, InstanceChanges(i)
      PROVE OpInv' /\ LiveInv' /\ RecordInv' /\ GoneInv'
  <2>1. UNCHANGED <<cloud, cfg, disk, at, op, errs>>
    BY <1>3 DEF InstanceChanges
  <2>2. Live' \subseteq Live /\ Launched \subseteq Launched'
    BY <1>3 DEF CInv, TypeOK, InstanceChanges, Live, Launched, InstanceState
  <2>3. OpInv'
    BY <2>1 DEF CInv, OpInv
  <2>4. LiveInv' /\ RecordInv'
    BY <2>1, <2>2 DEF CInv, LiveInv, RecordInv
  <2>5. GoneInv'
    BY <2>1, <2>2 DEF CInv, GoneInv
  <2>6. QED BY <2>3, <2>4, <2>5
<1>4. QED BY <1>1, <1>2, <1>3 DEF Environment, AWSStep

LEMMA OffKeeps ==
  ASSUME CInv, [Next]_vars PROVE OffInv'
<1> USE DEF CreateStep, AddStep, TearStep
<1>1. CASE ProcessEnds
  BY <1>1 DEF ProcessEnds, OffInv
<1>2. CASE CreateSteps
  BY <1>1, <1>2, CreateSum DEF CInv, CreateGoes, CreateFailed, CreateEnds, OffInv
<1>3. CASE AddDeleteSteps
  BY <1>1, <1>3, AddDeleteSum DEF CInv, AddGoes, AddEnds, OffInv
<1>4. CASE TearSteps
  BY <1>4, TearSum DEF CInv, TearGoes, TearReturns, Done, OffInv
<1>5. CASE Caller
  BY <1>1, <1>5 DEF Caller, NewDeployer, Create, Terminate, Add, Call, Exit,
                    Delete, OffInv
<1>6. CASE Environment \/ AWSStep \/ Ended \/ UNCHANGED vars
  BY <1>1, <1>6 DEF CInv, Environment, AWSStep, Crash, Stop, Interrupt,
                    ReadyStep, InstanceReady, InstanceChanges, Ended, vars, OffInv
<1>7. QED BY <1>2, <1>3, <1>4, <1>5, <1>6 DEF Next, DeployerStep

LEMMA InitCInv == Init => CInv
<1> SUFFICES ASSUME Init PROVE CInv
  OBVIOUS
<1>1. TypeOK
  BY InitIInv DEF IInv
<1>2. OffInv /\ OpInv /\ GoneInv
  BY DEF Init, OffInv, OpInv, GoneInv, CreateStep, AddStep, TearStep
<1>3. Live = {}
  BY DEF Init, Live
<1>4. cfg.Instances = {} /\ disk.Instances = {}
  BY DEF Init
<1>5. QED BY <1>1, <1>2, <1>3, <1>4 DEF CInv, LiveInv, RecordInv

LEMMA NextCInv == CInv /\ TypeOK' /\ [Next]_vars => CInv'
<1> SUFFICES ASSUME CInv, TypeOK', [Next]_vars PROVE CInv'
  OBVIOUS
<1>1. OpInv' /\ LiveInv' /\ RecordInv' /\ GoneInv'
  BY CreateKeepsC, AddDeleteKeepsC, TearKeepsC, CallerKeepsC, OthersKeepC
  DEF Next, DeployerStep
<1>2. QED BY <1>1, OffKeeps DEF CInv

LEMMA SpecCInv == Spec => []CInv
<1>1. Spec => []TypeOK
  BY EC2TypeCorrect
<1>2. QED BY <1>1, InitCInv, NextCInv, PTL DEF Spec

(* A Terminate that returns nil has left nothing: for every number of      *)
(* instances, whatever failed, stopped or crashed before.                  *)
THEOREM Terminates == Spec => []TerminatedMeansGone
<1>1. CInv => TerminatedMeansGone
  BY DEF CInv, GoneInv, TerminatedMeansGone, Network
<1>2. QED BY <1>1, SpecCInv, PTL

-----------------------------------------------------------------------------
(* The refinement.                                                         *)

LEMMA GainedUp ==
  ASSUME TypeOK, Gained PROVE Up \subseteq Up' /\ Ending' = Ending
<1>1. Up \subseteq Up'
  BY DEF TypeOK, Gained, Up
<1>2. Ending' = Ending
  BY DEF TypeOK, Gained, Ending
<1>3. QED BY <1>1, <1>2

LEMMA LostUp ==
  ASSUME TypeOK, Lost
  PROVE Up' \subseteq Up /\ Ending' = Ending \cup (Up \ Up')
<1>1. Up' \subseteq Up
  BY DEF TypeOK, Lost, Up, Live
<1>2. Ending' = Ending \cup (Up \ Up')
  BY DEF TypeOK, Lost, Up, Ending, Live
<1>3. QED BY <1>1, <1>2

LEMMA EndCloses ==
  ASSUME ProcessEnds PROVE Contract!Close
  BY DEF ProcessEnds, Contract!Close, Phase, Up, Ending

LEMMA CreateImplements ==
  ASSUME CInv, CreateSteps PROVE Contract!Next
<1>1. CASE ProcessEnds
  BY <1>1, EndCloses DEF Contract!Next
<1>2. CASE CreateGoes
  <2>1. Phase = "working" /\ Phase' = "working"
    BY <1>2 DEF CreateGoes, Phase, CreateStep, TearStep
  <2>2. Contract!Grow
    BY <1>2, <2>1, GainedUp DEF CInv, OpInv, CreateGoes, Gained, Contract!Grow
  <2>3. QED BY <2>2 DEF Contract!Next
<1>3. CASE CreateFailed
  <2>1. Phase = "working" /\ Phase' = "reverting"
    BY <1>3 DEF CreateFailed, Phase, CreateStep, TearStep
  <2>2. UNCHANGED <<Up, Ending>>
    BY <1>3 DEF CreateFailed, Up, Ending
  <2>3. op = "Create" /\ op' = op /\ errs' /\ cloud \subseteq cloud'
    BY <1>3 DEF CInv, OpInv, CreateFailed, Gained
  <2>4. errs' = TRUE
    BY <1>3 DEF CInv, CreateFailed, CreateSteps
  <2>5. Contract!Revert
    BY <2>1, <2>2, <2>3, <2>4 DEF Contract!Revert
  <2>6. QED BY <2>5 DEF Contract!Next
<1>4. CASE CreateEnds
  <2>1. Phase = "working" /\ Phase' = "idle"
    BY <1>4 DEF CreateEnds, Phase, CreateStep, TearStep
  <2>2. UNCHANGED <<Up, Ending, cloud, op, errs>>
    BY <1>4 DEF CreateEnds, Up, Ending, aws
  <2>3. Contract!Return
    BY <2>1, <2>2 DEF Contract!Return
  <2>4. QED BY <2>3 DEF Contract!Next
<1>5. QED BY <1>1, <1>2, <1>3, <1>4, CreateSum DEF CInv

LEMMA AddDeleteImplements ==
  ASSUME CInv, AddDeleteSteps PROVE [Contract!Next]_(Contract!vars)
<1>1. CASE ProcessEnds
  BY <1>1, EndCloses DEF Contract!Next
<1>2. CASE AddGoes
  <2>1. Phase = "working" /\ Phase' = "working" /\ op = "Add"
    BY <1>2 DEF CInv, OpInv, AddGoes, Phase, AddStep, TearStep
  <2>2. Up \subseteq Up' /\ Ending' = Ending
    BY <1>2, GainedUp DEF CInv, AddGoes
  <2>3. CASE Up' = Up
    BY <1>2, <2>1, <2>2, <2>3 DEF AddGoes, Contract!vars
  <2>4. CASE Up' # Up
    <3>1. PICK i \in Id : i \in Up' /\ i \notin Up
      BY <2>2, <2>4 DEF Up
    <3>2. inst'[i] # inst[i]
      BY <3>1 DEF Up
    <3>3. Up' \subseteq Up \cup {i}
      BY <1>2, <3>2 DEF AddGoes, Up
    <3>4. Contract!GrowByOne
      BY <1>2, <2>1, <2>2, <3>3 DEF AddGoes, Contract!GrowByOne
    <3>5. QED BY <3>4 DEF Contract!Next
  <2>5. QED BY <2>3, <2>4
<1>3. CASE AddEnds
  <2>1. Phase = "working" /\ Phase' = "idle" /\ op # "Create"
    BY <1>3 DEF CInv, OpInv, AddEnds, Phase, AddStep, TearStep
  <2>2. UNCHANGED <<Up, Ending, cloud, op>>
    BY <1>3 DEF AddEnds, Up, Ending, aws
  <2>3. Contract!Return
    BY <2>1, <2>2 DEF Contract!Return
  <2>4. QED BY <2>3 DEF Contract!Next
<1>4. QED BY <1>1, <1>2, <1>3, AddDeleteSum DEF CInv

LEMMA TearImplements ==
  ASSUME CInv, TearSteps PROVE Contract!Next
<1>1. CASE TearGoes
  <2>1. Phase = "reverting" /\ Phase' = "reverting"
    BY <1>1 DEF TearGoes, Phase, TearStep
  <2>2. Up' \subseteq Up /\ Ending' = Ending \cup (Up \ Up')
    BY <1>1, LostUp DEF CInv, TearGoes
  <2>3. cloud' \subseteq cloud /\ (errs => errs') /\ op' = op
    BY <1>1 DEF TearGoes, Lost
  <2>4. Contract!Shrink
    BY <2>1, <2>2, <2>3 DEF Contract!Shrink
  <2>5. QED BY <2>4 DEF Contract!Next
<1>2. CASE TearReturns
  <2>1. Phase = "reverting" /\ Phase' = "idle" /\ at = "torn"
    BY <1>2 DEF TearReturns, Done, Phase, TearStep
  <2>2. UNCHANGED <<Up, Ending, cloud, op, errs>>
    BY <1>2 DEF TearReturns, Done, Up, Ending, aws
  <2>3. op = "Create" => errs
    BY <2>1 DEF CInv, OpInv, TearStep
  <2>4. op = "Terminate" /\ ~errs => Live = {} /\ "sg" \notin cloud
    BY <2>1 DEF CInv, GoneInv
  <2>5. Up \cup Ending \subseteq Live
    BY DEF Up, Ending, Live
  <2>6. op = "Terminate" /\ ~errs => Up \cup Ending = {} /\ "sg" \notin cloud
    BY <2>4, <2>5
  <2>7. Contract!ReturnReverted
    BY <2>1, <2>2, <2>3, <2>6 DEF Contract!ReturnReverted
  <2>8. QED BY <2>7 DEF Contract!Next
<1>3. QED BY <1>1, <1>2, TearSum DEF CInv

LEMMA CallerImplements ==
  ASSUME CInv, Caller PROVE Contract!Next
<1> USE DEF TearStep
<1>1. CASE Exit
  BY <1>1, EndCloses DEF Exit, Contract!Next
<1>2. CASE NewDeployer
  <2>1. Phase = "off" /\ Phase' = "idle" /\ UNCHANGED <<op, errs, Up, Ending, cloud>>
    BY <1>2 DEF NewDeployer, aws, Phase, Up, Ending
  <2>2. QED BY <2>1 DEF Contract!Open, Contract!Next
<1>3. ASSUME NEW o \in {"Create", "Terminate", "Add"}, NEW s, Call(o, s),
             <<o, s>> \in {<<"Create", "key">>, <<"Terminate", "instances">>,
                           <<"Add", "add">>}
      PROVE Contract!Next
  <2>1. Phase = "idle" /\ op' = o /\ errs' = FALSE
        /\ UNCHANGED <<Up, Ending, cloud>>
    BY <1>3 DEF Call, aws, Phase, Up, Ending
  <2>2. Phase' = IF o = "Terminate" THEN "reverting" ELSE "working"
    BY <1>3 DEF Call, Phase
  <2>3. Contract!Call(o)
    BY <2>1, <2>2 DEF Contract!Call
  <2>4. QED BY <2>3 DEF Contract!Next
<1>4. CASE Create
  BY <1>3, <1>4 DEF Create
<1>5. CASE Terminate
  BY <1>3, <1>5 DEF Terminate
<1>6. CASE Add
  BY <1>3, <1>6 DEF Add
<1>7. ASSUME NEW i \in Id, Delete(i) PROVE Contract!Next
  <2>1. inst \in [Id -> InstanceState] /\ inst[i] # "none" /\ cloud' = cloud
        /\ op' = "Delete" /\ Phase = "idle"
    BY <1>7 DEF CInv, TypeOK, RecordInv, Launched, Delete, Phase
  <2>2. CASE /\ inst' = [inst EXCEPT ![i] = IF @ = "terminated" THEN @
                                            ELSE "shutting-down"]
             /\ at' = "deleteWait" /\ errs' = FALSE
    <3>1. Phase' = "working"
      BY <2>2 DEF Phase
    <3>2. Up' = Up \ {i}
      BY <2>1, <2>2 DEF Up
    <3>3. Ending' = Ending \cup (Up \cap {i})
      BY <2>1, <2>2 DEF Up, Ending, InstanceState
    <3>4. Contract!CallDelete(i)
      BY <2>1, <2>2, <3>1, <3>2, <3>3 DEF Contract!CallDelete
    <3>5. QED BY <3>4 DEF Contract!Next
  <2>3. CASE UNCHANGED inst /\ at' = "idle" /\ errs' = TRUE
    <3>1. Phase' = "idle" /\ UNCHANGED <<Up, Ending>>
      BY <2>3 DEF Phase, Up, Ending
    <3>2. Contract!CallDelete(i)
      BY <2>1, <2>3, <3>1 DEF Contract!CallDelete
    <3>3. QED BY <3>2 DEF Contract!Next
  <2>4. QED BY <1>7, <2>2, <2>3 DEF Delete
<1>8. QED BY <1>1, <1>2, <1>4, <1>5, <1>6, <1>7 DEF Caller

LEMMA OthersImplement ==
  ASSUME CInv, Environment \/ AWSStep \/ Ended \/ UNCHANGED vars
  PROVE [Contract!Next]_(Contract!vars)
<1>1. CASE Crash
  BY <1>1, EndCloses DEF Crash, Contract!Next
<1>2. CASE Stop \/ Interrupt \/ ReadyStep \/ Ended \/ UNCHANGED vars
  BY <1>2 DEF Stop, Interrupt, ReadyStep, InstanceReady, Ended, vars, aws,
              Contract!vars, Phase, Up, Ending
<1>3. ASSUME NEW i \in Id, InstanceChanges(i)
      PROVE Contract!InstanceEnds
  <2>1. Phase' = Phase /\ UNCHANGED <<op, errs, cloud>>
    BY <1>3 DEF InstanceChanges, Phase
  <2>2. Up' = Up /\ Ending' \subseteq Ending
    BY <1>3 DEF CInv, TypeOK, InstanceChanges, Up, Ending
  <2>3. QED BY <2>1, <2>2 DEF Contract!InstanceEnds
<1>4. QED BY <1>1, <1>2, <1>3 DEF Environment, AWSStep, Contract!Next

LEMMA StepImplements ==
  CInv /\ [Next]_vars => [Contract!Next]_(Contract!vars)
  BY CreateImplements, AddDeleteImplements, TearImplements, CallerImplements,
     OthersImplement DEF Next, DeployerStep

LEMMA InitImplements == Init => Contract!Init
<1> SUFFICES ASSUME Init PROVE Contract!Init
  OBVIOUS
<1>1. cloud \subseteq Resource
  BY InitIInv DEF IInv, TypeOK
<1>2. Up = {} /\ Ending = {} /\ Phase = "off"
  BY DEF Init, Up, Ending, Phase
<1>3. QED BY <1>1, <1>2 DEF Init, Contract!Init

(* The deployer keeps the contract: each step of Create, Add, Delete and   *)
(* Terminate is a step of it or changes nothing that it speaks of.         *)
THEOREM Implements == Spec => ContractKept
<1>1. Spec => []CInv
  BY SpecCInv
<1>2. QED
  BY <1>1, InitImplements, StepImplements, PTL DEF Spec, ContractKept, Contract!Spec

-----------------------------------------------------------------------------
(* The instances of Create.  While it runs, the bound leaves room for what *)
(* it has still to launch; the groups that are left, and what is left of   *)
(* the current one, are what is missing.                                   *)
Group == Min2(Alloc, left)

RoomInv ==
  at \in CreateStep =>
    /\ tokens \subseteq Launched
    /\ at \notin {"run", "poll", "wait", "created"} => tokens = {}
    /\ Cardinality(Launched) + cfg.ClusterSize <= MaxInstances + Cardinality(tokens)

GroupInv ==
  at = "run" /\ cfg.SubnetIDs # {} =>
    /\ chunk <= Group
    /\ Cardinality(tokens) + left =
         cfg.ClusterSize + (IF chunk > 0 THEN Group - chunk ELSE 0)

(* Since the security group was not there when Create made it, it has the  *)
(* only instances; when all are launched there are ClusterSize.            *)
Created == at \in {"poll", "wait", "created"} \/ (at = "idle" /\ op = "Create" /\ ~errs)

OwnInv ==
  /\ at \in {"ingress", "run"} \/ Created => Live \subseteq tokens
  /\ Created => /\ Cardinality(tokens) = cfg.ClusterSize
                /\ cfg.Instances \subseteq tokens

CountInv == RoomInv /\ GroupInv /\ OwnInv

(* The first of some numbers.                                              *)
LEMMA Least ==
  ASSUME NEW S, S \subseteq Nat, S # {}
  PROVE  \E m \in S : \A n \in S : m <= n
<1>1. PICK m \in S : \A n \in S : ~(<<n, m>> \in OpToRel(<, Nat))
  BY NatLessThanWellFounded, WFMin
<1>2. \A n \in S : ~(n < m)
  BY <1>1 DEF OpToRel
<1>3. QED BY <1>2

(* The elements of S that have fewer than n before them are n, if S has as *)
(* many: with each n the next one joins.                                   *)
First(S, n) == {i \in S : Cardinality({j \in S : j < i}) < n}

LEMMA NextJoins ==
  ASSUME NEW S \in SUBSET Id, NEW n \in Nat, n < Cardinality(S),
         Cardinality(First(S, n)) = n
  PROVE  Cardinality(First(S, n + 1)) = n + 1
<1> DEFINE below(i) == {j \in S : j < i}
<1>0. S \subseteq Nat /\ IsFiniteSet(S)
  BY IdFinite, MaxInstancesAssumption DEF Id
<1>1. \A i \in S : /\ below(i) \in SUBSET S /\ IsFiniteSet(below(i))
                   /\ Cardinality(below(i)) \in Nat
  BY <1>0, FS_Subset, FS_CardinalityType
<1>2. \A k \in Nat : First(S, k) = {i \in S : Cardinality(below(i)) < k}
  BY DEF First
<1> HIDE DEF below
<1>3. First(S, n) \subseteq S /\ First(S, n) # S
  BY <1>2
<1>4. PICK m \in S \ First(S, n) : \A i \in S \ First(S, n) : m <= i
  BY <1>0, <1>3, Least
<1>5. Cardinality(below(m)) = n
  <2>1. ASSUME NEW j \in below(m) PROVE j \in First(S, n)
    <3>1. j \in S /\ j < m
      BY DEF below
    <3>2. j \in Nat /\ m \in Nat
      BY <1>0, <1>4, <3>1
    <3>3. ~(m <= j)
      BY <3>1, <3>2
    <3>4. QED BY <1>4, <3>1, <3>3
  <2>2. ASSUME NEW i \in First(S, n) PROVE i \in below(m)
    <3>1. i \in S /\ i # m /\ Cardinality(below(i)) < n
      BY <1>2, <1>4
    <3>2. CASE m < i
      <4>1. below(m) \subseteq below(i)
        <5> SUFFICES ASSUME NEW j \in below(m) PROVE j \in below(i)
          OBVIOUS
        <5>1. j \in S /\ j < m
          BY DEF below
        <5>2. j \in Nat /\ m \in Nat /\ i \in Nat
          BY <1>0, <1>4, <3>1, <5>1
        <5>3. j < i
          BY <3>2, <5>1, <5>2
        <5>4. QED BY <5>1, <5>3 DEF below
      <4>2. Cardinality(below(m)) <= Cardinality(below(i))
        BY <1>1, <3>1, <4>1, FS_Subset
      <4>3. Cardinality(below(m)) < n
        BY <1>1, <1>4, <3>1, <4>2
      <4>4. QED BY <1>2, <1>4, <4>3
    <3>3. CASE i < m
      BY <3>1, <3>3 DEF below
    <3>4. QED BY <1>0, <1>4, <3>1, <3>2, <3>3
  <2>3. below(m) = First(S, n)
    BY <2>1, <2>2
  <2>4. QED BY <2>3
<1>6. First(S, n + 1) = First(S, n) \cup {m}
  <2>1. First(S, n) \cup {m} \subseteq First(S, n + 1)
    BY <1>1, <1>2, <1>4, <1>5
  <2>2. ASSUME NEW i \in First(S, n + 1), i \notin First(S, n), i # m PROVE FALSE
    <3>1. i \in S /\ Cardinality(below(i)) < n + 1
      BY <1>2
    <3>2. m < i
      BY <1>0, <1>4, <2>2, <3>1
    <3>3. below(m) \cup {m} \in SUBSET below(i) /\ m \notin below(m)
      <4>1. m \in below(i)
        BY <1>4, <3>2 DEF below
      <4>2. ASSUME NEW j \in below(m) PROVE j \in below(i) /\ j # m
        <5>1. j \in S /\ j < m
          BY DEF below
        <5>2. j \in Nat /\ m \in Nat /\ i \in Nat
          BY <1>0, <1>4, <3>1, <5>1
        <5>3. j < i /\ j # m
          BY <3>2, <5>1, <5>2
        <5>4. QED BY <5>1, <5>3 DEF below
      <4>3. QED BY <4>1, <4>2
    <3>4. Cardinality(below(m) \cup {m}) = n + 1
      BY <1>1, <1>4, <1>5, <3>3, FS_AddElement
    <3>5. n + 1 <= Cardinality(below(i))
      BY <1>1, <3>1, <3>3, <3>4, FS_Subset
    <3>6. QED BY <1>1, <3>1, <3>5
  <2>3. QED BY <2>1, <2>2
<1>7. IsFiniteSet(First(S, n)) /\ m \notin First(S, n)
  BY <1>0, <1>3, <1>4, FS_Subset
<1>8. QED BY <1>6, <1>7, FS_AddElement

LEMMA FirstCount ==
  ASSUME NEW S \in SUBSET Id, NEW n \in Nat, n <= Cardinality(S)
  PROVE  Cardinality(First(S, n)) = n
<1>0. Cardinality(S) \in Nat
  BY IdFinite, FS_CardinalityType
<1> DEFINE Wrong == {k \in Nat : k <= Cardinality(S) /\ Cardinality(First(S, k)) # k}
<1>1. Wrong = {}
  <2> SUFFICES ASSUME Wrong # {} PROVE FALSE
    OBVIOUS
  <2>1. PICK k \in Wrong : \A l \in Wrong : k <= l
    BY Least
  <2>2. CASE k = 0
    <3>1. \A i \in S : Cardinality({j \in S : j < i}) \in Nat
      <4>1. \A i \in S : {j \in S : j < i} \in SUBSET Id
        OBVIOUS
      <4>2. QED BY <4>1, IdFinite, FS_CardinalityType
    <3>2. First(S, 0) = {}
      BY <3>1 DEF First
    <3>3. QED BY <2>1, <2>2, <3>2, FS_EmptySet
  <2>3. CASE k # 0
    <3>1. k - 1 \in Nat /\ k - 1 < Cardinality(S) /\ k = (k - 1) + 1
      BY <1>0, <2>1, <2>3
    <3>2. Cardinality(First(S, k - 1)) = k - 1
      BY <1>0, <2>1, <3>1
    <3>3. Cardinality(First(S, (k - 1) + 1)) = (k - 1) + 1
      BY <3>1, <3>2, NextJoins
    <3>4. QED BY <2>1, <3>1, <3>3
  <2>4. QED BY <2>2, <2>3
<1>2. QED BY <1>1

(* RunInstances launches n.                                                *)
LEMMA LaunchCounts ==
  ASSUME TypeOK, NEW n \in Nat, LaunchN(n), tokens \subseteq Launched,
         Cardinality(Launched) + n <= MaxInstances
  PROVE  /\ Cardinality(Launched') = Cardinality(Launched) + n
         /\ Cardinality(tokens') = Cardinality(tokens) + n
         /\ tokens' \subseteq Launched'
         /\ Live \subseteq tokens => Live' \subseteq tokens'
<1> DEFINE new == First(Id \ Launched, n)
<1>1. inst' = [i \in Id |-> IF i \in new THEN "pending" ELSE inst[i]]
      /\ tokens' = tokens \cup new
  BY DEF LaunchN, First
<1>2. Launched \in SUBSET Id /\ tokens \in SUBSET Id
  BY DEF Launched
<1>3. Cardinality(Id \ Launched) = MaxInstances - Cardinality(Launched)
  <2>1. IsFiniteSet(Id) /\ Cardinality(Id) = MaxInstances
    BY MaxInstancesAssumption, FS_Interval DEF Id
  <2>2. Id \cap Launched = Launched
    BY <1>2
  <2>3. QED BY <2>1, <2>2, FS_Difference
<1>4. IsFiniteSet(Launched) /\ Cardinality(Launched) \in Nat
      /\ IsFiniteSet(tokens) /\ Cardinality(tokens) \in Nat
  BY <1>2, IdFinite, FS_CardinalityType
<1>5. n <= Cardinality(Id \ Launched)
  BY <1>3, <1>4, MaxInstancesAssumption
<1>6. Cardinality(new) = n
  BY <1>5, FirstCount
<1>7. new \subseteq Id \ Launched
  BY DEF First
<1> HIDE DEF new
<1>8. Launched' = Launched \cup new
  BY <1>1, <1>7 DEF Launched
<1>9. Launched \cap new = {} /\ tokens \cap new = {}
  BY <1>7
<1>10. IsFiniteSet(new)
  BY <1>7, IdFinite
<1>11. Cardinality(Launched \cup new) = Cardinality(Launched) + n
       /\ Cardinality(tokens \cup new) = Cardinality(tokens) + n
  <2>1. Cardinality(Launched \cap new) = 0 /\ Cardinality(tokens \cap new) = 0
    BY <1>9, FS_EmptySet
  <2>2. Cardinality(Launched \cup new) =
          Cardinality(Launched) + Cardinality(new) - Cardinality(Launched \cap new)
    BY <1>4, <1>10, FS_Union
  <2>3. Cardinality(tokens \cup new) =
          Cardinality(tokens) + Cardinality(new) - Cardinality(tokens \cap new)
    BY <1>4, <1>10, FS_Union
  <2>4. QED BY <1>4, <1>6, <2>1, <2>2, <2>3
<1>12. Live \subseteq tokens => Live' \subseteq tokens'
  BY <1>1, <1>7 DEF Live
<1>13. QED BY <1>1, <1>8, <1>11, <1>12

-----------------------------------------------------------------------------
(* The steps before the instances.                                         *)
Prepare == CreateStep \ {"ingress", "run", "poll", "wait", "created"}

LEMMA PrepareSum ==
  ASSUME TypeOK,
         \/ CreateKeyPair \/ KeyPairMade \/ CreateVPC \/ VPCAttributes
         \/ CreateInternetGateway \/ AttachInternetGateway \/ CreateRoutes
         \/ MarkVPCCreated \/ CreateSubnet \/ GetSubnets \/ AssociatePublicIP
  PROVE  \/ at' = "instances"
         \/ /\ at \in Prepare /\ at' \in Prepare /\ UNCHANGED <<inst, tokens>>
            /\ cfg'.ClusterSize = cfg.ClusterSize
<1> USE DEF Prepare, CreateStep, StepFails, Fail, Return, Goto, aws, plan
<1>0. cfg \in Config
  BY DEF TypeOK
<1>1. CASE CreateKeyPair
  BY <1>1 DEF CreateKeyPair
<1>2. CASE KeyPairMade
  BY <1>0, <1>2 DEF KeyPairMade, Config
<1>3. CASE CreateVPC
  BY <1>0, <1>3 DEF CreateVPC, Config
<1>4. CASE VPCAttributes
  BY <1>4 DEF VPCAttributes
<1>5. CASE CreateInternetGateway
  BY <1>0, <1>5 DEF CreateInternetGateway, Config
<1>6. CASE AttachInternetGateway
  BY <1>6 DEF AttachInternetGateway
<1>7. CASE CreateRoutes
  BY <1>7 DEF CreateRoutes
<1>8. CASE MarkVPCCreated
  BY <1>0, <1>8 DEF MarkVPCCreated, Config
<1>9. CASE CreateSubnet
  BY <1>0, <1>9 DEF CreateSubnet, Config
<1>10. CASE GetSubnets
  BY <1>0, <1>10 DEF GetSubnets, Config
<1>11. CASE AssociatePublicIP
  BY <1>11 DEF AssociatePublicIP
<1>12. QED
  BY <1>1, <1>2, <1>3, <1>4, <1>5, <1>6, <1>7, <1>8, <1>9, <1>10, <1>11

(* Nothing is said of a deployer that does not create and did not.         *)
LEMMA NotCreating ==
  ASSUME at' \notin CreateStep, at' # "idle" \/ op' # "Create" \/ errs'
  PROVE  CountInv'
  BY DEF CountInv, RoomInv, GroupInv, OwnInv, Created, CreateStep

LEMMA CreateCounts ==
  ASSUME CInv, CountInv, CreateSteps PROVE CountInv'
<1> USE DEF CInv
<1>a. /\ "instances" \notin CreateStep /\ "off" \notin CreateStep
      /\ {"ingress", "run", "poll", "wait", "created"} \subseteq CreateStep
  BY DEF CreateStep
<1>b. /\ Cardinality(tokens) \in Nat /\ Cardinality(Launched) \in Nat
      /\ cfg \in Config /\ cfg.ClusterSize \in Nat
  <2>1. tokens \in SUBSET Id /\ Launched \in SUBSET Id
    BY DEF TypeOK, Launched
  <2>2. QED BY <2>1, IdFinite, FS_CardinalityType DEF TypeOK, Config
<1>c. CASE at' = "instances"
  BY <1>a, <1>c, NotCreating
<1>d. CASE ProcessEnds
  BY <1>a, <1>d, NotCreating DEF ProcessEnds
<1>1. CASE \/ CreateKeyPair \/ KeyPairMade \/ CreateVPC \/ VPCAttributes
           \/ CreateInternetGateway \/ AttachInternetGateway \/ CreateRoutes
           \/ MarkVPCCreated \/ CreateSubnet \/ GetSubnets \/ AssociatePublicIP
  <2> SUFFICES ASSUME at' # "instances" PROVE CountInv'
    BY <1>c
  <2>1. /\ at \in Prepare /\ at' \in Prepare /\ UNCHANGED <<inst, tokens>>
        /\ cfg'.ClusterSize = cfg.ClusterSize
    BY <1>1, PrepareSum
  <2>2. QED
    BY <2>1 DEF CountInv, RoomInv, GroupInv, OwnInv, Created, Prepare, CreateStep,
                Launched
<1>2. CASE CreateSecurityGroup
  <2> SUFFICES ASSUME at' # "instances" PROVE CountInv'
    BY <1>c
  <2>1. /\ at = "sg" /\ "sg" \notin cloud /\ at' = "ingress"
        /\ cfg' = [cfg EXCEPT !.SecurityGroupIDs = TRUE]
        /\ UNCHANGED <<inst, tokens>>
    BY <1>2 DEF CreateSecurityGroup, StepFails, Fail, Goto, plan
  <2>2. Live' = {} /\ Launched' = Launched /\ cfg'.ClusterSize = cfg.ClusterSize
    BY <1>b, <2>1 DEF LiveInv, Live, Launched, Config
  <2>3. tokens = {} /\ Cardinality(Launched) + cfg.ClusterSize
                        <= MaxInstances + Cardinality(tokens)
    BY <1>a, <2>1 DEF CountInv, RoomInv, CreateStep
  <2>4. RoomInv'
    BY <2>1, <2>2, <2>3 DEF RoomInv
  <2>5. GroupInv'
    BY <2>1 DEF GroupInv
  <2>6. OwnInv'
    BY <2>1, <2>2 DEF OwnInv, Created
  <2>7. QED BY <2>4, <2>5, <2>6 DEF CountInv
<1>3. CASE AuthorizeIngress
  <2> SUFFICES ASSUME at' # "instances" PROVE CountInv'
    BY <1>c
  <2>1. /\ at = "ingress" /\ at' = "run" /\ UNCHANGED <<inst, cfg>>
        /\ tokens' = {} /\ left' = cfg.ClusterSize /\ chunk' = 0
    BY <1>3 DEF AuthorizeIngress, StepFails, Fail, Goto, aws
  <2>2. tokens = {}
    BY <1>a, <2>1 DEF CountInv, RoomInv
  <2>3. RoomInv' /\ OwnInv'
    BY <1>a, <2>1, <2>2 DEF CountInv, RoomInv, OwnInv, Created, Live, Launched
  <2>4. GroupInv'
    <3> SUFFICES ASSUME cfg'.SubnetIDs # {} PROVE GroupInv'
      BY DEF GroupInv
    <3>1. Alloc \in Nat /\ Alloc' = Alloc
      BY <2>1, AllocNat DEF Alloc
    <3>2. Group' \in Nat
      BY <1>b, <2>1, <3>1 DEF Group, Min2
    <3>3. chunk' <= Group' /\ ~(chunk' > 0)
      BY <2>1, <3>2
    <3>4. Cardinality(tokens') + left' = cfg'.ClusterSize
      BY <1>b, <2>1, FS_EmptySet
    <3>5. Cardinality(tokens') + left' =
            cfg'.ClusterSize + (IF chunk' > 0 THEN Group' - chunk' ELSE 0)
      BY <1>b, <2>1, <3>3, <3>4
    <3>6. QED BY <3>3, <3>5 DEF GroupInv
  <2>5. QED BY <2>3, <2>4 DEF CountInv
<1>4. CASE DividePanics
  BY <1>4, <1>d DEF DividePanics
<1>5. CASE RunInstances
  <2> SUFFICES ASSUME at' # "instances" PROVE CountInv'
    BY <1>c
  <2> DEFINE n == IF chunk > 0 THEN chunk ELSE Group
             x == Min2(n, RunInstancesBatch)
  <2>1. /\ at = "run" /\ cfg.SubnetIDs # {} /\ LaunchN(x) /\ chunk' = n - x
        /\ left' = IF chunk' = 0 THEN left - Group ELSE left
        /\ \/ left' = 0 /\ at' = "poll" /\ cfg' = [cfg EXCEPT !.Instances = {}]
           \/ left' # 0 /\ at' = "run" /\ cfg' = cfg
    BY <1>5 DEF RunInstances, StepFails, Fail, Goto, Group
  <2>2. /\ Alloc \in Nat /\ left \in Nat /\ chunk \in Nat
    BY <2>1, AllocNat DEF TypeOK
  <2>3. Group \in Nat /\ Group <= left
    BY <2>2 DEF Group, Min2
  <2>4. /\ chunk <= Group
        /\ Cardinality(tokens) + left =
             cfg.ClusterSize + (IF chunk > 0 THEN Group - chunk ELSE 0)
    BY <2>1 DEF CountInv, GroupInv
  <2>5. /\ n \in Nat /\ n <= Group
        /\ Cardinality(tokens) + left = cfg.ClusterSize + (Group - n)
    BY <1>b, <2>2, <2>3, <2>4
  <2>6. x \in Nat /\ x <= n /\ (x = 0 => n = 0)
    BY <2>5, BatchAssumption DEF Min2
  <2> HIDE DEF n, x
  <2>7. /\ tokens \subseteq Launched /\ Live \subseteq tokens
        /\ Cardinality(Launched) + cfg.ClusterSize <= MaxInstances + Cardinality(tokens)
    BY <1>a, <2>1 DEF CountInv, RoomInv, OwnInv
  <2>8. Cardinality(Launched) + x <= MaxInstances
    BY <1>b, <2>2, <2>3, <2>5, <2>6, <2>7, MaxInstancesAssumption
  <2>9. /\ Cardinality(Launched') = Cardinality(Launched) + x
        /\ Cardinality(tokens') = Cardinality(tokens) + x
        /\ tokens' \subseteq Launched' /\ Live' \subseteq tokens'
    BY <2>1, <2>6, <2>7, <2>8, LaunchCounts
  <2>10. cfg'.ClusterSize = cfg.ClusterSize
    BY <1>b, <2>1 DEF Config
  <2>11. RoomInv'
    <3>1. Cardinality(Launched') + cfg'.ClusterSize <= MaxInstances + Cardinality(tokens')
      BY <1>b, <2>6, <2>7, <2>9, <2>10, MaxInstancesAssumption
    <3>2. QED BY <2>1, <2>9, <3>1 DEF RoomInv
  <2>12. Cardinality(tokens') + left' =
           IF chunk' = 0 THEN cfg.ClusterSize ELSE cfg.ClusterSize + (Group - chunk')
    BY <1>b, <2>1, <2>2, <2>3, <2>5, <2>6, <2>9
  <2>13. CASE at' = "poll"
    <3>1. left' = 0 /\ cfg'.Instances = {}
      BY <1>b, <2>1, <2>13 DEF Config
    <3>2. chunk' = 0
      BY <2>1, <2>2, <2>3, <2>5, <2>6, <3>1
    <3>3. Cardinality(tokens') = cfg'.ClusterSize
      BY <1>b, <2>6, <2>9, <2>10, <2>12, <3>1, <3>2
    <3>4. QED
      BY <2>9, <2>11, <2>13, <3>1, <3>3 DEF CountInv, GroupInv, OwnInv
  <2>14. CASE at' = "run"
    <3>1. cfg' = cfg /\ Alloc' = Alloc
      BY <2>1, <2>14 DEF Alloc
    <3>2. chunk' \in Nat /\ chunk' <= Group /\ (chunk' > 0 => Group' = Group)
      BY <2>1, <2>3, <2>5, <2>6, <3>1 DEF Group
    <3>3. Group' \in Nat
      <4>1. left' \in Nat
        BY <2>1, <2>2, <2>3
      <4>2. QED BY <2>2, <3>1, <4>1 DEF Group, Min2
    <3>4. GroupInv'
      <4>1. CASE chunk' = 0
        <5>1. chunk' <= Group' /\ ~(chunk' > 0)
          BY <3>3, <4>1
        <5>2. Cardinality(tokens') + left' = cfg'.ClusterSize
          BY <2>12, <3>1, <4>1
        <5>3. Cardinality(tokens') + left' =
                cfg'.ClusterSize + (IF chunk' > 0 THEN Group' - chunk' ELSE 0)
          BY <1>b, <3>1, <5>1, <5>2
        <5>4. QED BY <5>1, <5>3 DEF GroupInv
      <4>2. CASE chunk' > 0
        BY <2>12, <3>1, <3>2, <4>2 DEF GroupInv
      <4>3. QED BY <3>2, <4>1, <4>2
    <3>5. OwnInv'
      BY <2>9, <2>14 DEF OwnInv, Created
    <3>6. QED BY <2>11, <3>4, <3>5 DEF CountInv
  <2>15. QED BY <2>1, <2>13, <2>14
<1>6. CASE PollInstances
  <2>1. /\ at = "poll" /\ at' = "poll" /\ UNCHANGED <<inst, tokens>>
        /\ cfg' = [cfg EXCEPT !.Instances = @ \cup NewlyRunning]
    BY <1>6 DEF PollInstances, Goto, aws, plan
  <2>2. cfg'.Instances = cfg.Instances \cup NewlyRunning
        /\ cfg'.ClusterSize = cfg.ClusterSize
    BY <1>b, <2>1 DEF Config
  <2>3. NewlyRunning \subseteq tokens
    BY DEF NewlyRunning
  <2>4. RoomInv' /\ GroupInv'
    BY <1>a, <2>1, <2>2 DEF CountInv, RoomInv, GroupInv, Launched
  <2>5. OwnInv'
    BY <2>1, <2>2, <2>3 DEF CountInv, OwnInv, Created, Live
  <2>6. QED BY <2>4, <2>5 DEF CountInv
<1>7. CASE InstancesCreated \/ WaitReturns \/ CreateReturns
  <2> SUFFICES ASSUME at' # "instances" PROVE CountInv'
    BY <1>c
  <2>1. /\ at \in {"poll", "wait", "created"} /\ at' \in {"wait", "created", "idle"}
        /\ UNCHANGED <<inst, tokens, cfg>>
    BY <1>7 DEF InstancesCreated, WaitReturns, CreateReturns, Return, Fail, Goto,
                Done, aws, plan
  <2>2. QED
    BY <1>a, <2>1 DEF CountInv, RoomInv, GroupInv, OwnInv, Created, Live, Launched,
                      CreateStep
<1>8. QED
  BY <1>1, <1>2, <1>3, <1>4, <1>5, <1>6, <1>7 DEF CreateSteps

LEMMA OthersCount ==
  ASSUME CInv, CountInv,
         \/ AddDeleteSteps \/ TearSteps \/ Caller \/ Environment \/ AWSStep
         \/ Ended \/ UNCHANGED vars
  PROVE  CountInv'
<1> USE DEF CInv
<1>0. CASE ProcessEnds
  BY <1>0, NotCreating DEF ProcessEnds, CreateStep
<1>1. CASE AddDeleteSteps
  BY <1>0, <1>1, NotCreating
  DEF AddDeleteSteps, AddRunInstances, AddPoll, AddNotReady, AddReturns,
      DeleteReturns, ReturnError, Done, OpInv, AddStep, CreateStep
<1>2. CASE TearSteps
  <2>1. CASE TearGoes
    BY <2>1, NotCreating DEF TearGoes, TearStep, CreateStep
  <2>2. CASE TearReturns
    BY <2>2, NotCreating DEF TearReturns, Done, OpInv, TearStep, CreateStep
  <2>3. QED BY <1>2, <2>1, <2>2, TearSum
<1>3. CASE Caller
  <2>1. CASE Create
    <3>1. /\ at' = "key" /\ tokens' = {} /\ UNCHANGED <<inst, cfg>>
          /\ Cardinality(Launched) + cfg.ClusterSize <= MaxInstances
      BY <2>1 DEF Create, Call, aws
    <3>2. Cardinality({}) = 0
      BY FS_EmptySet
    <3>3. RoomInv'
      BY <3>1, <3>2, MaxInstancesAssumption DEF RoomInv, Launched
    <3>4. QED BY <3>1, <3>3 DEF CountInv, GroupInv, OwnInv, Created
  <2>2. CASE NewDeployer
    BY <2>2, NotCreating DEF NewDeployer, OffInv, CreateStep
  <2>3. CASE Terminate \/ Add \/ Exit \/ \E i \in Id : Delete(i)
    BY <1>0, <2>3, NotCreating DEF Terminate, Add, Call, Exit, Delete, CreateStep
  <2>4. QED BY <1>3, <2>1, <2>2, <2>3 DEF Caller
<1>4. CASE AWSStep
  <2>1. PICK i \in Id : InstanceChanges(i)
    BY <1>4 DEF AWSStep
  <2>2. Live' \subseteq Live /\ Launched' = Launched
    BY <2>1 DEF InstanceChanges, TypeOK, Live, Launched
  <2>3. UNCHANGED <<at, op, errs, cfg, tokens, left, chunk>>
    BY <2>1 DEF InstanceChanges, plan
  <2>4. QED
    BY <2>2, <2>3 DEF CountInv, RoomInv, GroupInv, Group, Alloc, OwnInv, Created
<1>5. CASE Stop \/ Interrupt \/ ReadyStep \/ Ended \/ UNCHANGED vars
  <2>1. UNCHANGED <<inst, at, op, errs, cfg, tokens, left, chunk>>
    BY <1>5 DEF Stop, Interrupt, ReadyStep, InstanceReady, Ended, vars, aws, plan
  <2>2. QED
    BY <2>1 DEF CountInv, RoomInv, GroupInv, Group, Alloc, OwnInv, Created, Live,
                Launched
<1>6. QED BY <1>0, <1>1, <1>2, <1>3, <1>4, <1>5 DEF Environment, Crash

LEMMA SpecCountInv == Spec => []CountInv
<1>1. Init => CountInv
  BY DEF Init, CountInv, RoomInv, GroupInv, OwnInv, Created, CreateStep
<1>2. CInv /\ CountInv /\ [Next]_vars => CountInv'
  BY CreateCounts, OthersCount DEF Next, DeployerStep
<1>3. QED BY <1>1, <1>2, SpecCInv, PTL DEF Spec

(* The groups and batches of createInstances add up to ClusterSize, for    *)
(* every cluster size, number of subnets and batch.                        *)
THEOREM Launches == Spec => []LaunchesClusterSize
<1>1. CountInv => LaunchesClusterSize
  BY DEF CountInv, OwnInv, Created, LaunchesClusterSize
<1>2. QED BY <1>1, SpecCountInv, PTL

(* A Create that returns nil with its map full has left no instance alive  *)
(* but those of its map, whatever earlier processes launched.              *)
THEOREM CreatedKnows == Spec => []CreatedKnowsInstances
<1>1. TypeOK /\ CountInv => CreatedKnowsInstances
  <2> SUFFICES ASSUME TypeOK, CountInv, at = "idle", op = "Create", ~errs,
                      Cardinality(cfg.Instances) = cfg.ClusterSize
               PROVE  Live \subseteq cfg.Instances
    BY DEF CreatedKnowsInstances
  <2>1. /\ Live \subseteq tokens /\ cfg.Instances \in SUBSET tokens
        /\ Cardinality(tokens) = Cardinality(cfg.Instances)
    BY DEF CountInv, OwnInv, Created
  <2>2. IsFiniteSet(tokens)
    BY IdFinite DEF TypeOK
  <2>3. tokens = cfg.Instances
    BY <2>1, <2>2, FS_Subset
  <2>4. QED BY <2>1, <2>3
<1>2. QED BY <1>1, EC2TypeCorrect, SpecCountInv, PTL
=============================================================================

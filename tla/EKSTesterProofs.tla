--------------------------- MODULE EKSTesterProofs ---------------------------
(***************************************************************************)
(* Proofs about EKSTester, for every choice of Faults, with or without the *)
(* ALB controller and for any number of processes: which AWS resources can *)
(* escape the record, and what is left when down() has run to its end.     *)
(*                                                                         *)
(* The inductive invariant adds to the properties ControlInv, which ties   *)
(* the program counters together, and TornInv, which says how far down()   *)
(* has cleared the flags: without it nothing tells, at the end of down(),  *)
(* that the flags of the stages already passed are still clear.            *)
(*                                                                         *)
(* The last part is about what nil and an error mean to the caller, under  *)
(* the faults that Up and down() can handle (Quiet): nothing is left, and  *)
(* AWS has never been asked to delete a resource that is in use.           *)
(***************************************************************************)
EXTENDS EKSTester, TLAPS

(* The control state of the two goroutines.                                *)
ControlInv ==
  /\ main \in {"off", "launch"} => worker.at = "none"
  /\ worker.at \in {"made", "wait"} => worker.stage \in Resource
  /\ worker.at # "none" => worker.stage \in Stage
  /\ main \in {"launch", "select", "join"} => idx <= 13
  /\ main = "tear" => idx <= 10
  /\ main = "wait" => idx <= 9
  /\ outcome # "none" => main = "returned"
  /\ outcome = "torn" => idx = 10

(* As long as no goroutine is left behind, the stages of down() that are   *)
(* over have their flags cleared.                                          *)
TornInv ==
  /\ worker.at = "none"
  /\ main \in {"tear", "wait"} \/ outcome = "torn"
  => \A j \in 1..9 : j < idx /\ DownStages[j] \in Base
                       => DownStages[j] \notin rec

IInv == TypeOK /\ ControlInv /\ NothingUntracked /\ FlagsOnDisk /\ TornInv

-----------------------------------------------------------------------------
(* Facts about the sequences of stages and about the shared steps.         *)
LEMMA UpStagesFact == \A i \in 1..13 : UpStages[i] \in Stage
  BY DEF UpStages, Stage

LEMMA DownStagesLength == Len(DownStages) = 9
  BY DEF DownStages

LEMMA DownStagesCover == \A r \in Base : \E j \in 1..9 : DownStages[j] = r
<1> SUFFICES ASSUME NEW r \in Base PROVE \E j \in 1..9 : DownStages[j] = r
  OBVIOUS
<1>1. CASE r = "node"    BY <1>1, DownStages[3] = "node" DEF DownStages
<1>2. CASE r = "keypair" BY <1>2, DownStages[5] = "keypair" DEF DownStages
<1>3. CASE r = "cluster" BY <1>3, DownStages[6] = "cluster" DEF DownStages
<1>4. CASE r = "vpc"     BY <1>4, DownStages[7] = "vpc" DEF DownStages
<1>5. CASE r = "policy"  BY <1>5, DownStages[8] = "policy" DEF DownStages
<1>6. CASE r = "role"    BY <1>6, DownStages[9] = "role" DEF DownStages
<1>7. QED BY <1>1, <1>2, <1>3, <1>4, <1>5, <1>6 DEF Base

(* Sync() writes a file of the right shape.                                *)
LEMMA SyncTyped ==
  ASSUME rec' \subseteq Flag, out' \subseteq Output, status' \in Status, Sync
  PROVE  disk' \in File
  BY DEF Sync, File

(* A step that leaves the configuration in memory alone, and may Sync() it. *)
LEMMA ResyncTyped ==
  ASSUME TypeOK, UNCHANGED <<rec, out, status>>, Sync \/ UNCHANGED disk
  PROVE  rec' \subseteq Flag /\ out' \subseteq Output /\ status' \in Status
         /\ disk' \in File
<1>1. rec' \subseteq Flag /\ out' \subseteq Output /\ status' \in Status
  BY DEF TypeOK
<1>2. CASE Sync
  BY <1>1, <1>2, SyncTyped
<1>3. CASE UNCHANGED disk
  BY <1>3 DEF TypeOK
<1>4. QED BY <1>1, <1>2, <1>3

(* A goroutine that finishes keeps its stage.                              *)
LEMMA FinishTyped ==
  ASSUME TypeOK, NEW e \in BOOLEAN, Finish(e)
  PROVE  worker' \in Worker /\ worker'.at = "done"
         /\ worker'.stage = worker.stage
  BY DEF TypeOK, Worker, WorkerAt, Finish

(* A goroutine that reaches a wait or the record keeps its stage.          *)
LEMMA MoveTyped ==
  ASSUME TypeOK, NEW a \in WorkerAt, worker' = [worker EXCEPT !.at = a]
  PROVE  worker' \in Worker /\ worker'.at = a
         /\ worker'.stage = worker.stage
  BY DEF TypeOK, Worker, WorkerAt

LEMMA NoWorkerTyped == NoWorker \in Worker /\ NoWorker.at = "none"
  BY DEF NoWorker, Worker, WorkerAt

(* The three ways a stage of down() ends with its flag cleared.            *)
LEMMA StageOver ==
  ASSUME ControlInv, NEW r \in Base,
         TearRejected(r) \/ TearDone(r) \/ TearGivesUp(r)
  PROVE  /\ main \in {"tear", "wait"} /\ idx <= 9 /\ r = DownStages[idx]
         /\ main' = "tear" /\ idx' = idx + 1 /\ outcome' = outcome
         /\ rec' = rec \ {r} /\ Sync
         /\ cloud' = cloud /\ leaked' = leaked \cup ({r} \cap cloud)
         /\ worker' = worker
  BY DownStagesLength
  DEF TearRejected, TearDone, TearGivesUp, ClearFlag, ControlInv, cloudVars

LEMMA InitIInv == Init => IInv
<1> SUFFICES ASSUME Init PROVE IInv
  OBVIOUS
<1>1. TypeOK
  <2>1. disk \in File
    BY DEF Init, File, EKSStatus, Status
  <2>2. idx \in 1..14 /\ runs \in Nat
    BY DEF Init
  <2>3. QED
    BY <2>1, <2>2, NoWorkerTyped DEF Init, TypeOK, EKSStatus, Status
<1>2. ControlInv
  BY NoWorkerTyped DEF Init, ControlInv
<1>3. NothingUntracked /\ FlagsOnDisk
  BY DEF Init, NothingUntracked, FlagsOnDisk
<1>4. TornInv
  BY DEF Init, TornInv
<1>5. QED BY <1>1, <1>2, <1>3, <1>4 DEF IInv

-----------------------------------------------------------------------------
(* Type correctness, one group of actions at a time.                       *)
LEMMA WorkerTypeOK == TypeOK /\ ControlInv /\ WorkerStep => TypeOK'
<1> SUFFICES ASSUME TypeOK, ControlInv, WorkerStep PROVE TypeOK'
  OBVIOUS
<1> USE DEF cloudVars, cfgVars, ctlVars
<1>1. CASE WorkerCallFails \/ WorkerStopped
  <2>1. worker' \in Worker
    BY <1>1, FinishTyped DEF WorkerCallFails, WorkerStopped
  <2>2. UNCHANGED <<rec, out, status>> /\ (Sync \/ UNCHANGED disk)
    BY <1>1 DEF WorkerCallFails, WorkerStopped
  <2>3. UNCHANGED <<cloudVars, ctlVars, stopped, leaked, runs>>
    BY <1>1 DEF WorkerCallFails, WorkerStopped
  <2>4. QED BY <2>1, <2>2, <2>3, ResyncTyped DEF TypeOK
<1>2. CASE WorkerCall
  <2>1. worker' \in Worker
    BY <1>2, FinishTyped, MoveTyped DEF WorkerCall, WorkerAt
  <2>2. cloud' \subseteq Resource /\ eks' \in EKSStatus
    BY <1>2 DEF WorkerCall, TypeOK, EKSStatus
  <2>3. leaked' \subseteq Resource
    BY <1>2 DEF WorkerCall, TypeOK
  <2>4. UNCHANGED <<rec, out, status>> /\ (Sync \/ UNCHANGED disk)
    BY <1>2 DEF WorkerCall
  <2>5. UNCHANGED <<deleting, ctlVars, stopped, runs>>
    BY <1>2 DEF WorkerCall
  <2>6. QED BY <2>1, <2>2, <2>3, <2>4, <2>5, ResyncTyped DEF TypeOK
<1>3. CASE WorkerRecord
  <2>1. worker' \in Worker
    BY <1>3, MoveTyped DEF WorkerRecord, WorkerAt
  <2>2. rec' \subseteq Flag /\ out' \subseteq Output /\ status' \in Status
    BY <1>3 DEF WorkerRecord, TypeOK, ControlInv, Flag, Status, EKSStatus
  <2>3. disk' \in File
    BY <1>3, <2>2, SyncTyped DEF WorkerRecord, TypeOK
  <2>4. QED BY <1>3, <2>1, <2>2, <2>3 DEF WorkerRecord, TypeOK
<1>4. CASE WorkerPoll
  <2>1. worker' \in Worker
    BY <1>4, FinishTyped DEF WorkerPoll, TypeOK
  <2>2. rec' \subseteq Flag /\ out' \subseteq Output /\ status' \in Status
    BY <1>4 DEF WorkerPoll, TypeOK, Status
  <2>3. QED BY <1>4, <2>1, <2>2, SyncTyped DEF WorkerPoll, TypeOK
<1>5. CASE WorkerIngressFails \/ WorkerSucceeds \/ WorkerWaitFails
  <2>1. worker' \in Worker
    BY <1>5, FinishTyped
    DEF WorkerIngressFails, WorkerSucceeds, WorkerWaitFails
  <2>2. rec' \subseteq Flag /\ out' \subseteq Output /\ status' \in Status
    BY <1>5 DEF WorkerIngressFails, WorkerSucceeds, WorkerWaitFails, TypeOK
  <2>3. Sync \/ UNCHANGED disk
    BY <1>5 DEF WorkerIngressFails, WorkerSucceeds, WorkerWaitFails
  <2>4. disk' \in File
    BY <2>2, <2>3, SyncTyped DEF TypeOK
  <2>5. UNCHANGED <<cloudVars, ctlVars, stopped, leaked, runs>>
    BY <1>5 DEF WorkerIngressFails, WorkerSucceeds, WorkerWaitFails
  <2>6. QED BY <2>1, <2>2, <2>4, <2>5 DEF TypeOK
<1>6. QED BY <1>1, <1>2, <1>3, <1>4, <1>5 DEF WorkerStep

LEMMA UpTypeOK == TypeOK /\ ControlInv /\ UpStep => TypeOK'
<1> SUFFICES ASSUME TypeOK, ControlInv, UpStep PROVE TypeOK'
  OBVIOUS
<1> USE DEF cloudVars, cfgVars, ctlVars
<1>1. CASE Launch
  <2>1. worker' \in Worker
    BY <1>1, UpStagesFact
    DEF Launch, TypeOK, ControlInv, Worker, WorkerAt
  <2>2. QED BY <1>1, <2>1 DEF Launch, TypeOK
<1>2. CASE SelectDone
  <2>1. rec' \subseteq Flag /\ out' \subseteq Output /\ status' \in Status
    BY <1>2 DEF SelectDone, RollBack, TypeOK, Flag
  <2>2. Sync \/ UNCHANGED disk
    BY <1>2 DEF SelectDone, RollBack
  <2>3. disk' \in File
    BY <2>1, <2>2, SyncTyped DEF TypeOK
  <2>4. idx' \in 1..14
    BY <1>2 DEF SelectDone, RollBack, TypeOK, LastStage
  <2>5. QED
    BY <1>2, <2>1, <2>3, <2>4, NoWorkerTyped DEF SelectDone, RollBack, TypeOK
<1>3. CASE SelectStop
  BY <1>3 DEF SelectStop, TypeOK
<1>4. CASE Join
  <2>1. RollBack /\ worker' = NoWorker
    BY <1>4 DEF Join
  <2>2. UNCHANGED <<cloudVars, stopped, leaked, runs>>
    BY <1>4 DEF Join
  <2>3. QED BY <2>1, <2>2, ResyncTyped, NoWorkerTyped DEF RollBack, TypeOK
<1>5. QED BY <1>1, <1>2, <1>3, <1>4 DEF UpStep

LEMMA DownTypeOK == TypeOK /\ ControlInv /\ DownStep => TypeOK'
<1> SUFFICES ASSUME TypeOK, ControlInv, DownStep PROVE TypeOK'
  OBVIOUS
<1> USE DownStagesLength DEF cloudVars, cfgVars, ctlVars
<1>1. CASE DownRefused \/ DownStarts \/ TearSkip
  BY <1>1 DEF DownRefused, DownStarts, TearSkip, TypeOK
<1>2. CASE TearPoll
  <2>1. rec' \subseteq Flag /\ out' \subseteq Output /\ status' \in Status
    BY <1>2 DEF TearPoll, TypeOK, Status
  <2>2. QED BY <1>2, <2>1, SyncTyped DEF TearPoll, TypeOK
<1>3. CASE TearIngress
  <2>1. cloud' \subseteq Resource /\ downErr' \in BOOLEAN
    BY <1>3 DEF TearIngress, TypeOK
  <2>2. UNCHANGED <<rec, out, status>> /\ (Sync \/ UNCHANGED disk)
    BY <1>3 DEF TearIngress
  <2>3. idx' \in 1..14
    BY <1>3 DEF TearIngress, TypeOK
  <2>4. UNCHANGED <<deleting, eks, main, cmd, outcome, worker, stopped, leaked,
                    runs>>
    BY <1>3 DEF TearIngress
  <2>5. QED BY <2>1, <2>2, <2>3, <2>4, ResyncTyped DEF TypeOK
<1>4. CASE TearSecurityGroup
  <2>1. cloud' \subseteq Resource
    BY <1>4 DEF TearSecurityGroup, TypeOK
  <2>2. downErr' \in BOOLEAN
    BY <1>4 DEF TearSecurityGroup, TypeOK
  <2>3. rec' \subseteq Flag /\ leaked' \subseteq Resource
    BY <1>4, <2>1 DEF TearSecurityGroup, TypeOK
  <2>4. disk' \in File
    BY <1>4 DEF TearSecurityGroup, TypeOK, File
  <2>5. QED BY <1>4, <2>1, <2>2, <2>3, <2>4 DEF TearSecurityGroup, TypeOK
<1>5. CASE DownReturns
  BY <1>5, SyncTyped DEF DownReturns, TypeOK
<1>6. ASSUME NEW r \in Base, TearAccepted(r) PROVE TypeOK'
  <2>1. cloud' \subseteq Resource
    BY <1>6 DEF TearAccepted, TypeOK
  <2>2. deleting' \subseteq Async /\ eks' \in EKSStatus
    BY <1>6 DEF TearAccepted, TypeOK, EKSStatus
  <2>3. QED BY <1>6, <2>1, <2>2 DEF TearAccepted, TypeOK
<1>7. ASSUME NEW r \in Base, TearRejected(r) \/ TearDone(r) \/ TearGivesUp(r)
      PROVE  TypeOK'
  <2> USE DEF TearRejected, TearDone, TearGivesUp
  <2>1. PICK e \in BOOLEAN : ClearFlag(r, e)
    BY <1>7
  <2>2. rec' \subseteq Flag
    BY <2>1 DEF ClearFlag, TypeOK
  <2>3. out' \subseteq Output /\ status' \in Status
    BY <1>7 DEF TypeOK, Status
  <2>4. disk' \in File
    BY <2>1, <2>2, <2>3, SyncTyped DEF ClearFlag
  <2>5. cloud' = cloud /\ deleting' = deleting /\ eks' = eks
    BY <1>7
  <2>6. leaked' \subseteq Resource /\ downErr' \in BOOLEAN
    BY <2>1, <2>5 DEF ClearFlag, TypeOK
  <2>7. idx <= 9
    BY <1>7 DEF ControlInv
  <2>8. main' = "tear" /\ idx' = idx + 1 /\ cmd' = cmd /\ outcome' = outcome
    BY <2>1 DEF ClearFlag
  <2>9. worker' = worker /\ stopped' = stopped /\ runs' = runs
    BY <1>7
  <2>10. QED
    BY <2>2, <2>3, <2>4, <2>5, <2>6, <2>7, <2>8, <2>9 DEF TypeOK
<1>8. QED BY <1>1, <1>2, <1>3, <1>4, <1>5, <1>6, <1>7 DEF DownStep

LEMMA AWSTypeOK == TypeOK /\ AWSStep => TypeOK'
<1> SUFFICES ASSUME TypeOK, AWSStep PROVE TypeOK'
  OBVIOUS
<1> USE DEF cfgVars, ctlVars, TypeOK, EKSStatus
<1>1. CASE EKSCreated
  BY <1>1 DEF EKSCreated
<1>2. ASSUME NEW r \in Async, AWSDeleted(r) PROVE TypeOK'
  BY <1>2 DEF AWSDeleted
<1>3. ASSUME NEW r \in Async, AWSDeleteFailed(r) PROVE TypeOK'
  BY <1>3 DEF AWSDeleteFailed
<1>4. QED BY <1>1, <1>2, <1>3 DEF AWSStep

LEMMA EnvironmentTypeOK == TypeOK /\ ControlInv /\ Environment => TypeOK'
<1> SUFFICES ASSUME TypeOK, ControlInv, Environment PROVE TypeOK'
  OBVIOUS
<1> USE DEF cloudVars, cfgVars, ctlVars
<1>1. ASSUME NEW c \in {"create", "delete"}, NewTester(c) PROVE TypeOK'
  <2>1. rec' \subseteq Flag /\ status' \in Status
    BY <1>1 DEF NewTester, TypeOK, File, Status
  <2>2. out' \subseteq Output
    BY <1>1 DEF NewTester, TypeOK, File
  <2>3. disk' \in File
    BY <1>1, <2>1, <2>2, SyncTyped DEF NewTester
  <2>4. runs' \in Nat
    BY <1>1 DEF NewTester, TypeOK
  <2>5. /\ main' \in {"off", "launch", "select", "join", "down", "tear",
                      "wait", "returned"}
        /\ outcome' \in {"none", "ok", "active", "refused", "torn"}
    BY <1>1 DEF NewTester
  <2>6. idx' = 1 /\ cmd' = c /\ downErr' = FALSE
    BY <1>1 DEF NewTester
  <2>7. UNCHANGED <<cloudVars, worker, stopped, leaked>>
    BY <1>1 DEF NewTester
  <2>8. idx' \in 1..14 /\ cmd' \in {"create", "delete"}
    BY <2>6
  <2>9. QED
    BY <2>1, <2>2, <2>3, <2>4, <2>5, <2>6, <2>7, <2>8 DEF TypeOK
<1>2. CASE Exit \/ Crash
  <2>1. ProcessEnds
    BY <1>2 DEF Exit, Crash
  <2>2. leaked' \subseteq Resource
    BY <2>1, worker.stage \in cloud => worker.stage \in Resource
    DEF ProcessEnds, TypeOK
  <2>3. /\ main' = "off" /\ idx' \in 1..14 /\ outcome' = "none"
        /\ downErr' = FALSE /\ cmd' = "create" /\ worker' = NoWorker
        /\ stopped' = FALSE /\ rec' = {} /\ out' = {} /\ status' = "NONE"
        /\ UNCHANGED <<cloudVars, disk, runs>>
    BY <2>1 DEF ProcessEnds
  <2>4. QED
    BY <2>2, <2>3, NoWorkerTyped DEF TypeOK, Status, EKSStatus
<1>3. CASE TerminateOnExit
  BY <1>3 DEF TerminateOnExit, TypeOK
<1>4. CASE Stop
  BY <1>4 DEF Stop, TypeOK
<1>5. CASE SelectSignal
  <2>1. RollBack
    BY <1>5 DEF SelectSignal
  <2>2. UNCHANGED <<cloudVars, worker, stopped, leaked, runs>>
    BY <1>5 DEF SelectSignal
  <2>3. QED BY <2>1, <2>2, ResyncTyped DEF RollBack, TypeOK
<1>6. QED BY <1>1, <1>2, <1>3, <1>4, <1>5 DEF Environment

LEMMA NextTypeOK == TypeOK /\ ControlInv /\ [Next]_vars => TypeOK'
<1>1. ASSUME TypeOK, UNCHANGED vars PROVE TypeOK'
  BY <1>1 DEF vars, cloudVars, cfgVars, ctlVars, TypeOK
<1>2. QED
  BY <1>1, WorkerTypeOK, UpTypeOK, DownTypeOK, AWSTypeOK, EnvironmentTypeOK
  DEF Next, Terminated

-----------------------------------------------------------------------------
(* The program counters.                                                   *)
LEMMA NextControlInv == TypeOK /\ ControlInv /\ [Next]_vars => ControlInv'
<1> SUFFICES ASSUME TypeOK, ControlInv, [Next]_vars PROVE ControlInv'
  OBVIOUS
<1> USE DownStagesLength DEF cloudVars, cfgVars, ctlVars, ControlInv
<1>1. CASE WorkerStep
  <2>1. UNCHANGED ctlVars
    BY <1>1
    DEF WorkerStep, WorkerCallFails, WorkerCall, WorkerRecord,
        WorkerIngressFails, WorkerStopped, WorkerPoll, WorkerSucceeds,
        WorkerWaitFails
  <2>2. /\ worker.at # "none" /\ worker'.stage = worker.stage
        /\ worker'.at = "made" => worker.stage \in Resource
        /\ worker'.at = "wait" => worker.at \in {"made", "wait"}
    <3>1. CASE \E e \in BOOLEAN : Finish(e)
      BY <1>1, <3>1, FinishTyped
      DEF WorkerStep, WorkerCallFails, WorkerCall, WorkerRecord,
          WorkerIngressFails, WorkerStopped, WorkerPoll, WorkerSucceeds,
          WorkerWaitFails
    <3>2. CASE WorkerCall \/ WorkerRecord
      BY <3>1, <3>2, MoveTyped DEF WorkerCall, WorkerRecord, WorkerAt
    <3>3. CASE WorkerPoll
      BY <3>1, <3>3 DEF WorkerPoll
    <3>4. QED
      BY <1>1, <3>1, <3>2, <3>3
      DEF WorkerStep, WorkerCallFails, WorkerIngressFails, WorkerStopped,
          WorkerSucceeds, WorkerWaitFails
  <2>3. QED BY <2>1, <2>2
<1>2. CASE UpStep
  <2>1. CASE Launch
    BY <2>1, UpStagesFact DEF Launch, TypeOK
  <2>2. CASE SelectDone
    BY <2>2, NoWorkerTyped DEF SelectDone, RollBack, LastStage, TypeOK
  <2>3. CASE SelectStop \/ Join
    BY <2>3, NoWorkerTyped DEF SelectStop, Join, RollBack, Interruptible, TypeOK
  <2>4. QED BY <1>2, <2>1, <2>2, <2>3 DEF UpStep
<1>3. CASE DownStep
  <2>1. CASE DownRefused \/ DownStarts \/ TearSkip \/ TearPoll
    BY <2>1 DEF DownRefused, DownStarts, TearSkip, TearPoll, TypeOK
  <2>2. CASE TearIngress
    BY <2>2 DEF TearIngress, TypeOK
  <2>3. CASE TearSecurityGroup
    BY <2>3 DEF TearSecurityGroup, TypeOK
  <2>4. CASE DownReturns
    BY <2>4 DEF DownReturns, TypeOK
  <2>5. ASSUME NEW r \in Base, TearAccepted(r) PROVE ControlInv'
    BY <2>5 DEF TearAccepted, TypeOK
  <2>6. ASSUME NEW r \in Base, TearRejected(r) \/ TearDone(r) \/ TearGivesUp(r)
        PROVE  ControlInv'
    BY <2>6, StageOver DEF TypeOK
  <2>7. QED BY <1>3, <2>1, <2>2, <2>3, <2>4, <2>5, <2>6 DEF DownStep
<1>4. CASE AWSStep
  BY <1>4 DEF AWSStep, EKSCreated, AWSDeleted, AWSDeleteFailed
<1>5. CASE Environment
  <2>1. ASSUME NEW c \in {"create", "delete"}, NewTester(c) PROVE ControlInv'
    <3>1. worker' = worker /\ worker.at = "none"
      BY <2>1 DEF NewTester
    <3>2. /\ idx' = 1 /\ outcome' # "torn"
          /\ outcome' # "none" => main' = "returned"
      BY <2>1 DEF NewTester
    <3>3. QED BY <3>1, <3>2
  <2>2. CASE Exit \/ Crash
    BY <2>2, NoWorkerTyped DEF Exit, Crash, ProcessEnds
  <2>3. CASE TerminateOnExit
    BY <2>3 DEF TerminateOnExit
  <2>4. CASE Stop
    BY <2>4 DEF Stop
  <2>5. CASE SelectSignal
    BY <2>5 DEF SelectSignal, RollBack, Interruptible
  <2>6. QED BY <1>5, <2>1, <2>2, <2>3, <2>4, <2>5 DEF Environment
<1>6. CASE UNCHANGED vars
  BY <1>6 DEF vars
<1>7. QED BY <1>1, <1>2, <1>3, <1>4, <1>5, <1>6 DEF Next, Terminated

-----------------------------------------------------------------------------
(* The flags in memory and in the file.                                    *)
LEMMA NextFlagsOnDisk ==
  TypeOK /\ ControlInv /\ FlagsOnDisk /\ [Next]_vars => FlagsOnDisk'
<1> SUFFICES ASSUME TypeOK, ControlInv, FlagsOnDisk, [Next]_vars
             PROVE  FlagsOnDisk'
  OBVIOUS
<1> USE DEF cloudVars, cfgVars, ctlVars, FlagsOnDisk, Sync
<1>1. CASE WorkerStep
  <2>1. CASE WorkerRecord
    BY <2>1 DEF WorkerRecord, ControlInv
  <2>2. CASE WorkerCallFails \/ WorkerCall \/ WorkerStopped
    <3>1. rec' = rec /\ (Sync \/ UNCHANGED disk) /\ main # "off"
      BY <2>2 DEF WorkerCallFails, WorkerCall, WorkerStopped, ControlInv
    <3>2. QED BY <3>1
  <2>3. CASE WorkerIngressFails \/ WorkerPoll
    <3>1. rec' = rec /\ Sync /\ main # "off"
      BY <2>3 DEF WorkerIngressFails, WorkerPoll, ControlInv
    <3>2. QED BY <3>1
  <2>4. CASE WorkerSucceeds \/ WorkerWaitFails
    <3>1. rec' = rec /\ (Sync \/ UNCHANGED disk) /\ main # "off"
      BY <2>4 DEF WorkerSucceeds, WorkerWaitFails, ControlInv
    <3>2. QED BY <3>1
  <2>5. QED BY <1>1, <2>1, <2>2, <2>3, <2>4 DEF WorkerStep
<1>2. CASE UpStep
  BY <1>2 DEF UpStep, Launch, SelectDone, SelectStop, Join, RollBack,
              Interruptible
<1>3. CASE DownStep
  <2>1. CASE TearSecurityGroup
    <3>1. rec' \cap Base = rec \cap Base
      BY <2>1 DEF TearSecurityGroup, Base
    <3>2. disk'.rec = disk.rec \/ disk'.rec = rec
      BY <2>1 DEF TearSecurityGroup
    <3>3. QED BY <2>1, <3>1, <3>2 DEF TearSecurityGroup
  <2>2. ASSUME NEW r \in Base, TearRejected(r) \/ TearDone(r) \/ TearGivesUp(r)
        PROVE  FlagsOnDisk'
    BY <2>2, StageOver
  <2>3. CASE DownRefused \/ DownStarts \/ TearSkip \/ TearPoll
             \/ TearIngress \/ DownReturns \/ \E r \in Base : TearAccepted(r)
    BY <2>3
    DEF DownRefused, DownStarts, TearSkip, TearPoll, TearIngress, DownReturns,
        TearAccepted
  <2>4. QED BY <1>3, <2>1, <2>2, <2>3 DEF DownStep
<1>4. CASE AWSStep \/ UNCHANGED vars
  BY <1>4 DEF AWSStep, EKSCreated, AWSDeleted, AWSDeleteFailed, vars
<1>5. CASE Environment
  BY <1>5
  DEF Environment, NewTester, Exit, Crash, ProcessEnds, TerminateOnExit, Stop,
      SelectSignal, RollBack, Interruptible
<1>6. QED BY <1>1, <1>2, <1>3, <1>4, <1>5 DEF Next, Terminated

(* What is at AWS and not in the file.                                     *)
LEMMA NextNothingUntracked ==
  IInv /\ [Next]_vars => NothingUntracked'
<1> SUFFICES ASSUME IInv, [Next]_vars PROVE NothingUntracked'
  OBVIOUS
<1> USE DEF IInv, cloudVars, cfgVars, ctlVars, NothingUntracked, Sync,
            FlagsOnDisk
<1>1. CASE WorkerStep
  <2>1. CASE WorkerCall
    <3>1. disk'.rec \cap Base = disk.rec \cap Base /\ worker.at = "call"
      BY <2>1 DEF WorkerCall, ControlInv
    <3>2. CASE worker.stage \in Resource
      BY <2>1, <3>1, <3>2, MoveTyped DEF WorkerCall, WorkerAt
    <3>3. CASE worker.stage \notin Resource
      BY <2>1, <3>1, <3>3 DEF WorkerCall
    <3>4. QED BY <3>2, <3>3
  <2>2. CASE WorkerRecord
    BY <2>2 DEF WorkerRecord, ControlInv
  <2>3. CASE WorkerPoll
    BY <2>3 DEF WorkerPoll, ControlInv
  <2>4. CASE WorkerIngressFails
    BY <2>4 DEF WorkerIngressFails, ControlInv, Base
  <2>5. CASE WorkerCallFails \/ WorkerStopped
    <3>1. rec' = rec /\ (Sync \/ UNCHANGED disk) /\ main # "off"
          /\ worker.at # "made" /\ cloud' = cloud /\ leaked' = leaked
      BY <2>5 DEF WorkerCallFails, WorkerStopped, ControlInv
    <3>2. QED BY <3>1
  <2>6. CASE WorkerSucceeds \/ WorkerWaitFails
    <3>1. rec' = rec /\ (Sync \/ UNCHANGED disk) /\ main # "off"
          /\ worker.at # "made"
          /\ cloud' = cloud /\ leaked' = leaked
      BY <2>6 DEF WorkerSucceeds, WorkerWaitFails, ControlInv
    <3>2. QED BY <3>1
  <2>7. QED BY <1>1, <2>1, <2>2, <2>3, <2>4, <2>5, <2>6 DEF WorkerStep
<1>2. CASE UpStep
  BY <1>2, NoWorkerTyped
  DEF UpStep, Launch, SelectDone, SelectStop, Join, RollBack, Interruptible,
      ControlInv
<1>3. CASE DownStep
  <2>1. CASE DownRefused \/ DownStarts \/ TearSkip \/ TearPoll \/ DownReturns
    BY <2>1 DEF DownRefused, DownStarts, TearSkip, TearPoll, DownReturns
  <2>2. CASE TearIngress \/ TearSecurityGroup
    BY <2>2 DEF TearIngress, TearSecurityGroup
  <2>3. ASSUME NEW r \in Base, TearAccepted(r) PROVE NothingUntracked'
    BY <2>3 DEF TearAccepted
  <2>4. ASSUME NEW r \in Base, TearRejected(r) \/ TearDone(r) \/ TearGivesUp(r)
        PROVE  NothingUntracked'
    BY <2>4, StageOver
  <2>5. QED BY <1>3, <2>1, <2>2, <2>3, <2>4 DEF DownStep
<1>4. CASE AWSStep \/ UNCHANGED vars
  BY <1>4 DEF AWSStep, EKSCreated, AWSDeleted, AWSDeleteFailed, vars
<1>5. CASE Environment
  <2>1. CASE Exit \/ Crash
    BY <2>1 DEF Exit, Crash, ProcessEnds
  <2>2. CASE TerminateOnExit \/ Stop \/ SelectSignal
    BY <2>2 DEF TerminateOnExit, Stop, SelectSignal, RollBack, Interruptible
  <2>3. CASE \E c \in {"create", "delete"} : NewTester(c)
    BY <2>3 DEF NewTester
  <2>4. QED BY <1>5, <2>1, <2>2, <2>3 DEF Environment
<1>6. QED BY <1>1, <1>2, <1>3, <1>4, <1>5 DEF Next, Terminated

(* The flags that down() has cleared.                                      *)
LEMMA NextTornInv == IInv /\ [Next]_vars => TornInv'
<1> SUFFICES ASSUME IInv, [Next]_vars PROVE TornInv'
  OBVIOUS
<1> USE DEF IInv, cloudVars, cfgVars, ctlVars, TornInv
<1>1. CASE WorkerStep
  BY <1>1, FinishTyped, MoveTyped, NextControlInv
  DEF WorkerStep, WorkerCallFails, WorkerCall, WorkerRecord,
      WorkerIngressFails, WorkerStopped, WorkerPoll, WorkerSucceeds,
      WorkerWaitFails, WorkerAt
<1>2. CASE UpStep
  BY <1>2
  DEF UpStep, Launch, SelectDone, SelectStop, Join, RollBack, Interruptible,
      ControlInv
<1>3. CASE DownStep
  <2>1. CASE DownRefused \/ DownStarts
    BY <2>1 DEF DownRefused, DownStarts
  <2>2. CASE TearSkip
    BY <2>2 DEF TearSkip, Created, TypeOK
  <2>3. CASE TearPoll \/ \E r \in Base : TearAccepted(r)
    BY <2>3 DEF TearPoll, TearAccepted
  <2>4. CASE TearIngress
    BY <2>4 DEF TearIngress, TypeOK, Base
  <2>5. CASE TearSecurityGroup
    BY <2>5 DEF TearSecurityGroup, TypeOK, Base
  <2>6. CASE DownReturns
    BY <2>6 DEF DownReturns
  <2>7. ASSUME NEW r \in Base, TearRejected(r) \/ TearDone(r) \/ TearGivesUp(r)
        PROVE  TornInv'
    BY <2>7, StageOver DEF TypeOK
  <2>8. QED BY <1>3, <2>1, <2>2, <2>3, <2>4, <2>5, <2>6, <2>7 DEF DownStep
<1>4. CASE AWSStep \/ UNCHANGED vars
  BY <1>4 DEF AWSStep, EKSCreated, AWSDeleted, AWSDeleteFailed, vars
<1>5. CASE Environment
  BY <1>5
  DEF Environment, NewTester, Exit, Crash, ProcessEnds, TerminateOnExit, Stop,
      SelectSignal, RollBack, Interruptible
<1>6. QED BY <1>1, <1>2, <1>3, <1>4, <1>5 DEF Next, Terminated

-----------------------------------------------------------------------------
LEMMA SpecIInv == Spec => []IInv
<1>1. IInv /\ [Next]_vars => IInv'
  BY NextTypeOK, NextControlInv, NextFlagsOnDisk, NextNothingUntracked,
     NextTornInv DEF IInv
<1>2. QED BY InitIInv, <1>1, PTL DEF Spec

(* The memory of the process and its goroutines keep their shape.          *)
THEOREM TypeCorrect == Spec => []TypeOK
<1>1. IInv => TypeOK
  BY DEF IInv
<1>2. QED BY SpecIInv, <1>1, PTL

(* Whatever fails and whenever the process dies, a base resource that      *)
(* exists at AWS is in the configuration file, in the window before the    *)
(* Sync() that records it, or was forgotten by a failed deletion or by a   *)
(* crash in that window.                                                   *)
THEOREM Tracked == Spec => []NothingUntracked
<1>1. IInv => NothingUntracked
  BY DEF IInv
<1>2. QED BY SpecIInv, <1>1, PTL

(* A process never holds in memory a flag that its file does not have, nor *)
(* the reverse.                                                            *)
THEOREM FlagsAgree == Spec => []FlagsOnDisk
<1>1. IInv => FlagsOnDisk
  BY DEF IInv
<1>2. QED BY SpecIInv, <1>1, PTL

(* down() that runs to its end with no goroutine left behind leaves no     *)
(* base resource, except those a failed deletion or a crash has forgotten. *)
THEOREM Complete == Spec => []TeardownComplete
<1>1. IInv => TeardownComplete
  <2> SUFFICES ASSUME IInv, main = "returned", outcome = "torn",
                      worker.at = "none", NEW r \in Base \cap cloud
               PROVE  r \in leaked
    BY DEF TeardownComplete
  <2>1. r \notin rec
    BY DownStagesCover DEF IInv, ControlInv, TornInv
  <2>2. r \notin disk.rec
    BY <2>1 DEF IInv, FlagsOnDisk
  <2>3. QED BY <2>2 DEF IInv, NothingUntracked
<1>2. QED BY SpecIInv, <1>1, PTL

-----------------------------------------------------------------------------
(* What nil and an error mean.  Without faults of a deletion, signals and  *)
(* crashes, and without the ALB controller, no goroutine is left behind    *)
(* and no record is lost: the rest follows the order of the stages.        *)
QuietFaults == {"apiError", "clusterFailed", "stop"}
Quiet == Faults \subseteq QuietFaults /\ ~ALBEnabled

(* A goroutine runs only while the main goroutine waits for it, on a stage *)
(* that is none of the ALB controller.                                     *)
JoinedInv ==
  /\ main \in {"launch", "select", "join"} => idx <= 8
  /\ worker.at # "none" =>
       /\ main \in {"select", "join"}
       /\ worker.stage \notin ALBResource
  /\ cloud \subseteq Base /\ leaked = {}

(* A deletion ends while down() waits for it, so that neither the status   *)
(* DELETING nor, without the fault, FAILED is what the next down() reads.  *)
DeletionInv ==
  /\ \A r \in deleting : main = "wait" /\ r = DownStages[idx] /\ r \in cloud
  /\ eks = "DELETING" => "cluster" \in deleting
  /\ "DELETING" \in {status, disk.status} =>
       main = "wait" /\ DownStages[idx] = "cluster"
  /\ "FAILED" \in {eks, status, disk.status} \/ outcome = "refused" =>
       "clusterFailed" \in Faults

(* Down() has passed no resource that still exists, and waits only for one *)
(* that is being deleted.                                                  *)
OrderInv ==
  /\ main \in {"tear", "wait"} \/ outcome = "torn" =>
       \A j \in 1..9 : j < idx => DownStages[j] \notin cloud
  /\ main = "wait" =>
       /\ DownStages[idx] \in Base
       /\ Dependents(DownStages[idx]) \cap cloud = {}
       /\ DownStages[idx] \in cloud => DownStages[idx] \in deleting

QuietInv == JoinedInv /\ DeletionInv /\ OrderInv

LEMMA UpStagesBase == \A i \in 1..8 : UpStages[i] \notin ALBResource
  BY DEF UpStages, ALBResource

(* What depends on a resource is deleted before it.                        *)
LEMMA DependentsFirst ==
  \A i \in 1..9 : \A d \in Dependents(DownStages[i]) \cap Base :
    \E j \in 1..9 : j < i /\ DownStages[j] = d
<1>1. /\ DownStages[1] = "lb" /\ DownStages[2] = "sgTry"
      /\ DownStages[3] = "node" /\ DownStages[4] = "sg"
      /\ DownStages[5] = "keypair" /\ DownStages[6] = "cluster"
      /\ DownStages[7] = "vpc" /\ DownStages[8] = "policy"
      /\ DownStages[9] = "role"
  BY DEF DownStages
<1>2. SUFFICES ASSUME NEW i \in 1..9, NEW d \in Dependents(DownStages[i]) \cap Base
               PROVE  \E j \in 1..9 : j < i /\ DownStages[j] = d
  OBVIOUS
<1>3. CASE i = 4
  BY <1>1, <1>2, <1>3 DEF Dependents, Base
<1>4. CASE i = 7
  BY <1>1, <1>2, <1>4 DEF Dependents, Base
<1>5. CASE i = 9
  BY <1>1, <1>2, <1>5 DEF Dependents, Base
<1>6. CASE i \notin {4, 7, 9}
  BY <1>1, <1>2, <1>6 DEF Dependents
<1>7. QED BY <1>3, <1>4, <1>5, <1>6

(* A stage of down() that is skipped, or about to begin, meets no          *)
(* dependents.                                                             *)
LEMMA NoDependents ==
  ASSUME JoinedInv, OrderInv, ControlInv, TypeOK, main = "tear", idx \in 1..9
  PROVE  Dependents(DownStages[idx]) \cap cloud = {}
<1>1. SUFFICES ASSUME NEW d \in Dependents(DownStages[idx]) \cap cloud PROVE FALSE
  OBVIOUS
<1>2. d \in Base
  BY DEF JoinedInv
<1>3. QED BY <1>1, <1>2, DependentsFirst DEF OrderInv

(* What down() skips does not exist.                                       *)
LEMMA SkippedGone ==
  ASSUME IInv, QuietInv, main = "tear", idx \in 1..9, ~Created(DownStages[idx])
  PROVE  DownStages[idx] \notin cloud
<1>1. SUFFICES ASSUME DownStages[idx] \in cloud PROVE FALSE
  OBVIOUS
<1>2. DownStages[idx] \in Base \cap cloud /\ leaked = {} /\ worker.at = "none"
  BY <1>1 DEF QuietInv, JoinedInv, IInv, TypeOK, Worker, WorkerAt
<1>3. DownStages[idx] \notin rec
  BY <1>2 DEF Created
<1>4. QED BY <1>2, <1>3 DEF IInv, NothingUntracked, FlagsOnDisk

LEMMA QuietWorker ==
  ASSUME Quiet, IInv, QuietInv, WorkerStep PROVE QuietInv'
<1> USE DEF cloudVars, cfgVars, ctlVars
<1>1. worker.at # "none" /\ main \in {"select", "join"} /\ worker.stage \in Stage
  BY DEF WorkerStep, WorkerCallFails, WorkerCall, WorkerRecord,
     WorkerIngressFails, WorkerStopped, WorkerPoll, WorkerSucceeds,
     WorkerWaitFails, QuietInv, JoinedInv, IInv, ControlInv
<1>2. UNCHANGED <<ctlVars, deleting, stopped>> /\ worker'.stage = worker.stage
  <2>1. CASE \E e \in BOOLEAN : Finish(e)
    BY <2>1, FinishTyped
    DEF WorkerStep, WorkerCallFails, WorkerCall, WorkerRecord,
        WorkerIngressFails, WorkerStopped, WorkerPoll, WorkerSucceeds,
        WorkerWaitFails, IInv
  <2>2. CASE WorkerCall \/ WorkerRecord
    BY <2>1, <2>2, MoveTyped DEF WorkerCall, WorkerRecord, WorkerAt, IInv
  <2>3. CASE WorkerPoll
    BY <2>1, <2>3 DEF WorkerPoll
  <2>4. QED
    BY <2>1, <2>2, <2>3
    DEF WorkerStep, WorkerCallFails, WorkerIngressFails, WorkerStopped,
        WorkerSucceeds, WorkerWaitFails
<1>3. /\ cloud' \subseteq Base /\ leaked' = {} /\ cloud \subseteq cloud'
      /\ eks' \in {eks, "CREATING"}
  BY <1>1
  DEF WorkerStep, WorkerCallFails, WorkerCall, WorkerRecord,
      WorkerIngressFails, WorkerStopped, WorkerPoll, WorkerSucceeds,
      WorkerWaitFails, QuietInv, JoinedInv, Resource
<1>4. /\ status' \in {status, eks, "CREATING"}
      /\ disk' = disk \/ disk'.status = status'
  <2>1. status' \in {status, eks, "CREATING"}
    BY DEF WorkerStep, WorkerCallFails, WorkerCall, WorkerRecord,
       WorkerIngressFails, WorkerStopped, WorkerPoll, WorkerSucceeds,
       WorkerWaitFails
  <2>2. Sync \/ UNCHANGED disk
    BY DEF WorkerStep, WorkerCallFails, WorkerCall, WorkerRecord,
       WorkerIngressFails, WorkerStopped, WorkerPoll, WorkerSucceeds,
       WorkerWaitFails
  <2>3. QED BY <2>1, <2>2 DEF Sync
<1>5. JoinedInv'
  BY <1>1, <1>2, <1>3 DEF QuietInv, JoinedInv
<1>6. DeletionInv'
  <2>1. deleting = {} /\ eks # "DELETING" /\ "DELETING" \notin {status, disk.status}
    BY <1>1 DEF QuietInv, DeletionInv
  <2>2. QED BY <1>2, <1>3, <1>4, <2>1 DEF QuietInv, DeletionInv
<1>7. OrderInv'
  BY <1>1, <1>2 DEF OrderInv, IInv, ControlInv
<1>8. QED BY <1>5, <1>6, <1>7 DEF QuietInv

LEMMA QuietUp ==
  ASSUME Quiet, IInv, QuietInv, UpStep PROVE QuietInv'
<1> USE DEF cloudVars, cfgVars, ctlVars
<1>1. UNCHANGED <<cloudVars, status, leaked>> /\ (disk' = disk \/ disk'.status = status)
  BY DEF UpStep, Launch, SelectDone, SelectStop, Join, RollBack, Sync
<1>2. /\ main \in {"launch", "select", "join"}
      /\ main' \in {"launch", "select", "join", "down", "returned"}
      /\ outcome' \in {outcome, "ok"}
  BY DEF UpStep, Launch, SelectDone, SelectStop, Join, RollBack, Interruptible
<1>3. idx \in 1..8
  BY <1>2 DEF QuietInv, JoinedInv, IInv, TypeOK
<1>4. JoinedInv'
  <2>1. main' \in {"launch", "select", "join"} => idx' <= 8
    BY <1>3 DEF UpStep, Launch, SelectDone, SelectStop, Join, RollBack, Quiet,
       LastStage
  <2>2. worker'.at # "none" =>
          main' \in {"select", "join"} /\ worker'.stage \notin ALBResource
    BY <1>3, UpStagesBase, NoWorkerTyped
    DEF UpStep, Launch, SelectDone, SelectStop, Join, Interruptible, QuietInv,
        JoinedInv
  <2>3. QED BY <1>1, <2>1, <2>2 DEF QuietInv, JoinedInv
<1>5. DeletionInv'
  BY <1>1, <1>2 DEF QuietInv, DeletionInv
<1>6. OrderInv'
  BY <1>2 DEF OrderInv, IInv, ControlInv
<1>7. QED BY <1>4, <1>5, <1>6 DEF QuietInv

LEMMA QuietDown ==
  ASSUME Quiet, IInv, QuietInv, DownStep PROVE QuietInv'
<1> USE DownStagesLength DEF cloudVars, cfgVars, ctlVars
<1>0. /\ idx \in 1..14 /\ cloud \subseteq Base /\ leaked = {}
      /\ (main = "tear" \/ main = "wait") => \A j \in 1..9 : j < idx => DownStages[j] \notin cloud
      /\ main \in {"tear", "wait", "down"} => worker.at = "none"
  BY DEF QuietInv, JoinedInv, OrderInv, IInv, TypeOK, Worker, WorkerAt
<1>1. CASE DownRefused
  BY <1>0, <1>1
  DEF DownRefused, QuietInv, JoinedInv, DeletionInv, OrderInv, IInv, ControlInv
<1>2. CASE DownStarts
  BY <1>0, <1>2
  DEF DownStarts, QuietInv, JoinedInv, DeletionInv, OrderInv, IInv, ControlInv
<1>3. CASE TearSkip
  <2>1. DownStages[idx] \notin cloud
    BY <1>0, <1>3, SkippedGone DEF TearSkip
  <2>2. \A j \in 1..9 : j < idx' => DownStages[j] \notin cloud
    BY <1>0, <1>3, <2>1 DEF TearSkip
  <2>3. OrderInv'
    BY <1>3, <2>2 DEF TearSkip, OrderInv
  <2>4. QED
    BY <1>0, <1>3, <2>3 DEF TearSkip, QuietInv, JoinedInv, DeletionInv
<1>4. CASE TearPoll
  <2>1. main = "wait" /\ DownStages[idx] = "cluster" /\ status' = eks
        /\ disk'.status = eks
    BY <1>4 DEF TearPoll, Quiet, QuietFaults, Sync
  <2>2. UNCHANGED <<cloudVars, ctlVars, worker, leaked>>
    BY <1>4 DEF TearPoll
  <2>3. QED BY <2>1, <2>2 DEF QuietInv, JoinedInv, DeletionInv, OrderInv
<1>5. CASE TearIngress \/ TearSecurityGroup
  <2>1. /\ main = "tear" /\ idx <= 9 /\ DownStages[idx] \in {"lb", "sgTry", "sg"}
        /\ idx' = idx + 1
        /\ UNCHANGED <<deleting, eks, status, main, cmd, outcome, worker>>
        /\ disk' = disk \/ disk'.status = status
    BY <1>5 DEF TearIngress, TearSecurityGroup, Sync
  <2>2. cloud' = cloud /\ leaked' = {}
    BY <1>0, <1>5 DEF TearIngress, TearSecurityGroup, Base, ALBResource
  <2>3. \A j \in 1..9 : j < idx' => DownStages[j] \notin cloud
    BY <1>0, <2>1 DEF Base
  <2>4. QED
    BY <1>0, <2>1, <2>2, <2>3 DEF QuietInv, JoinedInv, DeletionInv, OrderInv
<1>6. CASE DownReturns
  <2>1. disk'.status = status
    BY <1>6 DEF DownReturns, Sync
  <2>2. QED
    BY <1>0, <1>6, <2>1
    DEF DownReturns, QuietInv, JoinedInv, DeletionInv, OrderInv
<1>7. ASSUME NEW r \in Base, TearRejected(r) PROVE FALSE
  BY <1>0, <1>7, NoDependents
  DEF TearRejected, Quiet, QuietFaults, QuietInv, IInv
<1>8. ASSUME NEW r \in Base, TearAccepted(r) PROVE QuietInv'
  <2>1. /\ main = "tear" /\ main' = "wait" /\ idx \in 1..9 /\ r = DownStages[idx]
        /\ UNCHANGED <<cfgVars, idx, cmd, outcome, worker, leaked>>
    BY <1>0, <1>8 DEF TearAccepted
  <2>2. Dependents(r) \cap cloud = {}
    BY <2>1, NoDependents DEF QuietInv, IInv
  <2>3. deleting = {} /\ eks # "DELETING" /\ "DELETING" \notin {status, disk.status}
    BY <2>1 DEF QuietInv, DeletionInv
  <2>4. \/ /\ r \in Async /\ deleting' = {r} \cap cloud /\ cloud' = cloud
           /\ eks' = IF r = "cluster" /\ r \in cloud THEN "DELETING" ELSE eks
        \/ r \notin Async /\ cloud' = cloud \ {r} /\ UNCHANGED <<deleting, eks>>
    BY <1>8, <2>3 DEF TearAccepted
  <2>5. JoinedInv'
    BY <1>0, <2>1, <2>4 DEF JoinedInv
  <2>6. DeletionInv'
    BY <2>1, <2>3, <2>4 DEF QuietInv, DeletionInv
  <2>7. OrderInv'
    BY <1>0, <2>1, <2>2, <2>4 DEF OrderInv
  <2>8. QED BY <2>5, <2>6, <2>7 DEF QuietInv
<1>9. ASSUME NEW r \in Base, TearGivesUp(r) PROVE FALSE
  BY <1>9 DEF TearGivesUp, Quiet, QuietFaults, QuietInv, OrderInv
<1>10. ASSUME NEW r \in Base, TearDone(r) PROVE QuietInv'
  <2>1. /\ main = "wait" /\ main' = "tear" /\ idx <= 9 /\ r = DownStages[idx]
        /\ idx' = idx + 1 /\ outcome' = outcome /\ r \notin cloud
        /\ leaked' = {} /\ Sync
        /\ status' = IF r = "cluster" THEN "DELETE_COMPLETE" ELSE status
        /\ UNCHANGED <<cloudVars, worker>>
    BY <1>0, <1>10 DEF TearDone, ClearFlag, IInv, ControlInv
  <2>2. deleting = {} /\ eks # "DELETING"
    BY <2>1 DEF QuietInv, DeletionInv
  <2>3. status' # "DELETING" /\ disk'.status = status'
    BY <2>1 DEF QuietInv, DeletionInv, Sync
  <2>4. JoinedInv'
    BY <1>0, <2>1 DEF JoinedInv
  <2>5. DeletionInv'
    BY <2>1, <2>2, <2>3 DEF QuietInv, DeletionInv
  <2>6. OrderInv'
    BY <1>0, <2>1 DEF OrderInv
  <2>7. QED BY <2>4, <2>5, <2>6 DEF QuietInv
<1>11. QED
  BY <1>1, <1>2, <1>3, <1>4, <1>5, <1>6, <1>7, <1>8, <1>9, <1>10 DEF DownStep

LEMMA QuietRest ==
  ASSUME Quiet, IInv, QuietInv, AWSStep \/ Environment \/ UNCHANGED vars
  PROVE  QuietInv'
<1> USE DEF cloudVars, cfgVars, ctlVars
<1>1. CASE EKSCreated
  BY <1>1 DEF EKSCreated, QuietInv, JoinedInv, DeletionInv, OrderInv
<1>2. ASSUME NEW r \in Async, AWSDeleted(r) PROVE QuietInv'
  BY <1>2 DEF AWSDeleted, QuietInv, JoinedInv, DeletionInv, OrderInv
<1>3. ASSUME NEW r \in Async, AWSDeleteFailed(r) PROVE FALSE
  BY <1>3 DEF AWSDeleteFailed, QuietInv, DeletionInv, OrderInv
<1>4. ASSUME NEW c \in {"create", "delete"}, NewTester(c) PROVE QuietInv'
  <2>1. /\ main = "off" /\ main' \in {"returned", "launch", "down"}
        /\ idx' = 1 /\ outcome' \in {"active", "none"}
        /\ status' \in {eks, disk.status} /\ disk'.status = status'
        /\ UNCHANGED <<cloudVars, worker, leaked>>
    BY <1>4 DEF NewTester, Sync
  <2>2. worker.at = "none"
    BY <2>1 DEF IInv, ControlInv
  <2>3. QED BY <2>1, <2>2 DEF QuietInv, JoinedInv, DeletionInv, OrderInv
<1>5. CASE Exit
  <2>1. /\ main = "returned" /\ main' = "off" /\ outcome' = "none"
        /\ worker' = NoWorker /\ status' = "NONE"
        /\ UNCHANGED <<cloudVars, disk>>
    BY <1>5 DEF Exit, ProcessEnds
  <2>2. leaked' = {}
    BY <1>5 DEF Exit, ProcessEnds, QuietInv, JoinedInv
  <2>3. QED
    BY <2>1, <2>2, NoWorkerTyped DEF QuietInv, JoinedInv, DeletionInv, OrderInv
<1>6. CASE Crash \/ SelectSignal
  BY <1>6 DEF Crash, SelectSignal, Quiet, QuietFaults
<1>7. CASE TerminateOnExit
  BY <1>7 DEF TerminateOnExit, QuietInv, JoinedInv, DeletionInv, OrderInv
<1>8. CASE Stop \/ UNCHANGED vars
  BY <1>8 DEF Stop, vars, QuietInv, JoinedInv, DeletionInv, OrderInv
<1>9. QED
  BY <1>1, <1>2, <1>3, <1>4, <1>5, <1>6, <1>7, <1>8 DEF AWSStep, Environment

(* At the end of down() nothing is left.                                   *)
LEMMA TornEmpty ==
  ASSUME IInv, QuietInv, outcome = "torn" PROVE cloud = {}
<1>1. idx = 10 /\ cloud \subseteq Base
  BY DEF IInv, ControlInv, QuietInv, JoinedInv
<1>2. \A j \in 1..9 : DownStages[j] \notin cloud
  BY <1>1 DEF QuietInv, OrderInv
<1>3. QED BY <1>1, <1>2, DownStagesCover

LEMMA SpecQuietInv == ASSUME Quiet PROVE Spec => []QuietInv
<1>1. Init => QuietInv
  BY NoWorkerTyped DEF Init, QuietInv, JoinedInv, DeletionInv, OrderInv
<1>2. IInv /\ QuietInv /\ [Next]_vars => QuietInv'
  BY Quiet, QuietWorker, QuietUp, QuietDown, QuietRest DEF Next, Terminated
<1>3. QED BY <1>1, <1>2, SpecIInv, PTL DEF Spec

(* "If it fails at any point of operation, it rolls back everything": with *)
(* failing create calls and Stop() at any moment, an Up that returns an    *)
(* error has left nothing at AWS.                                          *)
THEOREM RollsBack ==
  ASSUME Quiet, "clusterFailed" \notin Faults
  PROVE  Spec => []RollsBackEverything
<1>1. IInv /\ QuietInv => RollsBackEverything
  BY TornEmpty DEF RollsBackEverything, UpFailed, QuietInv, DeletionInv
<1>2. Spec => []QuietInv
  BY SpecQuietInv
<1>3. QED BY <1>1, <1>2, SpecIInv, PTL

(* A Down that returns nil has left nothing at AWS, whatever the Up before *)
(* it has or has not created.                                              *)
THEOREM DownLeavesNothing ==
  ASSUME Quiet PROVE Spec => []DownSuccessMeansGone
<1>1. IInv /\ QuietInv => DownSuccessMeansGone
  BY TornEmpty DEF DownSuccessMeansGone
<1>2. Spec => []QuietInv
  BY SpecQuietInv
<1>3. QED BY <1>1, <1>2, SpecIInv, PTL

(* down() never asks AWS to delete something that is still in use, so that *)
(* a deletion it waits for can end.                                        *)
THEOREM DependentsGoFirst ==
  ASSUME Quiet PROVE Spec => []NoDependencyViolation
<1>1. QuietInv => NoDependencyViolation
  BY DEF QuietInv, OrderInv, NoDependencyViolation
<1>2. Spec => []QuietInv
  BY SpecQuietInv
<1>3. QED BY <1>1, <1>2, PTL
=============================================================================

----------------------------- MODULE PartsProofs -----------------------------
(***************************************************************************)
(* The properties of MCParts, for every value of the constants.  For the   *)
(* CSI tester and the kubeadm deployer they follow from the invariants     *)
(* that the modules of their own prove; those of the SSH client, kubetest's*)
(* deployer, the node group, the bucket and the prow page are proved here. *)
(***************************************************************************)
EXTENDS MCParts, Sequences, SequenceTheorems, FiniteSetTheorems,
        WellFoundedInduction, TLAPS

CsiP == INSTANCE CSITesterProofs
AdmP == INSTANCE KubeadmProofs

-----------------------------------------------------------------------------
(* A part either moves as its module says, or does not move.               *)
LEMMA PartsMove ==
  ASSUME [Next]_vars
  PROVE /\ Ssh!Next \/ UNCHANGED sshVars
        /\ Csi!Next \/ UNCHANGED csiVars
        /\ Kubetest!Next \/ UNCHANGED kubetestVars
        /\ Adm!Next \/ UNCHANGED kubeadmVars
        /\ Group!Next \/ UNCHANGED groupVars
        /\ S3!Next \/ UNCHANGED s3Vars
        /\ Prow!Next \/ UNCHANGED prowVars
<1>1. CASE UNCHANGED vars
  BY <1>1 DEF vars, firstVars, laterVars
<1>2. CASE SshNext
  BY <1>2 DEF SshNext, laterVars
<1>3. CASE CsiNext
  BY <1>3 DEF CsiNext, laterVars
<1>4. CASE KubetestNext
  BY <1>4 DEF KubetestNext, laterVars
<1>5. CASE KubeadmNext
  BY <1>5 DEF KubeadmNext, laterVars
<1>6. CASE GroupNext
  BY <1>6 DEF GroupNext, firstVars
<1>7. CASE S3Next
  BY <1>7 DEF S3Next, firstVars
<1>8. CASE ProwNext
  BY <1>8 DEF ProwNext, firstVars
<1>9. QED BY <1>1, <1>2, <1>3, <1>4, <1>5, <1>6, <1>7, <1>8 DEF Next

LEMMA Started ==
  ASSUME Init
  PROVE /\ Ssh!Init /\ Csi!Init /\ Kubetest!Init /\ Adm!Init
        /\ Group!Init /\ S3!Init /\ Prow!Init
  BY DEF Init

-----------------------------------------------------------------------------
(* Tries and retries that are left add up to the budget.                   *)
BudgetInv ==
  ~cutOff /\ budget >= 0 =>
    /\ phase \in {"start", "command"} =>
         retries[key] \in 0..MaxRetries /\ retries[key] + tries = budget
    /\ phase = "reconnect" =>
         retries[key] \in 1..MaxRetries /\ retries[key] + tries = budget + 1

SshIInv == Ssh!TypeOK /\ BudgetInv /\ Ssh!TriesAsBudgeted

LEMMA SshInit == ASSUME MaxRetries \in Nat, Ssh!Init PROVE SshIInv
<1>1. Ssh!TypeOK
  <2>1. retries \in [Key -> -1..Ssh!Absent]
    BY DEF Ssh!Init, Ssh!Absent
  <2>2. budget \in -1..MaxRetries /\ tries \in 0..MaxRetries + 2 /\ calls \in Nat
    BY DEF Ssh!Init
  <2>3. QED BY <2>1, <2>2 DEF Ssh!Init, Ssh!TypeOK
<1>2. QED BY <1>1 DEF Ssh!Init, SshIInv, BudgetInv, Ssh!TriesAsBudgeted

LEMMA SshCallKeeps ==
  ASSUME MaxRetries \in Nat, SshIInv, NEW k \in Key, NEW n \in -1..MaxRetries, Ssh!Call(k, n)
  PROVE SshIInv'
<1>1. budget' \in -1..MaxRetries
  BY DEF Ssh!Call, SshIInv, Ssh!TypeOK, Ssh!Absent
<1>2. retries' = [retries EXCEPT ![k] = budget'] /\ key' = k /\ phase' = "start"
      /\ tries' = 0 /\ err' = "none" /\ cutOff' = FALSE /\ calls' = calls + 1
  BY DEF Ssh!Call
<1>3. retries' \in [Key -> -1..Ssh!Absent] /\ retries'[key'] = budget'
  BY <1>1, <1>2 DEF SshIInv, Ssh!TypeOK, Ssh!Absent
<1>4. Ssh!TypeOK'
  <2>1. tries' \in 0..MaxRetries + 2
    BY <1>2
  <2>2. calls \in Nat
    BY DEF SshIInv, Ssh!TypeOK
  <2>3. calls' \in Nat
    BY <1>2, <2>2
  <2>4. QED BY <1>1, <1>2, <1>3, <2>1, <2>3 DEF Ssh!TypeOK
<1>5. BudgetInv'
  <2>1. ASSUME NEW b \in -1..MaxRetries, b >= 0
        PROVE b \in 0..MaxRetries /\ b + 0 = b
    BY <2>1
  <2>2. QED BY <1>1, <1>2, <1>3, <2>1 DEF BudgetInv
<1>6. Ssh!TriesAsBudgeted'
  BY <1>2 DEF Ssh!TriesAsBudgeted
<1>7. QED BY <1>4, <1>5, <1>6 DEF SshIInv

LEMMA SshStepsKeep == ASSUME MaxRetries \in Nat, SshIInv, Ssh!Steps PROVE SshIInv'
<1> USE DEF SshIInv
<1>1. CASE Ssh!Start
  BY <1>1 DEF Ssh!Start, Ssh!TypeOK, BudgetInv, Ssh!TriesAsBudgeted
<1>2. CASE Ssh!Succeed
  <2>1. Ssh!TypeOK'
    BY <1>2 DEF Ssh!Succeed, Ssh!Tried, Ssh!TypeOK, Ssh!Absent
  <2>2. ~cutOff /\ budget >= 0 => tries' <= budget + 1
    BY <1>2 DEF Ssh!Succeed, Ssh!Tried, Ssh!TypeOK, BudgetInv
  <2>3. QED BY <1>2, <2>1, <2>2 DEF Ssh!Succeed, BudgetInv, Ssh!TriesAsBudgeted
<1>3. CASE Ssh!FailCommand
  <2>1. Ssh!TypeOK'
    BY <1>3 DEF Ssh!FailCommand, Ssh!Tried, Ssh!TypeOK
  <2>2. ~cutOff /\ budget >= 0 => tries' = tries + 1
    BY <1>3 DEF Ssh!FailCommand, Ssh!Tried, Ssh!TypeOK, BudgetInv
  <2>3. BudgetInv' /\ Ssh!TriesAsBudgeted'
    BY <1>3, <2>2 DEF Ssh!FailCommand, Ssh!TypeOK, BudgetInv, Ssh!TriesAsBudgeted
  <2>4. QED BY <2>1, <2>3
<1>4. CASE Ssh!Reconnect
  <2>1. retries' \in [Key -> -1..Ssh!Absent] /\ retries'[key] = Ssh!Less(retries[key])
    BY <1>4 DEF Ssh!Reconnect, Ssh!TypeOK, Ssh!Less, Ssh!Absent
  <2>2. Ssh!TypeOK'
    BY <1>4, <2>1 DEF Ssh!Reconnect, Ssh!TypeOK
  <2>3. ASSUME ~cutOff', budget' >= 0
        PROVE retries'[key'] \in 0..MaxRetries /\ retries'[key'] + tries' = budget'
    <3>1. ~cutOff /\ budget >= 0 /\ phase = "reconnect"
          /\ UNCHANGED <<key, budget, tries>>
      BY <1>4, <2>3 DEF Ssh!Reconnect
    <3>2. retries[key] \in 1..MaxRetries /\ retries[key] + tries = budget + 1
      BY <3>1 DEF BudgetInv
    <3>3. retries'[key] = retries[key] - 1
      BY <2>1, <3>2 DEF Ssh!Less
    <3>4. tries \in Int /\ budget \in Int
      BY DEF Ssh!TypeOK
    <3>5. \A r \in 1..MaxRetries, t \in Int, b \in Int :
            r + t = b + 1 => r - 1 \in 0..MaxRetries /\ (r - 1) + t = b
      OBVIOUS
    <3>6. retries[key] - 1 \in 0..MaxRetries /\ (retries[key] - 1) + tries = budget
      BY <3>2, <3>4, <3>5
    <3>7. QED BY <3>1, <3>3, <3>6
  <2>4. phase' = "start" \/ (phase' = "reconnect" /\ cutOff')
    BY <1>4 DEF Ssh!Reconnect
  <2>5. BudgetInv' /\ Ssh!TriesAsBudgeted'
    BY <2>3, <2>4 DEF BudgetInv, Ssh!TriesAsBudgeted
  <2>6. QED BY <2>2, <2>5
<1>5. QED BY <1>1, <1>2, <1>3, <1>4 DEF Ssh!Steps

LEMMA SshNextKeeps == ASSUME MaxRetries \in Nat, SshIInv, [Ssh!Next]_sshVars PROVE SshIInv'
<1>1. CASE UNCHANGED sshVars
  BY <1>1 DEF sshVars, SshIInv, Ssh!TypeOK, BudgetInv, Ssh!TriesAsBudgeted
<1>2. QED BY <1>1, SshCallKeeps, SshStepsKeep DEF Ssh!Next

LEMMA SshInv == Spec => []SshIInv
<1>1. Init => SshIInv
  BY Started, SshInit, RetriesAssumption
<1>2. SshIInv /\ [Next]_vars => SshIInv'
  BY PartsMove, SshNextKeeps, RetriesAssumption
<1>3. QED BY <1>1, <1>2, PTL DEF Spec

(* Run, Send and Download try a command once more than the budget allows   *)
(* before they give up, and never more often, as long as they can          *)
(* reconnect, for any commands, retries and calls, and any map that        *)
(* earlier calls have left.                                                *)
THEOREM SshTriesAsBudgeted == Spec => []TriesAsBudgeted
<1>1. SshIInv => TriesAsBudgeted
  BY DEF SshIInv, TriesAsBudgeted
<1>2. QED BY <1>1, SshInv, PTL

-----------------------------------------------------------------------------
(* The first of the resources that are missing.                            *)
LEMMA Least ==
  ASSUME NEW S, S \subseteq Nat, S # {}
  PROVE  \E m \in S : \A n \in S : m <= n
<1>1. PICK m \in S : \A n \in S : ~(<<n, m>> \in OpToRel(<, Nat))
  BY NatLessThanWellFounded, WFMin
<1>2. \A n \in S : ~(n < m)
  BY <1>1 DEF OpToRel
<1>3. QED BY <1>2

(* What nobody waits for any more is the last thing that was made, and     *)
(* only a create process that is past its stages has left it.              *)
LostInv ==
  /\ worker \in [at : {"none", "making", "trunc", "write"}, item : Kubetest!Resource]
  /\ lost \subseteq {worker.item}
  /\ lost # {} => pc["create"] \notin {"off", "load", "wait"}
  /\ pc["create"] \in {"off", "load", "ended", "failed"} => worker.at = "none"
  /\ pc["create"] # "wait" => Kubetest!Unwaited \subseteq lost
  /\ worker.at \in {"trunc", "write"} => worker.item \in mem["create"] \cup lost

(* Who runs beside whom.                                                   *)
Downs == {"watch", "after"}
Loaded(p) == pc[p] \in {"down", "trunc", "write", "ended"}

SuiteInv ==
  /\ main \in {"up", "after"} => pc["after"] = "off"
  /\ watcher \in {"wait", "load"} => pc["watch"] = "off"
  /\ \A p \in Downs : pc[p] = "ended" => mem[p] = {}
  /\ downNil => \E p \in Downs : pc[p] = "ended"
  /\ stopped <=> watcher # "wait"
  /\ ~stopped /\ main # "up" => pc["create"] \in {"ended", "failed"}
  /\ outran => stopped

(* A set of resources tells of all that exist, but for those that the      *)
(* create process knows of, which deletes them when it is interrupted.     *)
RollingBack ==
  IF pc["create"] \in {"wait", "down", "trunc", "write"} THEN mem["create"] ELSE {}
Tells(some) == cloud \subseteq some \cup lost \cup Kubetest!Unwaited \cup RollingBack

(* While no Down has loaded the file, it knows what a create process has   *)
(* made that runs to its end.                                              *)
Recorded ==
  pc["create"] = "wait" /\ (\A p \in Downs : ~Loaded(p)) =>
    cloud \subseteq disk \cup lost \cup Kubetest!Unwaited

KnowInv ==
  /\ pc["create"] \in {"off", "load"} => cloud = {}
  /\ pc["create"] \in {"wait", "down", "trunc", "write"} =>
       cloud \subseteq mem["create"] \cup lost \cup Kubetest!Unwaited
  /\ (~expired \/ ~stopped) /\ ~outran =>
       /\ \A p \in Downs : Loaded(p) => Tells(mem[p])
       /\ disk \notin Kubetest!Unusable => Tells(disk) /\ Recorded
  /\ Kubetest!FileKnows

(* TypeOK without what LostInv says of the worker.                         *)
KubetestTypes ==
  /\ cloud \subseteq Kubetest!Resource
  /\ disk \in (SUBSET Kubetest!Resource) \cup Kubetest!Unusable
  /\ pc \in [Kubetest!Process -> {"off", "load", "wait", "down", "trunc", "write",
                         "ended", "failed"}]
  /\ mem \in [Kubetest!Process -> SUBSET Kubetest!Resource]
  /\ main \in {"up", "after", "down", "exit", "panic"}
  /\ watcher \in {"wait", "load", "down", "join", "off"}
  /\ sigint \in BOOLEAN /\ stopped \in BOOLEAN /\ expired \in BOOLEAN
  /\ downNil \in BOOLEAN /\ outran \in BOOLEAN

(* Until Stop, a Down runs only in AfterSuite, and Up has returned then.   *)
LEMMA DownsRun ==
  ASSUME SuiteInv, ~stopped, NEW p \in Downs, pc[p] # "off"
  PROVE  main # "up" /\ pc["create"] \in {"ended", "failed"}
  BY DEF SuiteInv, Downs

KubetestInv == KubetestTypes /\ LostInv /\ SuiteInv /\ KnowInv

LEMMA TypesSuffice == KubetestInv => Kubetest!TypeOK
<1> SUFFICES ASSUME KubetestInv PROVE Kubetest!TypeOK
  OBVIOUS
<1>1. IsFiniteSet({worker.item}) /\ Cardinality({worker.item}) = 1
  BY FS_Singleton
<1>2. lost \subseteq Kubetest!Resource /\ Cardinality(lost) <= 1
  <2>1. Cardinality(lost) <= Cardinality({worker.item})
    BY <1>1, FS_Subset DEF KubetestInv, LostInv
  <2>2. worker.item \in Kubetest!Resource /\ lost \subseteq {worker.item}
    BY DEF KubetestInv, LostInv
  <2>3. QED BY <1>1, <2>1, <2>2
<1>3. Kubetest!Cardinality(lost) = Cardinality(lost)
  BY DEF Cardinality, Kubetest!Cardinality
<1>4. QED BY <1>2, <1>3 DEF KubetestInv, LostInv, KubetestTypes, Kubetest!TypeOK

LEMMA KubetestInit == ASSUME Kubetest!Init PROVE KubetestInv
<1>1. KubetestTypes
  BY DEF Kubetest!Init, KubetestTypes
<1>2. LostInv
  BY ResourcesAssumption DEF Kubetest!Init, LostInv, Kubetest!Resource,
     Kubetest!Process, Kubetest!Unwaited
<1>3. SuiteInv /\ KnowInv
  BY DEF Kubetest!Init, SuiteInv, KnowInv, Recorded, Loaded, Downs, Tells,
     Kubetest!FileKnows, Kubetest!Process
<1>4. QED BY <1>1, <1>2, <1>3 DEF KubetestInv

-----------------------------------------------------------------------------
LEMMA BeginStep == ASSUME KubetestInv, Kubetest!Begin PROVE KubetestInv'
<1> USE DEF KubetestInv, Kubetest!Begin, Kubetest!aws, Kubetest!suite
<1>1. KubetestTypes'
  BY DEF KubetestTypes
<1>2. /\ worker'.item \in Kubetest!Resource
      /\ worker' = [at |-> "making", item |-> worker'.item]
  <2> DEFINE S == Kubetest!Resource \ mem["create"]
  <2>1. S \subseteq Nat /\ S # {}
    <3>1. mem["create"] \subseteq Kubetest!Resource /\ mem["create"] # Kubetest!Resource
      BY DEF KubetestTypes, Kubetest!Process
    <3>2. S # {}
      BY <3>1
    <3>3. QED BY <3>2 DEF Kubetest!Resource
  <2>2. \E r \in S : \A s \in S : r <= s
    BY <2>1, Least
  <2>3. QED BY <2>2
<1>3. lost = {}
  BY DEF LostInv
<1>4. LostInv'
  BY <1>2, <1>3 DEF LostInv, Kubetest!Unwaited
<1>5. SuiteInv'
  BY DEF SuiteInv, Loaded
<1>6. Kubetest!Unwaited = {}
  BY DEF Kubetest!Unwaited
<1>7. KnowInv'
  BY <1>6 DEF KnowInv, Recorded, Tells, RollingBack, Kubetest!FileKnows, Loaded
<1>8. QED BY <1>1, <1>4, <1>5, <1>7

LEMMA WorkerStep == ASSUME KubetestInv, Kubetest!WorkerSteps PROVE KubetestInv'
<1> USE DEF KubetestInv, Kubetest!aws, Kubetest!suite, Kubetest!create,
        Kubetest!Step
<1>1. CASE Kubetest!Make
  <2>1. /\ cloud' = cloud \cup {worker.item} /\ worker.at = "making"
        /\ UNCHANGED <<disk, pc, mem, worker, sigint, lost, outran, main, watcher, stopped,
                       expired, downNil>>
    BY <1>1 DEF Kubetest!Make
  <2>2. KubetestTypes' /\ LostInv' /\ SuiteInv'
    BY <2>1 DEF KubetestTypes, LostInv, Kubetest!Unwaited, SuiteInv, Loaded
  <2>3. Kubetest!Unwaited = {worker.item} /\ Kubetest!Unwaited' = Kubetest!Unwaited
    BY <2>1 DEF Kubetest!Unwaited
  <2>4. pc["create"] \notin {"off", "load"}
    BY <2>1 DEF LostInv
  <2>5. KnowInv'
    BY <2>1, <2>3, <2>4 DEF KnowInv, Recorded, Tells, RollingBack, Kubetest!FileKnows,
       Loaded
  <2>6. QED BY <2>2, <2>5
<1>2. CASE Kubetest!MakeReturns
  <2>1. /\ worker.at = "making" /\ worker' = [worker EXCEPT !.at = "trunc"]
        /\ mem' = [mem EXCEPT !["create"] = @ \cup {worker.item}]
        /\ UNCHANGED <<cloud, disk, pc, sigint, lost, outran, main, watcher, stopped,
                       expired, downNil>>
    BY <1>2 DEF Kubetest!MakeReturns
  <2>2. /\ mem'["create"] = mem["create"] \cup {worker.item}
        /\ \A p \in Downs : mem'[p] = mem[p]
        /\ worker'.at = "trunc" /\ worker'.item = worker.item
        /\ worker' \in [at : {"none", "making", "trunc", "write"}, item : Kubetest!Resource]
    BY <2>1 DEF KubetestTypes, Kubetest!Process, Downs, LostInv
  <2>3. KubetestTypes'
    BY <2>1, <2>2 DEF KubetestTypes, LostInv, Kubetest!Process
  <2>4. Kubetest!Unwaited = {worker.item} /\ Kubetest!Unwaited' = Kubetest!Unwaited
    BY <2>1, <2>2 DEF Kubetest!Unwaited
  <2>5. LostInv'
    BY <2>1, <2>2, <2>4 DEF LostInv
  <2>6. SuiteInv'
    BY <2>1, <2>2 DEF SuiteInv, Loaded
  <2>7. KnowInv'
    BY <2>1, <2>2, <2>4 DEF KnowInv, Recorded, Tells, RollingBack, Kubetest!FileKnows,
       Loaded
  <2>8. QED BY <2>3, <2>5, <2>6, <2>7
<1>3. CASE Kubetest!MakeFails
  <2>1. /\ worker.at = "making" /\ worker' = [worker EXCEPT !.at = "none"]
        /\ worker.item \notin cloud
        /\ IF pc["create"] = "wait" THEN pc' = [pc EXCEPT !["create"] = "down"]
           ELSE pc' = pc
        /\ UNCHANGED <<cloud, disk, mem, sigint, lost, outran, main, watcher, stopped,
                       expired, downNil>>
    BY <1>3 DEF Kubetest!MakeFails, Kubetest!Go
  <2>2. /\ pc'["create"] = IF pc["create"] = "wait" THEN "down" ELSE pc["create"]
        /\ \A p \in Downs : pc'[p] = pc[p]
        /\ worker'.at = "none" /\ worker'.item = worker.item
        /\ worker' \in [at : {"none", "making", "trunc", "write"}, item : Kubetest!Resource]
    BY <2>1 DEF KubetestTypes, Kubetest!Process, Downs, LostInv
  <2>3. KubetestTypes'
    BY <2>1 DEF KubetestTypes
  <2>4. Kubetest!Unwaited = {worker.item} /\ Kubetest!Unwaited' = {}
    BY <2>1, <2>2 DEF Kubetest!Unwaited
  <2>5. LostInv'
    BY <2>1, <2>2, <2>4 DEF LostInv
  <2>6. pc["create"] \in {"wait", "down", "trunc", "write"}
    BY <2>1 DEF LostInv, KubetestTypes, Kubetest!Process
  <2>7. SuiteInv'
    BY <2>1, <2>2, <2>6 DEF SuiteInv, Loaded, Downs
  <2>8. RollingBack' = RollingBack
    BY <2>1, <2>2 DEF RollingBack
  <2>9. KnowInv'
    BY <2>1, <2>2, <2>4, <2>6, <2>8 DEF KnowInv, Recorded, Tells, Kubetest!FileKnows,
       Loaded
  <2>10. QED BY <2>3, <2>5, <2>7, <2>9
<1>4. CASE Kubetest!WorkerTruncate
  <2>1. /\ worker.at = "trunc" /\ worker' = [worker EXCEPT !.at = "write"]
        /\ disk' = Kubetest!Empty
        /\ UNCHANGED <<cloud, pc, mem, sigint, lost, outran, main, watcher, stopped,
                       expired, downNil>>
    BY <1>4 DEF Kubetest!WorkerTruncate
  <2>2. /\ worker'.at = "write" /\ worker'.item = worker.item
        /\ worker' \in [at : {"none", "making", "trunc", "write"}, item : Kubetest!Resource]
    BY <2>1 DEF LostInv
  <2>3. Kubetest!Unwaited' = Kubetest!Unwaited
    BY <2>1, <2>2 DEF Kubetest!Unwaited
  <2>4. KubetestTypes' /\ LostInv' /\ SuiteInv'
    BY <2>1, <2>2, <2>3 DEF KubetestTypes, LostInv, SuiteInv, Loaded,
       Kubetest!Unusable
  <2>5. KnowInv'
    BY <2>1, <2>3 DEF KnowInv, Recorded, Tells, RollingBack, Kubetest!FileKnows,
       Loaded, Kubetest!Unusable
  <2>6. QED BY <2>4, <2>5
<1>5. CASE Kubetest!WorkerWrite
  <2>1. /\ worker.at = "write" /\ worker' = [worker EXCEPT !.at = "none"]
        /\ disk' \in {mem["create"], Kubetest!Torn}
        /\ UNCHANGED <<cloud, pc, mem, sigint, lost, outran, main, watcher, stopped,
                       expired, downNil>>
    BY <1>5 DEF Kubetest!WorkerWrite, Kubetest!Written
  <2>2. /\ worker'.at = "none" /\ worker'.item = worker.item
        /\ worker' \in [at : {"none", "making", "trunc", "write"}, item : Kubetest!Resource]
    BY <2>1 DEF LostInv
  <2>3. KubetestTypes'
    BY <2>1 DEF KubetestTypes, Kubetest!Process, Kubetest!Unusable
  <2>4. Kubetest!Unwaited = {worker.item} /\ Kubetest!Unwaited' = {}
    BY <2>1, <2>2 DEF Kubetest!Unwaited
  <2>5. LostInv' /\ SuiteInv'
    BY <2>1, <2>2, <2>4 DEF LostInv, SuiteInv, Loaded
  <2>6. worker.item \in mem["create"] \cup lost
        /\ pc["create"] \in {"wait", "down", "trunc", "write"}
    BY <2>1 DEF LostInv, KubetestTypes, Kubetest!Process
  <2>7. cloud \subseteq mem["create"] \cup lost
    BY <2>4, <2>6 DEF KnowInv
  <2>8. RollingBack = mem["create"] /\ RollingBack' = mem["create"]
    BY <2>1, <2>6 DEF RollingBack
  <2>9. disk' = mem["create"] \/ disk' \in Kubetest!Unusable
    BY <2>1 DEF Kubetest!Unusable
  <2>10. KnowInv'
    BY <2>1, <2>4, <2>6, <2>7, <2>8, <2>9 DEF KnowInv, Recorded, Tells,
       Kubetest!FileKnows, Loaded
  <2>11. QED BY <2>3, <2>5, <2>10
<1>6. QED BY <1>1, <1>2, <1>3, <1>4, <1>5 DEF Kubetest!WorkerSteps

(* The steps of a process, and of the suite, leave the resources that exist *)
(* and the worker's alone.                                                 *)
LEMMA CreateEnds ==
  ASSUME KubetestInv, Kubetest!Created \/ Kubetest!Interrupt PROVE KubetestInv'
<1> USE DEF KubetestInv, Kubetest!aws, Kubetest!suite, Kubetest!create
<1>1. CASE Kubetest!Created
  <2>1. /\ pc["create"] = "wait" /\ worker.at = "none"
        /\ pc' = [pc EXCEPT !["create"] = "ended"]
        /\ mem["create"] = Kubetest!Resource
        /\ UNCHANGED <<cloud, disk, mem, worker, sigint, lost, main, watcher, stopped,
                       expired, downNil>>
    BY <1>1 DEF Kubetest!Created, Kubetest!Go
  <2>2. pc'["create"] = "ended" /\ \A p \in Downs : pc'[p] = pc[p]
    BY <2>1 DEF KubetestTypes, Kubetest!Process, Downs
  <2>3. outran' \in BOOLEAN /\ (outran' <=> outran \/ \E p \in Downs : Loaded(p))
    <3>1. outran' = (outran \/ \E p \in Downs : Loaded(p))
      BY <1>1 DEF Kubetest!Created, Kubetest!Loaded, Loaded, Downs
    <3>2. outran \in BOOLEAN
      BY DEF KubetestTypes
    <3>3. QED BY <3>1, <3>2, Zenon
  <2>4. KubetestTypes'
    BY <2>1, <2>3 DEF KubetestTypes
  <2>5. Kubetest!Unwaited = {} /\ Kubetest!Unwaited' = {}
    BY <2>1 DEF Kubetest!Unwaited
  <2>6. LostInv'
    BY <2>1, <2>2, <2>5 DEF LostInv
  <2>7. SuiteInv'
    <3>1. (\E p \in Downs : Loaded(p)) => stopped
      BY <2>1, DownsRun DEF Loaded
    <3>2. QED BY <2>1, <2>2, <2>3, <3>1 DEF SuiteInv, Downs
  <2>8. ~outran' => ~outran /\ \A p \in Downs : ~Loaded(p) /\ ~Loaded(p)'
    BY <2>2, <2>3 DEF Loaded
  <2>9. KnowInv'
    BY <2>1, <2>2, <2>5, <2>8 DEF KnowInv, Recorded, Tells, Kubetest!FileKnows
  <2>10. QED BY <2>4, <2>6, <2>7, <2>9
<1>2. CASE Kubetest!Interrupt
  <2>1. PICK to \in {"failed", "down"} :
          /\ pc["create"] \in {"load", "wait"} /\ (to = "failed" <=> pc["create"] = "load")
          /\ pc' = [pc EXCEPT !["create"] = to]
    BY <1>2 DEF Kubetest!Interrupt, Kubetest!Go
  <2>2. /\ lost' = lost \cup Kubetest!Unwaited /\ sigint /\ sigint' = FALSE
        /\ UNCHANGED <<cloud, disk, mem, worker, outran, main, watcher, stopped,
                       expired, downNil>>
    BY <1>2 DEF Kubetest!Interrupt
  <2>3. pc'["create"] = to /\ \A p \in Downs : pc'[p] = pc[p]
    BY <2>1 DEF KubetestTypes, Kubetest!Process, Downs
  <2>4. KubetestTypes'
    BY <2>1, <2>2 DEF KubetestTypes
  <2>5. Kubetest!Unwaited' = Kubetest!Unwaited /\ Kubetest!Unwaited \subseteq {worker.item}
    BY <2>2 DEF Kubetest!Unwaited
  <2>6. LostInv'
    BY <2>1, <2>2, <2>3, <2>5 DEF LostInv
  <2>7. SuiteInv'
    BY <2>1, <2>2, <2>3 DEF SuiteInv, Loaded, Downs
  <2>8. /\ to = "down" => RollingBack' = RollingBack
        /\ to = "failed" => RollingBack' = {} /\ cloud = {}
    BY <2>1, <2>2, <2>3 DEF RollingBack, KnowInv
  <2>9. to = "down" => cloud \subseteq mem["create"] \cup lost \cup Kubetest!Unwaited
    BY <2>1 DEF KnowInv
  <2>10. KnowInv'
    BY <2>1, <2>2, <2>3, <2>5, <2>8, <2>9 DEF KnowInv, Recorded, Tells,
       Kubetest!FileKnows, Loaded
  <2>11. QED BY <2>4, <2>6, <2>7, <2>10
<1>3. QED BY <1>1, <1>2

LEMMA LoadStep ==
  ASSUME KubetestInv, NEW p \in Kubetest!Process, Kubetest!Load(p)
  PROVE  KubetestInv'
<1> USE DEF KubetestInv, Kubetest!aws, Kubetest!suite, Kubetest!create
<1>1. /\ pc[p] = "load"
      /\ UNCHANGED <<cloud, disk, worker, sigint, lost, outran, main, watcher, stopped,
                     expired, downNil>>
  BY DEF Kubetest!Load
<1>2. PICK to \in {"failed", "wait", "down"} :
        /\ pc' = [pc EXCEPT ![p] = to]
        /\ to = "failed" => mem' = mem
        /\ to # "failed" => disk \notin Kubetest!Unusable /\ mem' = [mem EXCEPT ![p] = disk]
        /\ to = "wait" => p = "create"
        /\ to = "down" => p # "create"
  <2>1. CASE disk \in Kubetest!Unusable
    BY <2>1 DEF Kubetest!Load, Kubetest!Go
  <2>2. CASE disk \notin Kubetest!Unusable /\ p = "create"
    BY <2>2 DEF Kubetest!Load, Kubetest!Go
  <2>3. CASE disk \notin Kubetest!Unusable /\ p # "create"
    BY <2>3 DEF Kubetest!Load, Kubetest!Go
  <2>4. QED BY <2>1, <2>2, <2>3
<1>3. /\ pc'[p] = to /\ \A q \in Kubetest!Process \ {p} : pc'[q] = pc[q] /\ mem'[q] = mem[q]
      /\ to # "failed" => mem'[p] = disk
  BY <1>2 DEF KubetestTypes
<1>4. KubetestTypes'
  BY <1>1, <1>2 DEF KubetestTypes
<1>5. Kubetest!Unwaited' = Kubetest!Unwaited
  BY <1>1 DEF Kubetest!Unwaited
<1>6. /\ pc["create"] = "load" => cloud = {}
      /\ disk \in Kubetest!Unusable => to = "failed"
  BY <1>2 DEF KnowInv
<1>7. CASE p = "create"
  <2>1. LostInv'
    BY <1>1, <1>2, <1>3, <1>5, <1>7 DEF LostInv
  <2>2. SuiteInv'
    BY <1>1, <1>2, <1>3, <1>7 DEF SuiteInv, Loaded, Downs, Kubetest!Process
  <2>3. cloud = {}
    BY <1>1, <1>6, <1>7
  <2>4. KnowInv'
    BY <1>1, <1>5, <2>3
    DEF KnowInv, Recorded, Tells, Kubetest!FileKnows, Loaded, Downs, Kubetest!Process, SuiteInv
  <2>5. QED BY <1>4, <2>1, <2>2, <2>4
<1>8. CASE p \in Downs
  <2>1. pc'["create"] = pc["create"] /\ mem'["create"] = mem["create"]
    BY <1>3, <1>8 DEF Downs, Kubetest!Process
  <2>2. LostInv'
    BY <1>1, <1>5, <2>1 DEF LostInv
  <2>3. SuiteInv'
    BY <1>1, <1>2, <1>3, <1>6, <1>8, <2>1 DEF SuiteInv, Loaded, Downs,
       Kubetest!Process
  <2>4. RollingBack' = RollingBack
    BY <2>1 DEF RollingBack
  <2>5. ASSUME NEW q \in Downs, Loaded(q)', ~expired \/ ~stopped, ~outran
        PROVE  Tells(mem'[q])
    BY <1>1, <1>2, <1>3, <1>8, <2>5 DEF KnowInv, Loaded, Downs, Kubetest!Process
  <2>6. \A q \in Downs : Loaded(q) => Loaded(q)'
    BY <1>1, <1>3 DEF Loaded, Downs, Kubetest!Process
  <2>7. KnowInv'
    BY <1>1, <1>5, <2>1, <2>4, <2>5, <2>6 DEF KnowInv, Recorded, Tells,
       Kubetest!FileKnows
  <2>8. QED BY <1>4, <2>2, <2>3, <2>7
<1>9. QED BY <1>7, <1>8 DEF Kubetest!Process, Downs

LEMMA DownStep ==
  ASSUME KubetestInv, NEW p \in Kubetest!Process,
         \/ Kubetest!Delete(p) \/ Kubetest!Truncate(p)
         \/ Kubetest!Write(p) \/ Kubetest!Finish(p)
  PROVE  KubetestInv'
<1> USE DEF KubetestInv, Kubetest!aws, Kubetest!suite, Kubetest!create
<1>0. /\ UNCHANGED <<sigint, lost, outran, main, watcher, stopped, expired, downNil>>
      /\ pc[p] \in {"down", "trunc", "write"}
  BY DEF Kubetest!Delete, Kubetest!Truncate, Kubetest!Write, Kubetest!Finish
<1>1. CASE Kubetest!Delete(p)
  <2> DEFINE r == Kubetest!Last(mem[p])
  <2>1. /\ pc' = [pc EXCEPT ![p] = "trunc"] /\ pc[p] = "down"
        /\ mem' = [mem EXCEPT ![p] = @ \ {r}] /\ cloud' = cloud \ {r}
        /\ UNCHANGED <<disk, worker>>
    BY <1>1 DEF Kubetest!Delete, Kubetest!Go
  <2> HIDE DEF r
  <2>2. /\ pc'[p] = "trunc" /\ mem'[p] = mem[p] \ {r}
        /\ \A q \in Kubetest!Process \ {p} : pc'[q] = pc[q] /\ mem'[q] = mem[q]
    BY <2>1 DEF KubetestTypes
  <2>3. KubetestTypes'
    BY <1>0, <2>1 DEF KubetestTypes
  <2>4. Kubetest!Unwaited' = Kubetest!Unwaited
    BY <2>1 DEF Kubetest!Unwaited
  <2>5. /\ "create" \in Kubetest!Process
        /\ \A q \in Downs : q \in Kubetest!Process /\ q # "create"
    BY DEF Kubetest!Process, Downs
  <2>6. LostInv'
    <3>1. CASE p = "create"
      <4>1. Kubetest!Unwaited \subseteq lost
        BY <2>1, <3>1 DEF LostInv
      <4>2. worker.at \in {"trunc", "write"} => worker.item \in lost
        BY <4>1 DEF Kubetest!Unwaited
      <4>3. QED BY <1>0, <2>1, <2>2, <2>4, <3>1, <4>2 DEF LostInv
    <3>2. CASE p # "create"
      BY <1>0, <2>1, <2>2, <2>4, <2>5, <3>2 DEF LostInv
    <3>3. QED BY <3>1, <3>2
  <2>7. SuiteInv'
    <3>1. \A q \in Downs : /\ Loaded(q)' <=> Loaded(q)
                           /\ pc'[q] = "ended" => pc[q] = "ended" /\ mem'[q] = mem[q]
                           /\ pc[q] = "ended" => pc'[q] = "ended"
                           /\ pc'[q] = "off" <=> pc[q] = "off"
      BY <2>1, <2>2, <2>5 DEF Loaded
    <3>2. \/ pc'["create"] = pc["create"]
          \/ pc["create"] = "down" /\ pc'["create"] = "trunc"
      BY <2>1, <2>2, <2>5
    <3>3. "after" \in Downs /\ "watch" \in Downs
      BY DEF Downs
    <3>4. QED BY <1>0, <2>1, <3>1, <3>2, <3>3 DEF SuiteInv
  <2>8. KnowInv'
    <3>1. RollingBack \ {r} \subseteq RollingBack'
      BY <2>1, <2>2, <2>5 DEF RollingBack
    <3>2. \A q \in Downs : Loaded(q)' => Loaded(q) /\ mem[q] \ {r} \subseteq mem'[q]
      BY <2>1, <2>2, <2>5 DEF Loaded
    <3>3. pc'["create"] \in {"wait", "down", "trunc", "write"} =>
            /\ pc["create"] \in {"wait", "down", "trunc", "write"}
            /\ mem["create"] \ {r} \subseteq mem'["create"]
      BY <2>1, <2>2, <2>5
    <3>4. pc'["create"] \in {"off", "load"} => pc["create"] \in {"off", "load"}
      BY <2>1, <2>2, <2>5
    <3>5. Recorded'
      BY <2>1, <2>2, <2>5 DEF Recorded, Loaded, Downs, Kubetest!Process
    <3>6. QED BY <1>0, <2>1, <2>4, <3>1, <3>2, <3>3, <3>4, <3>5 DEF KnowInv, Tells,
        Kubetest!FileKnows
  <2>9. QED BY <2>3, <2>6, <2>7, <2>8
<1>2. CASE Kubetest!Truncate(p) \/ Kubetest!Write(p)
  <2>1. PICK to \in {"write", "down"} :
          /\ pc' = [pc EXCEPT ![p] = to] /\ disk' \in {mem[p]} \cup Kubetest!Unusable
          /\ pc[p] \in {"trunc", "write"}
    BY <1>2 DEF Kubetest!Truncate, Kubetest!Write, Kubetest!Written, Kubetest!Go,
       Kubetest!Unusable
  <2>2. UNCHANGED <<cloud, mem, worker>>
    BY <1>2 DEF Kubetest!Truncate, Kubetest!Write
  <2>3. pc'[p] = to /\ \A q \in Kubetest!Process \ {p} : pc'[q] = pc[q]
    BY <2>1 DEF KubetestTypes
  <2>4. KubetestTypes'
    BY <1>0, <2>1, <2>2 DEF KubetestTypes
  <2>5. Kubetest!Unwaited' = Kubetest!Unwaited
    BY <2>2 DEF Kubetest!Unwaited
  <2>6. /\ "create" \in Kubetest!Process /\ "after" \in Downs /\ "watch" \in Downs
        /\ \A q \in Downs : q \in Kubetest!Process /\ q # "create"
    BY DEF Kubetest!Process, Downs
  <2>7. \/ pc'["create"] = pc["create"] /\ p # "create"
        \/ /\ p = "create" /\ pc["create"] \in {"trunc", "write"}
           /\ pc'["create"] \in {"write", "down"}
    BY <2>1, <2>3, <2>6
  <2>8. \A q \in Downs : /\ Loaded(q)' <=> Loaded(q)
                         /\ pc'[q] = "ended" <=> pc[q] = "ended"
                         /\ pc'[q] = "off" <=> pc[q] = "off"
    BY <2>1, <2>3, <2>6 DEF Loaded
  <2>9. LostInv'
    BY <1>0, <2>2, <2>5, <2>7 DEF LostInv
  <2>10. SuiteInv'
    BY <1>0, <2>2, <2>6, <2>7, <2>8 DEF SuiteInv
  <2>11. RollingBack' = RollingBack
    BY <2>2, <2>7 DEF RollingBack
  <2>12. /\ (~expired \/ ~stopped) /\ ~outran => Tells(mem[p])
         /\ ~stopped => cloud \subseteq mem[p] \cup lost \cup Kubetest!Unwaited
         /\ p = "create" \/ Loaded(p)
    <3>1. CASE p = "create"
      BY <2>1, <3>1 DEF KnowInv, Recorded, Tells
    <3>2. CASE p # "create"
      <4>1. p \in Downs /\ Loaded(p)
        BY <2>1, <3>2 DEF Kubetest!Process, Downs, Loaded
      <4>2. ~stopped => RollingBack = {} /\ ~outran
        BY <4>1, DownsRun DEF SuiteInv, RollingBack, Loaded
      <4>3. QED BY <4>1, <4>2 DEF KnowInv, Tells
    <3>3. QED BY <3>1, <3>2
  <2>13. Recorded'
    BY <2>1, <2>3, <2>6 DEF Recorded, Loaded, Downs, Kubetest!Process
  <2>14. /\ disk' = mem[p] \/ disk' \in Kubetest!Unusable
         /\ Kubetest!Unusable' = Kubetest!Unusable
    BY <2>1 DEF Kubetest!Unusable
  <2>15. KnowInv'
    BY <1>0, <2>2, <2>5, <2>7, <2>8, <2>11, <2>12, <2>13, <2>14 DEF KnowInv, Tells,
       Kubetest!FileKnows
  <2>16. QED BY <2>4, <2>9, <2>10, <2>15
<1>3. CASE Kubetest!Finish(p) /\ p = "create"
  <2>1. /\ pc' = [pc EXCEPT !["create"] = "failed"] /\ pc["create"] = "down"
        /\ mem["create"] = {} /\ worker' = [worker EXCEPT !.at = "none"]
        /\ UNCHANGED <<cloud, disk, mem>>
    BY <1>3 DEF Kubetest!Finish, Kubetest!Go, Kubetest!Step
  <2>2. pc'["create"] = "failed" /\ \A q \in Downs : pc'[q] = pc[q]
    BY <2>1 DEF KubetestTypes, Kubetest!Process, Downs
  <2>3. /\ worker'.at = "none" /\ worker'.item = worker.item
        /\ worker' \in [at : {"none", "making", "trunc", "write"}, item : Kubetest!Resource]
    BY <2>1 DEF LostInv
  <2>4. KubetestTypes'
    BY <1>0, <2>1 DEF KubetestTypes
  <2>5. Kubetest!Unwaited' = {} /\ Kubetest!Unwaited \subseteq lost
    BY <2>1, <2>3 DEF Kubetest!Unwaited, LostInv
  <2>6. LostInv'
    BY <1>0, <2>1, <2>2, <2>3, <2>5 DEF LostInv
  <2>7. SuiteInv'
    BY <1>0, <2>1, <2>2 DEF SuiteInv, Loaded, Downs
  <2>8. RollingBack = {} /\ RollingBack' = {}
    BY <2>1, <2>2 DEF RollingBack
  <2>9. KnowInv'
    BY <1>0, <2>1, <2>2, <2>5, <2>8 DEF KnowInv, Recorded, Tells, Kubetest!FileKnows,
       Loaded
  <2>10. QED BY <2>4, <2>6, <2>7, <2>9
<1>4. CASE Kubetest!Finish(p) /\ p # "create"
  <2>1. /\ pc' = [pc EXCEPT ![p] = "ended"] /\ pc[p] = "down" /\ mem[p] = {}
        /\ UNCHANGED <<cloud, disk, mem, worker>>
    BY <1>4 DEF Kubetest!Finish, Kubetest!Go
  <2>2. pc'[p] = "ended" /\ \A q \in Kubetest!Process \ {p} : pc'[q] = pc[q]
    BY <2>1 DEF KubetestTypes
  <2>3. p \in Downs /\ pc'["create"] = pc["create"]
    BY <1>4, <2>2 DEF Kubetest!Process, Downs
  <2>4. KubetestTypes'
    BY <1>0, <2>1 DEF KubetestTypes
  <2>5. Kubetest!Unwaited' = Kubetest!Unwaited /\ RollingBack' = RollingBack
    BY <2>1, <2>3 DEF Kubetest!Unwaited, RollingBack
  <2>6. LostInv'
    BY <1>0, <2>1, <2>3, <2>5 DEF LostInv
  <2>7. \A q \in Downs : /\ Loaded(q)' <=> Loaded(q)
                         /\ pc[q] = "ended" => pc'[q] = "ended"
                         /\ pc'[q] = "ended" => pc[q] = "ended" \/ q = p
                         /\ pc'[q] = "off" <=> pc[q] = "off"
    BY <2>1, <2>2, <2>3 DEF Loaded, Downs, Kubetest!Process
  <2>8. SuiteInv'
    BY <1>0, <2>1, <2>3, <2>7 DEF SuiteInv, Downs
  <2>9. KnowInv'
    BY <1>0, <2>1, <2>3, <2>5, <2>7 DEF KnowInv, Recorded, Tells, Kubetest!FileKnows
  <2>10. QED BY <2>4, <2>6, <2>8, <2>9
<1>5. QED BY <1>1, <1>2, <1>3, <1>4

(* A process that is killed leaves what the worker was making.             *)
LEMMA KillStep ==
  ASSUME KubetestInv, NEW p \in Kubetest!Process, Kubetest!Kill(p), Kubetest!Running(p),
         UNCHANGED <<cloud, disk, mem, main, downNil, expired>>,
         \/ /\ expired
            /\ UNCHANGED <<watcher, stopped>>
         \/ /\ p = "create" /\ main = "up" /\ watcher = "wait"
            /\ watcher' = "load" /\ stopped' = TRUE
  PROVE  KubetestInv'
<1> USE DEF KubetestInv
<1>1. /\ pc' = [pc EXCEPT ![p] = "failed"]
      /\ sigint' = sigint /\ outran' = outran
  BY DEF Kubetest!Kill, Kubetest!Go, Kubetest!create
<1>2. /\ pc'[p] = "failed" /\ \A q \in Kubetest!Process \ {p} : pc'[q] = pc[q]
      /\ pc[p] \notin {"off", "ended", "failed"}
  BY <1>1 DEF KubetestTypes, Kubetest!Running
<1>3. /\ "create" \in Kubetest!Process /\ "after" \in Downs /\ "watch" \in Downs
      /\ \A q \in Downs : q \in Kubetest!Process /\ q # "create"
      /\ Kubetest!Process = {"create"} \cup Downs
  BY DEF Kubetest!Process, Downs
<1>4. KubetestTypes'
  BY <1>1 DEF KubetestTypes
<1>5. \A q \in Downs : /\ Loaded(q)' => Loaded(q)
                       /\ pc'[q] = "ended" <=> pc[q] = "ended"
                       /\ pc'[q] = "off" <=> pc[q] = "off"
  BY <1>2, <1>3 DEF Loaded
<1>6. CASE p = "create"
  <2>1. lost' = lost \cup Kubetest!Unwaited /\ worker' = [worker EXCEPT !.at = "none"]
    BY <1>6 DEF Kubetest!Kill, Kubetest!Step
  <2>2. /\ worker'.at = "none" /\ worker'.item = worker.item
        /\ worker' \in [at : {"none", "making", "trunc", "write"}, item : Kubetest!Resource]
    BY <2>1 DEF LostInv
  <2>3. Kubetest!Unwaited' = {} /\ Kubetest!Unwaited \subseteq {worker.item}
    BY <2>2 DEF Kubetest!Unwaited
  <2>4. LostInv'
    BY <1>2, <1>6, <2>1, <2>2, <2>3 DEF LostInv
  <2>5. SuiteInv'
    BY <1>1, <1>2, <1>3, <1>5, <1>6 DEF SuiteInv
  <2>6. ~stopped => \A q \in Downs : ~Loaded(q)
    BY <1>2, <1>6, DownsRun DEF Loaded
  <2>7. KnowInv'
    <3>1. ~stopped' => ~stopped
      BY DEF SuiteInv
    <3>2. CASE expired /\ stopped
      BY <1>1, <1>2, <1>6, <3>2 DEF KnowInv, Kubetest!FileKnows
    <3>3. CASE expired /\ ~stopped
      <4>1. \A q \in Downs : ~Loaded(q)
        BY <2>6, <3>3
      <4>2. RollingBack' = {}
        BY <1>2, <1>6 DEF RollingBack
      <4>3. QED
        BY <1>1, <1>2, <1>5, <1>6, <2>1, <2>3, <3>3, <4>1, <4>2 DEF KnowInv, Recorded, Tells,
           Kubetest!FileKnows
    <3>4. CASE ~expired
      <4>1. main = "up" /\ ~stopped
        BY <3>4 DEF SuiteInv
      <4>2. QED
        BY <1>1, <1>2, <1>5, <1>6, <2>1, <2>3, <2>6, <3>4, <4>1
        DEF KnowInv, Recorded, Tells, Kubetest!FileKnows
    <3>5. QED BY <3>2, <3>3, <3>4
  <2>8. QED BY <1>4, <2>4, <2>5, <2>7
<1>7. CASE p # "create"
  <2>1. /\ UNCHANGED <<worker, lost, outran, watcher, stopped>> /\ pc'["create"] = pc["create"]
        /\ expired
    BY <1>2, <1>3, <1>7 DEF Kubetest!Kill, Kubetest!create
  <2>2. Kubetest!Unwaited' = Kubetest!Unwaited /\ RollingBack' = RollingBack
    BY <2>1 DEF Kubetest!Unwaited, RollingBack
  <2>3. LostInv'
    BY <2>1, <2>2 DEF LostInv
  <2>4. SuiteInv'
    BY <1>1, <1>3, <1>5, <2>1 DEF SuiteInv
  <2>5. KnowInv'
    <3>1. CASE stopped
      BY <1>1, <2>1, <2>2, <3>1 DEF KnowInv, Kubetest!FileKnows
    <3>2. CASE ~stopped
      <4>1. pc["create"] # "wait"
        BY <1>2, <1>3, <1>7, <3>2, DownsRun
      <4>2. QED BY <1>1, <1>5, <2>1, <2>2, <4>1 DEF KnowInv, Recorded, Tells,
            Kubetest!FileKnows
    <3>3. QED BY <3>1, <3>2 DEF KubetestTypes
  <2>6. QED BY <1>4, <2>3, <2>4, <2>5
<1>8. QED BY <1>6, <1>7

(* The suite's own steps start processes and leave what they know alone.   *)
LEMMA SuiteKeeps ==
  ASSUME KubetestInv, UNCHANGED <<cloud, disk, mem, worker, lost, outran>>,
         expired => expired', stopped => stopped',
         \/ UNCHANGED pc
         \/ \E p \in Kubetest!Process : Kubetest!Start(p) \/ Kubetest!Down(p)
  PROVE  /\ LostInv' /\ KnowInv'
         /\ pc' \in [Kubetest!Process -> {"off", "load", "wait", "down", "trunc", "write",
                                "ended", "failed"}]
         /\ \A q \in Kubetest!Process : \/ pc'[q] = pc[q]
                               \/ /\ pc[q] = "off"
                                  /\ pc'[q] \in {"load", "failed"}
<1> USE DEF KubetestInv
<1>1. CASE UNCHANGED pc
  <2>1. LostInv' /\ KnowInv'
    BY <1>1 DEF LostInv, KnowInv, Recorded, Kubetest!Unwaited, RollingBack, Tells,
       Kubetest!FileKnows, Loaded
  <2>2. QED BY <1>1, <2>1 DEF KubetestTypes
<1>2. ASSUME NEW p \in Kubetest!Process, Kubetest!Start(p) \/ Kubetest!Down(p)
      PROVE  /\ LostInv' /\ KnowInv'
             /\ pc' \in [Kubetest!Process -> {"off", "load", "wait", "down", "trunc", "write",
                                    "ended", "failed"}]
             /\ \A q \in Kubetest!Process : \/ pc'[q] = pc[q]
                                   \/ /\ pc[q] = "off"
                                      /\ pc'[q] \in {"load", "failed"}
  <2>1. PICK to \in {"load", "failed"} : pc[p] = "off" /\ pc' = [pc EXCEPT ![p] = to]
    BY <1>2 DEF Kubetest!Start, Kubetest!Down, Kubetest!Go
  <2>2. pc'[p] = to /\ \A q \in Kubetest!Process \ {p} : pc'[q] = pc[q]
    BY <2>1 DEF KubetestTypes
  <2>3. pc' \in [Kubetest!Process -> {"off", "load", "wait", "down", "trunc", "write",
                            "ended", "failed"}]
    BY <2>1 DEF KubetestTypes
  <2>4. /\ "create" \in Kubetest!Process
        /\ \A q \in Downs : q \in Kubetest!Process /\ q # "create"
    BY DEF Kubetest!Process, Downs
  <2>5. \/ pc'["create"] = pc["create"]
        \/ pc["create"] = "off" /\ pc'["create"] \in {"load", "failed"}
    BY <2>1, <2>2, <2>4
  <2>6. Kubetest!Unwaited' = Kubetest!Unwaited /\ RollingBack' = RollingBack
    BY <2>5 DEF Kubetest!Unwaited, RollingBack
  <2>7. \A q \in Downs : Loaded(q)' <=> Loaded(q)
    BY <2>1, <2>2, <2>4 DEF Loaded
  <2>8. LostInv'
    BY <2>5, <2>6 DEF LostInv
  <2>9. KnowInv'
    BY <2>5, <2>6, <2>7 DEF KnowInv, Recorded, Tells, Kubetest!FileKnows
  <2>10. QED BY <1>2, <2>1, <2>2, <2>3, <2>8, <2>9
<1>3. QED BY <1>1, <1>2

LEMMA UpStep ==
  ASSUME KubetestInv, Kubetest!UpStarts \/ Kubetest!UpReturns \/ Kubetest!UpStopped
  PROVE  KubetestInv'
<1> USE DEF KubetestInv, Kubetest!aws, Kubetest!suite, Kubetest!create
<1>0. /\ "create" \in Kubetest!Process
      /\ Downs \subseteq Kubetest!Process /\ "create" \notin Downs
      /\ "after" \in Downs /\ "watch" \in Downs
  BY DEF Kubetest!Process, Downs
<1>1. CASE Kubetest!UpStarts
  <2>1. /\ main = "up" /\ Kubetest!Start("create")
        /\ UNCHANGED <<cloud, disk, mem, worker, sigint, lost, outran, main, watcher, stopped,
                       expired, downNil>>
    BY <1>1 DEF Kubetest!UpStarts
  <2>2. LostInv' /\ KnowInv'
    BY <1>0, <2>1, SuiteKeeps
  <2>3. PICK to \in {"load", "failed"} :
          pc["create"] = "off" /\ pc' = [pc EXCEPT !["create"] = to]
    BY <2>1 DEF Kubetest!Start, Kubetest!Go
  <2>4. KubetestTypes' /\ pc'["create"] = to /\ \A q \in Downs : pc'[q] = pc[q]
    BY <1>0, <2>1, <2>3 DEF KubetestTypes
  <2>5. \A q \in Downs : Loaded(q)' <=> Loaded(q)
    BY <2>4 DEF Loaded
  <2>6. SuiteInv'
    BY <1>0, <2>1, <2>4, <2>5 DEF SuiteInv
  <2>7. QED BY <2>2, <2>4, <2>6
<1>2. CASE Kubetest!UpReturns \/ Kubetest!UpStopped
  <2>1. /\ main = "up" /\ main' \in {"after", "panic"}
        /\ UNCHANGED <<cloud, disk, pc, mem, worker, lost, outran, watcher, stopped,
                       expired, downNil>>
    BY <1>2 DEF Kubetest!UpReturns, Kubetest!UpStopped
  <2>2. LostInv' /\ KnowInv'
    BY <2>1, SuiteKeeps
  <2>3. \/ pc["create"] \in {"ended", "failed"} /\ sigint' = sigint
        \/ stopped /\ sigint' = (pc["create"] \in {"load", "wait"})
    BY <1>2 DEF Kubetest!UpReturns, Kubetest!UpStopped
  <2>4. sigint' \in BOOLEAN
    <3>1. sigint \in BOOLEAN /\ (pc["create"] \in {"load", "wait"}) \in BOOLEAN
      BY DEF KubetestTypes
    <3>2. CASE sigint' = sigint
      BY <3>1, <3>2
    <3>3. CASE sigint' = (pc["create"] \in {"load", "wait"})
      BY <3>1, <3>3
    <3>4. QED BY <2>3, <3>2, <3>3
  <2>5. KubetestTypes'
    BY <2>1, <2>4 DEF KubetestTypes
  <2>6. ~stopped /\ main' # "up" => pc["create"] \in {"ended", "failed"}
    BY <2>3
  <2>7. SuiteInv'
    BY <2>1, <2>6 DEF SuiteInv, Loaded
  <2>8. QED BY <2>2, <2>5, <2>7
<1>3. QED BY <1>1, <1>2

LEMMA SignalStep == ASSUME KubetestInv, Kubetest!Signal PROVE KubetestInv'
<1> USE DEF KubetestInv, Kubetest!aws
<1>1. /\ main = "up" /\ watcher = "wait" /\ watcher' = "load" /\ stopped' = TRUE
      /\ UNCHANGED <<cloud, disk, mem, main, expired, downNil>>
  BY DEF Kubetest!Signal
<1>2. CASE Kubetest!Running("create") /\ Kubetest!Kill("create")
  BY <1>1, <1>2, KillStep DEF Kubetest!Process
<1>3. CASE UNCHANGED <<pc, Kubetest!create>>
  <2>1. UNCHANGED <<pc, worker, sigint, lost, outran>>
    BY <1>3 DEF Kubetest!create
  <2>2. LostInv' /\ KnowInv'
    BY <1>1, <2>1, SuiteKeeps
  <2>3. KubetestTypes'
    BY <1>1, <2>1 DEF KubetestTypes
  <2>4. SuiteInv'
    BY <1>1, <2>1 DEF SuiteInv, Loaded
  <2>5. QED BY <2>2, <2>3, <2>4
<1>4. QED BY <1>2, <1>3 DEF Kubetest!Signal

LEMMA DownStarts ==
  ASSUME KubetestInv, Kubetest!WatcherLoads \/ Kubetest!AfterSuite
  PROVE  KubetestInv'
<1> USE DEF KubetestInv, Kubetest!aws, Kubetest!create
<1>0. /\ "create" \in Kubetest!Process
      /\ Downs \subseteq Kubetest!Process /\ "create" \notin Downs
      /\ "after" \in Downs /\ "watch" \in Downs /\ Downs = {"watch", "after"}
  BY DEF Kubetest!Process, Downs
<1>1. /\ UNCHANGED <<cloud, disk, mem, worker, sigint, lost, outran, stopped,
                     expired, downNil>>
      /\ UNCHANGED pc \/ \E p \in Downs : Kubetest!Down(p)
  BY <1>0 DEF Kubetest!WatcherLoads, Kubetest!AfterSuite
<1>2. /\ LostInv' /\ KnowInv'
      /\ pc' \in [Kubetest!Process -> {"off", "load", "wait", "down", "trunc", "write",
                             "ended", "failed"}]
      /\ \A q \in Kubetest!Process : \/ pc'[q] = pc[q]
                            \/ /\ pc[q] = "off"
                               /\ pc'[q] \in {"load", "failed"}
  BY <1>0, <1>1, SuiteKeeps
<1>3. pc'["create"] = pc["create"]
  BY <1>0, <1>1 DEF Kubetest!Down, Kubetest!Start, Kubetest!Go, KubetestTypes
<1>4. \A q \in Downs : /\ Loaded(q)' <=> Loaded(q)
                       /\ pc'[q] = "ended" <=> pc[q] = "ended"
  BY <1>0, <1>2 DEF Loaded
<1>5. CASE Kubetest!WatcherLoads
  <2>1. \/ main' = "panic" /\ UNCHANGED <<pc, watcher>>
        \/ watcher' = "down" /\ Kubetest!Down("watch") /\ main' = main
    BY <1>5 DEF Kubetest!WatcherLoads
  <2>2. Kubetest!Alive /\ watcher = "load"
    BY <1>5 DEF Kubetest!WatcherLoads
  <2>3. pc'["after"] = pc["after"]
    BY <1>0, <2>1 DEF Kubetest!Down, Kubetest!Start, Kubetest!Go, KubetestTypes
  <2>4. KubetestTypes'
    BY <1>1, <1>2, <2>1 DEF KubetestTypes
  <2>5. SuiteInv'
    BY <1>0, <1>1, <1>3, <1>4, <2>1, <2>2, <2>3 DEF SuiteInv
  <2>6. QED BY <1>2, <2>4, <2>5
<1>6. CASE Kubetest!AfterSuite
  <2>1. \/ main' = "exit" /\ UNCHANGED <<pc, watcher>>
        \/ main' = "down" /\ Kubetest!Down("after") /\ watcher' = watcher
    BY <1>6 DEF Kubetest!AfterSuite
  <2>2. main = "after"
    BY <1>6 DEF Kubetest!AfterSuite
  <2>3. pc'["watch"] = pc["watch"]
    BY <1>0, <2>1 DEF Kubetest!Down, Kubetest!Start, Kubetest!Go, KubetestTypes
  <2>4. KubetestTypes'
    BY <1>1, <1>2, <2>1 DEF KubetestTypes
  <2>5. SuiteInv'
    BY <1>0, <1>1, <1>3, <1>4, <2>1, <2>2, <2>3 DEF SuiteInv
  <2>6. QED BY <1>2, <2>4, <2>5
<1>7. QED BY <1>5, <1>6

LEMMA SuiteStep ==
  ASSUME KubetestInv,
         \/ Kubetest!Expire \/ Kubetest!WatcherDown
         \/ Kubetest!WatcherExits \/ Kubetest!SuiteEnds
         \/ UNCHANGED kubetestVars
  PROVE  KubetestInv'
<1> USE DEF KubetestInv, Kubetest!aws, Kubetest!create, Kubetest!Expire,
        Kubetest!WatcherDown, Kubetest!WatcherExits, Kubetest!SuiteEnds,
        kubetestVars
<1>1. /\ UNCHANGED <<cloud, disk, pc, mem, worker, sigint, lost, outran, stopped>>
      /\ expired' \in BOOLEAN /\ expired => expired'
  BY DEF KubetestTypes
<1>2. LostInv' /\ KnowInv'
  BY <1>1, SuiteKeeps
<1>3. \/ UNCHANGED main
      \/ main' = "exit" /\ main # "up" /\ Kubetest!Alive
  BY DEF KubetestTypes, Kubetest!Alive
<1>4. \/ UNCHANGED watcher
      \/ watcher' \in {"join", "off"} /\ watcher \in {"down", "join"}
  OBVIOUS
<1>5. /\ downNil' \in BOOLEAN
      /\ downNil' => downNil \/ \E p \in Downs : pc[p] = "ended"
  <2>1. \/ downNil' = downNil
        \/ \E p \in Downs : downNil' = (downNil \/ pc[p] = "ended")
    BY DEF Downs
  <2>2. downNil \in BOOLEAN
    BY DEF KubetestTypes
  <2>3. CASE downNil' = downNil
    BY <2>2, <2>3
  <2>4. ASSUME NEW p \in Downs, downNil' = (downNil \/ pc[p] = "ended")
        PROVE  /\ downNil' \in BOOLEAN
               /\ downNil' => downNil \/ \E q \in Downs : pc[q] = "ended"
    <3>1. (pc[p] = "ended") \in BOOLEAN
      OBVIOUS
    <3>2. QED BY <2>2, <2>4, <3>1, Zenon
  <2>5. QED BY <2>1, <2>3, <2>4
<1>6. KubetestTypes'
  BY <1>1, <1>3, <1>4, <1>5 DEF KubetestTypes
<1>7. SuiteInv'
  BY <1>1, <1>3, <1>4, <1>5 DEF SuiteInv, Loaded
<1>8. QED BY <1>2, <1>6, <1>7

LEMMA KubetestNextKeeps ==
  ASSUME KubetestInv, Kubetest!Next \/ UNCHANGED kubetestVars
  PROVE  KubetestInv'
<1>1. CASE \E p \in Kubetest!Process : Kubetest!KillExpired(p)
  <2>1. PICK p \in Kubetest!Process : Kubetest!KillExpired(p)
    BY <1>1
  <2>2. QED BY <2>1, KillStep DEF Kubetest!KillExpired, Kubetest!aws,
        Kubetest!suite
<1>2. CASE \E p \in Kubetest!Process : Kubetest!ProcessSteps(p)
  BY <1>2, LoadStep, DownStep DEF Kubetest!ProcessSteps
<1>3. QED
  BY <1>1, <1>2, BeginStep, WorkerStep, CreateEnds, UpStep, SignalStep,
     DownStarts,
     SuiteStep DEF Kubetest!Next

LEMMA KubetestShows ==
  KubetestInv => Kubetest!TypeOK /\ Kubetest!DownMeansGone /\ Kubetest!FileKnows
<1> SUFFICES ASSUME KubetestInv PROVE Kubetest!DownMeansGone
  BY TypesSuffice DEF KubetestInv, KnowInv
<1> SUFFICES ASSUME Kubetest!Over, downNil, ~expired, ~outran PROVE cloud \subseteq lost
  BY DEF Kubetest!DownMeansGone
<1> USE DEF KubetestInv
<1>1. PICK p \in Downs : pc[p] = "ended" /\ mem[p] = {}
  BY DEF SuiteInv
<1>2. Tells({})
  BY <1>1 DEF KnowInv, Loaded
<1>3. pc["create"] \in {"off", "ended", "failed"}
  BY DEF Kubetest!Over, Kubetest!Running, KubetestTypes, Kubetest!Process
<1>4. RollingBack = {} /\ Kubetest!Unwaited = {}
  BY <1>3 DEF RollingBack, Kubetest!Unwaited, LostInv
<1>5. QED BY <1>2, <1>4 DEF Tells

LEMMA KubetestAlways == Spec => []KubetestInv
<1>1. Init => KubetestInv
  BY Started, KubetestInit
<1>2. KubetestInv /\ [Next]_vars => KubetestInv'
  BY PartsMove, KubetestNextKeeps
<1>3. QED BY <1>1, <1>2, PTL DEF Spec

(* When kubetest and its processes have ended and a Down returned nil,     *)
(* nothing is left but what was being made when the create process was     *)
(* interrupted or killed, for any number of resources and any order of the *)
(* three processes and of their writes to the file, if the timers have not *)
(* fired and no create process ran to its end after a Down had loaded the  *)
(* file.                                                                   *)
THEOREM KubetestDownLeavesNothing == Spec => []DownMeansGone
<1>1. KubetestInv => DownMeansGone
  BY KubetestShows DEF DownMeansGone
<1>2. QED BY <1>1, KubetestAlways, PTL

(* Until Stop, a configuration file that is neither truncated nor torn     *)
(* records every resource that exists, but the one that is being made or   *)
(* recorded.                                                               *)
THEOREM KubetestFileKnows == Spec => []FileKnows
<1>1. KubetestInv => FileKnows
  BY KubetestShows DEF FileKnows
<1>2. QED BY <1>1, KubetestAlways, PTL

-----------------------------------------------------------------------------
(* An instance of a module and of the module of its proofs have the same   *)
(* actions, over the same variables.                                       *)
LEMMA CsiMoves == Csi!Next => CsiP!Next
  BY DEF Csi!Next, CsiP!Next,
         Csi!CreateInstanceProfile, CsiP!CreateInstanceProfile,
         Csi!CreatePolicy, CsiP!CreatePolicy, Csi!CreateRole, CsiP!CreateRole,
         Csi!AttachRolePolicy, CsiP!AttachRolePolicy,
         Csi!AddRoleToInstanceProfile, CsiP!AddRoleToInstanceProfile,
         Csi!Make, CsiP!Make, Csi!CreateInstance, CsiP!CreateInstance,
         Csi!Test, CsiP!Test, Csi!Terminate, CsiP!Terminate,
         Csi!RemoveRole, CsiP!RemoveRole,
         Csi!DeleteInstanceProfile, CsiP!DeleteInstanceProfile,
         Csi!DetachRolePolicy, CsiP!DetachRolePolicy,
         Csi!DeletePolicy, CsiP!DeletePolicy, Csi!DeleteRole, CsiP!DeleteRole,
         Csi!Try, CsiP!Try, Csi!Skip, CsiP!Skip, Csi!Returned, CsiP!Returned,
         Csi!Undo, CsiP!Undo, Csi!CreateFails, CsiP!CreateFails,
         Csi!DeleteFails, CsiP!DeleteFails, Csi!Resource, CsiP!Resource,
         Csi!Link, CsiP!Link

LEMMA KubeadmMoves == Adm!Next => AdmP!Next
  BY DEF Adm!Sub, AdmP!Sub, Adm!aws, AdmP!aws, Adm!cluster, AdmP!cluster,
         Adm!call, AdmP!call, Adm!vars, AdmP!vars, Adm!Named, AdmP!Named,
         Adm!CreateSteps, AdmP!CreateSteps,
         Adm!TerminateSteps, AdmP!TerminateSteps, Adm!Nothing, AdmP!Nothing,
         Adm!CreateFails, AdmP!CreateFails, Adm!DeleteFails, AdmP!DeleteFails,
         Adm!Sync, AdmP!Sync, Adm!Goto, AdmP!Goto,
         Adm!NewDeployer, AdmP!NewDeployer, Adm!Exit, AdmP!Exit,
         Adm!Crash, AdmP!Crash, Adm!Begin, AdmP!Begin, Adm!Create, AdmP!Create,
         Adm!Terminate, AdmP!Terminate, Adm!Fail, AdmP!Fail,
         Adm!StepFails, AdmP!StepFails, Adm!InVPC, AdmP!InVPC,
         Adm!NodesOf, AdmP!NodesOf, Adm!Cause, AdmP!Cause, Adm!Stray, AdmP!Stray,
         Adm!EC2Creates, AdmP!EC2Creates, Adm!EC2Fails, AdmP!EC2Fails,
         Adm!EC2Create, AdmP!EC2Create, Adm!CreateMasters, AdmP!CreateMasters,
         Adm!CreateMastersAgain, AdmP!CreateMastersAgain, Adm!Flag, AdmP!Flag,
         Adm!FlagMasters, AdmP!FlagMasters,
         Adm!CreateWorkers, AdmP!CreateWorkers,
         Adm!FlagWorkers, AdmP!FlagWorkers, Adm!Validate, AdmP!Validate,
         Adm!CreateLoadBalancer, AdmP!CreateLoadBalancer,
         Adm!FlagLoadBalancer, AdmP!FlagLoadBalancer,
         Adm!RegisterInstances, AdmP!RegisterInstances,
         Adm!Kubelet, AdmP!Kubelet, Adm!KubeletMasters, AdmP!KubeletMasters,
         Adm!KubeadmInit, AdmP!KubeadmInit,
         Adm!KubeletWorkers, AdmP!KubeletWorkers,
         Adm!KubeadmJoin, AdmP!KubeadmJoin,
         Adm!FetchKubeconfig, AdmP!FetchKubeconfig,
         Adm!Deregister, AdmP!Deregister,
         Adm!DeleteLoadBalancer, AdmP!DeleteLoadBalancer, Adm!Lost, AdmP!Lost,
         Adm!TerminateWorkers, AdmP!TerminateWorkers,
         Adm!TerminateMasters, AdmP!TerminateMasters, Adm!Next, AdmP!Next

-----------------------------------------------------------------------------
LEMMA CsiInv == Spec => []CsiP!IInv
<1>1. Init => CsiP!IInv
  <2>1. Csi!Init => CsiP!Init
    BY DEF Csi!Init, CsiP!Init
  <2>2. QED BY <2>1, Started, CsiP!InitIInv
<1>2. CsiP!IInv /\ [Next]_vars => CsiP!IInv'
  BY CsiMoves, PartsMove, CsiP!NextIInv DEF csiVars, CsiP!vars
<1>3. QED BY <1>1, <1>2, PTL DEF Spec

LEMMA KubeadmInv == Spec => []AdmP!IInv
<1>1. Init => AdmP!IInv
  <2>1. Adm!Init => AdmP!Init
    BY DEF Adm!Init, AdmP!Init, Adm!Sub, AdmP!Sub
  <2>2. QED BY <2>1, Started, AdmP!InitIInv
<1>2. AdmP!IInv /\ [Next]_vars => AdmP!IInv'
  BY KubeadmMoves, PartsMove, AdmP!NextIInv DEF kubeadmVars, AdmP!vars
<1>3. QED BY <1>1, <1>2, PTL DEF Spec

(* A CSI tester that was set up and terminates on exit leaves nothing, if  *)
(* AWS refuses none of its deletions; of a NewTester that fails nothing is *)
(* said.                                                                   *)
THEOREM CsiLeavesNothing == Spec => []NothingLeft
<1>1. CsiP!IInv => NothingLeft
  <2>1. CsiP!SmoothInv => CsiP!NothingLeft
    BY DEF CsiP!SmoothInv, CsiP!NothingLeft
  <2>2. CsiP!NothingLeft => NothingLeft
    BY DEF CsiP!NothingLeft, NothingLeft, Csi!NothingLeft, Csi!Ended, CsiP!Ended
  <2>3. QED BY <2>1, <2>2 DEF CsiP!IInv
<1>2. QED BY <1>1, CsiInv, PTL

-----------------------------------------------------------------------------
(* A Terminate of the kubeadm deployer that returns nil leaves no node, no *)
(* VPC and no load balancer of the masters recorded as it was called.      *)
THEOREM KubeadmTerminateLeavesNothing == Spec => []KubeadmTerminates
<1>1. AdmP!IInv => KubeadmTerminates
  BY DEF AdmP!IInv, AdmP!TerminateInv, AdmP!Nothing, AdmP!Sub, KubeadmTerminates,
         Adm!TerminateMeansGone, Adm!Returns, Adm!Nothing, Adm!Sub
<1>2. QED BY <1>1, KubeadmInv, PTL

(* A Create of the kubeadm deployer that fails has undone everything,      *)
(* unless something in Cause happened: EC2's Create left what nobody tries *)
(* to delete, or came to its deadline, a deletion failed, an earlier       *)
(* process had created something, or died.                                 *)
THEOREM KubeadmCreateRollsBack == Spec => []KubeadmRollsBack
<1>1. AdmP!IInv => KubeadmRollsBack
  BY DEF AdmP!IInv, AdmP!RollbackInv, AdmP!Nothing, AdmP!Sub, KubeadmRollsBack,
         Adm!RollsBackEverything, Adm!Returns, Adm!Nothing, Adm!Sub
<1>2. QED BY <1>1, KubeadmInv, PTL

(* A Create of the kubeadm deployer that returns nil has joined every      *)
(* worker that is recorded, which is every worker unless EC2's Create came *)
(* to its deadline, for any masters and workers.                           *)
THEOREM KubeadmCreateJoins == Spec => []CreateMeansJoined
<1>1. AdmP!IInv => CreateMeansJoined
  BY DEF AdmP!IInv, AdmP!CreateMeansJoined, AdmP!Returns, AdmP!Sub, AdmP!Named,
         CreateMeansJoined, Adm!CreateMeansJoined, Adm!Returns, Adm!Sub, Adm!Named
<1>2. QED BY <1>1, KubeadmInv, PTL

-----------------------------------------------------------------------------
(* The ports are opened because they were asked for and before the group   *)
(* is checked; a check of a group with privileged ports does not fail and  *)
(* come back.                                                              *)
PortsInv ==
  /\ point = "ports" \/ cause = "duplicate" => privileged
  /\ privileged /\ point \in {"asg", "batch", "join", "created"} => "ports" \in rules
  /\ privileged /\ again =>
       "ports" \in rules /\ point \notin {"asg", "batch", "join", "created"}

(* No node is ready before the config map is applied; then, if none was    *)
(* lost, what is left to describe, and what was described, is the group.   *)
Complete == Group!Cardinality(Group!Listed) = size
WorkersInv ==
  /\ applied => point \notin {"poll", "ssh", "ports", "asg", "batch"}
  /\ applied \/ ready = {}
  /\ replaced \/ ready \subseteq Group!Listed
  /\ size <= Batch /\ point = "batch" => Len(left) = size /\ described = {}
  /\ size <= Batch /\ ~replaced /\ point = "batch" =>
       Complete /\ {left[k] : k \in 1..Len(left)} = Group!Listed
  /\ size <= Batch /\ ~replaced /\ point = "join" => Complete /\ workers = Group!Listed

GroupInv == Group!TypeOK /\ PortsInv /\ WorkersInv /\ Group!WorkersRecorded

LEMMA Items ==
  ASSUME NEW S, NEW s \in Seq(S), NEW n \in Nat, n < Len(s)
  PROVE  SubSeq(s, 1, n) \in Seq(S)
<1>1. Len(s) \in Nat /\ \A i \in 1..Len(s) : s[i] \in S
  OBVIOUS
<1>2. \A i \in 1..n : s[i] \in S
  BY <1>1
<1>3. 1 \in 1..Len(s) + 1 /\ n \in 0..Len(s)
  BY <1>1
<1>4. QED BY <1>2, <1>3, SubSeqProperties

LEMMA ItemsOf ==
  ASSUME NEW S, NEW s \in Seq(S) PROVE {s[k] : k \in 1..Len(s)} \subseteq S
  OBVIOUS

(* The group lists all its instances and no other.                         *)
LEMMA OrdersList ==
  ASSUME size \in Nat, NEW s \in Group!Orders
  PROVE  /\ s \in Seq(Group!Instances) /\ Len(s) = size
         /\ {s[k] : k \in 1..Len(s)} = Group!Listed
<1>1. s \in [1..size -> Group!Listed]
      /\ \A i \in Group!Listed : \E k \in 1..size : s[k] = i
  BY DEF Group!Orders
<1>2. s \in Seq(Group!Listed) /\ Len(s) = size
  BY <1>1
<1>3. Group!Listed \subseteq Group!Instances
  BY DEF Group!Listed
<1>4. QED BY <1>1, <1>2, <1>3

LEMMA GroupKeepsType ==
  ASSUME Group!TypeOK, Group!Next \/ UNCHANGED groupVars PROVE Group!TypeOK'
<1> USE DEF Group!config, Group!aws, Group!check, Group!Goto, Group!Fail,
            Group!Stay, Group!Again, Group!Authorize, Group!Becomes, Group!Instances,
            groupVars
<1>1. CASE Group!StackEnds \/ UNCHANGED groupVars
  <2>1. /\ UNCHANGED <<size, sshAccess, privileged, machine, ready, replaced, rules,
                       point, left, described, workers, applied, cause, again>>
        /\ stack' \in {stack, "complete", "failed"}
    BY <1>1 DEF Group!StackEnds
  <2>2. QED BY <2>1 DEF Group!TypeOK
<1>2. ASSUME NEW i \in Group!Instances, Group!MachineChanges(i) PROVE Group!TypeOK'
  <2>1. /\ UNCHANGED <<size, sshAccess, privileged, stack, ready, rules, point, left,
                       described, workers, applied, cause, again>>
        /\ replaced' \in {replaced, TRUE}
        /\ \E state \in {"starting", "running", "gone"} :
             machine' = [machine EXCEPT ![i] = state]
    BY <1>2 DEF Group!MachineChanges
  <2>2. machine' \in [Group!Instances -> {"none", "starting", "running", "gone"}]
    BY <2>1 DEF Group!TypeOK
  <2>3. replaced' \in BOOLEAN
    BY <2>1 DEF Group!TypeOK
  <2>4. QED BY <2>1, <2>2, <2>3 DEF Group!TypeOK
<1>3. ASSUME NEW i \in Group!Instances, Group!NodeChanges(i) PROVE Group!TypeOK'
  <2>1. /\ UNCHANGED <<size, sshAccess, privileged, stack, machine, replaced, rules,
                       point, left, described, workers, applied, cause, again>>
        /\ ready' \in {ready \cup {i}, ready \ {i}}
    BY <1>3 DEF Group!NodeChanges
  <2>2. QED BY <2>1 DEF Group!TypeOK
<1>4. CASE Group!Poll \/ Group!Deadline \/ Group!Interrupted
  <2>1. /\ UNCHANGED <<size, sshAccess, privileged, stack, machine, ready, replaced,
                       rules, left, described, workers, applied, again>>
        /\ point' \in {"poll", "ssh", "ports", "asg", "failed", "interrupted"}
        /\ cause' \in {cause, "api", "deadline"}
    <3>1. CASE Group!Poll
      BY <3>1 DEF Group!Poll, Group!AfterPoll, Group!AfterSSH
    <3>2. CASE Group!Deadline \/ Group!Interrupted
      BY <3>2 DEF Group!Deadline, Group!Interrupted
    <3>3. QED BY <1>4, <3>1, <3>2
  <2>2. QED BY <2>1 DEF Group!TypeOK
<1>5. CASE Group!OpenSSH \/ Group!OpenPorts
  <2>1. /\ UNCHANGED <<size, sshAccess, privileged, stack, machine, ready, replaced,
                       left, described, workers, applied, again>>
        /\ rules' \in {rules, rules \cup {"ssh"}, rules \cup {"ports"}}
        /\ point' \in {"ports", "asg", "failed"}
        /\ cause' \in {cause, "api", "duplicate"}
    <3>1. CASE Group!OpenSSH
      BY <3>1 DEF Group!OpenSSH, Group!AfterSSH
    <3>2. CASE Group!OpenPorts
      BY <3>2 DEF Group!OpenPorts
    <3>3. QED BY <1>5, <3>1, <3>2
  <2>2. rules' \subseteq {"ssh", "ports"}
    BY <2>1 DEF Group!TypeOK
  <2>3. QED BY <2>1, <2>2 DEF Group!TypeOK
<1>6. CASE Group!CheckGroup
  <2>1. left' \in Seq(Group!Instances)
    <3>1. size \in Nat
      BY SizeAssumption DEF Group!TypeOK
    <3>2. CASE left' \in Group!Orders
      BY <3>1, <3>2, OrdersList
    <3>3. CASE left' = left
      BY <3>3 DEF Group!TypeOK
    <3>4. QED BY <1>6, <3>2, <3>3 DEF Group!CheckGroup
  <2>2. QED BY <1>6, <2>1 DEF Group!TypeOK, Group!CheckGroup
<1>7. CASE Group!DescribeBatch
  <2> DEFINE more == Len(left) > Batch
             ids == IF more THEN SubSeq(left, 1, Batch) ELSE left
             batch == {ids[k] : k \in 1..Len(ids)}
  <2>1. left \in Seq(Group!Instances)
    BY DEF Group!TypeOK
  <2>2. ids \in Seq(Group!Instances)
    BY <2>1, BatchAssumption, Items
  <2> HIDE DEF ids
  <2>3. batch \subseteq Group!Instances
    BY <2>2, ItemsOf
  <2>4. /\ left' \in {left, ids} /\ described' \in {described, described \cup batch}
        /\ workers' \in {workers, described'} /\ point' \in {"batch", "join", "poll"}
        /\ UNCHANGED <<size, sshAccess, privileged, stack, machine, ready, replaced,
                       rules, applied, cause>>
        /\ again' \in {again, TRUE}
    BY <1>7 DEF Group!DescribeBatch, ids
  <2> HIDE DEF batch
  <2>5. described' \subseteq Group!Instances /\ workers' \subseteq Group!Instances
    BY <2>3, <2>4 DEF Group!TypeOK
  <2>6. left' \in Seq(Group!Instances)
    BY <2>1, <2>2, <2>4
  <2>7. QED BY <2>4, <2>5, <2>6 DEF Group!TypeOK
<1>8. CASE Group!Apply \/ Group!NodesReady \/ Group!NeverReady
  <2>1. /\ UNCHANGED <<size, sshAccess, privileged, stack, machine, ready, replaced,
                       rules, left, described, workers, again>>
        /\ point' \in {"join", "created", "failed"}
        /\ cause' \in {cause, "deadline"} /\ applied' \in {applied, TRUE}
    BY <1>8 DEF Group!Apply, Group!NodesReady, Group!NeverReady
  <2>2. QED BY <2>1 DEF Group!TypeOK
<1>9. QED BY <1>1, <1>2, <1>3, <1>4, <1>5, <1>6, <1>7, <1>8 DEF Group!Next

LEMMA PortsStep == ASSUME PortsInv, Group!Next PROVE PortsInv'
<1> USE DEF PortsInv, Group!config, Group!aws, Group!check, Group!Goto, Group!Fail,
            Group!Stay, Group!Again, Group!Authorize
<1>1. CASE \/ Group!StackEnds
           \/ \E i \in Group!Instances : Group!MachineChanges(i) \/ Group!NodeChanges(i)
  BY <1>1 DEF Group!StackEnds, Group!MachineChanges, Group!NodeChanges
<1>2. CASE Group!Poll \/ Group!Deadline \/ Group!Interrupted
  BY <1>2 DEF Group!Poll, Group!Deadline, Group!Interrupted, Group!AfterPoll,
              Group!AfterSSH
<1>3. CASE Group!OpenSSH \/ Group!OpenPorts
  BY <1>3 DEF Group!OpenSSH, Group!OpenPorts, Group!AfterSSH
<1>4. CASE Group!CheckGroup \/ Group!DescribeBatch
  BY <1>4 DEF Group!CheckGroup, Group!DescribeBatch
<1>5. CASE Group!Apply \/ Group!NodesReady \/ Group!NeverReady
  BY <1>5 DEF Group!Apply, Group!NodesReady, Group!NeverReady
<1>6. QED BY <1>1, <1>2, <1>3, <1>4, <1>5 DEF Group!Next

(* An instance that is lost is noted; while none is, a group that is       *)
(* complete stays as it is.                                                *)
LEMMA MachineStep ==
  ASSUME GroupInv, NEW i \in Group!Instances, Group!MachineChanges(i)
  PROVE  /\ ~replaced' => ~replaced /\ Group!Listed \subseteq Group!Listed'
         /\ ~replaced' /\ Complete => Group!Listed' = Group!Listed
<1>1. /\ machine \in [Group!Instances -> {"none", "starting", "running", "gone"}]
      /\ replaced \in BOOLEAN /\ size \in Nat
  BY SizeAssumption DEF GroupInv, Group!TypeOK
<1>2. CASE /\ machine[i] = "none" /\ Group!Cardinality(Group!Listed) < size
           /\ machine' = [machine EXCEPT ![i] = "starting"] /\ UNCHANGED replaced
  <2>1. ~Complete
    BY <1>1, <1>2 DEF Complete
  <2>2. QED BY <1>1, <1>2, <2>1 DEF Group!Listed, Group!Instances
<1>3. CASE /\ machine[i] = "starting" /\ machine' = [machine EXCEPT ![i] = "running"]
           /\ UNCHANGED replaced
  BY <1>1, <1>3 DEF Group!Listed, Group!Instances
<1>4. CASE replaced' = TRUE
  BY <1>4
<1>5. QED BY <1>2, <1>3, <1>4 DEF Group!MachineChanges, Group!Becomes

LEMMA DescribeStep ==
  ASSUME GroupInv, Group!DescribeBatch PROVE WorkersInv' /\ Group!WorkersRecorded'
<1> USE DEF Group!config, Group!aws, Group!check, Group!Goto, Group!Stay, Group!Again
<1>1. /\ UNCHANGED <<size, machine, ready, replaced, applied>> /\ point = "batch"
      /\ point' \in {"poll", "batch", "join"} /\ Group!Listed' = Group!Listed
  BY DEF Group!DescribeBatch, Group!Listed, Group!Instances
<1>2. CASE size <= Batch
  <2>1. size \in Nat /\ Len(left) = size /\ described = {}
    BY <1>1, <1>2, SizeAssumption DEF GroupInv, Group!TypeOK, WorkersInv
  <2>2. ~(Len(left) > Batch)
    BY <1>2, <2>1, BatchAssumption
  <2>3. \/ point' = "join" /\ workers' = {left[k] : k \in 1..Len(left)}
        \/ point' = "poll"
    BY <2>1, <2>2 DEF Group!DescribeBatch
  <2>4. QED BY <1>1, <2>1, <2>3 DEF GroupInv, WorkersInv, Complete, Group!WorkersRecorded
<1>3. CASE ~(size <= Batch)
  BY <1>1, <1>3 DEF GroupInv, WorkersInv, Group!WorkersRecorded
<1>4. QED BY <1>2, <1>3

(* As many nodes are ready as the group lists, and they are of the group.  *)
LEMMA AllReady ==
  ASSUME size \in Nat, Complete, ready \subseteq Group!Listed,
         Group!Cardinality(ready) = size, MaxMade \in Nat
  PROVE  ready = Group!Listed
<1>1. Cardinality(ready) = size /\ Cardinality(Group!Listed) = size
  BY DEF Complete, Cardinality, Group!Cardinality
<1>2. IsFiniteSet(1..MaxMade)
  BY FS_Interval
<1>3. IsFiniteSet(Group!Listed)
  BY <1>2, FS_Subset DEF Group!Listed, Group!Instances
<1>4. QED BY <1>1, <1>3, FS_Subset

LEMMA WorkersStep ==
  ASSUME GroupInv, Group!Next PROVE WorkersInv' /\ Group!WorkersRecorded'
<1> USE DEF Group!config, Group!aws, Group!check, Group!Goto, Group!Fail, Group!Stay,
            Group!Again, Group!Authorize
<1>0. ASSUME UNCHANGED machine PROVE Group!Listed' = Group!Listed
  BY <1>0 DEF Group!Listed, Group!Instances
<1>1. CASE Group!StackEnds
  BY <1>0, <1>1 DEF GroupInv, WorkersInv, Complete, Group!WorkersRecorded,
                    Group!StackEnds, Group!Running
<1>2. ASSUME NEW i \in Group!Instances, Group!MachineChanges(i)
      PROVE  WorkersInv' /\ Group!WorkersRecorded'
  <2>1. /\ UNCHANGED <<size, ready, point, left, described, workers, applied>>
        /\ point # "created" /\ replaced \in BOOLEAN /\ replaced' \in BOOLEAN
    BY <1>2 DEF Group!MachineChanges, Group!Running, GroupInv, Group!TypeOK
  <2>2. QED BY <1>2, <2>1, MachineStep DEF GroupInv, WorkersInv, Complete,
        Group!WorkersRecorded
<1>3. ASSUME NEW i \in Group!Instances, Group!NodeChanges(i)
      PROVE  WorkersInv' /\ Group!WorkersRecorded'
  <2>1. /\ UNCHANGED <<size, machine, replaced, point, left, described, workers,
                       applied>>
        /\ point # "created"
        /\ \/ applied /\ machine[i] = "running" /\ ready' = ready \cup {i}
           \/ ready' = ready \ {i}
    BY <1>3 DEF Group!NodeChanges, Group!Running
  <2>2. machine[i] = "running" => i \in Group!Listed
    BY DEF Group!Listed
  <2>3. QED BY <1>0, <2>1, <2>2 DEF GroupInv, WorkersInv, Complete,
        Group!WorkersRecorded
<1>4. CASE Group!Poll \/ Group!Deadline \/ Group!Interrupted
  BY <1>0, <1>4 DEF GroupInv, WorkersInv, Complete, Group!WorkersRecorded,
     Group!Poll, Group!Deadline, Group!Interrupted, Group!AfterPoll, Group!AfterSSH
<1>5. CASE Group!OpenSSH \/ Group!OpenPorts
  BY <1>0, <1>5 DEF GroupInv, WorkersInv, Complete, Group!WorkersRecorded,
     Group!OpenSSH, Group!OpenPorts, Group!AfterSSH
<1>6. CASE Group!CheckGroup
  <2>1. /\ UNCHANGED <<size, machine, ready, applied>> /\ point = "asg"
        /\ point' \in {"poll", "batch"} /\ Group!Listed' = Group!Listed
    BY <1>0, <1>6 DEF Group!CheckGroup
  <2>2. CASE point' = "poll"
    BY <1>6, <2>1, <2>2 DEF GroupInv, WorkersInv, Group!WorkersRecorded,
       Group!CheckGroup
  <2>3. CASE point' = "batch"
    <3>1. left' \in Group!Orders /\ described' = {} /\ Complete
      BY <1>6, <2>3 DEF Group!CheckGroup, Complete
    <3>2. size \in Nat
      BY SizeAssumption DEF GroupInv, Group!TypeOK
    <3>3. Len(left') = size /\ {left'[k] : k \in 1..Len(left')} = Group!Listed
      BY <3>1, <3>2, OrdersList
    <3>4. QED BY <2>1, <2>3, <3>1, <3>3 DEF GroupInv, WorkersInv, Complete,
          Group!WorkersRecorded
  <2>4. QED BY <2>1, <2>2, <2>3
<1>7. CASE Group!DescribeBatch
  BY <1>7, DescribeStep
<1>8. CASE Group!Apply \/ Group!NeverReady
  BY <1>0, <1>8 DEF GroupInv, WorkersInv, Complete, Group!WorkersRecorded,
     Group!Apply, Group!NeverReady
<1>9. CASE Group!NodesReady
  <2>1. /\ point = "join" /\ point' = "created" /\ Group!Cardinality(ready) = size
        /\ UNCHANGED <<size, machine, ready, replaced, applied, workers>>
    BY <1>9 DEF Group!NodesReady
  <2>2. size <= Batch /\ ~replaced => workers = ready
    <3>1. size \in Nat
      BY SizeAssumption DEF GroupInv, Group!TypeOK
    <3>2. QED BY <2>1, <3>1, AllReady, SizeAssumption DEF GroupInv, WorkersInv
  <2>3. QED BY <1>0, <1>9, <2>1, <2>2 DEF GroupInv, WorkersInv, Complete,
        Group!WorkersRecorded, Group!NodesReady
<1>10. QED
  BY <1>1, <1>2, <1>3, <1>4, <1>5, <1>6, <1>7, <1>8, <1>9 DEF Group!Next

LEMMA GroupAlways == Spec => []GroupInv
<1>1. Init => GroupInv
  <2> SUFFICES ASSUME Init PROVE GroupInv
    OBVIOUS
  <2>1. << >> \in Seq(Group!Instances)
    OBVIOUS
  <2>2. Group!TypeOK
    BY <2>1, Started DEF Group!Init, Group!TypeOK
  <2>3. PortsInv /\ WorkersInv /\ Group!WorkersRecorded
    BY Started DEF Group!Init, PortsInv, WorkersInv, Group!WorkersRecorded
  <2>4. QED BY <2>2, <2>3 DEF GroupInv
<1>2. GroupInv /\ [Next]_vars => GroupInv'
  <2> SUFFICES ASSUME GroupInv, [Next]_vars PROVE GroupInv'
    OBVIOUS
  <2>1. CASE UNCHANGED groupVars
    <3>1. Group!TypeOK'
      BY <2>1, GroupKeepsType DEF GroupInv
    <3>2. QED BY <2>1, <3>1 DEF groupVars, GroupInv, PortsInv, WorkersInv, Complete,
          Group!WorkersRecorded, Group!Listed, Group!Instances
  <2>2. CASE Group!Next
    BY <2>2, GroupKeepsType, PortsStep, WorkersStep DEF GroupInv
  <2>3. QED BY <2>1, <2>2, PartsMove
<1>3. QED BY <1>1, <1>2, PTL DEF Spec

(* A check of the node group that fails is tried again, and the rules that *)
(* the first round made end the second only if privileged ports are asked  *)
(* for; such a group is then never created, for groups of any size and any *)
(* losses of instances.                                                    *)
THEOREM GroupSecondRound == Spec => []SecondRound
<1>1. GroupInv => SecondRound
  BY DEF GroupInv, PortsInv, SecondRound, Group!SecondRound
<1>2. QED BY <1>1, GroupAlways, PTL

(* WorkerNodes has the nodes that are ready, for a group of any size up to *)
(* a batch, batches of any size, and any instances that were replaced      *)
(* before checkASG listed the group.                                       *)
THEOREM GroupRecorded == Spec => []WorkersRecorded
<1>1. GroupInv => WorkersRecorded
  BY DEF GroupInv, WorkersRecorded
<1>2. QED BY <1>1, GroupAlways, PTL

-----------------------------------------------------------------------------
(* A deployer that has come as far as the policy has a bucket of ours with *)
(* what it set before, unless another has deleted the bucket since.        *)
BucketInv ==
  /\ DOMAIN doing = Deployer
  /\ \A d \in Deployer \ outdated :
       /\ doing[d] \in {"policy", "lifecycle"} => bucket = "ours" /\ "tags" \in dress
       /\ doing[d] = "lifecycle" /\ logs => "policy" \in dress
  /\ BucketReady

LEMMA BucketStep == ASSUME BucketInv, NEW d \in Deployer,
         \/ S3!Call(d) \/ S3!Create(d) \/ S3!Retry(d) \/ S3!Refuse(d) \/ S3!Put(d)
         \/ S3!PutObject(d) \/ S3!Empty(d) \/ S3!Remove(d) \/ S3!Restart(d)
  PROVE BucketInv'
<1> USE DEF BucketInv, BucketReady, S3!BucketReady, S3!Dress, S3!Goto, S3!config,
            S3!s3, S3!memory, S3!Use
<1>0. \E to : doing' = [doing EXCEPT ![d] = to]
  BY DEF S3!Call, S3!Create, S3!Retry, S3!Refuse, S3!Put, S3!PutObject, S3!Empty,
         S3!Remove, S3!Restart, S3!Fail, S3!Proceed
<1>1. CASE S3!Call(d)
  BY <1>1 DEF S3!Call
<1>2. CASE S3!Create(d)
  BY <1>2 DEF S3!Create
<1>3. CASE S3!Retry(d)
  BY <1>3 DEF S3!Retry
<1>4. CASE S3!Refuse(d)
  BY <1>4 DEF S3!Refuse, S3!Fail
<1>5. CASE S3!Put(d)
  BY <1>5 DEF S3!Put, S3!Proceed, S3!After
<1>6. CASE S3!PutObject(d) \/ S3!Empty(d)
  BY <1>6 DEF S3!PutObject, S3!Empty
<1>7. CASE S3!Remove(d)
  BY <1>7 DEF S3!Remove, S3!SettingUp, S3!Fail
<1>8. CASE S3!Restart(d)
  BY <1>8 DEF S3!Restart
<1>9. QED BY <1>1, <1>2, <1>3, <1>4, <1>5, <1>6, <1>7, <1>8

(* A bucket in the map of a deployer is this account's and set up, for any *)
(* number of deployers that share it.                                      *)
THEOREM BucketsReady == Spec => []BucketReady
<1>1. Init => BucketInv
  BY Started DEF S3!Init, BucketInv, BucketReady, S3!BucketReady
<1>2. BucketInv /\ [Next]_vars => BucketInv'
  <2> SUFFICES ASSUME BucketInv, [Next]_vars PROVE BucketInv'
    OBVIOUS
  <2>1. CASE UNCHANGED s3Vars
    BY <2>1 DEF s3Vars, BucketInv, BucketReady, S3!BucketReady, S3!Dress
  <2>2. CASE S3!Next
    BY <2>2, BucketStep DEF S3!Next
  <2>3. QED BY <2>1, <2>2, PartsMove
<1>3. BucketInv => BucketReady
  BY DEF BucketInv
<1>4. QED BY <1>1, <1>2, <1>3, PTL DEF Spec

-----------------------------------------------------------------------------
(* A table shows the tests it was made of, and one per category at least.  *)
Shows(tests, shown) ==
  shown \subseteq tests /\ Prow!Categories(shown) = Prow!Categories(tests)

LockInv ==
  /\ DOMAIN at = Client /\ DOMAIN counted = Client
  /\ \A c \in Client : at[c] \in {"fetching", "loading", "publishing"} => held = {c}

PageInv ==
  /\ \A c \in Client : at[c] = "fetching" => counted[c] = all
  /\ \A c \in Client : at[c] \in {"loading", "publishing"} => ~fresh
  /\ Shows(all, table)
  /\ fresh => Shows(all, rows)
  /\ message.kind \in {"updated", "limited"} => Shows(message.tests, rows)

LEMMA PageStep ==
  ASSUME LockInv, PageInv, NEW c \in Client,
         \/ Prow!Request(c) \/ Prow!Lock(c) \/ Prow!Limit(c)
         \/ Prow!Fetch(c) \/ Prow!Load(c) \/ Prow!Publish(c)
  PROVE LockInv' /\ PageInv'
<1> USE DEF LockInv, PageInv, Prow!Goto, Prow!Tell, Prow!Done, Prow!server, Prow!page
<1>1. CASE Prow!Request(c) \/ Prow!Lock(c)
  BY <1>1 DEF Prow!Request, Prow!Lock
<1>2. CASE Prow!Limit(c)
  BY <1>2 DEF Prow!Limit
<1>3. CASE Prow!Fetch(c)
  BY <1>3 DEF Prow!Fetch
<1>4. CASE Prow!Load(c)
  <2>1. Shows(all', table')
    BY <1>4 DEF Prow!Load, Prow!Tables, Shows
  <2>2. QED BY <1>4, <2>1 DEF Prow!Load
<1>5. CASE Prow!Publish(c)
  BY <1>5 DEF Prow!Publish
<1>6. QED BY <1>1, <1>2, <1>3, <1>4, <1>5

(* The counts and the rows of the page are of one download, for any number *)
(* of requests at once.                                                    *)
THEOREM PageTells == Spec => []PageTellsUpstream
<1>1. Init => LockInv /\ PageInv
  BY Started DEF Prow!Init, LockInv, PageInv, Shows
<1>2. LockInv /\ PageInv /\ [Next]_vars => (LockInv /\ PageInv)'
  <2> SUFFICES ASSUME LockInv, PageInv, [Next]_vars PROVE LockInv' /\ PageInv'
    OBVIOUS
  <2>1. CASE UNCHANGED prowVars
    BY <2>1 DEF prowVars, LockInv, PageInv, Shows, Prow!Categories
  <2>2. CASE Prow!Age
    BY <2>2 DEF Prow!Age, Prow!server, LockInv, PageInv, Shows, Prow!Categories
  <2>3. CASE Prow!Next /\ ~Prow!Age
    BY <2>3, PageStep DEF Prow!Next
  <2>4. QED BY <2>1, <2>2, <2>3, PartsMove
<1>3. LockInv /\ PageInv => PageTellsUpstream
  BY DEF PageInv, Shows, PageTellsUpstream, Prow!PageTellsUpstream
<1>4. QED BY <1>1, <1>2, <1>3, PTL DEF Spec
-----------------------------------------------------------------------------
(* The types of the parts.                                                 *)
(* A deployer that creates its bucket has a try left.                      *)
TriesLeft == \A d \in Deployer : doing[d] = "create" => tried[d] < MaxTries

LEMMA BucketKeepsType ==
  ASSUME S3!TypeOK, TriesLeft, S3!Next \/ UNCHANGED s3Vars
  PROVE  S3!TypeOK' /\ TriesLeft'
<1> USE DEF S3!config, S3!s3, S3!memory, S3!Goto, S3!Fail, S3!Use
<1>1. CASE UNCHANGED s3Vars
  BY <1>1 DEF s3Vars, S3!TypeOK, TriesLeft
<1>2. ASSUME NEW d \in Deployer,
             \/ S3!Call(d) \/ S3!Create(d) \/ S3!Retry(d) \/ S3!Refuse(d)
             \/ S3!Put(d) \/ S3!PutObject(d) \/ S3!Empty(d) \/ S3!Remove(d)
             \/ S3!Restart(d)
      PROVE  S3!TypeOK' /\ TriesLeft'
  <2>1. CASE S3!Call(d)
    BY <1>2, <2>1, TriesAssumption DEF S3!TypeOK, TriesLeft, S3!Call
  <2>2. CASE S3!Create(d)
    BY <1>2, <2>2 DEF S3!TypeOK, TriesLeft, S3!Create
  <2>3. CASE S3!Retry(d)
    BY <1>2, <2>3, TriesAssumption DEF S3!TypeOK, TriesLeft, S3!Retry
  <2>4. CASE S3!Refuse(d) \/ S3!PutObject(d) \/ S3!Empty(d)
    BY <1>2, <2>4 DEF S3!TypeOK, TriesLeft, S3!Refuse, S3!PutObject, S3!Empty
  <2>5. CASE S3!Put(d)
    BY <1>2, <2>5 DEF S3!TypeOK, TriesLeft, S3!Put, S3!Proceed, S3!After
  <2>6. CASE S3!Remove(d)
    BY <1>2, <2>6 DEF S3!TypeOK, TriesLeft, S3!Remove, S3!SettingUp
  <2>7. CASE S3!Restart(d)
    BY <1>2, <2>7 DEF S3!TypeOK, TriesLeft, S3!Restart
  <2>8. QED BY <1>2, <2>1, <2>2, <2>3, <2>4, <2>5, <2>6, <2>7
<1>3. QED BY <1>1, <1>2 DEF S3!Next

LEMMA PageKeepsType ==
  ASSUME Prow!TypeOK, Prow!Next \/ UNCHANGED prowVars PROVE Prow!TypeOK'
<1> USE DEF Prow!TypeOK, Prow!Goto, Prow!Tell, Prow!Done, Prow!server, Prow!page,
            Prow!Message
<1>1. CASE UNCHANGED prowVars \/ Prow!Age
  BY <1>1 DEF prowVars, Prow!Age
<1>2. ASSUME NEW c \in Client,
             \/ Prow!Request(c) \/ Prow!Lock(c) \/ Prow!Limit(c)
             \/ Prow!Fetch(c) \/ Prow!Load(c) \/ Prow!Publish(c)
      PROVE  Prow!TypeOK'
  <2>1. CASE Prow!Request(c) \/ Prow!Lock(c)
    BY <1>2, <2>1 DEF Prow!Request, Prow!Lock
  <2>2. CASE Prow!Limit(c) \/ Prow!Fetch(c)
    BY <1>2, <2>2 DEF Prow!Limit, Prow!Fetch
  <2>3. CASE Prow!Load(c)
    BY <1>2, <2>3 DEF Prow!Load, Prow!Tables
  <2>4. CASE Prow!Publish(c)
    BY <1>2, <2>4 DEF Prow!Publish
  <2>5. QED BY <1>2, <2>1, <2>2, <2>3, <2>4
<1>3. QED BY <1>1, <1>2 DEF Prow!Next

(* The types of all parts are kept, for any values of the constants.       *)
THEOREM PartsTypeCorrect == Spec => []TypeOK
<1> DEFINE Later == S3!TypeOK /\ TriesLeft /\ Prow!TypeOK
<1>1. Init => Later
  <2>1. ASSUME Init PROVE S3!TypeOK /\ TriesLeft
    BY <2>1, Started, TriesAssumption DEF S3!Init, S3!TypeOK, TriesLeft
  <2>2. ASSUME Init PROVE Prow!TypeOK
    BY <2>2, Started DEF Prow!Init, Prow!TypeOK, Prow!Message
  <2>3. QED BY <2>1, <2>2
<1>2. Later /\ [Next]_vars => Later'
  BY PartsMove, BucketKeepsType, PageKeepsType
<1>3. CsiP!IInv => Csi!TypeOK
  BY DEF CsiP!IInv, CsiP!TypeOK, Csi!TypeOK, CsiP!Resource, Csi!Resource, CsiP!Link,
         Csi!Link, CsiP!CreateStep, Csi!CreateStep, CsiP!DeleteStep, Csi!DeleteStep,
         CsiP!Ended, Csi!Ended
<1>4. AdmP!IInv => Adm!TypeOK
  BY DEF AdmP!IInv, AdmP!TypeOK, Adm!TypeOK, AdmP!Sub, Adm!Sub, AdmP!Named, Adm!Named,
         AdmP!Cause, Adm!Cause,
         AdmP!CreateSteps, Adm!CreateSteps, AdmP!TerminateSteps, Adm!TerminateSteps
<1>5. SshIInv => Ssh!TypeOK
  BY DEF SshIInv
<1>6. Later /\ CsiP!IInv /\ AdmP!IInv /\ SshIInv /\ KubetestInv /\ GroupInv => TypeOK
  BY <1>3, <1>4, <1>5, KubetestShows DEF TypeOK, GroupInv
<1>7. QED
  BY <1>1, <1>2, <1>6, CsiInv, KubeadmInv, SshInv, KubetestAlways, GroupAlways,
     PTL DEF Spec
=============================================================================

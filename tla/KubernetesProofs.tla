-------------------------- MODULE KubernetesProofs --------------------------
(***************************************************************************)
(* Proofs about Kubernetes, for any masters and workers, every choice of   *)
(* Faults and any number of operations: what a Create that failed or a     *)
(* Terminate has left, what a Create that worked has made, and that every  *)
(* service finds the files it is started with.                             *)
(*                                                                         *)
(* The first part is about the stages of the files alone: what a path      *)
(* holds does not depend on the stage that writes it, so that the order of *)
(* the stages and the files they share cannot matter.                      *)
(***************************************************************************)
EXTENDS Kubernetes, FiniteSetTheorems, TLAPS

(* What a file of a node holds, whoever writes it.                         *)
Holds(p) ==
  IF p[1] # "srv" THEN "own"
  ELSE IF p[2] = "ca.crt" THEN "rootCA"
  ELSE IF p[2] \in {"ca.key", "server.key", "kubelet-api-key.pem"} THEN "private"
  ELSE "public"

FileSet == SUBSET {s \in Path \X Content : s[2] = Holds(s[1])}
Sent(group) == [group : {group}, files : FileSet, kind : {"download", "send"}]
StageSet == Sent("masters") \cup Sent("workers")
Elements(seq) == {seq[i] : i \in 1..Len(seq)}

-----------------------------------------------------------------------------
(* The stages.                                                             *)
LEMMA OwnFileTyped ==
  \A dir \in {"bin", "kubeconfig", "env", "unit"}, c \in DownloadsMaster :
    << <<dir, c>>, "own" >> \in {s \in Path \X Content : s[2] = Holds(s[1])}
<1> SUFFICES ASSUME NEW dir \in {"bin", "kubeconfig", "env", "unit"},
                    NEW c \in DownloadsMaster
             PROVE  << <<dir, c>>, "own" >>
                      \in {s \in Path \X Content : s[2] = Holds(s[1])}
  OBVIOUS
<1>1. <<dir, c>> \in Path
  BY DEF Path
<1>2. Holds(<<dir, c>>) = "own"
  BY DEF Holds
<1>3. QED BY <1>1, <1>2 DEF Content

LEMMA SrvTyped ==
  ASSUME NEW f \in {"ca.crt", "ca.key", "server.cert", "server.key",
                    "kubelet-api.pem", "kubelet-api-key.pem"}
  PROVE  << Srv(f), Holds(Srv(f)) >> \in {s \in Path \X Content : s[2] = Holds(s[1])}
<1>1. Srv(f) \in Path
  BY DEF Path
<1>2. Holds(Srv(f)) \in Content
  BY DEF Holds, Content
<1>3. QED BY <1>1, <1>2

LEMMA PKITyped ==
  KubeletPKI \in FileSet /\ ControllerManagerPKI \in FileSet /\ APIServerPKI \in FileSet
<1>1. /\ Holds(Srv("ca.crt")) = "rootCA"
      /\ Holds(Srv("ca.key")) = "private" /\ Holds(Srv("server.key")) = "private"
      /\ Holds(Srv("kubelet-api-key.pem")) = "private"
      /\ Holds(Srv("kubelet-api.pem")) = "public"
      /\ Holds(Srv("server.cert")) = "public"
  BY DEF Holds, Srv
<1>2. QED
  BY <1>1, SrvTyped DEF FileSet, KubeletPKI, ControllerManagerPKI, APIServerPKI

LEMMA FilesTyped ==
  /\ \A group \in {"masters", "workers"} : Downloaded(group) \in FileSet
  /\ \A dir \in {"bin", "kubeconfig", "env", "unit"}, c \in DownloadsMaster :
       OwnFile(dir, c) \in FileSet
<1>1. ASSUME NEW group \in {"masters", "workers"} PROVE Downloaded(group) \in FileSet
  <2>1. DownloadsWorker \subseteq DownloadsMaster
    BY DEF DownloadsWorker, DownloadsMaster, Worker, Master
  <2>2. QED BY <2>1, OwnFileTyped DEF Downloaded, FileSet
<1>2. QED BY <1>1, OwnFileTyped DEF OwnFile, FileSet

LEMMA PiecesTyped ==
  /\ KubeletStages \in Seq(FileSet) /\ KubeProxyStages \in Seq(FileSet)
  /\ KubeSchedulerStages \in Seq(FileSet) /\ ControllerManagerStages \in Seq(FileSet)
  /\ APIServerStages \in Seq(FileSet) /\ <<KubectlFile>> \in Seq(FileSet)
<1>1. \A dir \in {"bin", "kubeconfig", "env", "unit"} :
        \A c \in {"kubelet", "kube-proxy", "kube-scheduler",
                  "kube-controller-manager", "kube-apiserver", "kubectl"} :
          OwnFile(dir, c) \in FileSet
  BY FilesTyped DEF DownloadsMaster, Master
<1>2. QED
  BY <1>1, PKITyped DEF KubeletStages, KubeProxyStages, KubeSchedulerStages,
     ControllerManagerStages, APIServerStages, KubectlFile, KubeletFile,
     KubeProxyFile, KubeSchedulerFile, ControllerManagerFile, APIServerFile

(* One more piece: its stages are added to those before it.                *)
LEMMA Grow ==
  ASSUME NEW s \in Seq(StageSet), NEW group \in {"masters", "workers"},
         NEW seq \in Seq(FileSet)
  PROVE  /\ s \o On(group, seq) \in Seq(StageSet)
         /\ Elements(s \o On(group, seq)) =
              Elements(s) \cup {Stage(group, f, "send") : f \in Elements(seq)}
<1> DEFINE t == On(group, seq)
<1>1. t \in Seq(StageSet) /\ Len(t) = Len(seq)
      /\ \A i \in 1..Len(seq) : t[i] = Stage(group, seq[i], "send")
  BY DEF On, Stage, StageSet, Sent
<1>2. Elements(t) = {Stage(group, f, "send") : f \in Elements(seq)}
  BY <1>1 DEF Elements
<1> HIDE DEF t
<1>3. s \o t \in Seq(StageSet) /\ Len(s \o t) = Len(s) + Len(t)
  BY <1>1
<1>4. Elements(s \o t) = Elements(s) \cup Elements(t)
  <2>1. ASSUME NEW i \in 1..Len(s \o t) PROVE (s \o t)[i] \in Elements(s) \cup Elements(t)
    <3>1. CASE i <= Len(s)
      BY <1>1, <1>3, <3>1 DEF Elements
    <3>2. CASE ~(i <= Len(s))
      <4>1. (s \o t)[i] = t[i - Len(s)] /\ i - Len(s) \in 1..Len(t)
        BY <1>1, <1>3, <3>2
      <4>2. QED BY <4>1 DEF Elements
    <3>3. QED BY <3>1, <3>2
  <2>2. ASSUME NEW i \in 1..Len(s) PROVE s[i] \in Elements(s \o t)
    <3>1. i \in 1..Len(s \o t) /\ (s \o t)[i] = s[i]
      BY <1>1, <1>3
    <3>2. QED BY <3>1 DEF Elements
  <2>3. ASSUME NEW i \in 1..Len(t) PROVE t[i] \in Elements(s \o t)
    <3>1. Len(s) + i \in 1..Len(s \o t) /\ (s \o t)[Len(s) + i] = t[i]
      BY <1>1, <1>3
    <3>2. QED BY <3>1 DEF Elements
  <2>4. QED BY <2>1, <2>2, <2>3 DEF Elements
<1>5. QED BY <1>2, <1>3, <1>4 DEF t

LEMMA StagesFacts ==
  /\ Stages \in Seq(StageSet)
  /\ \A group \in {"masters", "workers"} :
       /\ Stage(group, Downloaded(group), "download") \in Elements(Stages)
       /\ \A f \in Elements(KubeletStages) \cup Elements(KubeProxyStages)
                    \cup Elements(<<KubectlFile>>) :
            Stage(group, f, "send") \in Elements(Stages)
  /\ \A f \in Elements(KubeSchedulerStages) \cup Elements(ControllerManagerStages)
               \cup Elements(APIServerStages) :
       Stage("masters", f, "send") \in Elements(Stages)
<1> DEFINE s0 == <<Stage("masters", Downloaded("masters"), "download"),
                   Stage("workers", Downloaded("workers"), "download")>>
           s1 == s0 \o On("masters", KubeletStages)
           s2 == s1 \o On("workers", KubeletStages)
           s3 == s2 \o On("masters", KubeProxyStages)
           s4 == s3 \o On("workers", KubeProxyStages)
           s5 == s4 \o On("masters", KubeSchedulerStages)
           s6 == s5 \o On("masters", ControllerManagerStages)
           s7 == s6 \o On("masters", APIServerStages)
           s8 == s7 \o On("masters", <<KubectlFile>>)
           s9 == s8 \o On("workers", <<KubectlFile>>)
<1>0. /\ s0 \in Seq(StageSet)
      /\ Elements(s0) = {Stage("masters", Downloaded("masters"), "download"),
                         Stage("workers", Downloaded("workers"), "download")}
  <2>1. /\ Stage("masters", Downloaded("masters"), "download") \in StageSet
        /\ Stage("workers", Downloaded("workers"), "download") \in StageSet
    BY FilesTyped DEF Stage, StageSet, Sent
  <2> HIDE DEF s0
  <2>2. s0 \in Seq(StageSet)
    BY <2>1 DEF s0
  <2>3. /\ Len(s0) = 2
        /\ s0[1] = Stage("masters", Downloaded("masters"), "download")
        /\ s0[2] = Stage("workers", Downloaded("workers"), "download")
    BY DEF s0
  <2>4. QED BY <2>2, <2>3 DEF Elements
<1> HIDE DEF s0, s1, s2, s3, s4, s5, s6, s7, s8, s9
<1> DEFINE Some(group, seq) == {Stage(group, f, "send") : f \in Elements(seq)}
<1> HIDE DEF Some
<1>1. s1 \in Seq(StageSet) /\ Elements(s1) = Elements(s0) \cup Some("masters", KubeletStages)
  BY <1>0, PiecesTyped, Grow DEF s1, Some
<1>2. s2 \in Seq(StageSet) /\ Elements(s2) = Elements(s1) \cup Some("workers", KubeletStages)
  BY <1>1, PiecesTyped, Grow DEF s2, Some
<1>3. s3 \in Seq(StageSet) /\ Elements(s3) = Elements(s2) \cup Some("masters", KubeProxyStages)
  BY <1>2, PiecesTyped, Grow DEF s3, Some
<1>4. s4 \in Seq(StageSet) /\ Elements(s4) = Elements(s3) \cup Some("workers", KubeProxyStages)
  BY <1>3, PiecesTyped, Grow DEF s4, Some
<1>5. s5 \in Seq(StageSet) /\ Elements(s5) = Elements(s4) \cup Some("masters", KubeSchedulerStages)
  BY <1>4, PiecesTyped, Grow DEF s5, Some
<1>6. s6 \in Seq(StageSet)
      /\ Elements(s6) = Elements(s5) \cup Some("masters", ControllerManagerStages)
  BY <1>5, PiecesTyped, Grow DEF s6, Some
<1>7. s7 \in Seq(StageSet) /\ Elements(s7) = Elements(s6) \cup Some("masters", APIServerStages)
  BY <1>6, PiecesTyped, Grow DEF s7, Some
<1>8. s8 \in Seq(StageSet) /\ Elements(s8) = Elements(s7) \cup Some("masters", <<KubectlFile>>)
  BY <1>7, PiecesTyped, Grow DEF s8, Some
<1>9. s9 \in Seq(StageSet) /\ Elements(s9) = Elements(s8) \cup Some("workers", <<KubectlFile>>)
  BY <1>8, PiecesTyped, Grow DEF s9, Some
<1>10. Stages = s9
  BY DEF Stages, s0, s1, s2, s3, s4, s5, s6, s7, s8, s9
<1>11. /\ Elements(s0) \subseteq Elements(Stages)
       /\ \A group \in {"masters", "workers"} :
            Some(group, KubeletStages) \cup Some(group, KubeProxyStages)
              \cup Some(group, <<KubectlFile>>) \subseteq Elements(Stages)
       /\ Some("masters", KubeSchedulerStages) \subseteq Elements(Stages)
       /\ Some("masters", ControllerManagerStages) \subseteq Elements(Stages)
       /\ Some("masters", APIServerStages) \subseteq Elements(Stages)
  BY <1>1, <1>2, <1>3, <1>4, <1>5, <1>6, <1>7, <1>8, <1>9, <1>10
<1>12. \A group, seq : \A f \in Elements(seq) :
         Stage(group, f, "send") \in Some(group, seq)
  BY DEF Some
<1>13. \A group \in {"masters", "workers"} :
         Stage(group, Downloaded(group), "download") \in Elements(Stages)
  BY <1>0, <1>11
<1>14. QED BY <1>9, <1>10, <1>11, <1>12, <1>13


(* A stage that is sent is one of them.                                    *)
LEMMA InStages ==
  ASSUME NEW group, NEW kind, NEW f, Stage(group, f, kind) \in Elements(Stages),
         NEW read \in f
  PROVE  \E i \in 1..Len(Stages) : Stages[i].group = group /\ read \in Stages[i].files
  BY DEF Elements, Stage

LEMMA StagesTyped ==
  /\ Len(Stages) \in Nat \ {0}
  /\ \A i \in 1..Len(Stages) : /\ Stages[i] \in StageSet
                              /\ Stages[i].files \in FileSet
                              /\ Stages[i].group \in {"masters", "workers"}
<1>1. Stages \in Seq(StageSet) /\ Elements(Stages) # {}
  BY StagesFacts
<1>2. Len(Stages) \in Nat \ {0}
  BY <1>1 DEF Elements
<1>3. QED BY <1>1, <1>2 DEF StageSet, Sent

(* Whatever a service of a node reads is in a stage of its group.          *)
LEMMA ReadsSent ==
  ASSUME NEW group \in {"masters", "workers"}, NEW c \in Services(group),
         NEW read \in Reads(c)
  PROVE  \E i \in 1..Len(Stages) : Stages[i].group = group /\ read \in Stages[i].files
<1> DEFINE Has(f) == Stage(group, f, "send") \in Elements(Stages)
<1>0. /\ \A f : Has(f) /\ read \in f =>
           \E i \in 1..Len(Stages) : Stages[i].group = group /\ read \in Stages[i].files
      /\ c \in Master /\ (group = "workers" => c \in Worker)
  BY InStages DEF Services, Master, Worker
<1>1. CASE read = << <<"bin", c>>, "own" >>
  <2>1. read \in Downloaded(group)
    BY <1>1 DEF Downloaded, Services, DownloadsMaster, DownloadsWorker
  <2>2. QED BY <2>1, StagesFacts, InStages
<1>2. Elements(KubeletStages) = {KubeletPKI, KubeletFile("kubeconfig"),
                                 KubeletFile("env"), KubeletFile("unit")}
  BY DEF Elements, KubeletStages
<1>3. Elements(KubeProxyStages) = {KubeProxyFile("kubeconfig"), KubeProxyFile("env"),
                                   KubeProxyFile("unit")}
  BY DEF Elements, KubeProxyStages
<1>4. Elements(KubeSchedulerStages) =
        {KubeSchedulerFile("kubeconfig"), KubeSchedulerFile("env"),
         KubeSchedulerFile("unit")}
  BY DEF Elements, KubeSchedulerStages
<1>5. Elements(ControllerManagerStages) =
        {ControllerManagerPKI, ControllerManagerFile("kubeconfig"),
         ControllerManagerFile("env"), ControllerManagerFile("unit")}
  BY DEF Elements, ControllerManagerStages
<1>6. Elements(APIServerStages) =
        {APIServerPKI, APIServerFile("env"), APIServerFile("unit")}
  BY DEF Elements, APIServerStages
<1> HIDE DEF Has
<1>7. /\ Has(KubeletPKI)
      /\ \A k \in {"kubeconfig", "env", "unit"} :
           Has(KubeletFile(k)) /\ Has(KubeProxyFile(k))
  BY <1>2, <1>3, StagesFacts DEF Has
<1>8. group = "masters" =>
        /\ Has(ControllerManagerPKI) /\ Has(APIServerPKI)
        /\ \A k \in {"kubeconfig", "env", "unit"} :
             Has(KubeSchedulerFile(k)) /\ Has(ControllerManagerFile(k))
        /\ \A k \in {"env", "unit"} : Has(APIServerFile(k))
  BY <1>4, <1>5, <1>6, StagesFacts DEF Has
<1>9. CASE read # << <<"bin", c>>, "own" >>
  <2>1. read \in Flags(c) \cup {<< <<dir, c>>, "own" >> : dir \in {"env", "unit"}}
    BY <1>9 DEF Reads
  <2>2. \E f : Has(f) /\ read \in f
    <3>1. CASE c = "kubelet"
      BY <1>7, <2>1, <3>1 DEF Flags, KubeletReads, KubeletFile, OwnFile
    <3>2. CASE c = "kube-proxy"
      BY <1>7, <2>1, <3>2 DEF Flags, KubeProxyReads, KubeProxyFile, OwnFile
    <3>3. CASE c = "kube-scheduler"
      BY <1>0, <1>8, <2>1, <3>3
      DEF Flags, KubeSchedulerReads, KubeSchedulerFile, OwnFile, Worker
    <3>4. CASE c = "kube-controller-manager"
      BY <1>0, <1>7, <1>8, <2>1, <3>4
      DEF Flags, ControllerManagerReads, ControllerManagerFile, OwnFile, Worker,
          ControllerManagerPKI
    <3>5. CASE c = "kube-apiserver"
      BY <1>0, <1>8, <2>1, <3>5
      DEF Flags, APIServerReads, APIServerFile, OwnFile, Worker, APIServerPKI
    <3>6. QED BY <1>0, <3>1, <3>2, <3>3, <3>4, <3>5 DEF Master
  <2>3. QED BY <1>0, <2>2
<1>10. QED BY <1>1, <1>9

-----------------------------------------------------------------------------
(* The inductive invariant.                                                *)
(* Which operation a step belongs to, and what it has not used yet.        *)
OpInv ==
  /\ at \in CreateStep => op = "Create"
  /\ at \in TearStep => op # "none"
  /\ op = "none" => at \in {"off", "idle"} /\ got = 0 /\ cfg = disk
  /\ at = "off" => op = "none"
  /\ at \in {"masters", "flag"} => got = 0
  /\ at # "idle" => ~errs

(* Goroutines run only while the main one collects their results, and got  *)
(* counts those that have been collected: at two none is left.             *)
Collected2 == (IF go["etcd"] = "none" THEN 1 ELSE 0)
              + (IF go["workers"] = "none" THEN 1 ELSE 0)

GoInv ==
  /\ at \notin {"wait", "check", "collect"} => go = Quiet
  /\ at \in {"wait", "check", "collect"} => got = Collected2
  /\ at = "wait" => got < 2
  /\ \A g \in Sub : /\ at \in {"wait", "check"} => go[g] # "terminate"
                    /\ at = "collect" => go[g] \notin {"create", "test"}

(* terminate() of Terminate reaches the masters, whose VPC goes last.      *)
TermInv ==
  op = "Terminate" /\ had =>
    /\ at \in TearStep => cfg.masters
    /\ at = "idle" /\ ~errs => Nothing

(* While nothing was to blame: before a first Create nothing exists ...    *)
FreshInv ==
  op # "Create" \/ at = "idle" => disk.vpcid \/ Nothing

(* ... a running Create has recorded what it made, but for the step that   *)
(* it is at ...                                                            *)
Unrecorded(g) == nodes[g] # "none" /\ ~cfg[g]

MadeInv ==
  /\ at = "masters" => ~cfg.vpcid /\ Nothing
  /\ at \in CreateStep \ {"masters"} => vpc /\ cfg.vpcid
  /\ at \in CreateStep \ {"masters", "flag"} => cfg.masters
  /\ at = "flag" => \A g \in Sub : nodes[g] = "none"
  /\ at \in {"flag", "wait", "check", "validate", "lb"} => lb = "none"
  /\ at \in {"register", "copy", "created"} => cfg.lb
  /\ at \in CreateStep \ {"masters", "flag"} =>
       \A g \in Sub : Unrecorded(g) =>
         go[g] = "test" /\ ~own[g]
  /\ \A g \in Sub : go[g] = "create" => nodes[g] = "none"

(* ... and a failed one takes back what is recorded, the masters last.     *)
TakenInv ==
  op = "Create" /\ at \in TearStep =>
    /\ vpc => cfg.masters
    /\ nodes["masters"] # "none" => vpc
    /\ lb # "none" => at \in {"deregister", "deleteLB"} /\ cfg.lb
    /\ \A g \in Sub : nodes[g] # "none" =>
         /\ at \in {"deregister", "deleteLB", "subs"} => cfg[g]
         /\ at = "collect" => go[g] \in {"terminate", "error"}
         /\ at # "mastersDown"

RollInv ==
  blame = {} =>
    FreshInv /\ MadeInv /\ TakenInv /\ RollsBackEverything

(* While err was not misread, a result of nil stands for nodes that were   *)
(* launched, and are recorded if no deadline passed, and an error is never *)
(* forgotten.                                                              *)
Made(g) ==
  /\ nodes[g] = "up"
  /\ g = "etcd" \/ NodesOf(g) \subseteq known \/ "slow" \in blame
Ready(g) == Made(g) /\ cfg[g]

DoneInv ==
  "race" \notin blame =>
    /\ at \in CreateStep \ {"masters"} => Made("masters") /\ vpc /\ cfg.vpcid
    /\ at \in CreateStep \ {"masters", "flag"} => cfg.masters
    /\ at \in {"wait", "check"} => \A g \in Sub :
         /\ go[g] = "test" => own[g] \/ Made(g)
         /\ go[g] = "nil" => Ready(g)
         /\ go[g] = "none" => Ready(g) \/ ess \/ (at = "check" /\ own["main"])
    /\ at \in {"validate", "lb", "flagLB", "register", "copy", "created"} =>
         \A g \in Sub : Ready(g)
    /\ at \in {"lb", "flagLB", "register", "copy", "created"} => cfg.servers
    /\ at \in {"register", "copy", "created"} => cfg.lb
    /\ at \in {"copy", "created"} => cfg.registered /\ lb = "registered"
    /\ CreateMeansComplete

(* The files of the stages that are over are on their nodes, unless a      *)
(* download has failed.                                                    *)
Delivered(n, i) == \A s \in Stages[i].files : files[n][s[1]] = s[2]

FilesInv ==
  /\ at = "copy" /\ ~ess =>
       \A i \in 1..stage : \A n \in Todo(i) :
         i < stage \/ n \notin todo => Delivered(n, i)
  /\ at = "created" \/ (Returns("Create") /\ ~errs) =>
       \A i \in 1..Len(Stages) : \A n \in Todo(i) : Delivered(n, i)

-----------------------------------------------------------------------------
(* Type correctness.                                                       *)
LEMMA OverwriteFact ==
  ASSUME NEW f \in [Path -> Content \cup {"none"}], NEW i \in 1..Len(Stages)
  PROVE  /\ Overwrite(f, Stages[i].files) \in [Path -> Content \cup {"none"}]
         /\ \A s \in Stages[i].files : Overwrite(f, Stages[i].files)[s[1]] = s[2]
         /\ \A j \in 1..Len(Stages) : \A s \in Stages[j].files :
              f[s[1]] = s[2] => Overwrite(f, Stages[i].files)[s[1]] = s[2]
<1> DEFINE sent == Stages[i].files
           Of(p) == CHOOSE s \in sent : s[1] = p
<1>1. sent \in FileSet
  BY StagesTyped
<1> HIDE DEF sent, Of
<1>2. ASSUME NEW p \in Path, \E s \in sent : s[1] = p
      PROVE  Of(p)[2] \in Content /\ Of(p)[2] = Holds(p)
  <2>1. Of(p) \in sent /\ Of(p)[1] = p
    BY <1>2 DEF Of
  <2>2. QED BY <1>1, <2>1 DEF FileSet
<1>3. Overwrite(f, sent) =
        [p \in Path |-> IF \E s \in sent : s[1] = p THEN Of(p)[2] ELSE f[p]]
  BY DEF Overwrite, Of
<1>4. Overwrite(f, sent) \in [Path -> Content \cup {"none"}]
  BY <1>2, <1>3
<1>5. ASSUME NEW s \in sent PROVE Overwrite(f, sent)[s[1]] = s[2]
  <2>1. s[1] \in Path /\ s[2] = Holds(s[1])
    BY <1>1 DEF FileSet
  <2>2. QED BY <1>2, <1>3, <2>1
<1>6. ASSUME NEW j \in 1..Len(Stages), NEW s \in Stages[j].files, f[s[1]] = s[2]
      PROVE  Overwrite(f, sent)[s[1]] = s[2]
  <2>1. s[1] \in Path /\ s[2] = Holds(s[1])
    BY StagesTyped DEF FileSet
  <2>2. QED BY <1>2, <1>3, <1>6, <2>1
<1>7. QED BY <1>4, <1>5, <1>6 DEF sent

LEMMA EmptyTyped == Empty \in [Node -> [Path -> Content \cup {"none"}]]
  BY DEF Empty

LEMMA NodesOfTyped ==
  /\ \A group \in {"masters", "workers"} : NodesOf(group) \subseteq Node
  /\ \A i \in 1..Len(Stages) : Todo(i) \subseteq Node
<1>1. \A group \in {"masters", "workers"} : NodesOf(group) \subseteq Node
  BY DEF NodesOf, Node
<1>2. QED BY <1>1, StagesTyped DEF Todo

(* What an EC2 deployer that worked, or one that did not, has recorded.    *)
LEMMA RecordsTyped ==
  ASSUME TypeOK, NEW g \in {"masters", "workers"}, Records(g) \/ Launches(g)
  PROVE  known' \subseteq Node /\ blame' \subseteq Cause
<1>1. NodesOf(g) \subseteq Node
  BY NodesOfTyped
<1>2. CASE Records(g)
  BY <1>1, <1>2 DEF Records, TypeOK, Cause
<1>3. CASE Launches(g)
  BY <1>3 DEF Launches, TypeOK, Cause
<1>4. QED BY <1>2, <1>3

LEMMA FailTyped ==
  ASSUME TypeOK, Fail
  PROVE  /\ at' = "deregister" /\ ess' = FALSE
         /\ files' \in [Node -> [Path -> Content \cup {"none"}]]
         /\ stage' \in 1..Len(Stages) /\ todo' \subseteq Node
         /\ UNCHANGED <<cfg, disk, op, errs, go, err, own, got, had, ops>>
  BY EmptyTyped, StagesTyped DEF Fail, routines

LEMMA QuietTyped ==
  /\ Quiet \in [Sub -> {"none", "create", "test", "terminate", "nil", "error"}]
  /\ NoErrors \in [Sub \cup {"main"} -> BOOLEAN]
  BY DEF Quiet, NoErrors

LEMMA ConfigTyped ==
  ASSUME NEW c \in Config, NEW b \in BOOLEAN
  PROVE  /\ [c EXCEPT !.masters = b] \in Config
         /\ [c EXCEPT !.vpcid = b] \in Config
         /\ [c EXCEPT !.lb = b] \in Config
         /\ [c EXCEPT !.registered = b] \in Config
         /\ [c EXCEPT !.servers = b] \in Config
         /\ \A g \in Sub : [c EXCEPT ![g] = b] \in Config
<1>1. ASSUME NEW g \in Sub PROVE [c EXCEPT ![g] = b] \in Config
  <2>1. CASE g = "etcd"
    BY <2>1 DEF Config
  <2>2. CASE g = "workers"
    BY <2>2 DEF Config
  <2>3. QED BY <2>1, <2>2 DEF Sub
<1>2. [c EXCEPT !.masters = b] \in Config /\ [c EXCEPT !.vpcid = b] \in Config
  BY DEF Config
<1>3. [c EXCEPT !.lb = b] \in Config /\ [c EXCEPT !.registered = b] \in Config
  BY DEF Config
<1>4. [c EXCEPT !.servers = b] \in Config
  BY DEF Config
<1>5. QED BY <1>1, <1>2, <1>3, <1>4

LEMMA InitTyped == Init => TypeOK
<1> SUFFICES ASSUME Init PROVE TypeOK
  OBVIOUS
<1>1. NoConfig \in Config
  BY DEF NoConfig, Config
<1>2. nodes \in [Group -> {"none", "some", "up"}]
  BY DEF Init
<1>3. stage \in 1..Len(Stages) /\ todo \subseteq Node
  BY StagesTyped DEF Init
<1>4. /\ go \in [Sub -> {"none", "create", "test", "terminate", "nil", "error"}]
      /\ own \in [Sub \cup {"main"} -> BOOLEAN]
      /\ files \in [Node -> [Path -> Content \cup {"none"}]]
      /\ cfg \in Config /\ disk \in Config
  BY <1>1, EmptyTyped, QuietTyped DEF Init
<1>5. /\ vpc \in BOOLEAN /\ lb \in {"none", "made", "registered"}
      /\ at = "off" /\ op = "none"
      /\ errs \in BOOLEAN /\ ess \in BOOLEAN /\ err \in BOOLEAN /\ had \in BOOLEAN
      /\ blame \subseteq Cause /\ known \subseteq Node
  BY Zenon DEF Init
<1>6. got \in 0..2 /\ ops \in Nat
  <2>1. got = 0 /\ ops = 0
    BY DEF Init
  <2>2. QED BY <2>1
<1>7. QED BY <1>2, <1>3, <1>4, <1>5, <1>6 DEF TypeOK

LEMMA CallsTyped ==
  ASSUME TypeOK, NewDeployer \/ Exit \/ Crash \/ Create \/ Terminate
  PROVE  TypeOK'
<1> USE DEF aws, copying, routines
<1>1. CASE NewDeployer
  BY <1>1 DEF NewDeployer, TypeOK
<1>2. CASE Exit \/ Crash
  <2>1. ProcessEnds /\ blame' \subseteq Cause
    BY <1>2 DEF Exit, Crash, TypeOK, Cause
  <2>2. stage' \in 1..Len(Stages)
    BY <2>1, StagesTyped DEF ProcessEnds
  <2>3. /\ go' \in [Sub -> {"none", "create", "test", "terminate", "nil", "error"}]
        /\ own' \in [Sub \cup {"main"} -> BOOLEAN]
        /\ files' \in [Node -> [Path -> Content \cup {"none"}]]
    BY <2>1, EmptyTyped, QuietTyped DEF ProcessEnds, EndRoutines
  <2>4. /\ at' = "off" /\ op' = "none" /\ todo' \subseteq Node
        /\ errs' \in BOOLEAN /\ ess' \in BOOLEAN /\ err' \in BOOLEAN
        /\ had' \in BOOLEAN
        /\ cfg' = disk /\ UNCHANGED <<nodes, known, vpc, lb, disk, ops>>
    BY <2>1, Zenon DEF ProcessEnds, EndRoutines
  <2>5. got' \in 0..2
    <3>1. got' = 0
      BY <2>1 DEF ProcessEnds, EndRoutines
    <3>2. QED BY <3>1
  <2>6. QED BY <2>1, <2>2, <2>3, <2>4, <2>5 DEF TypeOK
<1>3. CASE Create \/ Terminate
  <2>1. PICK o \in {"Create", "Terminate"}, first \in {"masters", "deregister"} :
          Call(o, first)
    BY <1>3 DEF Create, Terminate
  <2>2. blame' \subseteq Cause
    BY <1>3 DEF Create, Terminate, TypeOK, Cause
  <2>3. had' \in BOOLEAN /\ ops' \in Nat
    BY <2>1 DEF Call, TypeOK, Config
  <2>4. at' \in {"off", "idle"} \cup CreateStep \cup TearStep
    BY <2>1 DEF Call, CreateStep, TearStep
  <2>5. QED BY <2>1, <2>2, <2>3, <2>4 DEF Call, TypeOK
<1>4. QED BY <1>1, <1>2, <1>3

LEMMA MastersTyped ==
  ASSUME TypeOK, NEW e, TerminateEC2Masters(e)
  PROVE  nodes' \in [Group -> {"none", "some", "up"}] /\ vpc' \in BOOLEAN
  BY DEF TerminateEC2Masters, TypeOK

LEMMA CreateTyped ==
  ASSUME TypeOK, GoInv,
         \/ CreateMasters \/ CreateMastersAgain \/ FlagMasters
         \/ Receive \/ Check \/ Validate
         \/ CreateLoadBalancer \/ FlagLoadBalancer \/ RegisterInstances
         \/ (\E n \in Node : Deliver(n)) \/ StageEnds \/ CreateReturns
  PROVE  TypeOK'
<1> USE DEF aws, copying, routines, CreateStep, TearStep
<1>1. CASE CreateMasters
  <2>1. nodes' \in [Group -> {"none", "some", "up"}] /\ vpc' \in BOOLEAN
    BY <1>1 DEF CreateMasters, Launches, TypeOK, Group
  <2>2. blame' \subseteq Cause /\ known' \subseteq Node /\ lb' = lb
    <3>1. CASE Records("masters") \/ Launches("masters")
      BY <1>1, <3>1, RecordsTyped DEF CreateMasters
    <3>2. CASE UNCHANGED known /\ blame' \in {blame, blame \cup {"left"},
                                             blame \cup {"delete"}}
      BY <1>1, <3>2 DEF CreateMasters, TypeOK, Cause
    <3>3. QED BY <1>1, <3>1, <3>2 DEF CreateMasters
  <2>3. \/ Fail
        \/ /\ Goto("flag") /\ UNCHANGED <<disk, routines>>
           /\ cfg' = [cfg EXCEPT !.vpcid = TRUE]
    BY <1>1 DEF CreateMasters
  <2>4. CASE Fail
    BY <2>1, <2>2, <2>4, FailTyped DEF TypeOK
  <2>5. CASE Goto("flag") /\ UNCHANGED <<disk, routines>>
             /\ cfg' = [cfg EXCEPT !.vpcid = TRUE]
    <3>1. cfg' \in Config
      BY <2>5, ConfigTyped DEF TypeOK
    <3>2. QED BY <2>1, <2>2, <2>5, <3>1 DEF Goto, TypeOK
  <2>6. QED BY <2>3, <2>4, <2>5
<1>2. CASE CreateMastersAgain
  <2>1. nodes' \in [Group -> {"none", "some", "up"}] /\ vpc' \in BOOLEAN
    BY <1>2, MastersTyped DEF CreateMastersAgain, TypeOK
  <2>2. Fail /\ UNCHANGED <<known, lb, blame>>
    BY <1>2 DEF CreateMastersAgain
  <2>3. QED BY <2>1, <2>2, FailTyped DEF TypeOK
<1>3. CASE FlagMasters
  <2>1. cfg' \in Config /\ disk' = cfg'
    BY <1>3 DEF FlagMasters, Sync, TypeOK, Config
  <2>2. QED BY <1>3, <2>1 DEF FlagMasters, Goto, TypeOK
<1>4. CASE Receive
  <2>1. go' \in [Sub -> {"none", "create", "test", "terminate", "nil", "error"}]
        /\ own' \in [Sub \cup {"main"} -> BOOLEAN] /\ err' \in BOOLEAN
    BY <1>4 DEF Receive, Routine, Assign, TypeOK
  <2>2. got' \in 0..2
    BY <1>4 DEF Receive, GoInv, TypeOK
  <2>3. QED BY <1>4, <2>1, <2>2 DEF Receive, Goto, TypeOK
<1>5. CASE Check
  <2>1. blame' \subseteq Cause
    BY <1>5 DEF Check, Reads_err, TypeOK, Cause
  <2>2. CASE Fail
    BY <1>5, <2>1, <2>2, FailTyped DEF Check, TypeOK
  <2>3. CASE ~Fail
    <3>1. PICK e \in BOOLEAN :
            \/ /\ at' = "wait" /\ ess' = (ess \/ e)
               /\ UNCHANGED <<copying, cfg, disk, op, errs, routines, had, ops>>
            \/ Goto("validate") /\ UNCHANGED <<cfg, disk, routines>>
      BY <1>5, <2>3 DEF Check
    <3>2. QED BY <1>5, <2>1, <3>1 DEF Check, Goto, TypeOK
  <2>4. QED BY <2>2, <2>3
<1>6. CASE Validate
  <2>1. CASE Fail
    BY <1>6, <2>1, FailTyped DEF Validate, StepFails, TypeOK
  <2>2. CASE ~Fail
    <3>1. cfg' \in Config /\ disk' = cfg'
      BY <1>6, <2>2 DEF Validate, StepFails, Sync, TypeOK, Config
    <3>2. QED BY <1>6, <2>2, <3>1 DEF Validate, StepFails, Goto, TypeOK
  <2>3. QED BY <2>1, <2>2
<1>7. CASE CreateLoadBalancer
  <2>1. CASE Fail
    BY <1>7, <2>1, FailTyped DEF CreateLoadBalancer, StepFails, TypeOK
  <2>2. CASE ~Fail
    BY <1>7, <2>2 DEF CreateLoadBalancer, StepFails, Goto, TypeOK
  <2>3. QED BY <2>1, <2>2
<1>8. CASE FlagLoadBalancer
  <2>1. cfg' \in Config /\ disk' = cfg'
    BY <1>8 DEF FlagLoadBalancer, Sync, TypeOK, Config
  <2>2. QED BY <1>8, <2>1 DEF FlagLoadBalancer, Goto, TypeOK
<1>9. CASE RegisterInstances
  <2>1. CASE Fail
    BY <1>9, <2>1, FailTyped DEF RegisterInstances, StepFails, TypeOK
  <2>2. CASE ~Fail
    <3>1. cfg' \in Config /\ disk' = cfg'
      BY <1>9, <2>2 DEF RegisterInstances, StepFails, Sync, TypeOK, Config
    <3>2. stage' \in 1..Len(Stages) /\ todo' \subseteq Node
      BY <1>9, <2>2, StagesTyped, NodesOfTyped DEF RegisterInstances, StepFails
    <3>3. QED BY <1>9, <2>2, <3>1, <3>2 DEF RegisterInstances, StepFails, TypeOK
  <2>3. QED BY <2>1, <2>2
<1>10. ASSUME NEW n \in Node, Deliver(n) PROVE TypeOK'
  <2>1. CASE Fail
    BY <1>10, <2>1, FailTyped DEF Deliver, TypeOK
  <2>2. CASE ~Fail
    <3>1. files' \in [Node -> [Path -> Content \cup {"none"}]]
      <4>1. files[n] \in [Path -> Content \cup {"none"}] /\ stage \in 1..Len(Stages)
        BY DEF TypeOK
      <4>2. Overwrite(files[n], Stages[stage].files) \in [Path -> Content \cup {"none"}]
        BY <4>1, OverwriteFact
      <4>3. files' = files
            \/ files' = [files EXCEPT ![n] = Overwrite(files[n], Stages[stage].files)]
        BY <1>10, <2>2 DEF Deliver, TypeOK
      <4>4. QED BY <4>2, <4>3 DEF TypeOK
    <3>2. todo' \subseteq Node /\ ess' \in BOOLEAN
      BY <1>10, <2>2 DEF Deliver, TypeOK
    <3>3. UNCHANGED <<stage, cfg, disk, at, op, errs, routines, had, ops, aws, blame>>
      BY <1>10, <2>2 DEF Deliver
    <3>4. QED BY <3>1, <3>2, <3>3 DEF TypeOK
  <2>3. QED BY <2>1, <2>2
<1>11. CASE StageEnds
  <2>1. CASE Fail
    BY <1>11, <2>1, FailTyped DEF StageEnds, TypeOK
  <2>2. CASE ~Fail
    <3>1. stage' \in 1..Len(Stages) /\ todo' \subseteq Node
      BY <1>11, <2>2, StagesTyped, NodesOfTyped DEF StageEnds, TypeOK
    <3>2. at' \in {"copy", "created"}
          /\ UNCHANGED <<files, cfg, disk, op, errs, ess, routines, had, ops, aws, blame>>
      BY <1>11, <2>2 DEF StageEnds
    <3>3. QED BY <3>1, <3>2 DEF TypeOK
  <2>3. QED BY <2>1, <2>2
<1>12. CASE CreateReturns
  BY <1>12 DEF CreateReturns, Sync, Goto, TypeOK
<1>13. QED
  BY <1>1, <1>2, <1>3, <1>4, <1>5, <1>6, <1>7, <1>8, <1>9, <1>10, <1>11, <1>12

LEMMA SubTyped ==
  ASSUME TypeOK, NEW g \in Sub, SubSteps(g) PROVE TypeOK'
<1> USE DEF aws, copying, routines
<1>1. g \in Group
  BY DEF Group
<1>2. CASE SubCreate(g)
  <2>1. nodes' \in [Group -> {"none", "some", "up"}]
    BY <1>1, <1>2 DEF SubCreate, Launches, TypeOK
  <2>2. blame' \subseteq Cause /\ known' \subseteq Node
    <3>1. CASE g = "workers" /\ (Records(g) \/ Launches(g))
      BY <3>1, RecordsTyped
    <3>2. CASE UNCHANGED known /\ blame' \in {blame, blame \cup {"left"},
                                             blame \cup {"delete"}}
      BY <3>2 DEF TypeOK, Cause
    <3>3. QED BY <1>2, <3>1, <3>2 DEF SubCreate, Sub
  <2>3. go' \in [Sub -> {"none", "create", "test", "terminate", "nil", "error"}]
        /\ own' \in [Sub \cup {"main"} -> BOOLEAN] /\ err' \in BOOLEAN
    BY <1>2 DEF SubCreate, Routine, Assign, TypeOK
  <2>4. QED BY <1>2, <2>1, <2>2, <2>3 DEF SubCreate, TypeOK
<1>3. CASE SubTest(g)
  <2>1. blame' \subseteq Cause
    BY <1>3 DEF SubTest, Reads_err, TypeOK, Cause
  <2>2. go' \in [Sub -> {"none", "create", "test", "terminate", "nil", "error"}]
    BY <1>3 DEF SubTest, Routine, TypeOK
  <2>3. cfg' \in Config /\ disk' \in Config
    <3>1. \/ cfg' = cfg /\ disk' = disk
          \/ cfg' = [cfg EXCEPT ![g] = TRUE] /\ disk' = cfg'
      BY <1>3 DEF SubTest, Sync
    <3>2. cfg \in Config /\ disk \in Config
      BY DEF TypeOK
    <3>3. [cfg EXCEPT ![g] = TRUE] \in Config
      BY <3>2, ConfigTyped
    <3>4. QED BY <3>1, <3>2, <3>3
  <2>4. QED BY <1>3, <2>1, <2>2, <2>3 DEF SubTest, TypeOK
<1>4. CASE SubTerminate(g)
  <2>1. nodes' \in [Group -> {"none", "some", "up"}]
    BY <1>1, <1>4 DEF SubTerminate, TypeOK
  <2>2. go' \in [Sub -> {"none", "create", "test", "terminate", "nil", "error"}]
    BY <1>4 DEF SubTerminate, Routine, TypeOK
  <2>3. cfg' \in Config
    <3>1. cfg' = cfg \/ cfg' = [cfg EXCEPT ![g] = FALSE]
      BY <1>4 DEF SubTerminate
    <3>2. cfg \in Config
      BY DEF TypeOK
    <3>3. [cfg EXCEPT ![g] = FALSE] \in Config
      BY <3>2, ConfigTyped
    <3>4. QED BY <3>1, <3>2, <3>3
  <2>4. QED BY <1>4, <2>1, <2>2, <2>3 DEF SubTerminate, TypeOK
<1>5. QED BY <1>2, <1>3, <1>4 DEF SubSteps

(* How many of the two are there.                                          *)
LEMMA CountSub ==
  ASSUME NEW P \in [Sub -> BOOLEAN]
  PROVE  Cardinality({g \in Sub : P[g]}) =
           (IF P["etcd"] THEN 1 ELSE 0) + (IF P["workers"] THEN 1 ELSE 0)
<1> DEFINE S == {g \in Sub : P[g]}
<1>1. CASE P["etcd"] /\ P["workers"]
  <2>1. S = {"etcd"} \cup {"workers"}
    BY <1>1 DEF Sub
  <2>2. IsFiniteSet({"etcd"}) /\ Cardinality({"etcd"}) = 1
    BY FS_Singleton
  <2>3. Cardinality({"etcd"} \cup {"workers"}) = 2
    BY <2>2, FS_AddElement
  <2>4. QED BY <1>1, <2>1, <2>3
<1>2. CASE P["etcd"] /\ ~P["workers"]
  <2>1. S = {"etcd"}
    BY <1>2 DEF Sub
  <2>2. Cardinality({"etcd"}) = 1
    BY FS_Singleton
  <2>3. QED BY <1>2, <2>1, <2>2
<1>3. CASE ~P["etcd"] /\ P["workers"]
  <2>1. S = {"workers"}
    BY <1>3 DEF Sub
  <2>2. Cardinality({"workers"}) = 1
    BY FS_Singleton
  <2>3. QED BY <1>3, <2>1, <2>2
<1>4. CASE ~P["etcd"] /\ ~P["workers"]
  <2>1. S = {}
    BY <1>4 DEF Sub
  <2>2. QED BY <1>4, <2>1, FS_EmptySet
<1>5. QED BY <1>1, <1>2, <1>3, <1>4

LEMMA CountFlags ==
  ASSUME cfg \in Config
  PROVE  Cardinality({g \in Sub : cfg[g]}) =
           (IF cfg["etcd"] THEN 1 ELSE 0) + (IF cfg["workers"] THEN 1 ELSE 0)
<1>1. [g \in Sub |-> cfg[g]] \in [Sub -> BOOLEAN]
  BY DEF Config, Sub
<1>2. {g \in Sub : cfg[g]} = {g \in Sub : [h \in Sub |-> cfg[h]][g]}
  OBVIOUS
<1>3. QED BY <1>1, <1>2, CountSub DEF Sub

LEMMA TearTyped ==
  ASSUME TypeOK,
         \/ Deregister \/ DeleteLoadBalancer \/ StartTerminate
         \/ Collect \/ Collected \/ TerminateMasters
  PROVE  TypeOK'
<1> USE DEF aws, copying, routines, TearStep
<1>1. CASE Deregister \/ DeleteLoadBalancer
  <2>1. cfg' \in Config /\ lb' \in {"none", "made", "registered"}
    <3>1. lb' \in {lb, "none", "made"}
      BY <1>1 DEF Deregister, DeleteLoadBalancer
    <3>2. \/ cfg' = cfg \/ cfg' = [cfg EXCEPT !.registered = FALSE]
          \/ cfg' = [cfg EXCEPT !.lb = FALSE]
      BY <1>1 DEF Deregister, DeleteLoadBalancer
    <3>3. QED BY <3>1, <3>2, ConfigTyped DEF TypeOK
  <2>2. ess' \in BOOLEAN
        /\ blame' \subseteq Cause
    BY <1>1 DEF Deregister, DeleteLoadBalancer, Noted, TypeOK, Cause
  <2>3. /\ at' \in {"deleteLB", "subs"}
        /\ UNCHANGED <<copying, disk, op, errs, had, ops, nodes, known, vpc,
                       routines>>
    BY <1>1 DEF Deregister, DeleteLoadBalancer, Tear
  <2>4. QED BY <2>1, <2>2, <2>3 DEF TypeOK
<1>2. CASE StartTerminate
  <2>1. got' \in 0..2
    BY <1>2, CountFlags DEF StartTerminate, TypeOK
  <2>2. go' \in [Sub -> {"none", "create", "test", "terminate", "nil", "error"}]
    BY <1>2 DEF StartTerminate
  <2>3. QED BY <1>2, <2>1, <2>2 DEF StartTerminate, Tear, TypeOK
<1>3. CASE Collect
  <2>1. go' \in [Sub -> {"none", "create", "test", "terminate", "nil", "error"}]
    BY <1>3 DEF Collect, Routine, TypeOK
  <2>2. ess' \in BOOLEAN /\ got' \in 0..2
        /\ blame' \subseteq Cause
    BY <1>3 DEF Collect, Noted, TypeOK, Cause
  <2>3. QED BY <1>3, <2>1, <2>2 DEF Collect, Tear, TypeOK
<1>4. CASE Collected
  BY <1>4 DEF Collected, Tear, TypeOK
<1>5. CASE TerminateMasters
  <2>1. nodes' \in [Group -> {"none", "some", "up"}] /\ vpc' \in BOOLEAN
    BY <1>5, MastersTyped DEF TerminateMasters, TypeOK
  <2>2. cfg' \in Config
        /\ blame' \subseteq Cause
    <3>1. cfg' = cfg \/ cfg' = [cfg EXCEPT !.masters = FALSE]
      BY <1>5 DEF TerminateMasters
    <3>2. blame' = blame \/ blame' = blame \cup {"delete"}
      BY <1>5 DEF TerminateMasters
    <3>3. QED BY <3>1, <3>2, ConfigTyped DEF TypeOK, Cause
  <2>3. PICK e \in BOOLEAN : Returned(e)
    BY <1>5 DEF TerminateMasters
  <2>4. /\ errs' \in BOOLEAN /\ at' = "idle" /\ ess' \in BOOLEAN
        /\ err' \in BOOLEAN
        /\ UNCHANGED <<known, lb, files, stage, todo, disk, op, had, ops>>
    BY <2>3, Zenon DEF Returned, EndRoutines
  <2>5. /\ go' \in [Sub -> {"none", "create", "test", "terminate", "nil", "error"}]
        /\ own' \in [Sub \cup {"main"} -> BOOLEAN]
    BY <2>3, QuietTyped DEF Returned, EndRoutines
  <2>6. got' \in 0..2
    <3>1. got' = 0
      BY <2>3 DEF Returned, EndRoutines
    <3>2. QED BY <3>1
  <2>7. QED BY <2>1, <2>2, <2>4, <2>5, <2>6 DEF TypeOK
<1>6. QED BY <1>1, <1>2, <1>3, <1>4, <1>5


LEMMA NextTyped ==
  ASSUME TypeOK, GoInv, [Next]_vars PROVE TypeOK'
<1>1. CASE Next
  BY <1>1, CallsTyped, CreateTyped, SubTyped, TearTyped DEF Next, Steps
<1>2. CASE UNCHANGED vars
  BY <1>2 DEF vars, aws, copying, routines, TypeOK
<1>3. QED BY <1>1, <1>2

-----------------------------------------------------------------------------
(* The operation, and the goroutines of its groups.                        *)
LEMMA OpStep ==
  ASSUME OpInv, GoInv, Next PROVE OpInv'
<1> USE DEF routines, copying, CreateStep, TearStep, OpInv
<1>1. CASE NewDeployer
  BY <1>1 DEF NewDeployer
<1>2. CASE Exit \/ Crash
  BY <1>2 DEF Exit, Crash, ProcessEnds, EndRoutines
<1>3. CASE Create \/ Terminate
  BY <1>3 DEF Create, Terminate, Call
<1>4. CASE CreateMasters
  BY <1>4 DEF CreateMasters, Goto, Fail
<1>5. CASE CreateMastersAgain
  BY <1>5 DEF CreateMastersAgain, Fail
<1>6. CASE FlagMasters
  BY <1>6 DEF FlagMasters, Goto
<1>7. ASSUME NEW g \in Sub, SubSteps(g) PROVE OpInv'
  <2>1. go # Quiet
    BY <1>7 DEF SubSteps, SubCreate, SubTest, SubTerminate, Quiet
  <2>2. UNCHANGED <<at, op, errs, got>>
    BY <1>7 DEF SubSteps, SubCreate, SubTest, SubTerminate, aws
  <2>3. QED BY <2>1, <2>2 DEF GoInv
<1>8. CASE Receive
  BY <1>8 DEF Receive, Goto
<1>9. CASE Check
  BY <1>9 DEF Check, Goto, Fail
<1>10. CASE Validate \/ CreateLoadBalancer
  BY <1>10 DEF Validate, CreateLoadBalancer, StepFails, Goto, Fail
<1>11. CASE FlagLoadBalancer \/ RegisterInstances
  BY <1>11 DEF FlagLoadBalancer, RegisterInstances, StepFails, Goto, Fail
<1>12. ASSUME NEW n \in Node, Deliver(n) PROVE OpInv'
  BY <1>12 DEF Deliver, Fail
<1>13. CASE StageEnds \/ CreateReturns
  BY <1>13 DEF StageEnds, CreateReturns, Goto, Fail
<1>14. CASE Deregister \/ DeleteLoadBalancer
  <2>1. at \in {"deregister", "deleteLB"} /\ at' \in {"deleteLB", "subs"}
        /\ UNCHANGED <<op, errs>>
    BY <1>14 DEF Deregister, DeleteLoadBalancer, Tear
  <2>2. QED BY <2>1
<1>15. CASE StartTerminate \/ Collect \/ Collected
  BY <1>15 DEF StartTerminate, Collect, Collected, Tear
<1>16. CASE TerminateMasters
  BY <1>16 DEF TerminateMasters, Returned
<1>17. QED
  BY <1>1, <1>2, <1>3, <1>4, <1>5, <1>6, <1>7, <1>8, <1>9, <1>10, <1>11, <1>12,
     <1>13, <1>14, <1>15, <1>16 DEF Next, Steps

(* A step outside of the three places where goroutines run leaves them     *)
(* alone, and got with them.                                               *)
LEMMA Alone ==
  ASSUME TypeOK, go = Quiet, go' = Quiet, at' \notin {"wait", "check", "collect"}
  PROVE  GoInv'
  BY DEF GoInv, Quiet, Sub

LEMMA CountOne ==
  ASSUME TypeOK, NEW g \in Sub, go[g] # "none", Routine(g, "none"), got' = got + 1,
         got = Collected2
  PROVE  got' = Collected2'
<1>1. CASE g = "etcd"
  BY <1>1 DEF TypeOK, Routine, Collected2, Sub
<1>2. CASE g = "workers"
  BY <1>2 DEF TypeOK, Routine, Collected2, Sub
<1>3. QED BY <1>1, <1>2 DEF Sub

LEMMA CountSame ==
  ASSUME TypeOK, NEW g \in Sub, NEW next, go[g] # "none", next # "none",
         Routine(g, next)
  PROVE  /\ Collected2' = Collected2 /\ Collected2 < 2
         /\ go'[g] = next /\ \A h \in Sub \ {g} : go'[h] = go[h]
<1>1. CASE g = "etcd"
  BY <1>1 DEF TypeOK, Routine, Collected2, Sub
<1>2. CASE g = "workers"
  BY <1>2 DEF TypeOK, Routine, Collected2, Sub
<1>3. QED BY <1>1, <1>2 DEF Sub

LEMMA AllCollected ==
  ASSUME TypeOK, Collected2 = 2 PROVE go = Quiet
  BY DEF TypeOK, Collected2, Sub, Quiet

LEMMA GoStep ==
  ASSUME TypeOK, GoInv, OpInv, Next PROVE GoInv'
<1> USE DEF routines
<1>1. CASE NewDeployer \/ Create \/ Terminate
  <2>1. go' = go /\ at \in {"off", "idle"}
        /\ at' \notin {"wait", "check", "collect"}
    BY <1>1 DEF NewDeployer, Create, Terminate, Call
  <2>2. QED BY <2>1, Alone DEF GoInv
<1>2. CASE Exit \/ Crash
  BY <1>2 DEF Exit, Crash, ProcessEnds, EndRoutines, GoInv, Quiet
<1>3. CASE CreateMasters \/ CreateMastersAgain
  <2>1. go' = go /\ at = "masters" /\ at' \notin {"wait", "check", "collect"}
    BY <1>3 DEF CreateMasters, CreateMastersAgain, Goto, Fail
  <2>2. QED BY <2>1, Alone DEF GoInv
<1>4. CASE FlagMasters
  <2>1. at' = "wait" /\ got' = 0 /\ go' = [g \in Sub |-> "create"]
    BY <1>4 DEF FlagMasters, Goto, OpInv
  <2>2. Collected2' = 0
    BY <2>1 DEF Collected2, Sub
  <2>3. QED BY <2>1, <2>2 DEF GoInv, Sub
<1>5. ASSUME NEW g \in Sub, SubSteps(g) PROVE GoInv'
  <2>1. PICK next \in {"test", "nil", "error"} :
          /\ Routine(g, next)
          /\ \/ go[g] = "create" /\ next = "test"
             \/ go[g] \in {"test", "terminate"} /\ next # "test"
    <3>1. CASE SubCreate(g)
      <4>1. go[g] = "create" /\ Routine(g, "test")
        BY <3>1 DEF SubCreate
      <4>2. QED BY <4>1
    <3>2. CASE SubTest(g)
      <4>1. PICK e \in BOOLEAN : Routine(g, IF e THEN "error" ELSE "nil")
        BY <3>2 DEF SubTest
      <4>2. go[g] = "test"
        BY <3>2 DEF SubTest
      <4>3. CASE e
        BY <4>1, <4>2, <4>3
      <4>4. CASE ~e
        BY <4>1, <4>2, <4>4
      <4>5. QED BY <4>3, <4>4
    <3>3. CASE SubTerminate(g)
      <4>1. go[g] = "terminate" /\ (Routine(g, "nil") \/ Routine(g, "error"))
        BY <3>3 DEF SubTerminate
      <4>2. QED BY <4>1
    <3>4. QED BY <1>5, <3>1, <3>2, <3>3 DEF SubSteps
  <2>2. at' = at /\ got' = got
    BY <1>5 DEF SubSteps, SubCreate, SubTest, SubTerminate
  <2>3. at \in {"wait", "check", "collect"}
    BY <2>1 DEF GoInv, Quiet
  <2>4. /\ Collected2' = Collected2 /\ go'[g] = next
        /\ \A h \in Sub \ {g} : go'[h] = go[h]
    BY <2>1, CountSame
  <2>5. QED BY <2>1, <2>2, <2>3, <2>4 DEF GoInv
<1>6. CASE Receive
  <2>1. PICK g \in Sub : go[g] \in {"nil", "error"} /\ Routine(g, "none")
    BY <1>6 DEF Receive
  <2>2. at = "wait" /\ at' = "check" /\ got' = got + 1
    BY <1>6 DEF Receive, Goto
  <2>3. got' = Collected2'
    BY <2>1, <2>2, CountOne DEF GoInv
  <2>4. \A h \in Sub : go'[h] = "none" \/ go'[h] = go[h]
    BY <2>1 DEF Routine, TypeOK
  <2>5. QED BY <2>2, <2>3, <2>4 DEF GoInv
<1>7. CASE Check
  <2>1. at = "check" /\ go' = go /\ got' = got
        /\ (IF got < 2 THEN at' = "wait" ELSE at' \in {"validate", "deregister"})
    BY <1>7 DEF Check, Goto, Fail
  <2>2. CASE got < 2
    BY <2>1, <2>2 DEF GoInv, Collected2
  <2>3. CASE ~(got < 2)
    <3>1. Collected2 = 2
      BY <2>1, <2>3 DEF GoInv, TypeOK
    <3>2. QED BY <2>1, <2>3, <3>1, AllCollected, Alone
  <2>4. QED BY <2>2, <2>3
<1>8. CASE Validate \/ CreateLoadBalancer \/ FlagLoadBalancer \/ RegisterInstances
  <2>1. go' = go /\ at \in {"validate", "lb", "flagLB", "register"}
        /\ at' \notin {"wait", "check", "collect"}
    BY <1>8 DEF Validate, CreateLoadBalancer, FlagLoadBalancer, RegisterInstances,
       StepFails, Goto, Fail
  <2>2. QED BY <2>1, Alone DEF GoInv
<1>9. ASSUME NEW n \in Node, Deliver(n) PROVE GoInv'
  <2>1. go' = go /\ at = "copy" /\ at' \notin {"wait", "check", "collect"}
    BY <1>9 DEF Deliver, Fail
  <2>2. QED BY <2>1, Alone DEF GoInv
<1>10. CASE StageEnds \/ CreateReturns
  <2>1. go' = go /\ at \in {"copy", "created"} /\ at' \notin {"wait", "check", "collect"}
    BY <1>10 DEF StageEnds, CreateReturns, Goto, Fail
  <2>2. QED BY <2>1, Alone DEF GoInv
<1>11. CASE Deregister \/ DeleteLoadBalancer
  <2>1. go' = go /\ at \in {"deregister", "deleteLB"}
        /\ at' \notin {"wait", "check", "collect"}
    BY <1>11 DEF Deregister, DeleteLoadBalancer, Tear
  <2>2. QED BY <2>1, Alone DEF GoInv
<1>12. CASE StartTerminate
  <2>1. /\ go' = [g \in Sub |-> IF cfg[g] THEN "terminate" ELSE "none"]
        /\ got' = 2 - Cardinality({g \in Sub : cfg[g]}) /\ at' = "collect"
    BY <1>12 DEF StartTerminate, Tear
  <2>2. got' = 2 - ((IF cfg["etcd"] THEN 1 ELSE 0) + (IF cfg["workers"] THEN 1 ELSE 0))
    BY <2>1, CountFlags DEF TypeOK
  <2>3. Collected2' = (IF cfg["etcd"] THEN 0 ELSE 1) + (IF cfg["workers"] THEN 0 ELSE 1)
    BY <2>1 DEF Collected2, Sub
  <2>4. got' = Collected2'
    BY <2>2, <2>3 DEF TypeOK, Config
  <2>5. QED BY <2>1, <2>4 DEF GoInv
<1>13. CASE Collect
  <2>1. PICK g \in Sub : go[g] \in {"nil", "error"} /\ Routine(g, "none")
    BY <1>13 DEF Collect
  <2>2. at = "collect" /\ at' = "collect" /\ got' = got + 1
    BY <1>13 DEF Collect, Tear
  <2>3. got' = Collected2'
    BY <2>1, <2>2, CountOne DEF GoInv
  <2>4. \A h \in Sub : go'[h] = "none" \/ go'[h] = go[h]
    BY <2>1 DEF Routine, TypeOK
  <2>5. QED BY <2>2, <2>3, <2>4 DEF GoInv
<1>14. CASE Collected
  <2>1. at = "collect" /\ got = 2 /\ go' = go /\ at' = "mastersDown"
    BY <1>14 DEF Collected, Tear
  <2>2. QED BY <2>1, AllCollected, Alone DEF GoInv
<1>15. CASE TerminateMasters
  BY <1>15 DEF TerminateMasters, Returned, EndRoutines, GoInv, Quiet
<1>16. QED
  BY <1>1, <1>2, <1>3, <1>4, <1>5, <1>6, <1>7, <1>8, <1>9, <1>10, <1>11, <1>12,
     <1>13, <1>14, <1>15 DEF Next, Steps

(* Where the goroutines run, and that what else they do is their group's   *)
(* alone.                                                                  *)
LEMMA SubWhere ==
  ASSUME GoInv, OpInv, NEW g \in Sub
  PROVE  /\ go[g] \in {"create", "test"} => at \in {"wait", "check"} /\ op = "Create"
         /\ go[g] = "terminate" => at = "collect" /\ op # "none"
BY DEF GoInv, OpInv, Quiet, CreateStep, TearStep

LEMMA SubAlone ==
  ASSUME TypeOK, NEW g \in Sub, SubSteps(g)
  PROVE  /\ UNCHANGED <<vpc, lb, at, op, errs, ess, had, got>>
         /\ nodes'["masters"] = nodes["masters"]
         /\ Masters \cap known' = Masters \cap known
         /\ g = "etcd" => known' = known
         /\ \A h \in Sub \ {g} : nodes'[h] = nodes[h] /\ go'[h] = go[h]
                                 /\ cfg'[h] = cfg[h] /\ own'[h] = own[h]
         /\ own'["main"] = own["main"]
         /\ \A k \in {"masters", "lb", "registered", "vpcid", "servers"} :
              cfg'[k] = cfg[k]
<1> USE DEF TypeOK, Group, Sub, Config
<1>1. UNCHANGED <<vpc, lb, at, op, errs, ess, had, got>>
  <2>1. ASSUME SubCreate(g) PROVE UNCHANGED <<vpc, lb, at, op, errs, ess, had, got>>
    BY <2>1 DEF SubCreate
  <2>2. ASSUME SubTest(g) PROVE UNCHANGED <<vpc, lb, at, op, errs, ess, had, got>>
    BY <2>2 DEF SubTest, aws
  <2>3. ASSUME SubTerminate(g) PROVE UNCHANGED <<vpc, lb, at, op, errs, ess, had, got>>
    BY <2>3 DEF SubTerminate
  <2>4. QED BY <2>1, <2>2, <2>3 DEF SubSteps
<1>2. /\ nodes'["masters"] = nodes["masters"]
      /\ \A h \in Sub \ {g} : nodes'[h] = nodes[h]
  <2>1. \/ nodes' = nodes
        \/ \E v \in {"up", "some", "none"} : nodes' = [nodes EXCEPT ![g] = v]
    BY DEF SubSteps, SubCreate, SubTest, SubTerminate, Launches, aws
  <2>2. QED BY <2>1
<1>3. \A h \in Sub \ {g} : go'[h] = go[h]
  <2>1. \E v : Routine(g, v)
    BY DEF SubSteps, SubCreate, SubTest, SubTerminate
  <2>2. QED BY <2>1 DEF Routine
<1>4. \A h \in (Sub \ {g}) \cup {"main"} : own'[h] = own[h]
  <2>1. own' = own \/ \E e \in BOOLEAN : own' = [own EXCEPT ![g] = e]
    BY DEF SubSteps, SubCreate, SubTest, SubTerminate, Assign
  <2>2. QED BY <2>1
<1>5. \A k \in {"etcd", "workers", "masters", "lb", "registered", "vpcid", "servers"} :
        k # g => cfg'[k] = cfg[k]
  <2>1. cfg' = cfg \/ \E e \in BOOLEAN : cfg' = [cfg EXCEPT ![g] = e]
    BY DEF SubSteps, SubCreate, SubTest, SubTerminate
  <2>2. CASE g = "etcd"
    BY <2>1, <2>2
  <2>3. CASE g = "workers"
    BY <2>1, <2>3
  <2>4. QED BY <2>2, <2>3
<1>6. \A h \in Sub \ {g} : cfg'[h] = cfg[h] /\ own'[h] = own[h]
  BY <1>4, <1>5
<1>7. own'["main"] = own["main"]
  BY <1>4
<1>8. \A k \in {"masters", "lb", "registered", "vpcid", "servers"} : cfg'[k] = cfg[k]
  BY <1>5
<1>9. /\ Masters \cap known' = Masters \cap known
      /\ g = "etcd" => known' = known
  <2>1. \/ known' = known
        \/ g = "workers" /\ (Records(g) \/ Launches(g))
    BY DEF SubSteps, SubCreate, SubTest, SubTerminate, aws
  <2>2. ASSUME g = "workers", Records(g) \/ Launches(g)
        PROVE  Masters \cap known' = Masters \cap known
    <3>1. known' \ Workers = known \ Workers
      BY <2>2 DEF Records, Launches, NodesOf
    <3>2. QED BY <3>1, NodesAssumption
  <2>3. QED BY <2>1, <2>2
<1>10. QED BY <1>1, <1>2, <1>3, <1>6, <1>7, <1>8, <1>9

-----------------------------------------------------------------------------
(* Terminate.                                                              *)
LEMMA TermStep ==
  ASSUME TypeOK, GoInv, OpInv, TermInv, Next PROVE TermInv'
<1> USE DEF TermInv, CreateStep, TearStep
<1>1. CASE NewDeployer \/ Exit \/ Crash
  BY <1>1 DEF NewDeployer, Exit, Crash, ProcessEnds, OpInv
<1>2. CASE Create \/ Terminate
  BY <1>2 DEF Create, Terminate, Call
<1>3. ASSUME at \in CreateStep, at' \in CreateStep \cup TearStep \cup {"idle"}, op' = op
      PROVE  TermInv'
  BY <1>3 DEF OpInv
<1>4. CASE CreateMasters \/ CreateMastersAgain \/ FlagMasters
  BY <1>3, <1>4 DEF CreateMasters, CreateMastersAgain, FlagMasters, Goto, Fail
<1>5. ASSUME NEW g \in Sub, SubSteps(g) PROVE TermInv'
  BY <1>5, SubAlone, SubWhere DEF SubSteps, SubCreate, SubTest, SubTerminate
<1>6. CASE Receive \/ Check
  BY <1>3, <1>6 DEF Receive, Check, Goto, Fail
<1>7. CASE Validate \/ CreateLoadBalancer \/ FlagLoadBalancer \/ RegisterInstances
  BY <1>3, <1>7 DEF Validate, CreateLoadBalancer, FlagLoadBalancer, RegisterInstances,
     StepFails, Goto, Fail
<1>8. ASSUME NEW n \in Node, Deliver(n) PROVE TermInv'
  BY <1>3, <1>8 DEF Deliver, Fail
<1>9. CASE StageEnds \/ CreateReturns
  BY <1>3, <1>9 DEF StageEnds, CreateReturns, Goto, Fail
<1>10. CASE Deregister \/ DeleteLoadBalancer
  BY <1>10 DEF Deregister, DeleteLoadBalancer, Tear, TypeOK, Config
<1>11. CASE StartTerminate \/ Collect \/ Collected
  BY <1>11 DEF StartTerminate, Collect, Collected, Tear
<1>12. CASE TerminateMasters
  <2>1. at' = "idle" /\ op' = op /\ had' = had
    BY <1>12 DEF TerminateMasters, Returned
  <2>2. ASSUME op = "Terminate", had, ~errs' PROVE Nothing'
    <3>1. cfg.masters
      BY <1>12, <2>2 DEF TerminateMasters
    <3>2. PICK e \in BOOLEAN : TerminateEC2Masters(e) /\ Returned(e)
      BY <1>12, <3>1 DEF TerminateMasters
    <3>3. ~e
      BY <2>2, <3>2 DEF Returned
    <3>4. /\ ~InVPC /\ ~vpc' /\ nodes' = [nodes EXCEPT !["masters"] = "none"]
          /\ lb' = lb
      BY <3>2, <3>3 DEF TerminateEC2Masters, Returned
    <3>5. QED BY <3>4 DEF InVPC, Nothing, TypeOK, Group, Sub
  <2>3. QED BY <2>1, <2>2
<1>13. QED
  BY <1>1, <1>2, <1>4, <1>5, <1>6, <1>7, <1>8, <1>9, <1>10, <1>11, <1>12
  DEF Next, Steps

-----------------------------------------------------------------------------
(* What is to blame stays to blame until the next Create.                  *)
LEMMA BlameGrows == ASSUME Next, ~Create PROVE blame \subseteq blame'
<1>1. CASE NewDeployer \/ Exit \/ Crash \/ Terminate
  BY <1>1 DEF NewDeployer, Exit, Crash, Terminate
<1>2. CASE CreateMasters \/ CreateMastersAgain \/ FlagMasters
  BY <1>2 DEF CreateMasters, CreateMastersAgain, FlagMasters, Records, Launches
<1>3. ASSUME NEW g \in Sub, SubSteps(g) PROVE blame \subseteq blame'
  BY <1>3 DEF SubSteps, SubCreate, SubTest, SubTerminate, Reads_err, Records,
     Launches
<1>4. CASE Receive \/ Check
  BY <1>4 DEF Receive, Check, Reads_err
<1>5. CASE Validate \/ CreateLoadBalancer \/ FlagLoadBalancer \/ RegisterInstances
  BY <1>5 DEF Validate, CreateLoadBalancer, FlagLoadBalancer, RegisterInstances
<1>6. ASSUME NEW n \in Node, Deliver(n) PROVE blame \subseteq blame'
  BY <1>6 DEF Deliver
<1>7. CASE StageEnds \/ CreateReturns
  BY <1>7 DEF StageEnds, CreateReturns
<1>8. CASE Deregister \/ DeleteLoadBalancer
  BY <1>8 DEF Deregister, DeleteLoadBalancer, Noted
<1>9. CASE StartTerminate \/ Collect \/ Collected
  BY <1>9 DEF StartTerminate, Collect, Collected, Noted
<1>10. CASE TerminateMasters
  BY <1>10 DEF TerminateMasters
<1>11. QED
  BY <1>1, <1>2, <1>3, <1>4, <1>5, <1>6, <1>7, <1>8, <1>9, <1>10 DEF Next, Steps

(* Only three steps lead to a Create that has returned nil, or near it.    *)
LEMMA FilesStep ==
  ASSUME TypeOK, GoInv, OpInv, FilesInv, Next PROVE FilesInv'
<1> USE DEF FilesInv, Returns
<1>0. ASSUME at' \notin {"copy", "created"},
             ~(at' = "idle" /\ op' = "Create" /\ ~errs')
      PROVE  FilesInv'
  BY <1>0
<1>1. CASE NewDeployer \/ Exit \/ Crash
  BY <1>0, <1>1 DEF NewDeployer, Exit, Crash, ProcessEnds, OpInv
<1>2. CASE Create \/ Terminate
  BY <1>0, <1>2 DEF Create, Terminate, Call
<1>3. CASE CreateMasters \/ CreateMastersAgain \/ FlagMasters
  BY <1>0, <1>3 DEF CreateMasters, CreateMastersAgain, FlagMasters, Goto, Fail
<1>4. ASSUME NEW g \in Sub, SubSteps(g) PROVE FilesInv'
  <2>1. at \in {"wait", "check", "collect"} /\ at' = at
    BY <1>4, SubWhere, SubAlone DEF SubSteps, SubCreate, SubTest, SubTerminate
  <2>2. QED BY <1>0, <2>1
<1>5. CASE Receive \/ Check
  BY <1>0, <1>5 DEF Receive, Check, Goto, Fail
<1>6. CASE Validate \/ CreateLoadBalancer \/ FlagLoadBalancer
  BY <1>0, <1>6 DEF Validate, CreateLoadBalancer, FlagLoadBalancer,
     StepFails, Goto, Fail
<1>7. CASE RegisterInstances
  <2>1. CASE Fail
    BY <1>0, <2>1 DEF Fail
  <2>2. CASE ~Fail
    <3>1. at' = "copy" /\ stage' = 1 /\ todo' = Todo(1) /\ known' = known
      BY <1>7, <2>2 DEF RegisterInstances, StepFails
    <3>2. QED BY <3>1 DEF Todo
  <2>3. QED BY <2>1, <2>2
<1>8. ASSUME NEW n \in Node, Deliver(n) PROVE FilesInv'
  <2>1. CASE Fail
    BY <1>0, <2>1 DEF Fail
  <2>2. CASE ess'
    BY <1>8, <2>2, <1>0 DEF Deliver, Fail
  <2>3. CASE ~Fail /\ ~ess'
    <3>1. /\ at = "copy" /\ n \in todo /\ at' = at /\ ess' = ess /\ stage' = stage
          /\ files' = [files EXCEPT ![n] = Overwrite(@, Stages[stage].files)]
          /\ todo' = todo \ {n} /\ known' = known
      BY <1>8, <2>3 DEF Deliver, aws
    <3>2. stage \in 1..Len(Stages) /\ files[n] \in [Path -> Content \cup {"none"}]
          /\ files'[n] = Overwrite(files[n], Stages[stage].files)
          /\ \A m \in Node \ {n} : files'[m] = files[m]
      BY <3>1 DEF TypeOK
    <3>3. ASSUME NEW i \in 1..stage, NEW m \in Todo(i),
                 i < stage \/ m \notin todo'
          PROVE  Delivered(m, i)'
      <4>0. i \in 1..Len(Stages) /\ m \in Node
        BY <3>2, StagesTyped, NodesOfTyped
      <4>1. CASE m # n
        <5>1. Delivered(m, i)
          BY <2>3, <3>1, <3>3, <4>1
        <5>2. files'[m] = files[m]
          BY <3>2, <4>0, <4>1
        <5>3. QED BY <5>1, <5>2 DEF Delivered
      <4>2. CASE m = n /\ i < stage
        <5>1. Delivered(n, i)
          BY <2>3, <3>1, <4>2
        <5>2. QED BY <3>2, <4>0, <4>2, <5>1, OverwriteFact DEF Delivered
      <4>3. CASE m = n /\ ~(i < stage)
        <5>1. i = stage
          BY <3>2, <4>3
        <5>2. QED BY <3>2, <4>3, <5>1, OverwriteFact DEF Delivered
      <4>4. QED BY <4>1, <4>2, <4>3
    <3>4. QED BY <3>1, <3>3 DEF Todo
  <2>4. QED BY <2>1, <2>2, <2>3
<1>9. CASE StageEnds
  <2>1. CASE Fail
    BY <1>0, <2>1 DEF Fail
  <2>2. CASE ~Fail
    <3>1. /\ at = "copy" /\ todo = {} /\ ~ess /\ files' = files /\ errs' = errs
          /\ known' = known
      BY <1>9, <2>2 DEF StageEnds, aws
    <3>2. \A i \in 1..stage : \A n \in Todo(i) : Delivered(n, i)
      BY <3>1
    <3>3. CASE stage = Len(Stages)
      <4>1. at' = "created"
        BY <1>9, <3>1, <3>3 DEF StageEnds
      <4>2. QED BY <3>1, <3>2, <3>3, <4>1 DEF Delivered, Todo
    <3>4. CASE stage # Len(Stages)
      <4>1. at' = "copy" /\ stage' = stage + 1 /\ todo' = Todo(stage')
        BY <1>9, <3>1, <3>4 DEF StageEnds
      <4>2. ASSUME NEW i \in 1..stage', NEW n \in Todo(i),
                   i < stage' \/ n \notin todo'
            PROVE  Delivered(n, i)'
        <5>1. i \in 1..stage
          BY <4>1, <4>2 DEF TypeOK
        <5>2. QED BY <3>1, <3>2, <5>1 DEF Delivered
      <4>3. QED BY <3>1, <4>1, <4>2 DEF Todo
    <3>5. QED BY <3>3, <3>4
  <2>3. QED BY <2>1, <2>2
<1>10. CASE CreateReturns
  BY <1>10 DEF CreateReturns, Goto, copying, aws, Delivered, Todo
<1>11. CASE Deregister \/ DeleteLoadBalancer
  BY <1>0, <1>11 DEF Deregister, DeleteLoadBalancer, Tear
<1>12. CASE StartTerminate \/ Collect \/ Collected
  BY <1>0, <1>12 DEF StartTerminate, Collect, Collected, Tear
<1>13. CASE TerminateMasters
  <2>1. at' = "idle" /\ (op' = "Create" => errs')
    BY <1>13 DEF TerminateMasters, Returned
  <2>2. QED BY <1>0, <2>1
<1>14. QED
  BY <1>1, <1>2, <1>3, <1>4, <1>5, <1>6, <1>7, <1>8, <1>9, <1>10, <1>11, <1>12,
     <1>13 DEF Next, Steps

-----------------------------------------------------------------------------
(* A Create that worked.                                                   *)
(* What was made stays so while it is not touched: nobody forgets that a   *)
(* deadline has passed.                                                    *)
LEMMA MadeKeeps ==
  ASSUME blame \subseteq blame', NEW g \in Group, nodes'[g] = nodes[g], Made(g),
         g = "etcd" \/ NodesOf(g) \cap known \subseteq known'
  PROVE  Made(g)'
BY DEF Made, NodesOf

LEMMA ReadyKeeps ==
  ASSUME blame \subseteq blame', UNCHANGED <<nodes, known>>
  PROVE  /\ Made("masters") => Made("masters")'
         /\ \A g \in Sub : cfg'[g] = cfg[g] => (Ready(g) => Ready(g)')
BY MadeKeeps DEF Ready, Group

LEMMA RecordsMade ==
  ASSUME TypeOK, NEW g \in {"masters", "workers"}, Records(g),
         nodes' = [nodes EXCEPT ![g] = "up"]
  PROVE  Made(g)'
<1>1. NodesOf(g) \subseteq known' \/ "slow" \in blame'
  BY DEF Records
<1>2. nodes'[g] = "up"
  BY DEF TypeOK, Group, Sub
<1>3. QED BY <1>1, <1>2 DEF Made, NodesOf

LEMMA DoneCreate == ASSUME OpInv, Create PROVE DoneInv'
BY DEF Create, Call, DoneInv, CreateMeansComplete, Returns, CreateStep

LEMMA DoneStep ==
  ASSUME TypeOK, GoInv, OpInv, DoneInv, Next, ~Create PROVE DoneInv'
<1> SUFFICES ASSUME "race" \notin blame' PROVE DoneInv'
  BY DEF DoneInv
<1> USE DEF DoneInv, CreateMeansComplete, Returns, CreateStep
<1>a. "race" \notin blame /\ blame \subseteq blame'
  BY BlameGrows
<1>0. ASSUME at' \notin CreateStep,
             ~(at' = "idle" /\ op' = "Create" /\ ~errs')
      PROVE  DoneInv'
  BY <1>0
<1>b. ASSUME Fail PROVE DoneInv'
  BY <1>0, <1>b DEF Fail
<1>1. CASE NewDeployer \/ Exit \/ Crash
  BY <1>0, <1>1 DEF NewDeployer, Exit, Crash, ProcessEnds, OpInv
<1>2. CASE Terminate
  BY <1>2 DEF Terminate, Call
<1>3. CASE CreateMasters \/ CreateMastersAgain
  <2>1. CASE Fail
    BY <1>b, <2>1
  <2>2. CASE ~Fail
    <3>1. /\ nodes' = [nodes EXCEPT !["masters"] = "up"] /\ vpc'
          /\ cfg' = [cfg EXCEPT !.vpcid = TRUE] /\ at' = "flag"
          /\ Records("masters")
      BY <1>3, <2>2 DEF CreateMasters, CreateMastersAgain, Goto
    <3>2. Made("masters")' /\ cfg'.vpcid
      BY <3>1, RecordsMade DEF TypeOK, Group, Config
    <3>3. QED BY <3>1, <3>2
  <2>3. QED BY <2>1, <2>2
<1>4. CASE FlagMasters
  <2>1. /\ at = "flag" /\ at' = "wait" /\ UNCHANGED <<nodes, known, vpc>>
        /\ cfg' = [cfg EXCEPT !.masters = TRUE]
        /\ go' = [g \in Sub |-> "create"]
    BY <1>4 DEF FlagMasters, Goto, aws
  <2>2. cfg'.masters /\ cfg'.vpcid = cfg.vpcid
    BY <2>1 DEF TypeOK, Config
  <2>3. Made("masters")'
    BY <1>a, <2>1, ReadyKeeps
  <2>4. QED BY <1>a, <2>1, <2>2, <2>3
<1>5. ASSUME NEW g \in Sub, SubSteps(g) PROVE DoneInv'
  <2>1. CASE at = "collect"
    <3>1. at' = "collect"
      BY <1>5, <2>1, SubAlone
    <3>2. QED BY <1>0, <3>1
  <2>2. CASE at # "collect"
    <3>1. at \in {"wait", "check"} /\ ~SubTerminate(g)
      BY <1>5, <2>2, SubWhere DEF SubSteps, SubCreate, SubTest, SubTerminate
    <3>0. /\ nodes'["masters"] = nodes["masters"] /\ vpc' = vpc
          /\ cfg'.vpcid = cfg.vpcid /\ cfg'.masters = cfg.masters /\ at' = at
          /\ own'["main"] = own["main"] /\ ess' = ess
          /\ Masters \cap known' = Masters \cap known
          /\ g = "etcd" => known' = known
          /\ \A h \in Sub \ {g} : nodes'[h] = nodes[h] /\ go'[h] = go[h]
                                  /\ cfg'[h] = cfg[h] /\ own'[h] = own[h]
      BY <1>5, SubAlone
    <3>a. Made("masters") /\ vpc /\ cfg.vpcid /\ cfg.masters
      BY <1>a, <3>1
    <3>b. Made("masters")'
      BY <1>a, <3>0, <3>a, MadeKeeps DEF NodesOf, Group
    <3>2. /\ Made("masters")' /\ vpc' /\ cfg'.vpcid /\ cfg'.masters /\ at' = at
          /\ own'["main"] = own["main"] /\ ess' = ess
          /\ \A h \in Sub \ {g} : nodes'[h] = nodes[h] /\ go'[h] = go[h]
                                  /\ cfg'[h] = cfg[h] /\ own'[h] = own[h]
      BY <3>0, <3>a, <3>b
    <3>3. /\ go'[g] = "test" => own'[g] \/ Made(g)'
          /\ go'[g] = "nil" => Ready(g)'
          /\ go'[g] # "none"
      <4>1. CASE SubCreate(g)
        <5>1. go'[g] = "test"
          BY <4>1 DEF SubCreate, Routine, TypeOK
        <5>2. \/ Assign(g, TRUE)
              \/ /\ nodes' = [nodes EXCEPT ![g] = "up"]
                 /\ g = "etcd" \/ Records(g)
          BY <4>1 DEF SubCreate
        <5>3. CASE Assign(g, TRUE)
          BY <5>1, <5>3 DEF Assign, TypeOK
        <5>4. CASE nodes' = [nodes EXCEPT ![g] = "up"] /\ g = "etcd"
          BY <5>1, <5>4 DEF Made, TypeOK, Group
        <5>5. CASE nodes' = [nodes EXCEPT ![g] = "up"] /\ Records(g) /\ g # "etcd"
          BY <5>1, <5>5, RecordsMade DEF Sub
        <5>6. QED BY <5>2, <5>3, <5>4, <5>5
      <4>2. CASE SubTest(g)
        <5>1. PICK e \in BOOLEAN :
                /\ Reads_err(g, e) /\ Routine(g, IF e THEN "error" ELSE "nil")
                /\ IF e THEN UNCHANGED <<cfg, disk>>
                   ELSE cfg' = [cfg EXCEPT ![g] = TRUE] /\ Sync
          BY <4>2 DEF SubTest
        <5>2. e = own[g] /\ UNCHANGED <<nodes, known>> /\ go[g] = "test"
          BY <4>2, <5>1 DEF SubTest, Reads_err, aws
        <5>3. CASE e
          BY <5>1, <5>3 DEF Routine, TypeOK
        <5>4. CASE ~e
          <6>0. Made(g)
            BY <1>a, <3>1, <5>2, <5>4
          <6>1. Made(g)'
            BY <1>a, <5>2, <6>0, MadeKeeps DEF Group
          <6>2. cfg' = [cfg EXCEPT ![g] = TRUE] /\ go'[g] = "nil"
            BY <5>1, <5>4 DEF Routine, TypeOK
          <6>3. cfg'[g]
            BY <6>2 DEF TypeOK, Config, Sub
          <6>4. QED BY <6>1, <6>2, <6>3 DEF Ready
        <5>5. QED BY <5>3, <5>4
      <4>3. QED BY <1>5, <3>1, <4>1, <4>2 DEF SubSteps
    <3>4. ASSUME NEW h \in Sub \ {g}
          PROVE  (Made(h) => Made(h)') /\ (Ready(h) => Ready(h)')
      <4>1. h = "etcd" \/ known' = known
        BY <3>0 DEF Sub
      <4>2. Made(h) => Made(h)'
        BY <1>a, <3>0, <4>1, MadeKeeps DEF Group
      <4>3. QED BY <3>0, <4>2 DEF Ready
    <3>5. ASSUME NEW h \in Sub
          PROVE  /\ go'[h] = "test" => own'[h] \/ Made(h)'
                 /\ go'[h] = "nil" => Ready(h)'
                 /\ go'[h] = "none" =>
                      Ready(h)' \/ ess' \/ (at' = "check" /\ own'["main"])
      <4>1. CASE h = g
        BY <3>3, <4>1
      <4>2. CASE h # g
        BY <1>a, <3>1, <3>2, <3>4, <4>2
      <4>3. QED BY <4>1, <4>2
    <3>6. QED BY <3>1, <3>2, <3>5
  <2>3. QED BY <2>1, <2>2
<1>6. CASE Receive
  <2>1. PICK g \in Sub : /\ go[g] \in {"nil", "error"} /\ Routine(g, "none")
                         /\ Assign("main", go[g] = "error")
    BY <1>6 DEF Receive
  <2>2. /\ at = "wait" /\ at' = "check"
        /\ UNCHANGED <<nodes, known, vpc, cfg, disk, ess>>
    BY <1>6 DEF Receive, Goto, aws
  <2>3. /\ go'[g] = "none" /\ \A h \in Sub \ {g} : go'[h] = go[h]
        /\ own'["main"] = (go[g] = "error") /\ \A h \in Sub : own'[h] = own[h]
    BY <2>1 DEF Routine, Assign, TypeOK, Sub
  <2>4. /\ Made("masters") => Made("masters")'
        /\ \A h \in Sub : (Made(h) => Made(h)') /\ (Ready(h) => Ready(h)')
    BY <1>a, <2>2, ReadyKeeps, MadeKeeps DEF Group
  <2>5. QED BY <1>a, <2>1, <2>2, <2>3, <2>4
<1>7. CASE Check
  <2>1. CASE Fail
    BY <1>b, <2>1
  <2>2. CASE ~Fail
    <3>1. PICK e \in BOOLEAN :
            /\ Reads_err("main", e)
            /\ \/ got < 2 /\ at' = "wait" /\ ess' = (ess \/ e)
               \/ ~(got < 2) /\ ~(ess \/ e) /\ at' = "validate"
      BY <1>7, <2>2 DEF Check, Goto
    <3>2. at = "check" /\ e = own["main"]
      BY <1>7, <3>1 DEF Check, Reads_err
    <3>3. UNCHANGED <<nodes, known, vpc, cfg, go, own>>
      BY <1>7, <2>2 DEF Check, Goto, aws, routines
    <3>4. /\ Made("masters") => Made("masters")'
          /\ \A h \in Sub : (Made(h) => Made(h)') /\ (Ready(h) => Ready(h)')
      BY <1>a, <3>3, ReadyKeeps, MadeKeeps DEF Group
    <3>5. CASE got < 2
      BY <1>a, <3>1, <3>2, <3>3, <3>4, <3>5
    <3>6. CASE ~(got < 2)
      <4>1. go = Quiet
        BY <3>2, <3>6, AllCollected DEF GoInv, TypeOK
      <4>2. \A h \in Sub : Ready(h)
        BY <1>a, <3>1, <3>2, <3>6, <4>1 DEF Quiet
      <4>3. QED BY <1>a, <3>1, <3>2, <3>3, <3>4, <3>6, <4>2
    <3>7. QED BY <3>5, <3>6
  <2>3. QED BY <2>1, <2>2
<1>8. CASE Validate
  <2>1. CASE Fail
    BY <1>b, <2>1
  <2>2. CASE ~Fail
    <3>1. /\ at = "validate" /\ at' = "lb" /\ UNCHANGED <<nodes, known, vpc>>
          /\ cfg' = [cfg EXCEPT !.servers = nodes["etcd"] = "up"]
      BY <1>8, <2>2 DEF Validate, StepFails, Goto, aws
    <3>2. /\ \A k \in {"masters", "vpcid", "etcd", "workers"} : cfg'[k] = cfg[k]
          /\ cfg'.servers = (nodes["etcd"] = "up")
      BY <3>1 DEF TypeOK, Config
    <3>3. /\ Made("masters") => Made("masters")'
          /\ \A h \in Sub : Ready(h) => Ready(h)'
      BY <1>a, <3>1, <3>2, ReadyKeeps DEF Sub
    <3>4. Ready("etcd") /\ Made("masters") /\ vpc /\ cfg.vpcid /\ cfg.masters
      BY <1>a, <3>1 DEF Sub
    <3>5. \A h \in Sub : Ready(h)
      BY <1>a, <3>1
    <3>6. cfg'.servers /\ cfg'.masters /\ cfg'.vpcid
      BY <3>2, <3>4 DEF Ready, Made
    <3>7. QED BY <3>1, <3>3, <3>4, <3>5, <3>6
  <2>3. QED BY <2>1, <2>2
<1>9. CASE CreateLoadBalancer
  <2>1. CASE Fail
    BY <1>b, <2>1
  <2>2. CASE ~Fail
    <3>1. /\ at = "lb" /\ at' = "flagLB" /\ UNCHANGED <<nodes, known, vpc, cfg>>
      BY <1>9, <2>2 DEF CreateLoadBalancer, StepFails, Goto
    <3>2. QED BY <1>a, <3>1, ReadyKeeps
  <2>3. QED BY <2>1, <2>2
<1>10. CASE FlagLoadBalancer
  <2>1. /\ at = "flagLB" /\ at' = "register" /\ UNCHANGED <<nodes, known, vpc>>
        /\ cfg' = [cfg EXCEPT !.lb = TRUE]
    BY <1>10 DEF FlagLoadBalancer, Goto, aws
  <2>2. cfg'.lb /\ \A k \in {"masters", "vpcid", "etcd", "workers", "servers"} :
                     cfg'[k] = cfg[k]
    BY <2>1 DEF TypeOK, Config
  <2>3. QED BY <1>a, <2>1, <2>2, ReadyKeeps DEF Sub
<1>11. CASE RegisterInstances
  <2>1. CASE Fail
    BY <1>b, <2>1
  <2>2. CASE ~Fail
    <3>1. /\ at = "register" /\ at' = "copy" /\ UNCHANGED <<nodes, known, vpc>>
          /\ lb' = "registered"
          /\ cfg' = [cfg EXCEPT !.registered = TRUE]
      BY <1>11, <2>2 DEF RegisterInstances, StepFails
    <3>2. cfg'.registered
          /\ \A k \in {"masters", "vpcid", "etcd", "workers", "servers", "lb"} :
               cfg'[k] = cfg[k]
      BY <3>1 DEF TypeOK, Config
    <3>3. QED BY <1>a, <3>1, <3>2, ReadyKeeps DEF Sub
  <2>3. QED BY <2>1, <2>2
<1>12. ASSUME NEW n \in Node, Deliver(n) PROVE DoneInv'
  <2>1. CASE Fail
    BY <1>b, <2>1
  <2>2. CASE ~Fail
    <3>1. at = "copy" /\ at' = "copy" /\ UNCHANGED <<nodes, known, vpc, lb, cfg>>
      BY <1>12, <2>2 DEF Deliver, aws
    <3>2. QED BY <1>a, <3>1, ReadyKeeps
  <2>3. QED BY <2>1, <2>2
<1>13. CASE StageEnds
  <2>1. CASE Fail
    BY <1>b, <2>1
  <2>2. CASE ~Fail
    <3>1. /\ at = "copy" /\ at' \in {"copy", "created"}
          /\ UNCHANGED <<nodes, known, vpc, lb, cfg>>
      BY <1>13, <2>2 DEF StageEnds, aws
    <3>2. QED BY <1>a, <3>1, ReadyKeeps
  <2>3. QED BY <2>1, <2>2
<1>14. CASE CreateReturns
  <2>1. /\ at = "created" /\ at' = "idle" /\ disk' = cfg /\ cfg' = cfg
        /\ UNCHANGED <<nodes, known, vpc, lb>>
    BY <1>14 DEF CreateReturns, Goto, aws, Sync
  <2>2. /\ Made("masters") /\ vpc /\ cfg.vpcid /\ cfg.masters /\ cfg.servers
        /\ cfg.lb /\ cfg.registered /\ lb = "registered"
        /\ \A g \in Sub : Ready(g)
    BY <1>a, <2>1
  <2>3. \A g \in Group : nodes[g] = "up"
    BY <2>2 DEF Group, Ready, Made
  <2>a. known' = Node \/ "slow" \in blame'
    <3>1. "slow" \in blame \/ (Masters \subseteq known /\ Workers \subseteq known)
      BY <2>2 DEF Ready, Made, NodesOf, Sub
    <3>2. QED BY <1>a, <2>1, <3>1 DEF TypeOK, Node
  <2>4. cfg["etcd"] /\ cfg["workers"]
    BY <2>2 DEF Ready, Sub
  <2>5. cfg = [k \in DOMAIN NoConfig |-> TRUE]
    <3>1. cfg \in [DOMAIN NoConfig -> BOOLEAN]
          /\ DOMAIN NoConfig = {"masters", "etcd", "workers", "lb", "registered",
                                "vpcid", "servers"}
      BY DEF TypeOK, Config, NoConfig
    <3>2. \A k \in DOMAIN NoConfig : cfg[k] = TRUE
      BY <2>2, <2>4, <3>1
    <3>3. QED BY <3>1, <3>2
  <2>6. QED BY <2>1, <2>2, <2>3, <2>a, <2>5
<1>15. CASE Deregister \/ DeleteLoadBalancer
  BY <1>0, <1>15 DEF Deregister, DeleteLoadBalancer, Tear
<1>16. CASE StartTerminate \/ Collect \/ Collected
  BY <1>0, <1>16 DEF StartTerminate, Collect, Collected, Tear
<1>17. CASE TerminateMasters
  <2>1. at' = "idle" /\ (op' = "Create" => errs')
    BY <1>17 DEF TerminateMasters, Returned
  <2>2. QED BY <1>0, <2>1
<1>18. QED
  BY <1>1, <1>2, <1>3, <1>4, <1>5, <1>6, <1>7, <1>8, <1>9, <1>10, <1>11, <1>12,
     <1>13, <1>14, <1>15, <1>16, <1>17 DEF Next, Steps

-----------------------------------------------------------------------------
(* A Create that failed.                                                   *)
LEMMA MastersGone ==
  ASSUME TypeOK, NEW e \in BOOLEAN, TerminateEC2Masters(e), ~InVPC,
         vpc => ~e, nodes["masters"] # "none" => vpc, lb' = lb
  PROVE  Nothing'
<1>1. ~vpc' /\ nodes' = [nodes EXCEPT !["masters"] = "none"]
  <2>1. CASE vpc
    BY <2>1 DEF TerminateEC2Masters
  <2>2. CASE ~vpc
    <3>1. nodes["masters"] = "none" /\ ~Stray("masters")
      BY <2>2 DEF Stray
    <3>2. ~vpc'
      BY <2>2 DEF TerminateEC2Masters
    <3>3. QED BY <2>2, <3>1, <3>2 DEF TerminateEC2Masters
  <2>3. QED BY <2>1, <2>2
<1>2. QED BY <1>1 DEF InVPC, Nothing, TypeOK, Group, Sub

(* Wherever Create fails after the masters are recorded, everything that   *)
(* exists is recorded.                                                     *)
LEMMA FailTaken ==
  ASSUME TypeOK, MadeInv, go = Quiet, op = "Create", Fail, UNCHANGED aws,
         at \in {"check", "validate", "lb", "register", "copy"}
  PROVE  FreshInv' /\ MadeInv' /\ TakenInv' /\ RollsBackEverything'
<1>1. at' = "deregister" /\ UNCHANGED <<nodes, vpc, lb, cfg, go, op>>
  BY DEF Fail, aws, routines
<1>2. cfg.masters /\ vpc /\ (lb # "none" => cfg.lb)
  BY DEF MadeInv, CreateStep
<1>3. \A g \in Sub : nodes[g] # "none" => cfg[g]
  BY DEF MadeInv, CreateStep, Unrecorded, Quiet
<1>4. TakenInv'
  BY <1>1, <1>2, <1>3 DEF TakenInv
<1>5. MadeInv'
  BY <1>1 DEF MadeInv, CreateStep, Quiet
<1>6. QED BY <1>1, <1>4, <1>5 DEF FreshInv, RollsBackEverything, Returns

(* While terminate() runs no Create does.                                  *)
LEMMA TearMade ==
  ASSUME at' \in TearStep \cup {"off", "idle"}, \A g \in Sub : go'[g] # "create"
  PROVE  MadeInv'
BY DEF MadeInv, TearStep, CreateStep

(* A Create starts with what an earlier process left only if the file      *)
(* names its VPC, or something went wrong before.                          *)
LEMMA RollCreate ==
  ASSUME TypeOK, GoInv, OpInv, RollInv, Create PROVE RollInv'
<1> SUFFICES ASSUME blame' = {}
             PROVE  FreshInv' /\ MadeInv' /\ TakenInv' /\ RollsBackEverything'
  BY DEF RollInv
<1> USE DEF CreateStep, TearStep, Returns
<1>1. /\ at = "idle" /\ op = "none" /\ op' = "Create" /\ at' = "masters"
      /\ UNCHANGED <<nodes, vpc, lb, disk, cfg, go>>
  BY DEF Create, Call, aws, routines
<1>2. ~cfg.vpcid /\ (Nothing \/ blame = {})
  BY DEF Create
<1>3. Nothing
  BY <1>1, <1>2 DEF RollInv, FreshInv, OpInv
<1>4. go' = Quiet
  BY <1>1 DEF GoInv
<1>5. QED
  BY <1>1, <1>2, <1>3, <1>4
  DEF FreshInv, MadeInv, TakenInv, RollsBackEverything, Nothing, Quiet

LEMMA RollStep ==
  ASSUME TypeOK, GoInv, OpInv, RollInv, Next, ~Create PROVE RollInv'
<1> SUFFICES ASSUME blame' = {}
             PROVE  FreshInv' /\ MadeInv' /\ TakenInv' /\ RollsBackEverything'
  BY DEF RollInv
<1>a. blame = {} /\ FreshInv /\ MadeInv /\ TakenInv /\ RollsBackEverything
  BY BlameGrows DEF RollInv
<1> USE DEF CreateStep, TearStep, Returns
<1>1. CASE NewDeployer
  <2>1. /\ at = "off" /\ op = "none" /\ op' = "none" /\ at' = "idle"
        /\ UNCHANGED <<nodes, vpc, lb, disk, go>>
    BY <1>1 DEF NewDeployer, aws, routines, OpInv
  <2>2. \A g \in Sub : go'[g] # "create"
    BY <2>1 DEF GoInv, Quiet
  <2>3. MadeInv'
    BY <2>1, <2>2, TearMade
  <2>4. QED
    BY <1>a, <2>1, <2>3 DEF FreshInv, TakenInv, RollsBackEverything, Nothing
<1>2. CASE Exit \/ Crash
  <2>1. Exit
    BY <1>2 DEF Crash
  <2>2. /\ at = "idle" /\ op' = "none" /\ at' = "off" /\ go' = Quiet
        /\ UNCHANGED <<nodes, vpc, lb, disk>>
    BY <2>1 DEF Exit, ProcessEnds, EndRoutines, aws
  <2>3. MadeInv'
    BY <2>2, TearMade DEF Quiet
  <2>4. QED
    BY <1>a, <2>2, <2>3 DEF FreshInv, TakenInv, RollsBackEverything, Nothing
<1>4. CASE Terminate
  <2>1. /\ at = "idle" /\ op' = "Terminate" /\ at' = "deregister"
        /\ UNCHANGED <<nodes, vpc, lb, disk, go>>
    BY <1>4 DEF Terminate, Call, aws, routines
  <2>2. MadeInv'
    BY <2>1, TearMade DEF GoInv, Quiet
  <2>3. QED
    BY <1>a, <2>1, <2>2 DEF FreshInv, TakenInv, RollsBackEverything, Nothing
<1>5. CASE CreateMasters
  <2>1. at = "masters" /\ Nothing /\ op = "Create" /\ go = Quiet /\ lb' = lb
    BY <1>a, <1>5 DEF CreateMasters, MadeInv, OpInv, GoInv
  <2>2. CASE Fail
    <3>1. at' = "deregister" /\ UNCHANGED <<nodes, vpc, go, op>>
      BY <1>5, <2>2 DEF CreateMasters, Fail, routines, Goto, Launches
    <3>2. MadeInv'
      BY <2>1, <3>1, TearMade DEF Quiet
    <3>3. TakenInv'
      BY <2>1, <3>1 DEF TakenInv, Nothing, Group
    <3>4. QED BY <2>1, <3>1, <3>2, <3>3 DEF FreshInv, RollsBackEverything
  <2>3. CASE ~Fail
    <3>1. /\ at' = "flag" /\ op' = op /\ vpc' /\ go' = go
          /\ nodes' = [nodes EXCEPT !["masters"] = "up"]
          /\ cfg' = [cfg EXCEPT !.vpcid = TRUE]
      BY <1>5, <2>3 DEF CreateMasters, Goto, routines
    <3>2. cfg'.vpcid /\ \A g \in Sub : nodes'[g] = "none"
      BY <2>1, <3>1 DEF TypeOK, Config, Group, Sub, Nothing
    <3>3. MadeInv'
      BY <2>1, <3>1, <3>2 DEF MadeInv, Nothing, Quiet
    <3>4. QED BY <2>1, <3>1, <3>3 DEF FreshInv, TakenInv, RollsBackEverything
  <2>4. QED BY <2>2, <2>3
<1>6. CASE CreateMastersAgain
  BY <1>a, <1>6 DEF CreateMastersAgain, MadeInv, Nothing, Group
<1>7. CASE FlagMasters
  <2>1. /\ at = "flag" /\ at' = "wait" /\ UNCHANGED <<nodes, vpc, lb, op>>
        /\ cfg' = [cfg EXCEPT !.masters = TRUE]
    BY <1>7 DEF FlagMasters, Goto, aws
  <2>2. cfg'.masters /\ cfg'.vpcid = cfg.vpcid
    BY <2>1 DEF TypeOK, Config
  <2>3. \A g \in Sub : nodes'[g] = "none"
    BY <1>a, <2>1 DEF MadeInv
  <2>4. MadeInv'
    BY <1>a, <2>1, <2>2, <2>3 DEF MadeInv, Unrecorded
  <2>5. QED BY <2>1, <2>4 DEF FreshInv, TakenInv, RollsBackEverything, OpInv
<1>8. ASSUME NEW g \in Sub, SubCreate(g) \/ SubTest(g)
      PROVE  FreshInv' /\ MadeInv' /\ TakenInv' /\ RollsBackEverything'
  <2>1. go[g] \in {"create", "test"} /\ SubSteps(g)
    BY <1>8 DEF SubCreate, SubTest, SubSteps
  <2>2. at \in {"wait", "check"} /\ op = "Create" /\ at' = at /\ op' = op
    BY <2>1, SubWhere, SubAlone
  <2>3. /\ vpc' /\ cfg'.vpcid /\ cfg'.masters /\ lb' = "none"
        /\ \A h \in Sub \ {g} : nodes'[h] = nodes[h] /\ go'[h] = go[h]
                                /\ cfg'[h] = cfg[h] /\ own'[h] = own[h]
    BY <1>a, <2>1, <2>2, SubAlone DEF MadeInv
  <2>4. /\ Unrecorded(g)' => go'[g] = "test" /\ ~own'[g]
        /\ go'[g] # "create"
    <3>1. CASE SubCreate(g)
      <4>1. nodes[g] = "none" /\ go'[g] = "test"
        BY <1>a, <3>1 DEF SubCreate, Routine, TypeOK, MadeInv
      <4>2. \/ own' = [own EXCEPT ![g] = FALSE]
            \/ nodes' = nodes
        BY <3>1 DEF SubCreate, Assign, Launches
      <4>3. QED BY <4>1, <4>2 DEF Unrecorded, TypeOK
    <3>2. CASE SubTest(g)
      <4>1. PICK e \in BOOLEAN :
              /\ Reads_err(g, e) /\ Routine(g, IF e THEN "error" ELSE "nil")
              /\ IF e THEN UNCHANGED <<cfg, disk>>
                 ELSE cfg' = [cfg EXCEPT ![g] = TRUE] /\ Sync
        BY <3>2 DEF SubTest
      <4>2. e = own[g] /\ nodes' = nodes
        BY <3>2, <4>1 DEF SubTest, Reads_err, aws
      <4>3. go'[g] # "create"
        BY <4>1 DEF Routine, TypeOK
      <4>4. CASE e
        BY <1>a, <2>2, <4>1, <4>2, <4>3, <4>4 DEF MadeInv, Unrecorded
      <4>5. CASE ~e
        <5>1. cfg'[g]
          BY <4>1, <4>5 DEF TypeOK, Config, Sub
        <5>2. QED BY <4>3, <5>1 DEF Unrecorded
      <4>6. QED BY <4>4, <4>5
    <3>3. QED BY <1>8, <3>1, <3>2
  <2>5. ASSUME NEW h \in Sub
        PROVE  /\ Unrecorded(h)' => go'[h] = "test" /\ ~own'[h]
               /\ go'[h] = "create" => nodes'[h] = "none"
    <3>1. CASE h = g
      BY <2>4, <3>1
    <3>2. CASE h # g
      BY <1>a, <2>2, <2>3, <3>2 DEF MadeInv, Unrecorded
    <3>3. QED BY <3>1, <3>2
  <2>6. MadeInv'
    BY <2>2, <2>3, <2>5 DEF MadeInv
  <2>7. QED BY <2>2, <2>6 DEF FreshInv, TakenInv, RollsBackEverything
<1>9. ASSUME NEW g \in Sub, SubTerminate(g)
      PROVE  FreshInv' /\ MadeInv' /\ TakenInv' /\ RollsBackEverything'
  <2>1. go[g] = "terminate" /\ SubSteps(g)
    BY <1>9 DEF SubTerminate, SubSteps
  <2>2. at = "collect" /\ at' = at /\ op' = op /\ UNCHANGED <<vpc, lb>> /\ disk' = disk
    BY <1>9, <2>1, SubWhere, SubAlone DEF SubTerminate
  <2>3. /\ cfg'.masters = cfg.masters /\ nodes'["masters"] = nodes["masters"]
        /\ \A h \in Sub \ {g} : nodes'[h] = nodes[h] /\ go'[h] = go[h]
    BY <2>1, SubAlone
  <2>a. go'[g] \in {"nil", "error"}
    BY <1>9 DEF SubTerminate, Routine, TypeOK
  <2>b. nodes'[g] # "none" => nodes[g] # "none"
    BY <1>9 DEF SubTerminate, Stray, TypeOK, Group
  <2>c. go'[g] = "nil" => nodes'[g] = "none"
    BY <1>9 DEF SubTerminate, Routine, TypeOK, Group
  <2>4. /\ go'[g] \in {"nil", "error"} /\ (nodes[g] = "none" => nodes'[g] = "none")
        /\ nodes'[g] # "none" => go'[g] = "error"
    BY <2>a, <2>b, <2>c
  <2>5. MadeInv'
    <3>1. \A h \in Sub : go'[h] # "create"
      BY <2>2, <2>3, <2>4 DEF GoInv
    <3>2. QED BY <2>2, <3>1, TearMade
  <2>6. TakenInv'
    BY <1>a, <2>2, <2>3, <2>4 DEF TakenInv
  <2>7. Nothing => Nothing'
    BY <2>2, <2>3, <2>4 DEF Nothing, Group
  <2>8. QED BY <1>a, <2>2, <2>5, <2>6, <2>7 DEF FreshInv, RollsBackEverything
<1>10. CASE Receive
  <2>1. PICK g \in Sub : go[g] \in {"nil", "error"} /\ Routine(g, "none")
                         /\ Assign("main", go[g] = "error")
    BY <1>10 DEF Receive
  <2>2. at = "wait" /\ at' = "check" /\ UNCHANGED <<nodes, vpc, lb, cfg, op>>
    BY <1>10 DEF Receive, Goto, aws
  <2>3. /\ go'[g] = "none" /\ \A h \in Sub \ {g} : go'[h] = go[h]
        /\ \A h \in Sub : own'[h] = own[h]
    BY <2>1 DEF Routine, Assign, TypeOK, Sub
  <2>4. MadeInv'
    BY <1>a, <2>1, <2>2, <2>3 DEF MadeInv, Unrecorded
  <2>5. QED BY <2>2, <2>4 DEF FreshInv, TakenInv, RollsBackEverything, OpInv
<1>11. CASE Check
  <2>1. at = "check" /\ op = "Create" /\ UNCHANGED aws
    BY <1>11 DEF Check, OpInv
  <2>2. CASE Fail
    <3>1. ~(got < 2)
      BY <1>11, <2>2 DEF Check, Fail
    <3>2. go = Quiet
      BY <2>1, <3>1, AllCollected DEF GoInv, TypeOK
    <3>3. QED BY <1>a, <2>1, <2>2, <3>2, FailTaken
  <2>3. CASE ~Fail
    <3>1. at' \in {"wait", "validate"}
          /\ UNCHANGED <<nodes, vpc, lb, cfg, op, go, own>>
      BY <1>11, <2>3 DEF Check, Goto, aws, routines
    <3>2. MadeInv'
      BY <1>a, <2>1, <3>1 DEF MadeInv, Unrecorded
    <3>3. QED BY <2>1, <3>1, <3>2 DEF FreshInv, TakenInv, RollsBackEverything
  <2>4. QED BY <2>2, <2>3
<1>12. CASE Validate
  <2>1. at = "validate" /\ op = "Create" /\ go = Quiet /\ UNCHANGED aws
    BY <1>12 DEF Validate, OpInv, GoInv, StepFails
  <2>2. CASE Fail
    BY <1>a, <2>1, <2>2, FailTaken
  <2>3. CASE ~Fail
    <3>1. at' = "lb" /\ UNCHANGED <<nodes, vpc, lb, op, go, own>>
          /\ cfg' = [cfg EXCEPT !.servers = nodes["etcd"] = "up"]
      BY <1>12, <2>3 DEF Validate, StepFails, Goto, aws, routines
    <3>2. \A k \in {"masters", "vpcid", "etcd", "workers", "lb"} : cfg'[k] = cfg[k]
      BY <3>1 DEF TypeOK, Config
    <3>3. MadeInv'
      BY <1>a, <2>1, <3>1, <3>2 DEF MadeInv, Unrecorded, Sub
    <3>4. QED BY <2>1, <3>1, <3>3 DEF FreshInv, TakenInv, RollsBackEverything
  <2>4. QED BY <2>2, <2>3
<1>13. CASE CreateLoadBalancer
  <2>1. at = "lb" /\ op = "Create" /\ go = Quiet
    BY <1>13 DEF CreateLoadBalancer, OpInv, GoInv
  <2>2. CASE Fail
    <3>1. UNCHANGED aws
      BY <1>13, <2>2 DEF CreateLoadBalancer, StepFails, Goto, Fail
    <3>2. QED BY <1>a, <2>1, <2>2, <3>1, FailTaken
  <2>3. CASE ~Fail
    <3>1. at' = "flagLB" /\ UNCHANGED <<nodes, vpc, cfg, op, go, own>>
      BY <1>13, <2>3 DEF CreateLoadBalancer, StepFails, Goto, routines
    <3>2. MadeInv'
      <4>1. /\ lb = "none" /\ vpc /\ cfg.vpcid /\ cfg.masters
            /\ \A g \in Sub : ~Unrecorded(g)
        BY <1>a, <2>1 DEF MadeInv, Quiet
      <4>2. QED BY <2>1, <3>1, <4>1 DEF MadeInv, Unrecorded, Quiet
    <3>3. QED BY <2>1, <3>1, <3>2 DEF FreshInv, TakenInv, RollsBackEverything
  <2>4. QED BY <2>2, <2>3
<1>14. CASE FlagLoadBalancer
  <2>1. /\ at = "flagLB" /\ at' = "register"
        /\ UNCHANGED <<nodes, vpc, op, go, own>>
        /\ cfg' = [cfg EXCEPT !.lb = TRUE] /\ op = "Create"
    BY <1>14 DEF FlagLoadBalancer, Goto, aws, routines, OpInv
  <2>2. cfg'.lb /\ \A k \in {"masters", "vpcid", "etcd", "workers"} : cfg'[k] = cfg[k]
    BY <2>1 DEF TypeOK, Config
  <2>3. MadeInv'
    BY <1>a, <2>1, <2>2 DEF MadeInv, Unrecorded, Sub
  <2>4. QED BY <2>1, <2>3 DEF FreshInv, TakenInv, RollsBackEverything
<1>15. CASE RegisterInstances
  <2>1. at = "register" /\ op = "Create" /\ go = Quiet
    BY <1>15 DEF RegisterInstances, OpInv, GoInv
  <2>2. CASE Fail
    <3>1. UNCHANGED aws
      BY <1>15, <2>2 DEF RegisterInstances, StepFails, Fail
    <3>2. QED BY <1>a, <2>1, <2>2, <3>1, FailTaken
  <2>3. CASE ~Fail
    <3>1. at' = "copy" /\ UNCHANGED <<nodes, vpc, op, go, own>>
          /\ cfg' = [cfg EXCEPT !.registered = TRUE]
      BY <1>15, <2>3 DEF RegisterInstances, StepFails, routines
    <3>2. \A k \in {"masters", "vpcid", "etcd", "workers", "lb"} : cfg'[k] = cfg[k]
      BY <3>1 DEF TypeOK, Config
    <3>3. MadeInv'
      BY <1>a, <2>1, <3>1, <3>2 DEF MadeInv, Unrecorded, Sub
    <3>4. QED BY <2>1, <3>1, <3>3 DEF FreshInv, TakenInv, RollsBackEverything
  <2>4. QED BY <2>2, <2>3
<1>16. ASSUME NEW n \in Node, Deliver(n)
       PROVE  FreshInv' /\ MadeInv' /\ TakenInv' /\ RollsBackEverything'
  <2>1. at = "copy" /\ op = "Create" /\ go = Quiet /\ UNCHANGED aws
    BY <1>16 DEF Deliver, OpInv, GoInv
  <2>2. CASE Fail
    BY <1>a, <2>1, <2>2, FailTaken
  <2>3. CASE ~Fail
    <3>1. at' = "copy" /\ UNCHANGED <<nodes, vpc, lb, cfg, op, go, own>>
      BY <1>16, <2>3 DEF Deliver, aws, routines
    <3>2. MadeInv'
      BY <1>a, <2>1, <3>1 DEF MadeInv, Unrecorded
    <3>3. QED BY <2>1, <3>1, <3>2 DEF FreshInv, TakenInv, RollsBackEverything
  <2>4. QED BY <2>2, <2>3
<1>17. CASE StageEnds
  <2>1. at = "copy" /\ op = "Create" /\ go = Quiet /\ UNCHANGED aws
    BY <1>17 DEF StageEnds, OpInv, GoInv
  <2>2. CASE Fail
    BY <1>a, <2>1, <2>2, FailTaken
  <2>3. CASE ~Fail
    <3>1. at' \in {"copy", "created"}
          /\ UNCHANGED <<nodes, vpc, lb, cfg, op, go, own>>
      BY <1>17, <2>3 DEF StageEnds, aws, routines
    <3>2. MadeInv'
      BY <1>a, <2>1, <3>1 DEF MadeInv, Unrecorded
    <3>3. QED BY <2>1, <3>1, <3>2 DEF FreshInv, TakenInv, RollsBackEverything
  <2>4. QED BY <2>2, <2>3
<1>18. CASE CreateReturns
  <2>1. at = "created" /\ at' = "idle" /\ disk' = cfg /\ ~errs' /\ go' = Quiet
    BY <1>18 DEF CreateReturns, Goto, Sync, OpInv, GoInv, routines
  <2>2. cfg.vpcid
    BY <1>a, <2>1 DEF MadeInv
  <2>3. MadeInv'
    BY <2>1, TearMade DEF Quiet
  <2>4. QED BY <2>1, <2>2, <2>3 DEF FreshInv, TakenInv, RollsBackEverything
<1>19. CASE Deregister \/ DeleteLoadBalancer
  <2>1. /\ at \in {"deregister", "deleteLB"} /\ at' \in {"deleteLB", "subs"}
        /\ UNCHANGED <<nodes, vpc, disk, op, go>>
    BY <1>19 DEF Deregister, DeleteLoadBalancer, Tear, routines
  <2>2. MadeInv'
    BY <2>1, TearMade DEF GoInv, Quiet
  <2>3. \A k \in {"masters", "etcd", "workers"} : cfg'[k] = cfg[k]
    BY <1>19 DEF Deregister, DeleteLoadBalancer, TypeOK, Config
  <2>4. lb = "none" => lb' = "none"
    BY <1>19 DEF Deregister, DeleteLoadBalancer
  <2>5. op = "Create" /\ lb' # "none" => at' = "deleteLB" /\ cfg'.lb
    <3>1. CASE Deregister
      <4>1. at' = "deleteLB" /\ cfg'.lb = cfg.lb
        BY <3>1 DEF Deregister, Tear, TypeOK, Config
      <4>2. QED BY <1>a, <2>1, <2>4, <4>1 DEF TakenInv
    <3>2. CASE DeleteLoadBalancer
      <4>1. lb' = "none" \/ (~cfg.lb /\ lb' = lb)
        BY <3>2 DEF DeleteLoadBalancer, Noted
      <4>2. QED BY <1>a, <2>1, <2>4, <4>1 DEF TakenInv
    <3>3. QED BY <1>19, <3>1, <3>2
  <2>6. TakenInv'
    BY <1>a, <2>1, <2>3, <2>5 DEF TakenInv, Sub
  <2>7. Nothing => Nothing'
    BY <2>1, <2>4 DEF Nothing
  <2>8. QED BY <1>a, <2>1, <2>2, <2>6, <2>7 DEF FreshInv, RollsBackEverything
<1>20. CASE StartTerminate
  <2>1. /\ at = "subs" /\ at' = "collect" /\ UNCHANGED <<nodes, vpc, lb, disk, cfg, op>>
        /\ go' = [g \in Sub |-> IF cfg[g] THEN "terminate" ELSE "none"]
    BY <1>20 DEF StartTerminate, Tear, aws
  <2>2. MadeInv'
    BY <2>1, TearMade
  <2>3. TakenInv'
    BY <1>a, <2>1 DEF TakenInv
  <2>4. QED
    BY <1>a, <2>1, <2>2, <2>3 DEF FreshInv, RollsBackEverything, Nothing
<1>21. CASE Collect
  <2>1. PICK g \in Sub : /\ go[g] \in {"nil", "error"} /\ Routine(g, "none")
                         /\ Noted(go[g] = "error")
    BY <1>21 DEF Collect
  <2>2. /\ at = "collect" /\ at' = "collect"
        /\ UNCHANGED <<nodes, vpc, lb, disk, cfg, op>>
    BY <1>21 DEF Collect, Tear, aws
  <2>3. go[g] # "error"
    BY <2>1 DEF Noted
  <2>4. go'[g] = "none" /\ \A h \in Sub \ {g} : go'[h] = go[h]
    BY <2>1 DEF Routine, TypeOK
  <2>5. \A h \in Sub : go'[h] # "create"
    BY <2>2, <2>4 DEF GoInv
  <2>6. MadeInv'
    BY <2>2, <2>5, TearMade
  <2>7. TakenInv'
    BY <1>a, <2>1, <2>2, <2>3, <2>4 DEF TakenInv
  <2>8. QED
    BY <1>a, <2>2, <2>6, <2>7 DEF FreshInv, RollsBackEverything, Nothing
<1>22. CASE Collected
  <2>1. /\ at = "collect" /\ at' = "mastersDown" /\ got = 2
        /\ UNCHANGED <<nodes, vpc, lb, disk, cfg, op, go>>
    BY <1>22 DEF Collected, Tear, aws, routines
  <2>2. go = Quiet
    BY <2>1, AllCollected DEF GoInv
  <2>3. MadeInv'
    BY <2>1, <2>2, TearMade DEF Quiet
  <2>4. op = "Create" => \A g \in Sub : nodes[g] = "none"
    BY <1>a, <2>1, <2>2 DEF TakenInv, Quiet
  <2>5. TakenInv'
    BY <1>a, <2>1, <2>4 DEF TakenInv
  <2>6. QED
    BY <1>a, <2>1, <2>3, <2>5 DEF FreshInv, RollsBackEverything, Nothing
<1>23. CASE TerminateMasters
  <2>1. /\ at = "mastersDown" /\ at' = "idle" /\ go' = Quiet
        /\ UNCHANGED <<lb, disk, op>>
    BY <1>23 DEF TerminateMasters, Returned, EndRoutines
  <2>2. MadeInv'
    BY <2>1, TearMade DEF Quiet
  <2>3. ASSUME op = "Create" \/ Nothing PROVE Nothing'
    <3>1. ~InVPC
      BY <1>a, <2>1, <2>3 DEF TakenInv, InVPC, Nothing, Group
    <3>2. CASE cfg.masters
      <4>1. PICK e \in BOOLEAN :
              /\ TerminateEC2Masters(e)
              /\ blame' = IF e /\ vpc /\ ~InVPC THEN blame \cup {"delete"} ELSE blame
        BY <1>23, <3>2 DEF TerminateMasters
      <4>2. (vpc => ~e) /\ (nodes["masters"] # "none" => vpc)
        BY <1>a, <2>1, <2>3, <3>1, <4>1 DEF TakenInv, Nothing, Group
      <4>3. QED BY <2>1, <3>1, <4>1, <4>2, MastersGone
    <3>3. CASE ~cfg.masters
      <4>1. ~vpc /\ nodes["masters"] = "none" /\ UNCHANGED <<nodes, vpc>>
        BY <1>a, <1>23, <2>1, <2>3, <3>3
        DEF TerminateMasters, TakenInv, Nothing, Group
      <4>2. QED BY <2>1, <3>1, <4>1 DEF InVPC, Nothing, Group
    <3>4. QED BY <3>2, <3>3
  <2>4. QED
    BY <1>a, <2>1, <2>2, <2>3 DEF FreshInv, TakenInv, RollsBackEverything
<1>24. QED
  BY <1>1, <1>2, <1>4, <1>5, <1>6, <1>7, <1>8, <1>9, <1>10, <1>11, <1>12, <1>13,
     <1>14, <1>15, <1>16, <1>17, <1>18, <1>19, <1>20, <1>21, <1>22, <1>23
  DEF Next, Steps, SubSteps

-----------------------------------------------------------------------------
(* All of it, and what follows.                                            *)
IInv == TypeOK /\ OpInv /\ GoInv /\ TermInv /\ RollInv /\ DoneInv /\ FilesInv

LEMMA InitIInv == Init => IInv
<1> SUFFICES ASSUME Init PROVE IInv
  OBVIOUS
<1>1. TypeOK
  BY InitTyped
<1>2. at = "off" /\ op = "none" /\ go = Quiet /\ got = 0 /\ cfg = disk /\ ~errs
      /\ Nothing
  BY DEF Init, Nothing
<1>3. OpInv /\ GoInv
  BY <1>2 DEF OpInv, GoInv, CreateStep, TearStep, Quiet
<1>4. TermInv /\ FilesInv
  BY <1>2 DEF TermInv, FilesInv, Returns
<1>5. RollInv
  BY <1>2 DEF RollInv, FreshInv, MadeInv, TakenInv, RollsBackEverything, Returns,
     CreateStep, Quiet
<1>6. DoneInv
  BY <1>2 DEF DoneInv, CreateMeansComplete, Returns, CreateStep
<1>7. QED BY <1>1, <1>3, <1>4, <1>5, <1>6 DEF IInv

LEMMA StutterIInv == ASSUME IInv, UNCHANGED vars PROVE IInv'
<1> USE DEF vars, aws, copying, routines, Returns, Nothing
<1>1. TypeOK'
  BY NextTyped DEF IInv
<1>2. OpInv' /\ GoInv'
  BY DEF IInv, OpInv, GoInv, Collected2
<1>3. TermInv' /\ FilesInv'
  BY DEF IInv, TermInv, FilesInv, Delivered, Todo
<1>4. RollInv'
  BY DEF IInv, RollInv, FreshInv, MadeInv, TakenInv, Unrecorded, RollsBackEverything
<1>5. DoneInv'
  BY DEF IInv, DoneInv, Ready, Made, CreateMeansComplete
<1>6. QED BY <1>1, <1>2, <1>3, <1>4, <1>5 DEF IInv

LEMMA Inductive == Spec => []IInv
<1>1. IInv /\ [Next]_vars => IInv'
  BY NextTyped, OpStep, GoStep, TermStep, RollStep, RollCreate, DoneStep, DoneCreate,
     FilesStep, StutterIInv
  DEF IInv
<1>2. QED BY <1>1, InitIInv, PTL DEF Spec

(* Every variable keeps its type: got never passes two, whatever            *)
(* goroutines were started.                                                *)
THEOREM TypeCorrect == Spec => []TypeOK
BY Inductive, PTL DEF IInv

(* A Terminate that returns nil, called with the masters recorded, has     *)
(* left no node, recorded or not, no load balancer and not the masters'    *)
(* VPC.                                                                    *)
THEOREM TerminateLeavesNothing == Spec => []TerminateMeansGone
<1>1. IInv => TerminateMeansGone
  BY DEF IInv, TermInv, OpInv, TerminateMeansGone, Returns
<1>2. QED BY <1>1, Inductive, PTL

(* A Create that fails leaves nothing, unless something in Cause happened: *)
(* what nobody tries to delete was left, or a deletion failed, or polling  *)
(* stopped early, or err was misread, or a process died before.            *)
THEOREM RollsBack == Spec => []RollsBackEverything
<1>1. IInv => RollsBackEverything
  BY DEF IInv, RollInv, RollsBackEverything
<1>2. QED BY <1>1, Inductive, PTL

(* A Create that returns nil has launched every node and recorded all, but *)
(* for those that missed a deadline, whichever goroutine came first, unless *)
(* it misread err.                                                         *)
THEOREM CreateCompletes == Spec => []CreateMeansComplete
<1>1. IInv => CreateMeansComplete
  BY DEF IInv, DoneInv, CreateMeansComplete
<1>2. QED BY <1>1, Inductive, PTL

(* After it every service of a recorded node finds the files it reads, in  *)
(* the places where several stages write too.                              *)
THEOREM FilesFound == Spec => []ServicesFindTheirFiles
<1>1. IInv => ServicesFindTheirFiles
  <2> SUFFICES ASSUME IInv, Returns("Create"), ~errs,
                      NEW group \in {"masters", "workers"},
                      NEW n \in NodesOf(group) \cap known,
                      NEW c \in Services(group), NEW read \in Reads(c)
               PROVE  files[n][read[1]] = read[2]
    BY DEF ServicesFindTheirFiles
  <2>1. PICK i \in 1..Len(Stages) :
          Stages[i].group = group /\ read \in Stages[i].files
    BY ReadsSent
  <2>2. Delivered(n, i)
    BY <2>1 DEF IInv, FilesInv, Todo
  <2>3. QED BY <2>1, <2>2 DEF Delivered
<1>2. QED BY <1>1, Inductive, PTL
=============================================================================

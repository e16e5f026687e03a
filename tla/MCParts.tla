------------------------------ MODULE MCParts ------------------------------
(***************************************************************************)
(* Parts that share no state, in one model: an SSH connection, the CSI     *)
(* tester, kubetest's EKS deployer, the kubeadm deployer, the worker node  *)
(* group of the EKS tester, an S3 bucket and the prow status server.  In a *)
(* behaviour one of them moves and the others stay in their initial state, *)
(* which visits the states of each once and not their product.             *)
(***************************************************************************)
EXTENDS Integers, FiniteSets

CONSTANTS Key, MaxRetries, MaxCalls, Faults, Resources, Masters, Workers, MaxOps,
          Batch, MaxSize, MaxMade, Deployer, MaxTries, Client

ASSUME RetriesAssumption == MaxRetries \in Nat
ASSUME CallsAssumption == MaxCalls \in Nat
ASSUME ResourcesAssumption == Resources \in Nat \ {0}
ASSUME BatchAssumption == Batch \in Nat
ASSUME SizeAssumption == MaxSize \in Nat /\ MaxMade \in Nat
ASSUME TriesAssumption == MaxTries \in Nat \ {0}
ASSUME NodesAssumption == Masters \cap Workers = {}

VARIABLES
  part,                                                \* the one that moves
  retries, phase, key, budget, tries, err, cutOff, calls,          \* SSHClient
  iam, known, ec2, terminate, stage, undone, deleted,              \* CSITester
  cloud, disk, pc, mem, worker, sigint, main, watcher, stopped,
  expired, downNil, lost, outran,                           \* KubetestDeployer
  nodes, recorded, vpc, lb, conf, file, kubelet, inited, joined, admin, step, op,
  errs, fails, blame, had, ops,                                    \* Kubeadm
  size, sshAccess, privileged, stack, machine, ready, replaced, rules, point,
  left, described, workers, applied, cause, again,               \* NodeGroup
  logs, expires, bucket, dress, objects, cached, doing, tried, gaveUp,
  outdated,                                                       \* S3Bucket
  at, held, counted, all, table, fresh, message, rows           \* ProwStatus

Ssh == INSTANCE SSHClient
Csi == INSTANCE CSITester
Kubetest == INSTANCE KubetestDeployer
Adm == INSTANCE Kubeadm
Group == INSTANCE NodeGroup
S3 == INSTANCE S3Bucket
(* Two providers of one category, and a second category.                   *)
Prow == INSTANCE ProwStatus WITH
          Tests <- {<<"e2e", "AWS">>, <<"e2e", "GCP">>, <<"kops", "GCP">>}

sshVars == <<retries, phase, key, budget, tries, err, cutOff, calls>>
csiVars == <<iam, known, ec2, terminate, stage, undone, deleted>>
kubetestVars == <<cloud, disk, pc, mem, worker, sigint, main, watcher,
                  stopped, expired, downNil, lost, outran>>
kubeadmVars == <<nodes, recorded, vpc, lb, conf, file, kubelet, inited, joined,
                 admin, step, op, errs, fails, blame, had, ops>>
groupVars == <<size, sshAccess, privileged, stack, machine, ready, replaced,
               rules, point, left, described, workers, applied, cause, again>>
s3Vars == <<logs, expires, bucket, dress, objects, cached, doing, tried,
            gaveUp, outdated>>
prowVars == <<at, held, counted, all, table, fresh, message, rows>>
firstVars == <<sshVars, csiVars, kubetestVars, kubeadmVars>>
laterVars == <<groupVars, s3Vars, prowVars>>
vars == <<part, firstVars, laterVars>>

Init ==
  /\ part \in {"ssh", "csi", "kubetest", "kubeadm", "group", "s3", "prow"}
  /\ Ssh!Init /\ Csi!Init /\ Kubetest!Init /\ Adm!Init
  /\ Group!Init /\ S3!Init /\ Prow!Init
  /\ part # "ssh" => key = CHOOSE k \in Key : TRUE
  /\ part # "csi" => terminate
  /\ part # "group" => size = 1 /\ ~sshAccess /\ ~privileged
  /\ part # "s3" => ~logs /\ ~expires /\ bucket = "none"

SshNext ==
  /\ part = "ssh" /\ Ssh!Next
  /\ UNCHANGED <<part, csiVars, kubetestVars, kubeadmVars, laterVars>>
CsiNext ==
  /\ part = "csi" /\ Csi!Next
  /\ UNCHANGED <<part, sshVars, kubetestVars, kubeadmVars, laterVars>>
KubetestNext ==
  /\ part = "kubetest" /\ Kubetest!Next
  /\ UNCHANGED <<part, sshVars, csiVars, kubeadmVars, laterVars>>
KubeadmNext ==
  /\ part = "kubeadm" /\ Adm!Next
  /\ UNCHANGED <<part, sshVars, csiVars, kubetestVars, laterVars>>

GroupNext ==
  /\ part = "group" /\ Group!Next
  /\ UNCHANGED <<part, firstVars, s3Vars, prowVars>>
S3Next ==
  /\ part = "s3" /\ S3!Next
  /\ UNCHANGED <<part, firstVars, groupVars, prowVars>>
ProwNext ==
  /\ part = "prow" /\ Prow!Next
  /\ UNCHANGED <<part, firstVars, groupVars, s3Vars>>

Next ==
  \/ SshNext \/ CsiNext \/ KubetestNext \/ KubeadmNext
  \/ GroupNext \/ S3Next \/ ProwNext

Spec == Init /\ [][Next]_vars

-----------------------------------------------------------------------------
(* The types of the parts.                                                 *)
TypeOK ==
  /\ Ssh!TypeOK /\ Csi!TypeOK /\ Kubetest!TypeOK /\ Adm!TypeOK
  /\ Group!TypeOK /\ S3!TypeOK /\ Prow!TypeOK

(* The properties, as the modules state them: Run, Send and Download of    *)
(* internal/ssh try as often as they were told.                            *)
TriesAsBudgeted == Ssh!TriesAsBudgeted

(* The CSI tester with --terminate-on-exit.                                *)
NothingLeft == Csi!NothingLeft

(* Kubetest's Up and Down, and the file between them.                      *)
DownMeansGone == Kubetest!DownMeansGone
FileKnows == Kubetest!FileKnows

(* What the kubeadm deployer's Create and Terminate leave and make.        *)
KubeadmTerminates == Adm!TerminateMeansGone
KubeadmRollsBack == Adm!RollsBackEverything
CreateMeansJoined == Adm!CreateMeansJoined

(* The ports and the instances of the EKS tester's worker node group.      *)
SecondRound == Group!SecondRound
WorkersRecorded == Group!WorkersRecorded

(* A bucket that a deployer remembers is set up.                           *)
BucketReady == S3!BucketReady

(* The counts and the rows of the prow status page belong together.        *)
PageTellsUpstream == Prow!PageTellsUpstream
=============================================================================

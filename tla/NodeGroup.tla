------------------------------ MODULE NodeGroup ------------------------------
(***************************************************************************)
(* createWorkerNode of internal/eks after CreateStack: the loop that waits *)
(* for the CloudFormation stack of the worker nodes, opens ports and       *)
(* checks the Auto Scaling group (checkASG), which starts from its top     *)
(* when a check fails, and the loop that joins the nodes to the cluster.   *)
(* EKSTester knows all this as one stage; here it is taken apart.          *)
(***************************************************************************)
EXTENDS Integers, Sequences, FiniteSets

CONSTANTS
  Faults,   \* a subset of {"createError", "signal", "timeout", ...}
  Batch,    \* instances in one DescribeInstances: ten
  MaxSize,  \* bound: the largest WorkerNodeASGMax
  MaxMade   \* bound: instances that the group makes, replacements included

VARIABLES
  size,        \* WorkerNodeASGMax
  sshAccess,   \* EnableWorkerNodeSSH
  privileged,  \* EnableWorkerNodePrivilegedPortAccess
  stack,       \* the stack at AWS
  machine,     \* instances by ID: none yet, starting, running, or gone
  ready,       \* the nodes that Kubernetes takes for ready
  rules,       \* the ports that the security group admits
  point,       \* where createWorkerNode is
  left,        \* checkASG: ids
  described,   \* checkASG: the instances described
  workers,     \* ClusterState.WorkerNodes
  applied,     \* the config map is in the cluster
  cause,       \* what made createWorkerNode fail
  replaced,    \* an instance was lost since checkASG listed the group
  again        \* a checkASG has failed

config == <<size, sshAccess, privileged>>
aws == <<stack, machine, ready, replaced>>
check == <<left, described, workers>>
vars == <<config, aws, check, rules, point, applied, cause, again>>

Instances == 1..MaxMade
(* Those that the group lists as healthy.                                  *)
Listed == {i \in Instances : machine[i] \in {"starting", "running"}}

TypeOK ==
  /\ size \in 1..MaxSize /\ sshAccess \in BOOLEAN /\ privileged \in BOOLEAN
  /\ stack \in {"progress", "complete", "failed"}
  /\ machine \in [Instances -> {"none", "starting", "running", "gone"}]
  /\ ready \subseteq Instances /\ replaced \in BOOLEAN
  /\ rules \subseteq {"ssh", "ports"}
  /\ point \in {"poll", "ssh", "ports", "asg", "batch", "join", "created",
                "failed", "interrupted"}
  /\ applied \in BOOLEAN /\ again \in BOOLEAN
  /\ left \in Seq(Instances)
  /\ described \subseteq Instances /\ workers \subseteq Instances
  /\ cause \in {"none", "api", "deadline", "duplicate"}

Init ==
  /\ size \in 1..MaxSize /\ sshAccess \in BOOLEAN /\ privileged \in BOOLEAN
  /\ stack = "progress" /\ machine = [i \in Instances |-> "none"]
  /\ ready = {} /\ replaced = FALSE
  /\ rules = {} /\ point = "poll"
  /\ left = <<>> /\ described = {} /\ workers = {}
  /\ applied = FALSE /\ cause = "none" /\ again = FALSE

APIFails == "createError" \in Faults
Running == point \notin {"created", "failed", "interrupted"}

-----------------------------------------------------------------------------
(* AWS: the stack is made, its instances start, and the group replaces one *)
(* that is lost by another.                                                *)
StackEnds ==
  /\ Running /\ stack = "progress"
  /\ stack' \in {"complete"} \cup (IF APIFails THEN {"failed"} ELSE {})
  /\ UNCHANGED <<config, machine, ready, replaced, rules, point, check, applied,
                 cause, again>>

Becomes(i, state) == machine' = [machine EXCEPT ![i] = state]

MachineChanges(i) ==
  /\ Running /\ stack = "complete"
  /\ \/ machine[i] = "none" /\ (\A j \in 1..i - 1 : machine[j] # "none")
        /\ Cardinality(Listed) < size
        /\ Becomes(i, "starting") /\ UNCHANGED replaced
     \/ machine[i] = "starting" /\ Becomes(i, "running") /\ UNCHANGED replaced
     \/ machine[i] \in {"starting", "running"} /\ Becomes(i, "gone")
        /\ replaced' = TRUE
  /\ UNCHANGED <<config, stack, ready, rules, point, check, applied, cause, again>>

(* Kubernetes: a node joins once it may, and is noticed to be gone.        *)
NodeChanges(i) ==
  /\ Running
  /\ \/ applied /\ machine[i] = "running" /\ ready' = ready \cup {i}
     \/ machine[i] = "gone" /\ ready' = ready \ {i}
  /\ UNCHANGED <<config, stack, machine, replaced, rules, point, check, applied,
                 cause, again>>

-----------------------------------------------------------------------------
Goto(next) ==
  point' = next /\ UNCHANGED <<config, stack, machine, ready, applied, cause>>
Fail(why) ==
  /\ point' = "failed" /\ cause' = why
  /\ UNCHANGED <<config, aws, rules, check, applied, again>>
Stay == UNCHANGED <<rules, replaced, again>>

AfterSSH == IF privileged THEN "ports" ELSE "asg"
AfterPoll == IF sshAccess THEN "ssh" ELSE AfterSSH

(* DescribeStacks.                                                         *)
Poll ==
  /\ point = "poll"
  /\ \/ (APIFails \/ stack = "progress") /\ Goto("poll") /\ Stay /\ UNCHANGED check
     \/ stack = "failed" /\ Fail("api")
     \/ stack = "complete" /\ Goto(AfterPoll) /\ Stay /\ UNCHANGED check

(* The loop is over: the last error is returned, and without one the stack *)
(* was never complete and its outputs are not there, which is an error too.*)
Deadline == point = "poll" /\ "timeout" \in Faults /\ Fail("deadline")

(* <-md.stopc, in both loops: nil is returned.                             *)
Interrupted ==
  /\ point \in {"poll", "join"} /\ "signal" \in Faults
  /\ Goto("interrupted") /\ Stay /\ UNCHANGED check

(* AuthorizeSecurityGroupIngress: EC2 rejects a rule that is there.        *)
Authorize(rule, next) ==
  \/ /\ rule \notin rules /\ rules' = rules \cup {rule}
     /\ Goto(next) /\ UNCHANGED <<check, replaced, again>>
  \/ rule \in rules /\ Fail("duplicate")

\* variant with a bug: the rules that there are are not looked at
OpenSSHBlindly ==
  /\ point = "ssh"
  /\ Authorize("ssh", AfterSSH) \/ (APIFails /\ Fail("api"))

(* Port 22 is opened, unless the rules that are looked up first have it.   *)
OpenSSH ==
  /\ point = "ssh"
  /\ \/ "ssh" \in rules /\ Goto(AfterSSH) /\ Stay /\ UNCHANGED check
     \/ "ssh" \notin rules /\ Authorize("ssh", AfterSSH)
     \/ APIFails /\ Fail("api")

(* The ports below 1024 are opened, whatever the rules say.                *)
OpenPorts ==
  /\ point = "ports"
  /\ Authorize("ports", "asg") \/ (APIFails /\ Fail("api"))

-----------------------------------------------------------------------------
(* checkASG.  An error starts the loop of createWorkerNode again.          *)
Again ==
  /\ Goto("poll") /\ again' = TRUE
  /\ UNCHANGED <<rules, replaced, check>>

(* The group lists its instances in any order.                             *)
Orders ==
  {s \in [1..size -> Listed] : \A i \in Listed : \E k \in 1..size : s[k] = i}

\* variant with a bug: the number of instances is not compared
CheckGroupAny ==
  /\ point = "asg"
  /\ \/ /\ left' = SelectSeq([i \in Instances |-> i], LAMBDA i : i \in Listed)
        /\ described' = {} /\ replaced' = FALSE
        /\ Goto("batch") /\ UNCHANGED <<rules, workers, again>>
     \/ APIFails /\ Again

(* The group must list as many instances as it may have, all healthy.      *)
CheckGroup ==
  /\ point = "asg"
  /\ \/ /\ Cardinality(Listed) = size
        /\ left' \in Orders /\ described' = {} /\ replaced' = FALSE
        /\ Goto("batch") /\ UNCHANGED <<rules, workers, again>>
     \/ (APIFails \/ Cardinality(Listed) # size) /\ Again

(* ids[:10] of more is described, and then again: ids = ids[:10].          *)
DescribeBatch ==
  /\ point = "batch"
  /\ LET more == Len(left) > Batch
         ids == IF more THEN SubSeq(left, 1, Batch) ELSE left
         batch == {ids[k] : k \in 1..Len(ids)}
         up == \A i \in batch : machine[i] = "running"
     IN \/ /\ up /\ described' = described \cup batch
           /\ left' = ids
           /\ IF more THEN Goto("batch") /\ UNCHANGED workers
              ELSE Goto("join") /\ workers' = described'
           /\ Stay
        \/ (APIFails \/ ~up) /\ Again

-----------------------------------------------------------------------------
(* kubectl apply of the config map, once it works, then kubectl get nodes  *)
(* until as many are ready as the group may have.                          *)
Apply ==
  /\ point = "join" /\ ~applied
  /\ applied' = TRUE
  /\ UNCHANGED <<config, aws, rules, point, check, cause, again>>

NodesReady ==
  /\ point = "join" /\ applied /\ Cardinality(ready) = size
  /\ Goto("created") /\ Stay /\ UNCHANGED check

NeverReady ==
  /\ point = "join" /\ "timeout" \in Faults /\ Fail("deadline")

Next ==
  \/ StackEnds \/ \E i \in Instances : MachineChanges(i) \/ NodeChanges(i)
  \/ Poll \/ Deadline \/ Interrupted \/ OpenSSH \/ OpenPorts
  \/ CheckGroup \/ DescribeBatch
  \/ Apply \/ NodesReady \/ NeverReady

Spec == Init /\ [][Next]_vars

-----------------------------------------------------------------------------
(* A checkASG that fails is tried again, and the rules that the first      *)
(* round has made do not end the second: unless privileged ports are asked *)
(* for, which are authorized again without a look, so that such a group    *)
(* must be complete when it is first checked or is never created.          *)
SecondRound ==
  /\ cause = "duplicate" => privileged
  /\ privileged /\ again => point \notin {"batch", "join", "created"}

(* WorkerNodes has the nodes that are ready, however often checkASG had to *)
(* start over and whatever was lost before, if no instance was lost since  *)
(* it listed the group: it is not called again while the nodes join, so    *)
(* that a later replacement is not recorded and the lost one stays.  And   *)
(* if they fit into one batch: of more it has only the first batch.        *)
WorkersRecorded ==
  point = "created" /\ size <= Batch /\ ~replaced => workers = ready
=============================================================================

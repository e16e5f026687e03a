----------------------------- MODULE EC2Contract -----------------------------
(***************************************************************************)
(* What ec2.Deployer promises those that are built on it, the etcd tester  *)
(* and the Kubernetes and kubeadm deployers (internal/ec2, type Deployer). *)
(* An operation works, and a Create that fails reverts: it creates nothing *)
(* any more.  Terminate only reverts.  Delete ends one instance and Add    *)
(* makes one.  A Terminate without an error has left no instance, and no   *)
(* security group that would keep the VPC of another deployer.             *)
(***************************************************************************)

CONSTANTS
  Instance,  \* instances
  Base       \* what they need

VARIABLES
  phase,   \* off, idle, working, reverting
  op,      \* the operation
  errs,    \* it has failed
  up,      \* the instances that run or will
  ending,  \* the instances that were asked to end
  base     \* what exists of Base

vars == <<phase, op, errs, up, ending, base>>

Init ==
  /\ phase = "off" /\ op = "none" /\ errs = FALSE
  /\ up = {} /\ ending = {} /\ base \in SUBSET Base

Open == phase = "off" /\ phase' = "idle" /\ UNCHANGED <<op, errs, up, ending, base>>

(* The process ends, also in an operation: the instances stay.             *)
Close ==
  /\ phase' = "off" /\ op' = "none" /\ errs' = FALSE
  /\ base' \subseteq base
  /\ UNCHANGED <<up, ending>>

Call(o) ==
  /\ phase = "idle" /\ op' = o /\ errs' = FALSE
  /\ phase' = IF o = "Terminate" THEN "reverting" ELSE "working"
  /\ UNCHANGED <<up, ending, base>>

CallDelete(i) ==
  /\ phase = "idle" /\ op' = "Delete"
  /\ \/ /\ phase' = "working" /\ errs' = FALSE
        /\ up' = up \ {i} /\ ending' = ending \cup (up \cap {i})
     \/ phase' = "idle" /\ errs' = TRUE /\ UNCHANGED <<up, ending>>
  /\ UNCHANGED base

Grow ==
  /\ phase = "working" /\ op = "Create"
  /\ base \subseteq base' /\ up \subseteq up'
  /\ UNCHANGED <<phase, op, errs, ending>>

GrowByOne ==
  /\ phase = "working" /\ op = "Add"
  /\ up \subseteq up' /\ \E i \in Instance : up' \subseteq up \cup {i}
  /\ UNCHANGED <<phase, op, errs, ending, base>>

(* Perhaps after a last call that worked.                                  *)
Revert ==
  /\ phase = "working" /\ op = "Create"
  /\ phase' = "reverting" /\ errs' = TRUE
  /\ base \subseteq base'
  /\ UNCHANGED <<op, up, ending>>

Shrink ==
  /\ phase = "reverting"
  /\ base' \subseteq base
  /\ up' \subseteq up /\ ending' = ending \cup (up \ up')
  /\ errs => errs'
  /\ UNCHANGED <<phase, op>>

(* Nothing is undone when Add or Delete fails.                             *)
Return ==
  /\ phase = "working" /\ phase' = "idle"
  /\ op = "Create" => UNCHANGED errs
  /\ UNCHANGED <<op, up, ending, base>>

ReturnReverted ==
  /\ phase = "reverting" /\ phase' = "idle"
  /\ op = "Create" => errs
  /\ op = "Terminate" /\ ~errs => up \cup ending = {} /\ "sg" \notin base
  /\ UNCHANGED <<op, errs, up, ending, base>>

InstanceEnds == ending' \subseteq ending /\ UNCHANGED <<phase, op, errs, up, base>>

Next ==
  \/ Open \/ Close
  \/ \E o \in {"Create", "Add", "Terminate"} : Call(o)
  \/ \E i \in Instance : CallDelete(i)
  \/ Grow \/ GrowByOne \/ Revert \/ Shrink \/ Return \/ ReturnReverted
  \/ InstanceEnds

Spec == Init /\ [][Next]_vars
=============================================================================

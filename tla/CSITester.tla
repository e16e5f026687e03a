------------------------------ MODULE CSITester ------------------------------
(***************************************************************************)
(* "csi test integration" (internal/csi): an instance profile, a policy    *)
(* and a role are made and joined, an EC2 instance is created with them,   *)
(* the integration test runs on it over SSH, and with --terminate-on-exit  *)
(* everything is deleted.  A failure among the IAM resources deletes what  *)
(* there is, or panics on the way; one of the instance always panics.      *)
(***************************************************************************)
EXTENDS Naturals

CONSTANTS
  Faults  \* what may go wrong, a subset of {"createError", "deleteError",
          \* "timeout"}; timeout: the instance does not run in time

VARIABLES
  iam,        \* the IAM resources and their two links at AWS
  known,      \* the resources of iamResources that are not nil
  ec2,        \* the EC2 instance and what it needs: none, made, or left
              \* with an instance that its deployer never recorded
  terminate,  \* --terminate-on-exit
  stage,      \* the next step, or how the process ended
  undone,     \* whether this deletion was for a creation that failed
  deleted     \* FALSE after an error in deleting

vars == <<iam, known, ec2, terminate, stage, undone, deleted>>

Resource == {"profile", "policy", "role"}
Link == {"attached", "member"}
CreateStep == {"profile", "policy", "role", "attach", "add"}
DeleteStep == {"terminate", "remove", "delprofile", "detach", "delpolicy", "delrole"}
Ended == {"done", "failed", "panic"}

TypeOK ==
  /\ iam \subseteq Resource \cup Link /\ known \subseteq Resource
  /\ ec2 \in {"none", "made", "left"} /\ terminate \in BOOLEAN /\ undone \in BOOLEAN
  /\ deleted \in BOOLEAN
  /\ stage \in CreateStep \cup {"ec2", "test"} \cup DeleteStep \cup Ended

Init ==
  /\ iam = {} /\ known = {} /\ ec2 = "none"
  /\ terminate \in BOOLEAN
  /\ stage = "profile" /\ undone = FALSE /\ deleted = TRUE

CreateFails == "createError" \in Faults
DeleteFails == "deleteError" \in Faults

-----------------------------------------------------------------------------
(* createIAMResources and NewTester.                                       *)

(* The deferred function: deleteIAMResources.                              *)
Undo == stage' = "remove" /\ undone' = TRUE

Make(own, r, next) ==
  /\ stage = own
  /\ \/ /\ iam' = iam \cup {r}
        /\ known' = known \cup ({r} \cap Resource)
        /\ stage' = next /\ UNCHANGED undone
     \/ CreateFails /\ Undo /\ UNCHANGED <<iam, known>>
  /\ UNCHANGED <<ec2, terminate, deleted>>

CreateInstanceProfile    == Make("profile", "profile", "policy")
CreatePolicy             == Make("policy", "policy", "role")
CreateRole               == Make("role", "role", "attach")
AttachRolePolicy         == Make("attach", "attached", "add")
AddRoleToInstanceProfile == Make("add", "member", "ec2")

(* NewDeployer and Create.  Create may return nil without the instance     *)
(* that it has launched.  "return nil, ..." sets the named result tester,  *)
(* so that the deferred function, which is to delete the IAM resources,    *)
(* panics on tester.iam.                                                   *)
CreateInstance ==
  /\ stage = "ec2"
  /\ \/ /\ ec2' \in {"made"} \cup {e \in {"left"} : "timeout" \in Faults}
        /\ stage' = "test" /\ UNCHANGED <<undone, known>>
     \/ /\ CreateFails /\ ec2' \in {"none", "left"}
        /\ stage' = "panic" /\ undone' = TRUE /\ known' = {}
  /\ UNCHANGED <<iam, terminate, deleted>>

\* variant with a bug: a failed test does not take the instance down
TestSkipsDown ==
  /\ stage = "test"
  /\ stage' \in {"failed", IF terminate THEN "terminate" ELSE "done"}
  /\ UNCHANGED <<iam, known, ec2, terminate, undone, deleted>>

(* The connection, the test and its output; afterwards, passed or failed,  *)
(* Down() or a list of commands for the user.                              *)
Test ==
  /\ stage = "test"
  /\ stage' = IF terminate THEN "terminate" ELSE "done"
  /\ UNCHANGED <<iam, known, ec2, terminate, undone, deleted>>

-----------------------------------------------------------------------------
(* Down: the error of ec.Terminate is dropped, also that of an instance    *)
(* that it does not know.                                                  *)

Terminate ==
  /\ stage = "terminate" /\ stage' = "remove"
  /\ \/ ec2 # "left" /\ ec2' = "none" /\ UNCHANGED deleted
     \/ (ec2 = "left" \/ DeleteFails) /\ deleted' = FALSE /\ UNCHANGED ec2
  /\ UNCHANGED <<iam, known, terminate, undone>>

(* deleteIAMResources.  A call that AWS refuses, or that fails, skips the  *)
(* deletion that depends on it.                                            *)
Try(possible, gone, ok, otherwise) ==
  \/ /\ possible
     /\ iam' = iam \ {gone} /\ stage' = ok
     /\ known' = known \ {gone} /\ UNCHANGED deleted
  \/ /\ ~possible \/ DeleteFails
     /\ stage' = otherwise /\ deleted' = FALSE
     /\ UNCHANGED <<iam, known>>

Skip(next) == stage' = next /\ UNCHANGED <<iam, known, deleted>>

(* The request names the role: without one the program panics.             *)
RemoveRole ==
  /\ stage = "remove"
  /\ IF "profile" \notin known THEN Skip("detach")
     ELSE IF "role" \notin known THEN Skip("panic")
     ELSE Try("member" \in iam, "member", "delprofile", "detach")
  /\ UNCHANGED <<ec2, terminate, undone>>

DeleteInstanceProfile ==
  /\ stage = "delprofile"
  /\ Try("member" \notin iam, "profile", "detach", "detach")
  /\ UNCHANGED <<ec2, terminate, undone>>

DetachRolePolicy ==
  /\ stage = "detach"
  /\ IF "policy" \notin known THEN Skip("delrole")
     ELSE IF "role" \notin known THEN Skip("panic")
     ELSE Try("attached" \in iam, "attached", "delpolicy", "delrole")
  /\ UNCHANGED <<ec2, terminate, undone>>

DeletePolicy ==
  /\ stage = "delpolicy"
  /\ Try("attached" \notin iam, "policy", "delrole", "delrole")
  /\ UNCHANGED <<ec2, terminate, undone>>

Returned == IF undone THEN "failed" ELSE "done"

DeleteRole ==
  /\ stage = "delrole"
  /\ IF "role" \notin known THEN Skip(Returned)
     ELSE Try(iam \cap Link = {}, "role", Returned, Returned)
  /\ UNCHANGED <<ec2, terminate, undone>>

Next ==
  \/ CreateInstanceProfile \/ CreatePolicy \/ CreateRole
  \/ AttachRolePolicy \/ AddRoleToInstanceProfile \/ CreateInstance
  \/ Test \/ Terminate
  \/ RemoveRole \/ DeleteInstanceProfile \/ DetachRolePolicy \/ DeletePolicy
  \/ DeleteRole

Spec == Init /\ [][Next]_vars

-----------------------------------------------------------------------------
(* With --terminate-on-exit a tester that was set up leaves nothing, if    *)
(* no deletion failed: the two links go before what they join, whether the *)
(* test passed or not.                                                     *)
NothingLeft ==
  stage \in Ended /\ terminate /\ ~undone /\ deleted => iam = {} /\ ec2 = "none"

(* "If an error occurs, any created IAm resources are automatically        *)
(* deleted" (createIAMResources).                                          *)
CreatedResourcesDeleted == stage \in Ended /\ undone => iam \cap Resource = {}
=============================================================================

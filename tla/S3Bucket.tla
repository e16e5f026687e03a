------------------------------- MODULE S3Bucket -------------------------------
(***************************************************************************)
(* A bucket of internal/eks/s3 (the plugin's bucket for tests or for       *)
(* access logs) and of internal/ec2/s3.go: several deployers, in one or    *)
(* several processes, share it, since its name is the tag.  Each remembers *)
(* in a map of its own (existing, s3Buckets) that it is there, and skips   *)
(* from then on what makes it and sets its tags, policy and lifecycle.     *)
(***************************************************************************)
EXTENDS Naturals, FiniteSets

CONSTANTS
  Deployer,  \* those that share the bucket
  MaxTries   \* CreateBucket is tried thirty times

VARIABLES
  logs,      \* it is the bucket for access logs
  expires,   \* UploadBucketExpireDays > 0
  bucket,    \* at S3: none, ours, theirs (another account's)
  dress,     \* what has been set on it
  objects,   \* something lies in it
  cached,    \* the deployers that have it in their map
  doing,     \* where a deployer's call is
  tried,     \* its failed tries of CreateBucket
  gaveUp,    \* those whose last try failed
  outdated   \* those that had it, or were setting it up, when another deleted it

vars == <<logs, expires, bucket, dress, objects, cached, doing, tried, gaveUp,
          outdated>>
s3 == <<bucket, dress, objects>>
memory == <<cached, gaveUp, outdated>>
config == <<logs, expires>>

(* What a call sets, in this order.                                        *)
Dress == {"tags"} \cup (IF logs THEN {"policy"} ELSE {})
                  \cup (IF expires THEN {"lifecycle"} ELSE {})

TypeOK ==
  /\ logs \in BOOLEAN /\ expires \in BOOLEAN
  /\ bucket \in {"none", "ours", "theirs"}
  /\ dress \subseteq {"tags", "policy", "lifecycle"} /\ objects \in BOOLEAN
  /\ cached \subseteq Deployer /\ gaveUp \subseteq Deployer
  /\ outdated \subseteq Deployer
  /\ doing \in [Deployer -> {"idle", "create", "tags", "policy", "lifecycle",
                             "put", "remove"}]
  /\ tried \in [Deployer -> 0..MaxTries]

Init ==
  /\ logs \in BOOLEAN /\ expires \in BOOLEAN
  /\ bucket \in {"none", "theirs"} /\ dress = {} /\ objects = FALSE
  /\ cached = {} /\ gaveUp = {} /\ outdated = {}
  /\ doing = [d \in Deployer |-> "idle"] /\ tried = [d \in Deployer |-> 0]

Goto(d, next) == doing' = [doing EXCEPT ![d] = next]
(* An error is returned.                                                   *)
Fail(d) == Goto(d, "idle") /\ UNCHANGED <<config, s3, memory, tried>>

(* The step after one of the loop; there is nothing to upload to the       *)
(* bucket for access logs.                                                 *)
Use == IF logs THEN "idle" ELSE "put"
After(step) ==
  IF step = "tags" /\ logs THEN "policy"
  ELSE IF step # "lifecycle" /\ expires THEN "lifecycle" ELSE "use"
(* The loop is left, and the bucket recorded.                              *)
Proceed(d, step) ==
  IF After(step) # "use" THEN Goto(d, After(step)) /\ UNCHANGED cached
  ELSE Goto(d, Use) /\ cached' = cached \cup {d}

-----------------------------------------------------------------------------
(* CreateBucketForAccessLogs, UploadToBucketForTests.                      *)
Call(d) ==
  /\ doing[d] = "idle"
  /\ Goto(d, IF d \in cached THEN Use ELSE "create")
  /\ tried' = [tried EXCEPT ![d] = 0]
  /\ outdated' = outdated \ ({d} \ cached)
  /\ UNCHANGED <<config, s3, cached, gaveUp>>

(* A bucket that exists is taken for ours.                                 *)
Create(d) ==
  /\ doing[d] = "create"
  /\ IF bucket = "none" THEN bucket' = "ours" /\ dress' = {}
     ELSE UNCHANGED <<bucket, dress>>
  /\ Goto(d, "tags") /\ UNCHANGED <<config, objects, memory, tried>>

(* A conflict or a throttled request: after the last try the loop ends     *)
(* like one that was left, and the bucket is recorded.                     *)
Retry(d) ==
  /\ doing[d] = "create"
  /\ tried' = [tried EXCEPT ![d] = @ + 1]
  /\ IF tried'[d] < MaxTries THEN Goto(d, "create") /\ UNCHANGED memory
     ELSE /\ cached' = cached \cup {d} /\ gaveUp' = gaveUp \cup {d}
          /\ Goto(d, Use) /\ UNCHANGED outdated
  /\ UNCHANGED <<config, s3>>

(* Any step may be refused, and a change of another's bucket always is.    *)
Refuse(d) ==
  /\ doing[d] \in {"create", "tags", "policy", "lifecycle", "put"} /\ Fail(d)

\* variant with a bug: recorded as soon as it has its tags
PutRecorded(d) ==
  /\ doing[d] \in {"tags", "policy", "lifecycle"} /\ bucket = "ours"
  /\ dress' = dress \cup {doing[d]}
  /\ Goto(d, IF After(doing[d]) = "use" THEN Use ELSE After(doing[d]))
  /\ cached' = cached \cup {d}
  /\ UNCHANGED <<config, bucket, objects, tried, gaveUp, outdated>>

(* PutBucketTagging, PutBucketPolicy, addLifecycle.                        *)
Put(d) ==
  /\ doing[d] \in {"tags", "policy", "lifecycle"} /\ bucket = "ours"
  /\ dress' = dress \cup {doing[d]} /\ Proceed(d, doing[d])
  /\ UNCHANGED <<config, bucket, objects, tried, gaveUp, outdated>>

PutObject(d) ==
  /\ doing[d] = "put" /\ bucket = "ours"
  /\ objects' = TRUE /\ Goto(d, "idle")
  /\ UNCHANGED <<config, bucket, dress, memory, tried>>

SettingUp == {d \in Deployer : doing[d] \in {"tags", "policy", "lifecycle"}}

(* DeleteBucket: it is emptied, and deleted if nobody has filled it since. *)
Empty(d) ==
  /\ doing[d] = "idle" /\ bucket = "ours"
  /\ objects' = FALSE /\ Goto(d, "remove")
  /\ UNCHANGED <<config, bucket, dress, memory, tried>>

Remove(d) ==
  /\ doing[d] = "remove"
  /\ \/ /\ bucket = "ours" /\ ~objects
        /\ bucket' = "none" /\ dress' = {}
        /\ cached' = cached \ {d} /\ gaveUp' = gaveUp \ {d}
        /\ outdated' = (outdated \cup cached \cup SettingUp) \ {d}
        /\ Goto(d, "idle") /\ UNCHANGED <<config, objects, tried>>
     \/ Fail(d)

(* The process dies, and the next one has an empty map.                    *)
Restart(d) ==
  /\ cached' = cached \ {d} /\ gaveUp' = gaveUp \ {d}
  /\ outdated' = outdated \ {d} /\ Goto(d, "idle")
  /\ UNCHANGED <<config, s3, tried>>

Next ==
  \E d \in Deployer :
    \/ Call(d) \/ Create(d) \/ Retry(d) \/ Refuse(d) \/ Put(d) \/ PutObject(d)
    \/ Empty(d) \/ Remove(d) \/ Restart(d)

Spec == Init /\ [][Next]_vars

-----------------------------------------------------------------------------
(* A deployer that has the bucket in its map uses one of this account,     *)
(* with its tags, policy and lifecycle, whoever made it and whatever       *)
(* failed then, unless its own tries were used up or another deployer has  *)
(* deleted the bucket since it began.                                      *)
BucketReady ==
  \A d \in cached \ (gaveUp \cup outdated) : bucket = "ours" /\ Dress \subseteq dress
=============================================================================

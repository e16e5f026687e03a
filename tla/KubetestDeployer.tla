-------------------------- MODULE KubetestDeployer --------------------------
(***************************************************************************)
(* The EKS deployer for kubetest (kubetest/eks) in the end-to-end suite    *)
(* that uses it: Up runs "eks create cluster" as a process, Down "eks      *)
(* delete cluster", and they share nothing but the configuration file.     *)
(* On a signal the suite calls Stop and Down while Up and, after it, the   *)
(* suite's own Down go on, so that three processes may write the file.     *)
(* What the processes do is EKSTester's in short: resources are made one   *)
(* by one, each recorded after it was made, and deletions work.            *)
(***************************************************************************)
EXTENDS Integers, FiniteSets

CONSTANTS
  Resources,  \* how many resources a cluster is made of
  Faults      \* a subset of {"createError", "signal", "timeout"}

VARIABLES
  cloud,    \* the resources that exist
  disk,     \* those that the file records, or Empty, or Torn
  pc, mem,  \* of each process: its next step and the resources it knows of
  worker,   \* the goroutine of the create process and its resource
  sigint,   \* a SIGINT that the create process has not handled
  main,     \* the suite: Up, AfterSuite, or how kubetest ended
  watcher,  \* the suite's goroutine that waits for a signal
  stopped,  \* stopc is closed
  expired,  \* the timers of process.Control have fired
  downNil,  \* a Down has returned nil
  lost,     \* what was being made when nobody waited for it any more
  outran    \* a create process ran to its end after a Down had loaded the file

aws == <<cloud, disk>>
create == <<worker, sigint, lost, outran>>
suite == <<main, watcher, stopped, expired, downNil>>
vars == <<cloud, disk, pc, mem, worker, sigint, main, watcher, stopped,
          expired, downNil, lost, outran>>

Resource == 1..Resources
Process == {"create", "watch", "after"}  \* Up, and the two Downs

(* A truncated file, and one that two processes wrote over each other.     *)
Empty == {0}
Torn == {-1}
Unusable == {Empty, Torn}

TypeOK ==
  /\ cloud \subseteq Resource /\ disk \in (SUBSET Resource) \cup Unusable
  /\ pc \in [Process -> {"off", "load", "wait", "down", "trunc", "write",
                         "ended", "failed"}]
  /\ mem \in [Process -> SUBSET Resource]
  /\ worker.at \in {"none", "making", "trunc", "write"}
  /\ worker.item \in Resource
  /\ main \in {"up", "after", "down", "exit", "panic"}
  /\ watcher \in {"wait", "load", "down", "join", "off"}
  /\ sigint \in BOOLEAN /\ stopped \in BOOLEAN /\ expired \in BOOLEAN
  /\ downNil \in BOOLEAN /\ outran \in BOOLEAN
  /\ lost \subseteq Resource /\ Cardinality(lost) <= 1

(* NewDeployer writes a new file; Up was called.                           *)
Init ==
  /\ cloud = {} /\ disk = {}
  /\ pc = [p \in Process |-> "off"] /\ mem = [p \in Process |-> {}]
  /\ worker = [at |-> "none", item |-> 1] /\ sigint = FALSE
  /\ lost = {} /\ outran = FALSE
  /\ main = "up" /\ watcher = "wait"
  /\ stopped = FALSE /\ expired = FALSE /\ downNil = FALSE

Alive == main \notin {"exit", "panic"}
Running(p) == pc[p] \notin {"off", "ended", "failed"}
Go(p, step) == pc' = [pc EXCEPT ![p] = step]
Loaded(p) == pc[p] \in {"down", "trunc", "write", "ended"}
Unwaited == IF worker.at = "none" THEN {} ELSE {worker.item}

-----------------------------------------------------------------------------
(* The file.  Sync truncates it before it writes, in one step.             *)

(* A file that another process wrote after it was truncated may end with a *)
(* rest of that.                                                           *)
Written(p) == disk' \in {mem[p]} \cup (IF disk = Empty THEN {} ELSE {Torn})

Truncate(p) ==
  /\ pc[p] = "trunc" /\ Go(p, "write") /\ disk' = Empty
  /\ UNCHANGED <<cloud, mem, create, suite>>

Write(p) ==
  /\ pc[p] = "write" /\ Go(p, "down") /\ Written(p)
  /\ UNCHANGED <<cloud, mem, create, suite>>

(* Load and NewTester.  A torn file is no configuration.  An empty one is, *)
(* without a region, and NewTester makes no session for that (awsapi.New). *)
Load(p) ==
  /\ pc[p] = "load"
  /\ IF disk \in Unusable
     THEN Go(p, "failed") /\ UNCHANGED mem
     ELSE /\ mem' = [mem EXCEPT ![p] = disk]
          /\ Go(p, IF p = "create" THEN "wait" ELSE "down")
  /\ UNCHANGED <<aws, create, suite>>

-----------------------------------------------------------------------------
(* The create process.                                                     *)

(* The next stage of Up, in catchStopc.                                    *)
Begin ==
  /\ pc["create"] = "wait" /\ worker.at = "none" /\ mem["create"] # Resource
  /\ worker' = [at |-> "making",
                item |-> CHOOSE r \in Resource \ mem["create"] :
                           \A s \in Resource \ mem["create"] : r <= s]
  /\ UNCHANGED <<aws, pc, mem, sigint, lost, outran, suite>>

Step(next) == worker' = [worker EXCEPT !.at = next]

(* The worker's steps, also when catchStopc has returned.                  *)
Make ==
  /\ worker.at = "making" /\ worker.item \notin cloud
  /\ cloud' = cloud \cup {worker.item}
  /\ UNCHANGED <<disk, pc, mem, create, suite>>

\* variant with a bug: the file is not written
MakeReturnsNoSync ==
  /\ worker.at = "making" /\ worker.item \in cloud
  /\ mem' = [mem EXCEPT !["create"] = @ \cup {worker.item}] /\ Step("none")
  /\ UNCHANGED <<aws, pc, sigint, lost, outran, suite>>

MakeReturns ==
  /\ worker.at = "making" /\ worker.item \in cloud
  /\ mem' = [mem EXCEPT !["create"] = @ \cup {worker.item}] /\ Step("trunc")
  /\ UNCHANGED <<aws, pc, sigint, lost, outran, suite>>

MakeFails ==
  /\ worker.at = "making" /\ worker.item \notin cloud
  /\ "createError" \in Faults
  /\ Step("none")
  /\ IF pc["create"] = "wait" THEN Go("create", "down") ELSE UNCHANGED pc
  /\ UNCHANGED <<aws, mem, sigint, lost, outran, suite>>

WorkerTruncate ==
  /\ worker.at = "trunc" /\ Step("write") /\ disk' = Empty
  /\ UNCHANGED <<cloud, pc, mem, sigint, lost, outran, suite>>

WorkerWrite ==
  /\ worker.at = "write" /\ Step("none") /\ Written("create")
  /\ UNCHANGED <<cloud, pc, mem, sigint, lost, outran, suite>>

Created ==
  /\ pc["create"] = "wait" /\ worker.at = "none" /\ mem["create"] = Resource
  /\ Go("create", "ended")
  /\ outran' = (outran \/ \E p \in {"watch", "after"} : Loaded(p))
  /\ UNCHANGED <<aws, mem, worker, sigint, lost, suite>>

\* variant with a bug: an interrupted Up deletes nothing
InterruptExits ==
  /\ sigint /\ pc["create"] \in {"load", "wait"}
  /\ Go("create", "failed")
  /\ lost' = lost \cup Unwaited /\ Step("none")
  /\ sigint' = FALSE
  /\ UNCHANGED <<aws, mem, outran, suite>>

(* catchStopc returns at once and Up deletes what is recorded; before Up   *)
(* a SIGINT ends the process.                                              *)
Interrupt ==
  /\ sigint /\ pc["create"] \in {"load", "wait"}
  /\ Go("create", IF pc["create"] = "load" THEN "failed" ELSE "down")
  /\ lost' = lost \cup Unwaited
  /\ sigint' = FALSE
  /\ UNCHANGED <<aws, mem, worker, outran, suite>>

(* Down, of a delete process or of a create process that failed.           *)
Last(S) == CHOOSE r \in S : \A s \in S : s <= r

Delete(p) ==
  /\ pc[p] = "down" /\ mem[p] # {}
  /\ cloud' = cloud \ {Last(mem[p])}
  /\ mem' = [mem EXCEPT ![p] = @ \ {Last(mem[p])}]
  /\ Go(p, "trunc")
  /\ UNCHANGED <<disk, create, suite>>

(* The goroutine that was left ends with its process.                      *)
Finish(p) ==
  /\ pc[p] = "down" /\ mem[p] = {}
  /\ Go(p, IF p = "create" THEN "failed" ELSE "ended")
  /\ IF p = "create" THEN Step("none") ELSE UNCHANGED worker
  /\ UNCHANGED <<aws, mem, sigint, lost, outran, suite>>

ProcessSteps(p) == Load(p) \/ Delete(p) \/ Truncate(p) \/ Write(p) \/ Finish(p)
WorkerSteps ==
  Make \/ MakeReturns \/ MakeFails \/ WorkerTruncate \/ WorkerWrite

-----------------------------------------------------------------------------
(* process.Control.                                                        *)

(* SIGKILL or SIGABRT, which a Go program does not handle either.          *)
Kill(p) ==
  /\ Go(p, "failed")
  /\ IF p = "create"
     THEN /\ lost' = lost \cup Unwaited /\ Step("none")
          /\ UNCHANGED <<sigint, outran>>
     ELSE UNCHANGED create

(* The interrupt timer and the terminate timer run from the start, with    *)
(* the same timeout.                                                       *)
Expire ==
  /\ "timeout" \in Faults /\ Alive /\ ~expired
  /\ expired' = TRUE
  /\ UNCHANGED <<aws, pc, mem, create, main, watcher, stopped, downNil>>

KillExpired(p) ==
  /\ expired /\ Alive /\ Running(p)
  /\ Kill(p)
  /\ UNCHANGED <<aws, mem, suite>>

(* Start.  Once terminated nothing is run.                                 *)
Start(p) ==
  /\ pc[p] = "off"
  /\ Go(p, IF expired THEN "failed" ELSE "load")

-----------------------------------------------------------------------------
(* The suite.                                                              *)

(* Up: the goroutine that runs the command.                                *)
UpStarts ==
  /\ main = "up" /\ Start("create")
  /\ UNCHANGED <<aws, mem, create, suite>>

UpReturns ==
  /\ main = "up"
  /\ pc["create"] \in {"ended", "failed"}
  /\ main' = "after"
  /\ UNCHANGED <<aws, pc, mem, create, watcher, stopped, expired, downNil>>

(* stopc: the process gets a SIGINT and is not waited for.  There is no    *)
(* process to signal before the command was started.                       *)
UpStopped ==
  /\ main = "up" /\ stopped
  /\ main' = IF pc["create"] = "off" THEN "panic" ELSE "after"
  /\ sigint' = (pc["create"] \in {"load", "wait"})
  /\ UNCHANGED <<aws, pc, mem, worker, lost, outran, watcher, stopped,
                 expired, downNil>>

(* SIGTERM, or SIGINT, upon which FinishRunning kills the running command. *)
Signal ==
  /\ "signal" \in Faults /\ main = "up" /\ watcher = "wait"
  /\ watcher' = "load" /\ stopped' = TRUE
  /\ \/ UNCHANGED <<pc, create>>
     \/ Running("create") /\ Kill("create")
  /\ UNCHANGED <<aws, mem, main, expired, downNil>>

(* Down: with an empty configuration there is no path of the binary, and   *)
(* no process is started.                                                  *)
Down(p) ==
  IF disk = Empty THEN pc[p] = "off" /\ Go(p, "failed") ELSE Start(p)

(* LoadConfig, twice: a torn file panics in this goroutine and fails       *)
(* AfterSuite.                                                             *)
WatcherLoads ==
  /\ Alive /\ watcher = "load"
  /\ IF disk = Torn
     THEN main' = "panic" /\ UNCHANGED <<pc, watcher>>
     ELSE watcher' = "down" /\ Down("watch") /\ UNCHANGED main
  /\ UNCHANGED <<aws, mem, create, stopped, expired, downNil>>

AfterSuite ==
  /\ main = "after"
  /\ IF disk = Torn
     THEN main' = "exit" /\ UNCHANGED pc
     ELSE main' = "down" /\ Down("after")
  /\ UNCHANGED <<aws, mem, create, watcher, stopped, expired, downNil>>

(* Down returns the error of the process.                                  *)
WatcherDown ==
  /\ Alive /\ watcher = "down" /\ pc["watch"] \in {"ended", "failed"}
  /\ watcher' = "join"
  /\ downNil' = (downNil \/ pc["watch"] = "ended")
  /\ UNCHANGED <<aws, pc, mem, create, main, stopped, expired>>

(* When Up has returned: os.Exit(1), whatever the suite is doing.          *)
WatcherExits ==
  /\ Alive /\ watcher = "join" /\ main # "up"
  /\ main' = "exit" /\ watcher' = "off"
  /\ UNCHANGED <<aws, pc, mem, create, stopped, expired, downNil>>

SuiteEnds ==
  /\ main = "down" /\ pc["after"] \in {"ended", "failed"}
  /\ main' = "exit"
  /\ downNil' = (downNil \/ pc["after"] = "ended")
  /\ UNCHANGED <<aws, pc, mem, create, watcher, stopped, expired>>

Next ==
  \/ Begin \/ WorkerSteps \/ Created \/ Interrupt
  \/ \E p \in Process : ProcessSteps(p) \/ KillExpired(p)
  \/ Expire
  \/ UpStarts \/ UpReturns \/ UpStopped \/ Signal
  \/ WatcherLoads \/ AfterSuite \/ WatcherDown \/ WatcherExits \/ SuiteEnds

Spec == Init /\ [][Next]_vars

-----------------------------------------------------------------------------
Over == ~Alive /\ \A p \in Process : ~Running(p)

(* When kubetest and its processes have ended and a Down returned nil,     *)
(* nothing is left but what was being made when the create process was     *)
(* interrupted or killed, which is one resource: also when Down ran beside *)
(* the create process or its rollback, and no truncated file was taken for *)
(* a cluster of nothing.  Two cases are not promised: the timers fired,    *)
(* which end a rollback too; and the create process ran to its end after a *)
(* Down had loaded the file, before the SIGINT reached it, for Up only     *)
(* sends the signal and nothing makes Down wait for it.                    *)
DownMeansGone ==
  Over /\ downNil /\ ~expired /\ ~outran => cloud \subseteq lost

(* Until Stop, a file that is neither truncated nor torn knows what        *)
(* exists, for a later Down: all but what is being made or recorded.       *)
FileKnows ==
  ~stopped /\ disk \notin Unusable => cloud \subseteq disk \cup lost \cup Unwaited
=============================================================================

------------------------------ MODULE SSHClient ------------------------------
(***************************************************************************)
(* One connection of internal/ssh: Run, Send and Download, which retry a   *)
(* command that failed after reconnecting.  The budget of retries is kept  *)
(* in a map under the host and the command (or local file), not in the     *)
(* call: an entry is made when there is none and removed by a success.     *)
(* Nothing is said of how long a step takes: the handshake and a new       *)
(* session have no deadline, nor has a command without WithTimeout.        *)
(***************************************************************************)
EXTENDS Integers

CONSTANTS
  Key,          \* commands and local files
  MaxRetries,   \* bound: the largest argument of WithRetry
  MaxCalls      \* bound: calls of one connection

VARIABLES
  retries,   \* the map; Absent without an entry, -1 for any negative number
  phase,     \* idle, start, command or reconnect
  key,       \* the entry of the running or last call
  budget,    \* the entry's value when that call began
  tries,     \* how often that call tried its command (up to MaxRetries + 2)
  err,       \* what it returned: none, ok, command, or session
  cutOff,    \* a reconnection of that call failed
  calls

vars == <<retries, phase, key, budget, tries, err, cutOff, calls>>

Absent == MaxRetries + 1

TypeOK ==
  /\ retries \in [Key -> -1..Absent]
  /\ phase \in {"idle", "start", "command", "reconnect"}
  /\ key \in Key /\ budget \in -1..MaxRetries
  /\ tries \in 0..MaxRetries + 2
  /\ err \in {"none", "ok", "command", "session"}
  /\ cutOff \in BOOLEAN /\ calls \in Nat

(* New and Connect.                                                        *)
Init ==
  /\ retries = [k \in Key |-> Absent]
  /\ phase = "idle" /\ key \in Key /\ budget = 0 /\ tries = 0
  /\ err = "none" /\ cutOff = FALSE /\ calls = 0

(* WithRetry(-1) asks to retry forever.                                    *)
Call(k, n) ==
  /\ phase = "idle" /\ calls < MaxCalls
  /\ key' = k
  /\ budget' = IF retries[k] = Absent THEN n ELSE retries[k]
  /\ retries' = [retries EXCEPT ![k] = budget']
  /\ phase' = "start" /\ tries' = 0 /\ err' = "none" /\ cutOff' = FALSE
  /\ calls' = calls + 1

(* No session, no scp or no key: an error without a retry, the entry       *)
(* stays.                                                                  *)
Start ==
  /\ phase = "start"
  /\ \/ phase' = "command" /\ UNCHANGED err
     \/ phase' = "idle" /\ err' = "session"
  /\ UNCHANGED <<retries, key, budget, tries, cutOff, calls>>

Tried == tries' = IF tries < MaxRetries + 2 THEN tries + 1 ELSE tries

Succeed ==
  /\ phase = "command"
  /\ Tried
  /\ retries' = [retries EXCEPT ![key] = Absent]
  /\ phase' = "idle" /\ err' = "ok"
  /\ UNCHANGED <<key, budget, cutOff, calls>>

\* variant with a bug: the last retry is not counted
FailCountsLess ==
  /\ phase = "command"
  /\ Tried
  /\ IF retries[key] \in {0, 1}
     THEN phase' = "idle" /\ err' = "command"
     ELSE phase' = "reconnect" /\ UNCHANGED err
  /\ UNCHANGED <<retries, key, budget, cutOff, calls>>

(* Also a deadline.  With the budget spent the call returns the error, and *)
(* the entry stays at zero.                                                *)
FailCommand ==
  /\ phase = "command"
  /\ Tried
  /\ IF retries[key] = 0
     THEN phase' = "idle" /\ err' = "command"
     ELSE phase' = "reconnect" /\ UNCHANGED err
  /\ UNCHANGED <<retries, key, budget, cutOff, calls>>

\* variant with a bug: an attempt adds to the budget
LessAdds(n) == IF n = -1 THEN -1 ELSE n + 1

Less(n) == IF n = -1 THEN -1 ELSE n - 1

(* for connErr != nil: every attempt to connect takes one from the budget, *)
(* and none looks whether it is spent: it may pass zero.                   *)
Reconnect ==
  /\ phase = "reconnect"
  /\ retries' = [retries EXCEPT ![key] = Less(@)]
  /\ \/ phase' = "start" /\ UNCHANGED cutOff
     \/ cutOff' = TRUE /\ UNCHANGED phase
  /\ UNCHANGED <<key, budget, tries, err, calls>>

Steps == Start \/ Succeed \/ FailCommand \/ Reconnect

Next == (\E k \in Key, n \in -1..MaxRetries : Call(k, n)) \/ Steps

Spec == Init /\ [][Next]_vars

-----------------------------------------------------------------------------
(* A call whose reconnections work tries its command once more than its    *)
(* budget before it gives up, and never more often: the budget is that of  *)
(* the caller, or what an earlier failure of the same command left.        *)
TriesAsBudgeted ==
  phase = "idle" /\ ~cutOff /\ budget >= 0 =>
    /\ err = "command" => tries = budget + 1
    /\ err = "ok" => tries <= budget + 1
=============================================================================

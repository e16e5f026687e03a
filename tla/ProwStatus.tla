------------------------------ MODULE ProwStatus ------------------------------
(***************************************************************************)
(* The prow status server, internal/prow and internal/prow/status: every   *)
(* request for the page refreshes the status first, at most once in three  *)
(* hours, and any number of requests do so at once.  A test is known by    *)
(* its category and its provider, of which a category has a row and a      *)
(* provider a column; entries with the same name count as one.             *)
(***************************************************************************)
EXTENDS FiniteSets

CONSTANTS
  Client,   \* requests that are served at the same time
  Tests     \* what upstream may define: pairs of category and provider

VARIABLES
  at,       \* where the refresh of a client is
  held,     \* status.mu: the clients that hold it
  counted,  \* the tests that refresh counted when it began
  all,      \* status.all
  table,    \* status.categoryToProviderToJob
  fresh,    \* statusUpdated lies within statusUpdateLimit
  message,  \* statusHTMLUpdateMsg: its kind, and what it counts
  rows      \* statusHTMLJobRows

vars == <<at, held, counted, all, table, fresh, message, rows>>
server == <<all, table>>
page == <<fresh, message, rows>>

Categories(tests) == {t[1] : t \in tests}
Message == [kind : {"none", "updated", "limited", "failed"}, tests : SUBSET Tests]

TypeOK ==
  /\ at \in [Client -> {"idle", "locking", "fetching", "loading", "publishing"}]
  /\ held \subseteq Client
  /\ counted \in [Client -> SUBSET Tests]
  /\ all \subseteq Tests /\ table \subseteq Tests
  /\ fresh \in BOOLEAN /\ message \in Message /\ rows \subseteq Tests

(* statusUpdated is set three hours back.                                  *)
Init ==
  /\ at = [c \in Client |-> "idle"] /\ held = {}
  /\ counted = [c \in Client |-> {}]
  /\ all = {} /\ table = {} /\ fresh = FALSE
  /\ message = [kind |-> "none", tests |-> {}] /\ rows = {}

Goto(c, next) == at' = [at EXCEPT ![c] = next]
Tell(kind, tests) == message' = [kind |-> kind, tests |-> tests]
(* refresh returns, and the lock with it.                                  *)
Done(c) ==
  /\ Goto(c, "idle") /\ held' = held \ {c}
  /\ counted' = [counted EXCEPT ![c] = {}]

-----------------------------------------------------------------------------
(* A request for the page; NewMux makes the first.                         *)
Request(c) ==
  /\ at[c] = "idle" /\ Goto(c, "locking")
  /\ UNCHANGED <<held, counted, server, page>>

\* variant with a bug: the server reads the counts without the lock
LockNothing(c) ==
  /\ at[c] = "locking"
  /\ held' = held \cup {c} /\ counted' = [counted EXCEPT ![c] = all]
  /\ Goto(c, "fetching") /\ UNCHANGED <<server, page>>

(* refresh waits for the lock and counts.                                  *)
Lock(c) ==
  /\ at[c] = "locking" /\ held = {}
  /\ held' = {c} /\ counted' = [counted EXCEPT ![c] = all]
  /\ Goto(c, "fetching") /\ UNCHANGED <<server, page>>

(* The last update is too young.                                           *)
Limit(c) ==
  /\ at[c] = "fetching" /\ fresh
  /\ Tell("limited", counted[c]) /\ Done(c)
  /\ UNCHANGED <<server, fresh, rows>>

(* The two requests to git, and the download.  An error is told with the   *)
(* old counts, and nothing limits the next try.                            *)
Fetch(c) ==
  /\ at[c] = "fetching" /\ ~fresh
  /\ \/ /\ Goto(c, "loading") /\ UNCHANGED <<held, counted, server, page>>
     \/ /\ Tell("failed", counted[c]) /\ Done(c)
        /\ UNCHANGED <<server, fresh, rows>>

(* munge: a row has the test of the provider that came first, and of the   *)
(* others those that have a second entry.                                  *)
Tables(tests) ==
  {shown \in SUBSET tests : Categories(shown) = Categories(tests)}

(* LoadJobs returns three nils with its error, which replace what there    *)
(* was; the page keeps its rows.                                           *)
Load(c) ==
  /\ at[c] = "loading"
  /\ \/ /\ all' \in SUBSET Tests /\ table' \in Tables(all')
        /\ Goto(c, "publishing") /\ UNCHANGED <<held, counted, page>>
     \/ /\ all' = {} /\ table' = {}
        /\ Tell("failed", counted[c]) /\ Done(c) /\ UNCHANGED <<fresh, rows>>

Publish(c) ==
  /\ at[c] = "publishing"
  /\ Tell("updated", all) /\ rows' = table /\ fresh' = TRUE
  /\ Done(c) /\ UNCHANGED server

(* Three hours pass.                                                       *)
Age ==
  /\ fresh /\ fresh' = FALSE
  /\ UNCHANGED <<at, held, counted, server, message, rows>>

Next ==
  \/ Age
  \/ \E c \in Client :
       Request(c) \/ Lock(c) \/ Limit(c) \/ Fetch(c) \/ Load(c) \/ Publish(c)

Spec == Init /\ [][Next]_vars

-----------------------------------------------------------------------------
(* A page that does not say that the update failed counts the tests that   *)
(* its rows show, of one and the same download: each category that was     *)
(* counted has its row, and each row was counted.                          *)
PageTellsUpstream ==
  message.kind \in {"updated", "limited"} =>
    rows \subseteq message.tests /\ Categories(rows) = Categories(message.tests)
=============================================================================

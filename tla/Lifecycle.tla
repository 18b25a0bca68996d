------------------------------ MODULE Lifecycle ------------------------------
(***************************************************************************)
(* What the control plane promises about a job, without time, leases and   *)
(* the graph: which rows a job may have one after the other, whatever the  *)
(* transaction.  Scheduler implements this module, transaction by          *)
(* transaction; Cluster puts runner processes around it.  A transaction    *)
(* may move several jobs, each by one of the moves below.                  *)
(***************************************************************************)
EXTENDS Naturals

CONSTANTS
  Jobs,
  Runners,
  MaxAttempts,  \* jobs.max_attempts
  None          \* a NULL column

VARIABLE
  row  \* the columns of jobs that decide anything

Blank == [state |-> "waiting", attempt |-> 0, runner |-> None, stop |-> None, kind |-> None]

Over == {"succeeded", "failed", "cancelled", "skipped"}

LifecycleInit == row = [j \in Jobs |-> Blank]

\* What Complete accepts of a runner.
Result ==
  {[status |-> "succeeded", kind |-> None]} \cup
  [status : {"failed"}, kind : {"exit_code", "timeout", "infra", "cancelled"}]

\* The row x after each kind of move.
Offered(x) == [x EXCEPT !.state = "queued"]
Unstarted(x, s) == [x EXCEPT !.state = s, !.kind = IF s = "cancelled" THEN s ELSE None]

\* Wrong form for the mutation runs: a claim reuses the attempt number.
GrantedAgain(x, w) == [x EXCEPT !.state = "running", !.runner = w,
                                !.attempt = IF @ = 0 THEN 1 ELSE @]

Granted(x, w) == [x EXCEPT !.state = "running", !.attempt = @ + 1, !.runner = w]
Asked(x, why) == [x EXCEPT !.stop = why]

Requeues(x, k) == k \in {"infra", "lost_runner"} /\ x.attempt < MaxAttempts /\ x.stop = None

Failed(x, k) ==
  IF Requeues(x, k) THEN [x EXCEPT !.state = "queued", !.runner = None]
  ELSE [x EXCEPT !.state = "failed", !.kind = k]

Completed(x, res) ==
  IF res.status = "succeeded" THEN [x EXCEPT !.state = "succeeded"]
  ELSE IF res.kind # "cancelled" THEN Failed(x, res.kind)
  ELSE IF x.stop = "timeout" THEN [x EXCEPT !.state = "failed", !.kind = "timeout"]
  ELSE [x EXCEPT !.state = "cancelled", !.kind = "cancelled"]

\* The moves open to a job in row x.
Moves(x) ==
  CASE x.state = "waiting" -> {Offered(x), Unstarted(x, "cancelled"), Unstarted(x, "skipped")}
    [] x.state = "queued" ->
         {Unstarted(x, "cancelled")}
           \cup (IF x.attempt < MaxAttempts /\ x.stop = None
                 THEN {Granted(x, w) : w \in Runners} ELSE {})
    [] x.state = "running" ->
         {Completed(x, res) : res \in Result} \cup {Failed(x, "lost_runner")}
           \cup (IF x.stop = None THEN {Asked(x, "user"), Asked(x, "timeout")} ELSE {})
    [] OTHER -> {}

LifecycleNext ==
  /\ DOMAIN row' = Jobs
  /\ \A j \in Jobs : row'[j] = row[j] \/ row'[j] \in Moves(row[j])

LifecycleSpec == LifecycleInit /\ [][LifecycleNext]_row
=============================================================================

------------------------------ MODULE Scheduler ------------------------------
(***************************************************************************)
(* The control plane: the job, run and runner tables of the store and the  *)
(* transactions of the scheduler over them.  Each handler runs in one      *)
(* BEGIN IMMEDIATE transaction on the only connection, so each is one      *)
(* action.  Requests come from an environment that may send any legal      *)
(* request at any time, in any order and as often as it likes: delayed,    *)
(* duplicated and stale reports of runners are all among its behaviours.   *)
(* A request the code refuses changes no row and is a stuttering step.     *)
(***************************************************************************)
EXTENDS Dag, Integers

CONSTANTS
  Runners,       \* runner ids
  Decl,          \* the place of a job in its pipeline file
  LabelsOf,      \* labels a job requires: a function on the keys it names
  LabelsOn,      \* labels a runner presents when it claims
  MaxAttempts,   \* attempts a job may have (jobs.max_attempts)
  TTL,           \* lease duration
  Timeout,       \* a job's own timeout
  TimeoutGrace,  \* what the monitor adds to it
  OfflineAfter,  \* silence after which a runner is offline
  MaxTime,       \* bound: the clock stops here
  MaxDowntime,   \* bound: how long the server may be down
  None           \* a NULL column

ASSUME SchedulerAssumption ==
  /\ Decl \in [Jobs -> Nat \ {0}]
  /\ MaxAttempts \in Nat \ {0}
  /\ TTL \in Nat \ {0}
  /\ Timeout \in [Jobs -> Nat]
  /\ TimeoutGrace \in Nat
  /\ OfflineAfter \in Nat
  /\ MaxTime \in Nat
  /\ MaxDowntime \in Nat
  /\ None \notin Int
  /\ None \notin Runners
  /\ None \notin {"user", "timeout"}

VARIABLES
  now,         \* the store's clock
  graceUntil,  \* Scheduler.leaseGraceUntil, in memory only
  run,         \* runs.state
  state,       \* jobs.state
  attempt,     \* jobs.attempt
  runner,      \* jobs.runner_id
  lease,       \* jobs.lease_expires_at
  started,     \* jobs.started_at
  queuedAt,    \* jobs.queued_at
  rowid,       \* jobs.rowid: insertion order, 0 while absent
  kind,        \* jobs.failure_kind
  cancel,      \* jobs.cancel_reason; None while cancel_requested_at is NULL
  cancelled,   \* runs with a run.cancel_requested event
  online,      \* runners.state
  lastSeen,    \* runners.last_seen_at
  bootAt,      \* history: when the server last started
  contact      \* history: last time the holder of a job was granted its lease

jobVars == <<attempt, runner, lease, started, queuedAt, rowid, kind, cancel, contact>>
runnerVars == <<online, lastSeen>>
clockVars == <<now, graceUntil, bootAt>>
vars == <<jobVars, runnerVars, clockVars, run, state, cancelled>>

FailureKind == {"exit_code", "timeout", "infra", "cancelled", "lost_runner"}

\* What Complete accepts; anything else is an InvalidResultError.
Result ==
  {[status |-> "succeeded", kind |-> None]} \cup
  [status : {"failed"}, kind : FailureKind \ {"lost_runner"}]

TypeOK ==
  /\ now \in Nat /\ graceUntil \in Nat /\ bootAt \in Nat
  /\ run \in [Runs -> RunState]
  /\ state \in [Jobs -> JobState]
  /\ attempt \in [Jobs -> Nat]
  /\ runner \in [Jobs -> Runners \cup {None}]
  /\ lease \in [Jobs -> Nat \cup {None}]
  /\ contact \in [Jobs -> Nat \cup {None}]
  /\ started \in [Jobs -> Nat \cup {None}]
  /\ queuedAt \in [Jobs -> Nat \cup {None}]
  /\ rowid \in [Jobs -> Nat]
  /\ kind \in [Jobs -> FailureKind \cup {None}]
  /\ cancel \in [Jobs -> {"user", "timeout", None}]
  /\ cancelled \in SUBSET Runs
  /\ online \in [Runners -> {"absent", "online", "offline"}]
  /\ lastSeen \in [Runners -> Nat \cup {None}]

Init ==
  /\ now = 0 /\ graceUntil = TTL /\ bootAt = 0
  /\ run = [r \in Runs |-> "absent"]
  /\ state = [j \in Jobs |-> "absent"]
  /\ attempt = [j \in Jobs |-> 0]
  /\ runner = [j \in Jobs |-> None]
  /\ lease = [j \in Jobs |-> None]
  /\ contact = [j \in Jobs |-> None]
  /\ started = [j \in Jobs |-> None]
  /\ queuedAt = [j \in Jobs |-> None]
  /\ rowid = [j \in Jobs |-> 0]
  /\ kind = [j \in Jobs |-> None]
  /\ cancel = [j \in Jobs |-> None]
  /\ cancelled = {}
  /\ online = [w \in Runners |-> "absent"]
  /\ lastSeen = [w \in Runners |-> None]
-----------------------------------------------------------------------------
(***************************************************************************)
(* Helpers of the transactions.                                            *)
(***************************************************************************)

\* Every required label has the value the runner's map gives for the key; a
\* Go map gives "" for a key it does not hold.
labelsSubset(need, have) ==
  \A k \in DOMAIN need :
    need[k] = IF k \in DOMAIN have THEN have[k] ELSE ""

retryable(k) == k \in {"infra", "lost_runner"}

\* Wrong form for the mutation runs: a cancel request is not looked at.
RequeuesDespiteCancel(j, k) ==
  retryable(k) /\ attempt[j] < MaxAttempts

\* The current attempt of j, ended with failure k, goes back to the queue.
Requeues(j, k) ==
  /\ retryable(k)
  /\ attempt[j] < MaxAttempts
  /\ cancel[j] = None

\* Claims, heartbeats and registrations refresh the runner's row.
Touch(w) ==
  /\ online' = [online EXCEPT ![w] = "online"]
  /\ lastSeen' = [lastSeen EXCEPT ![w] = now]

\* A transaction that has set the job states to st ends with advance over the
\* runs R.  A job that is queued anew gets the time as its queued_at.
Settle(st, R) ==
  /\ state' = [j \in Jobs |-> IF RunOf[j] \in R THEN advance(st, RunOf[j])[j] ELSE st[j]]
  /\ run' = [r \in Runs |-> IF r \in R THEN finalize(state', r, run[r]) ELSE run[r]]
  /\ queuedAt' = [j \in Jobs |->
       IF state'[j] = "queued" /\ state[j] # "queued" THEN now ELSE queuedAt[j]]

\* The jobs of Q go back to the queue: no runner, no lease, no start.
Release(Q, F) ==
  /\ runner' = [j \in Jobs |-> IF j \in Q THEN None ELSE runner[j]]
  /\ started' = [j \in Jobs |-> IF j \in Q THEN None ELSE started[j]]
  /\ lease' = [j \in Jobs |-> IF j \in Q \cup F THEN None ELSE lease[j]]
  /\ contact' = [j \in Jobs |-> IF j \in Q \cup F THEN None ELSE contact[j]]

\* The queue: oldest queued_at first, then insertion order.
Before(i, j) ==
  \/ queuedAt[i] < queuedAt[j]
  \/ queuedAt[i] = queuedAt[j] /\ rowid[i] < rowid[j]

Eligible(w) ==
  {j \in Jobs : state[j] = "queued" /\ labelsSubset(LabelsOf[j], LabelsOn[w])}
-----------------------------------------------------------------------------
(***************************************************************************)
(* The transactions.                                                       *)
(***************************************************************************)

\* A validated pipeline becomes a run: roots queued, the rest pending.
submitRun(r) ==
  /\ run[r] = "absent"
  /\ run' = [run EXCEPT ![r] = "pending"]
  /\ state' = [j \in Jobs |-> IF RunOf[j] # r THEN state[j]
                              ELSE IF Needs[j] = {} THEN "queued" ELSE "pending"]
  /\ queuedAt' = [j \in Jobs |-> IF RunOf[j] = r THEN now ELSE queuedAt[j]]
  /\ \E last \in {0} \cup {rowid[i] : i \in Jobs} :
       /\ \A i \in Jobs : rowid[i] <= last
       /\ rowid' = [j \in Jobs |-> IF RunOf[j] = r THEN last + Decl[j] ELSE rowid[j]]
  /\ UNCHANGED <<attempt, runner, lease, started, kind, cancel, contact,
                 cancelled, runnerVars, clockVars>>

\* A runner registers, under a new or a known name.
Register(w) ==
  /\ Touch(w)
  /\ UNCHANGED <<jobVars, run, state, cancelled, clockVars>>

\* A claim that finds no job for the runner.
ClaimNone(w) ==
  /\ Eligible(w) = {}
  /\ Touch(w)
  /\ UNCHANGED <<jobVars, run, state, cancelled, clockVars>>

\* A claim that gets the first job in the queue the runner can take.
Claim(w, j) ==
  /\ j \in Eligible(w)
  /\ \A i \in Eligible(w) \ {j} : Before(j, i)
  /\ Touch(w)
  /\ state' = [state EXCEPT ![j] = "running"]
  /\ attempt' = [attempt EXCEPT ![j] = @ + 1]
  /\ runner' = [runner EXCEPT ![j] = w]
  /\ lease' = [lease EXCEPT ![j] = now + TTL]
  /\ contact' = [contact EXCEPT ![j] = now]
  /\ started' = [started EXCEPT ![j] = now]
  /\ run' = [run EXCEPT ![RunOf[j]] = IF @ = "pending" THEN "running" ELSE @]
  /\ UNCHANGED <<queuedAt, rowid, kind, cancel, cancelled, clockVars>>

\* The fence of a heartbeat: the attempt of the reference is the running one
\* and w holds it.
Holds(w, ref) ==
  /\ state[ref.job] = "running"
  /\ attempt[ref.job] = ref.attempt
  /\ runner[ref.job] = w

JobRef == [job : Jobs, attempt : 1..MaxAttempts]

\* A heartbeat extends the lease of every reference that passes the fence, also
\* under a cancel request; the directives of the reply change no row.
Heartbeat(w, refs) ==
  LET held == {ref.job : ref \in {x \in refs : Holds(w, x)}}
  IN  /\ Touch(w)
      /\ lease' = [j \in Jobs |-> IF j \in held THEN now + TTL ELSE lease[j]]
      /\ contact' = [j \in Jobs |-> IF j \in held THEN now ELSE contact[j]]
      /\ UNCHANGED <<attempt, runner, started, queuedAt, rowid, kind, cancel,
                     run, state, cancelled, clockVars>>

\* Wrong form: every stopped attempt counts as cancelled by a user.
AlwaysCancelled(j) == <<"cancelled", "cancelled">>

\* An attempt stopped on a cancel directive: who asked decides the record.
Stopped(j) ==
  IF cancel[j] = "timeout" THEN <<"failed", "timeout">> ELSE <<"cancelled", "cancelled">>

\* The state and failure kind of a job whose attempt ends with res.
Recorded(j, res) ==
  IF res.status = "succeeded" THEN <<"succeeded", None>>
  ELSE IF res.kind = "cancelled" THEN Stopped(j)
  ELSE IF Requeues(j, res.kind) THEN <<"queued", kind[j]>>
  ELSE <<"failed", res.kind>>

\* Wrong form: the state is not part of the fence.
FenceOnAttempt(j, a) == attempt[j] = a

\* The fence of a report: a is the attempt that runs.
Fence(j, a) ==
  /\ state[j] = "running"
  /\ attempt[j] = a

\* A runner reports the result of attempt a.  A report that fails the fence is
\* a duplicate (the first result stands) or refused: no step.
Complete(j, a, res) ==
  /\ Fence(j, a)
  /\ LET rec == Recorded(j, res)
         requeued == IF rec[1] = "queued" THEN {j} ELSE {}
     IN  /\ kind' = [kind EXCEPT ![j] = rec[2]]
         /\ Release(requeued, {j} \ requeued)
         /\ Settle([state EXCEPT ![j] = rec[1]], {RunOf[j]})
  /\ UNCHANGED <<attempt, rowid, cancel, cancelled, runnerVars, clockVars>>

\* Wrong form: the pending jobs are left to advance.
WaitingQueued(r) == {j \in JobsOf(r) : state[j] = "queued"}

\* The jobs of a run that have not started.
Waiting(r) == {j \in JobsOf(r) : state[j] \in {"pending", "queued"}}

\* A user cancels a run that is not over.  A second request finds the event of
\* the first: no step.
CancelRun(r) ==
  /\ run[r] \in ActiveRun
  /\ r \notin cancelled
  /\ LET asked == {j \in JobsOf(r) : state[j] = "running" /\ cancel[j] = None}
     IN  /\ kind' = [j \in Jobs |-> IF j \in Waiting(r) THEN "cancelled" ELSE kind[j]]
         /\ cancel' = [j \in Jobs |-> IF j \in asked THEN "user" ELSE cancel[j]]
         /\ Settle([j \in Jobs |-> IF j \in Waiting(r) THEN "cancelled" ELSE state[j]], {r})
  /\ cancelled' = cancelled \cup {r}
  /\ UNCHANGED <<attempt, runner, lease, started, rowid, contact, runnerVars, clockVars>>

\* Wrong form: no grace after a start.
ListExpiredAtOnce == {j \in Jobs : state[j] = "running" /\ lease[j] < now}

\* Jobs whose lease ran out, unless the server is in its start-up grace.
ListExpiredLeases ==
  {j \in Jobs : now >= graceUntil /\ state[j] = "running" /\ lease[j] < now}

\* Wrong form: a pending cancel request does not take the job off the list.
OverdueAgain ==
  {j \in Jobs : /\ state[j] = "running"
                /\ Timeout[j] > 0
                /\ started[j] + Timeout[j] + TimeoutGrace < now}

\* Running jobs with no cancel request that are past timeout and grace.
Overdue ==
  {j \in Jobs : /\ state[j] = "running"
                /\ cancel[j] = None
                /\ Timeout[j] > 0
                /\ started[j] + Timeout[j] + TimeoutGrace < now}

Silent == {w \in Runners : online[w] = "online" /\ lastSeen[w] < now - OfflineAfter}

\* One pass of the monitor: expired leases, then the timeout backstop over
\* what still runs, then silent runners.  Expired jobs are handled one after
\* the other, with an advance after each failure; advance changes only pending
\* jobs and finalizes a run only when none of its jobs runs, so taking them
\* together gives the same rows.
Tick ==
  LET requeued == {j \in ListExpiredLeases : Requeues(j, "lost_runner")}
      lost == ListExpiredLeases \ requeued
  IN  /\ kind' = [j \in Jobs |-> IF j \in lost THEN "lost_runner" ELSE kind[j]]
      /\ Release(requeued, lost)
      /\ Settle([j \in Jobs |-> IF j \in requeued THEN "queued"
                                ELSE IF j \in lost THEN "failed" ELSE state[j]],
                {RunOf[j] : j \in lost})
      /\ cancel' = [j \in Jobs |-> IF j \in Overdue \ ListExpiredLeases
                                   THEN "timeout" ELSE cancel[j]]
      /\ online' = [w \in Runners |-> IF w \in Silent THEN "offline" ELSE online[w]]
      /\ UNCHANGED <<attempt, rowid, cancelled, lastSeen, clockVars>>

\* The server stops, or crashes, and is started again d later.  Only
\* leaseGraceUntil lives in memory; every row is in the store.
Restart(d) ==
  /\ now + d <= MaxTime
  /\ now' = now + d
  /\ graceUntil' = now' + TTL
  /\ bootAt' = now'
  /\ UNCHANGED <<jobVars, runnerVars, run, state, cancelled>>

Pass ==
  /\ now < MaxTime
  /\ now' = now + 1
  /\ UNCHANGED <<graceUntil, bootAt, jobVars, runnerVars, run, state, cancelled>>

\* A reference that fails the fence of a heartbeat gets abort and changes no
\* row, so only those that pass it are enumerated.
Next ==
  \/ \E r \in Runs : submitRun(r) \/ CancelRun(r)
  \/ \E w \in Runners : Register(w) \/ ClaimNone(w)
  \/ \E w \in Runners, j \in Jobs : Claim(w, j)
  \/ \E w \in Runners : \E refs \in SUBSET {x \in JobRef : Holds(w, x)} : Heartbeat(w, refs)
  \/ \E j \in Jobs, a \in 1..MaxAttempts, res \in Result : Complete(j, a, res)
  \/ Tick
  \/ \E d \in 0..MaxDowntime : Restart(d)
  \/ Pass

Spec == Init /\ [][Next]_vars
-----------------------------------------------------------------------------
(***************************************************************************)
(* Properties.                                                             *)
(***************************************************************************)

\* A run is over exactly when all its jobs are, in every state between two
\* transactions, and its result says what became of them: it succeeded only
\* when every job did (a skipped one always has a failed or cancelled job
\* behind it), and a failed job outweighs a cancelled one.
RunFollowsJobs ==
  \A r \in Runs :
    LET some(s) == \E j \in JobsOf(r) : state[j] = s IN
    /\ run[r] \in TerminalRun <=> \A j \in JobsOf(r) : state[j] \in isTerminal
    /\ run[r] = "succeeded" => \A j \in JobsOf(r) : state[j] = "succeeded"
    /\ run[r] = "failed" => some("failed")
    /\ run[r] = "cancelled" => some("cancelled") /\ ~some("failed")

\* No job is offered, runs or has succeeded unless all its needs have
\* succeeded, and one is skipped only behind a need that did not succeed.
NeedsRespected == NeedsMet(state)

\* advance leaves nothing behind: a run that is not over always has a job in
\* the queue or on a runner, so no order of reports, cancels and expiries
\* strands it.
NoStrandedRun ==
  \A r \in Runs : run[r] \in ActiveRun =>
    \E j \in JobsOf(r) : state[j] \in {"queued", "running"}

\* No job gets more attempts than max_attempts, and one that waits in the
\* queue has one left: claims, infra reports and expired leases together never
\* overrun the budget.
AttemptsBounded ==
  \A j \in Jobs :
    /\ attempt[j] <= MaxAttempts
    /\ state[j] = "queued" => attempt[j] < MaxAttempts

\* A runner gets only jobs for which it has every required label, with the same
\* value.
LabelsHonoured ==
  \A j \in Jobs : state[j] = "running" =>
    \A k \in DOMAIN LabelsOf[j] :
      k \in DOMAIN LabelsOn[runner[j]] /\ LabelsOn[runner[j]][k] = LabelsOf[j][k]

\* Once a run is cancelled nothing of it can start: what is left of it runs
\* under a cancel request.
CancelReachesAll ==
  \A r \in cancelled : \A j \in JobsOf(r) :
    state[j] \in isTerminal \/ (state[j] = "running" /\ cancel[j] # None)

\* A job asked to stop because of its timeout never counts as cancelled by a
\* user, even when a user cancels the run afterwards.
TimeoutIsNotCancel ==
  \A j \in Jobs : cancel[j] = "timeout" => state[j] # "cancelled"

\* A job with a cancel request never gets another attempt, whichever way the
\* current one ends.
CancelledAttemptIsLast ==
  [][\A j \in Jobs : cancel[j] # None => attempt'[j] = attempt[j]
                                         /\ state'[j] # "queued"]_vars

\* What has a final state keeps it, with its failure kind and attempt: late,
\* duplicate and stale reports, expired leases and cancels never rewrite it.
FinalIsFinal ==
  [][/\ \A j \in Jobs : state[j] \in isTerminal =>
          <<state'[j], kind'[j], attempt'[j]>> = <<state[j], kind[j], attempt[j]>>
     /\ \A r \in Runs : run[r] \in TerminalRun => run'[r] = run[r]]_vars

\* The monitor takes no attempt from a runner it heard from within one TTL,
\* and none before the server has been up for one TTL.
LostOnlyAfterSilence ==
  [][Tick => \A j \in Jobs : state[j] = "running" /\ state'[j] # "running" =>
       now > contact[j] + TTL /\ now >= bootAt + TTL]_vars

\* A tick is idempotent: nothing it changes is selected by the next one.
TickIdempotent ==
  [][Tick => ListExpiredLeases' = {} /\ Overdue' = {} /\ Silent' = {}]_vars
-----------------------------------------------------------------------------
(***************************************************************************)
(* The inductive invariant behind the properties.                          *)
(***************************************************************************)

\* Runs against the states of their jobs, and jobs against those they need.
GraphInv ==
  /\ \A j \in Jobs : state[j] = "absent" <=> run[RunOf[j]] = "absent"
  /\ \A r \in Runs :
       /\ run[r] \in TerminalRun <=> \A j \in JobsOf(r) : state[j] \in isTerminal
       /\ run[r] \in TerminalRun => run[r] = Verdict(state, r)
       /\ Settled(state, r)
  /\ NeedsMet(state)

\* The columns of one job against its state.
JobInv(j) ==
  /\ state[j] \in {"absent", "pending"} => attempt[j] = 0
  /\ attempt[j] <= MaxAttempts
  /\ state[j] = "queued" => attempt[j] < MaxAttempts
  /\ state[j] \in {"absent", "pending", "queued"} => cancel[j] = None
  /\ state[j] = "cancelled" => cancel[j] # "timeout"
  /\ state[j] = "running" =>
       /\ runner[j] \in Runners
       /\ contact[j] \in Nat
       /\ started[j] \in Nat
       /\ lease[j] = contact[j] + TTL

\* What every transaction keeps, on any graph and with any limits: the rows of
\* runs, jobs and needs agree, the columns of a job agree with its state, a
\* cancelled run holds nothing that waits, and the start-up grace is one TTL.
IInv ==
  /\ TypeOK
  /\ GraphInv
  /\ \A j \in Jobs : JobInv(j)
  /\ \A r \in cancelled : run[r] # "absent"
  /\ CancelReachesAll
  /\ graceUntil = bootAt + TTL
=============================================================================

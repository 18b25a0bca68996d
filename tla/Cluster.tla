------------------------------- MODULE Cluster -------------------------------
(***************************************************************************)
(* Runner processes around the control plane: the poll loop, the heartbeat *)
(* loop and one goroutine per attempt, each with one request at a time;    *)
(* shutdown with its deadline for deliveries, crash and restart.  The      *)
(* server is Lifecycle: a lease may be lost at any time, and is certainly  *)
(* lost once no process renews it.                                         *)
(*                                                                         *)
(* The network: a request is handled when it is sent, its reply arrives    *)
(* any time later or never; or the request is lost, or handled when its    *)
(* sender no longer waits for it.  (A slow request whose sender still      *)
(* waits is one sent later: a loop does nothing else meanwhile.)           *)
(***************************************************************************)
EXTENDS Lifecycle, FiniteSets

CONSTANTS
  Capacity,         \* attempts a runner executes at once
  CompleteRetries,  \* 5xx replies to a report before the runner gives up
  MaxFaults         \* bound: lost messages, 5xx replies, crashes and shutdowns

ASSUME ClusterAssumption ==
  /\ {Capacity, CompleteRetries, MaxAttempts} \subseteq Nat \ {0}
  /\ MaxFaults \in Nat
  /\ IsFiniteSet(Jobs)
  /\ None \notin Runners \cup (Jobs \X (1..MaxAttempts))
  /\ None \notin {"user", "timeout", "cancelled", "abort", "exit_code"}

VARIABLES
  life,   \* of each runner: "off", "on", "draining" after SIGTERM, "ending"
          \* when the deadline for deliveries has passed
  poll,   \* the attempt in the reply to a claim on its way to the runner
  hb,     \* the heartbeat in flight, with its references and directives
  run,    \* the goroutine of each attempt
  late,   \* requests whose sender no longer waits
  faults,
  basis   \* history: cause and outcome behind the recorded result of a job

net == <<poll, hb, late>>
vars == <<row, basis, life, net, run, faults>>

Attempt == Jobs \X (1..MaxAttempts)
NoBeat == [at |-> "idle", refs |-> {}, dirs |-> {}]

\* An attempt no process has started: at is the place in runAttempt, cause the
\* cause of its context, out what the executor and the uploads made of it.
Fresh == [at |-> "none", by |-> None, cause |-> None, out |-> None, errors |-> 0, starts |-> 0]

Executing == {"exec", "returned"}
\* The goroutine is gone: the attempt is done with, or left to its lease.
Gone(r, at) == [Fresh EXCEPT !.at = at, !.starts = r.starts]

Active == Executing \cup {"report", "200", "409", "500"}

active(w) == {k \in Attempt : run[k].by = w /\ run[k].at \in Active}

Fence(k) == row[k[1]].state = "running" /\ row[k[1]].attempt = k[2]

Rows == [state : {"waiting", "queued", "running"} \cup Over, attempt : 0..MaxAttempts,
         runner : Runners \cup {None}, stop : {None, "user", "timeout"},
         kind : {None, "exit_code", "timeout", "infra", "cancelled", "lost_runner"}]
Causes == {None, "timeout", "cancelled", "abort", "shutdown"}
Outs == {None, "zero", "nonzero", "error"}
Runs == [at : Active \cup {"none", "done", "left"}, by : Runners \cup {None},
         cause : Causes, out : Outs, errors : 0..(CompleteRetries - 1), starts : Nat]
Beats == [at : {"idle", "resend", "replied"}, refs : SUBSET Attempt,
          dirs : SUBSET [key : Attempt, do : {"abort", "cancel"}]]
Requests == [type : {"claim"}, from : Runners] \cup
            [type : {"complete"}, key : Attempt, cause : Causes, out : Outs]

TypeOK ==
  /\ row \in [Jobs -> Rows]
  /\ life \in [Runners -> {"off", "on", "draining", "ending"}]
  /\ poll \in [Runners -> Attempt \cup {None}]
  /\ hb \in [Runners -> Beats]
  /\ run \in [Attempt -> Runs]
  /\ late \subseteq Requests
  /\ basis \in [Jobs -> {None} \cup (Causes \X Outs)]
  /\ faults \in 0..MaxFaults

Init ==
  /\ LifecycleInit
  /\ life = [w \in Runners |-> "off"]
  /\ poll = [w \in Runners |-> None]
  /\ hb = [w \in Runners |-> NoBeat]
  /\ run = [k \in Attempt |-> Fresh]
  /\ late = {}
  /\ faults = 0
  /\ basis = [j \in Jobs |-> None]

Fault == faults < MaxFaults /\ faults' = faults + 1

\* The context of an attempt ends with cause c, unless it has ended before or
\* its cause has been looked at.
Caused(r, c) == IF r.at \in Executing /\ r.cause = None THEN [r EXCEPT !.cause = c] ELSE r

\* Wrong form for the mutation runs: the result of the execution is looked at first.
VerdictOutcomeFirst(r) ==
  IF r.out = "zero" THEN [status |-> "succeeded", kind |-> None]
  ELSE IF r.out = "nonzero" THEN [status |-> "failed", kind |-> "exit_code"]
  ELSE IF r.cause \in {"timeout", "cancelled"} THEN [status |-> "failed", kind |-> r.cause]
  ELSE [status |-> "failed", kind |-> "infra"]

\* What an attempt reports: the cause of its context before its result.
Verdict(r) ==
  IF r.cause \in {"timeout", "cancelled"} THEN [status |-> "failed", kind |-> r.cause]
  ELSE IF r.out = "zero" THEN [status |-> "succeeded", kind |-> None]
  ELSE IF r.out = "nonzero" THEN [status |-> "failed", kind |-> "exit_code"]
  ELSE [status |-> "failed", kind |-> "infra"]

\* An attempt killed by an abort reports nothing.
Aborted(r) == r.out = "error" /\ r.cause = "abort"
-----------------------------------------------------------------------------
(***************************************************************************)
(* The server.                                                             *)
(***************************************************************************)
Set(j, x) == row' = [row EXCEPT ![j] = x]

Submit(j) ==
  /\ row[j].state = "waiting"
  /\ Set(j, Offered(row[j]))
  /\ UNCHANGED <<basis, life, net, run, faults>>

\* A user's cancel, which ends a job that waits, or the timeout backstop.
Cancel(j) ==
  /\ \/ row[j].state = "queued" /\ Set(j, Unstarted(row[j], "cancelled"))
     \/ row[j].state = "running" /\ row[j].stop = None /\ Set(j, Asked(row[j], "user"))
  /\ UNCHANGED <<basis, life, net, run, faults>>

Backstop(j) ==
  /\ row[j].state = "running" /\ row[j].stop = None
  /\ Set(j, Asked(row[j], "timeout"))
  /\ UNCHANGED <<basis, life, net, run, faults>>

\* The lease of the running attempt has run out.
Lose(j) ==
  /\ row[j].state = "running"
  /\ Set(j, Failed(row[j], "lost_runner"))
  /\ UNCHANGED <<basis, life, net, run, faults>>

\* Nobody renews the lease of the running attempt, nor will.
Abandoned(j) ==
  LET k == <<j, row[j].attempt>>
  IN  /\ row[j].state = "running"
      /\ run[k].at \notin Active
      /\ \A w \in Runners : poll[w] # k

\* Wrong form: a cancel request is not passed on.
DirectiveNoCancel(w, k) ==
  IF Fence(k) /\ row[k[1]].runner = w THEN {} ELSE {[key |-> k, do |-> "abort"]}

\* What a heartbeat of w hears of attempt k: continue is no directive here.
Directive(w, k) ==
  IF ~(Fence(k) /\ row[k[1]].runner = w) THEN {[key |-> k, do |-> "abort"]}
  ELSE IF row[k[1]].stop # None THEN {[key |-> k, do |-> "cancel"]}
  ELSE {}

Directives(w, refs) == UNION {Directive(w, k) : k \in refs}

\* A result under the fence is recorded; a repeated one of a finished attempt
\* is answered like the first.
complete(k, r) ==
  IF Fence(k)
  THEN /\ Set(k[1], Completed(row[k[1]], Verdict(r)))
       /\ basis' = [basis EXCEPT ![k[1]] =
                      IF row'[k[1]].state \in Over THEN <<r.cause, r.out>> ELSE None]
  ELSE UNCHANGED <<row, basis>>

ReplyTo(k) ==
  IF Fence(k) \/ (row[k[1]].attempt = k[2] /\ row[k[1]].state \in Over) THEN "200" ELSE "409"

ClaimBy(w) == [type |-> "claim", from |-> w]
CompleteOf(k) == [type |-> "complete", key |-> k, cause |-> run[k].cause, out |-> run[k].out]

\* A request handled after its sender gave it up.
Deliver(m) ==
  /\ late' = late \ {m}
  /\ \/ /\ m.type = "claim"
        /\ \E j \in Jobs : row[j].state = "queued" /\ Set(j, Granted(row[j], m.from))
        /\ UNCHANGED basis
     \/ m.type = "complete" /\ complete(m.key, m)
  /\ UNCHANGED <<life, poll, hb, run, faults>>

-----------------------------------------------------------------------------
(***************************************************************************)
(* The life of a runner process.                                           *)
(***************************************************************************)

\* A process starts and registers, which it repeats until it is answered.
Register(w) ==
  /\ life[w] = "off"
  /\ life' = [life EXCEPT ![w] = "on"]
  /\ UNCHANGED <<row, basis, net, run, faults>>

\* SIGTERM: the context of every attempt ends.
Shutdown(w) ==
  /\ life[w] = "on" /\ Fault
  /\ life' = [life EXCEPT ![w] = "draining"]
  /\ run' = [k \in Attempt |-> IF k \in active(w) THEN Caused(run[k], "shutdown") ELSE run[k]]
  /\ UNCHANGED <<row, basis, net>>

\* LogFlushTimeout after it: no more deliveries.
StopDelivery(w) ==
  /\ life[w] = "draining"
  /\ life' = [life EXCEPT ![w] = "ending"]
  /\ UNCHANGED <<row, basis, net, run, faults>>

\* Run returns when the poll loop and every attempt have, and the heartbeats
\* are stopped.
Exit(w) ==
  /\ life[w] \in {"draining", "ending"}
  /\ poll[w] = None /\ active(w) = {}
  /\ life' = [life EXCEPT ![w] = "off"]
  /\ hb' = [hb EXCEPT ![w] = NoBeat]
  /\ UNCHANGED <<row, basis, poll, run, late, faults>>

\* The poll loop has a slot and no claim in flight.
claiming(w) == life[w] = "on" /\ poll[w] = None /\ Cardinality(active(w)) < Capacity

\* The process dies, and its memory with it; a request it sent may live on.
Crash(w) ==
  /\ life[w] # "off" /\ Fault
  /\ life' = [life EXCEPT ![w] = "off"]
  /\ poll' = [poll EXCEPT ![w] = None]
  /\ hb' = [hb EXCEPT ![w] = NoBeat]
  /\ run' = [k \in Attempt |-> IF k \in active(w) THEN Gone(run[k], "left") ELSE run[k]]
  /\ \/ late' = late
     \/ claiming(w) /\ late' = late \cup {ClaimBy(w)}
     \/ \E k \in active(w) : run[k].at = "report" /\ late' = late \cup {CompleteOf(k)}
  /\ UNCHANGED <<row, basis>>
-----------------------------------------------------------------------------
(***************************************************************************)
(* The poll loop.                                                          *)
(***************************************************************************)

\* The first job in the queue is granted; with none the loop polls again.
claim(w) ==
  /\ claiming(w)
  /\ \E j \in Jobs : /\ row[j].state = "queued"
                     /\ Set(j, Granted(row[j], w))
                     /\ poll' = [poll EXCEPT ![w] = <<j, row'[j].attempt>>]
  /\ UNCHANGED <<basis, life, hb, run, late, faults>>

\* The request is lost or late, or the reply is lost; the claim is repeated,
\* unless the process is stopping and does not wait for the reply.
loseClaim(w) ==
  /\ \/ claiming(w) /\ Fault /\ late' = late \cup {ClaimBy(w)}
     \/ poll[w] # None /\ UNCHANGED late /\ (IF life[w] = "on" THEN Fault ELSE UNCHANGED faults)
  /\ poll' = [poll EXCEPT ![w] = None]
  /\ UNCHANGED <<row, basis, life, hb, run>>

\* The attempt starts: its container, or a report at once when the job cannot
\* be read or the artifact directory not be made.
Started(w) ==
  LET r == [Fresh EXCEPT !.by = w]
  IN  {[r EXCEPT !.at = "exec", !.starts = 1,
                 !.cause = IF life[w] = "on" THEN None ELSE "shutdown"],
       [r EXCEPT !.at = "report", !.out = "error"]}

start(w) ==
  /\ poll[w] # None
  /\ \E r \in Started(w) :
       run' = [run EXCEPT ![poll[w]] = [r EXCEPT !.starts = @ + run[poll[w]].starts]]
  /\ poll' = [poll EXCEPT ![w] = None]
  /\ UNCHANGED <<row, basis, life, hb, late, faults>>
-----------------------------------------------------------------------------
(***************************************************************************)
(* The heartbeat loop.                                                     *)
(***************************************************************************)

\* The references are taken once, and a request or a reply that is lost is
\* repeated with the same.
heartbeat(w) ==
  /\ life[w] # "off"
  /\ LET refs == IF hb[w].at = "idle" THEN active(w) ELSE hb[w].refs
     IN  /\ hb[w].at # "replied" /\ refs # {}
         /\ \/ /\ hb' = [hb EXCEPT ![w] = [at |-> "replied", refs |-> {}, dirs |-> Directives(w, refs)]]
               /\ UNCHANGED faults
            \/ hb' = [hb EXCEPT ![w] = [at |-> "resend", refs |-> refs, dirs |-> {}]] /\ Fault
  /\ UNCHANGED <<row, basis, life, poll, run, late>>

\* Wrong forms: a directive is applied by job alone; abort is ignored.
TargetsJob(d, k) == d.key[1] = k[1]
CauseNoAbort(d) == IF d.do = "abort" THEN None ELSE "cancelled"

\* A directive is for one attempt.
Targets(d, k) == d.key = k
CauseOf(d) == IF d.do = "abort" THEN "abort" ELSE "cancelled"

apply(w) ==
  /\ hb[w].at = "replied"
  /\ run' = [k \in Attempt |->
       IF k \in active(w) /\ \E d \in hb[w].dirs : Targets(d, k)
       THEN Caused(run[k], CauseOf(CHOOSE d \in hb[w].dirs : Targets(d, k)))
       ELSE run[k]]
  /\ hb' = [hb EXCEPT ![w] = NoBeat]
  /\ UNCHANGED <<row, basis, life, poll, late, faults>>
-----------------------------------------------------------------------------
(***************************************************************************)
(* runAttempt.                                                             *)
(***************************************************************************)
Goto(k, r) == run' = [run EXCEPT ![k] = r]

\* The context ends by the job's timeout, or because a batch of logs of a
\* superseded attempt was refused.
endContext(k) ==
  /\ run[k].at \in Executing
  /\ \/ Goto(k, Caused(run[k], "timeout"))
     \/ ~Fence(k) /\ Goto(k, Caused(run[k], "abort"))
  /\ UNCHANGED <<row, basis, life, net, faults>>

\* The executor returns; it must, once its context has ended.
execReturns(k) ==
  /\ run[k].at = "exec"
  /\ \E out \in {"zero", "nonzero", "error"} :
       Goto(k, [run[k] EXCEPT !.at = "returned", !.out = out])
  /\ UNCHANGED <<row, basis, life, net, faults>>

\* An upload fails: on its own, or fenced, which aborts the attempt.
uploadFails(k) ==
  /\ run[k].at = "returned" /\ run[k].out = "zero"
  /\ LET r == [run[k] EXCEPT !.out = "error"]
     IN  Goto(k, r) \/ (~Fence(k) /\ Goto(k, Caused(r, "abort")))
  /\ UNCHANGED <<row, basis, life, net, faults>>

\* The cause is read and with it the verdict fixed; the logs are flushed.
fixVerdict(k) ==
  /\ run[k].at = "returned"
  /\ Goto(k, IF Aborted(run[k]) THEN Gone(run[k], "done") ELSE [run[k] EXCEPT !.at = "report"])
  /\ UNCHANGED <<row, basis, life, net, faults>>

\* The report is handled: recorded, found recorded, fenced, or answered with a
\* 5xx.
report(k) ==
  /\ run[k].at = "report" /\ life[run[k].by] # "ending"
  /\ \/ /\ complete(k, run[k])
        /\ Goto(k, [run[k] EXCEPT !.at = ReplyTo(k)])
        /\ UNCHANGED faults
     \/ Fault /\ Goto(k, [run[k] EXCEPT !.at = "500"]) /\ UNCHANGED <<row, basis>>
  /\ UNCHANGED <<life, net>>

\* The request is lost or late, or the reply is lost: it is sent again.
loseReport(k) ==
  /\ run[k].at \in {"report", "200", "409"} /\ Fault
  /\ Goto(k, [run[k] EXCEPT !.at = "report"])
  /\ late' = IF run[k].at = "report" THEN late \cup {CompleteOf(k)} ELSE late
  /\ UNCHANGED <<row, basis, life, poll, hb>>

\* Deliveries have been stopped.
giveUp(k) ==
  /\ run[k].at \in {"report", "200", "409", "500"} /\ life[run[k].by] = "ending"
  /\ Goto(k, Gone(run[k], "left"))
  /\ late' \in {late, late \cup (IF run[k].at = "report" THEN {CompleteOf(k)} ELSE {})}
  /\ UNCHANGED <<row, basis, life, poll, hb, faults>>

\* What the runner does with the reply to its report.
NextReport(r) ==
  IF r.at \in {"200", "409"} THEN Gone(r, "done")
  ELSE IF r.errors + 1 = CompleteRetries THEN Gone(r, "left")
  ELSE [r EXCEPT !.at = "report", !.errors = @ + 1]

completeWithRetry(k) ==
  /\ run[k].at \in {"200", "409", "500"}
  /\ Goto(k, NextReport(run[k]))
  /\ UNCHANGED <<row, basis, life, net, faults>>
-----------------------------------------------------------------------------
\* The steps that follow one another in a loop or a goroutine.
Polling(w) == claim(w) \/ start(w)
Beating(w) == heartbeat(w) \/ apply(w)
Finishing(k) == fixVerdict(k) \/ report(k) \/ giveUp(k) \/ completeWithRetry(k)

Next ==
  \/ \E j \in Jobs : Submit(j) \/ Cancel(j) \/ Backstop(j) \/ Lose(j)
  \/ \E m \in late : Deliver(m)
  \/ \E w \in Runners :
       \/ Register(w) \/ Shutdown(w) \/ StopDelivery(w) \/ Exit(w) \/ Crash(w)
       \/ Polling(w) \/ loseClaim(w)
       \/ Beating(w)
  \/ \E k \in Attempt :
       \/ endContext(k) \/ execReturns(k) \/ uploadFails(k)
       \/ Finishing(k) \/ loseReport(k)

\* The loops and goroutines run; a stopped process ends and is started again;
\* the monitor finds every overdue job and every lease nobody renews.  Nothing
\* is assumed of the job itself, of its own timeout, or of late requests.
Fairness ==
  /\ \A j \in Jobs : /\ WF_vars(Submit(j)) /\ WF_vars(Backstop(j))
                     /\ WF_vars(Abandoned(j) /\ Lose(j))
  /\ \A w \in Runners : /\ WF_vars(Register(w)) /\ WF_vars(Exit(w))
                        /\ WF_vars(Polling(w)) /\ WF_vars(Beating(w))
  /\ \A k \in Attempt : WF_vars((run[k].cause # None /\ execReturns(k)) \/ Finishing(k))

Spec == Init /\ [][Next]_vars /\ Fairness
-----------------------------------------------------------------------------
(***************************************************************************)
(* Properties.                                                             *)
(***************************************************************************)

\* No attempt is executed twice, however claims and their replies are lost,
\* repeated or handled late.
ExecutedOnce == \A k \in Attempt : run[k].starts <= 1

\* A runner is done with an attempt (its report answered, or the attempt
\* aborted and its result thrown away) only when the server is too: directives
\* computed for an earlier attempt never kill a later one, and only a crash,
\* a lost claim or an exhausted delivery leaves an attempt to its lease.
ForgottenIsOver == \A k \in Attempt : run[k].at = "done" => ~Fence(k)

\* What is recorded is what happened to the attempt: success and exit codes are
\* the executor's, of a context that had not ended before; a cancelled job was
\* asked to stop, and told so; a timeout is the runner's or the backstop's.
VerdictTruthful ==
  \A j \in Jobs : basis[j] # None =>
    LET cause == basis[j][1]
        out == basis[j][2]
        ran == cause \notin {"timeout", "cancelled"}
    IN  /\ row[j].state = "succeeded" => ran /\ out = "zero"
        /\ row[j].kind = "exit_code" => ran /\ out = "nonzero"
        /\ row[j].state = "cancelled" => row[j].stop = "user" /\ cause = "cancelled"
        /\ row[j].kind = "timeout" =>
             cause = "timeout" \/ (cause = "cancelled" /\ row[j].stop = "timeout")

\* Every job comes to an end: whatever is lost, whoever crashes, even when the
\* container would run for ever and the runner's timer never fires.
JobEnds == \A j \in Jobs : <>(row[j].state \in Over)

\* The execution of a superseded attempt is stopped, or its process is gone.
SupersededStops ==
  \A k \in Attempt : (run[k].at = "exec" /\ ~Fence(k)) ~> (run[k].at # "exec")
-----------------------------------------------------------------------------
(***************************************************************************)
(* The inductive invariant behind the properties.  Each part relates the   *)
(* row x of a job to what somebody else remembers of one of its attempts k.*)
(***************************************************************************)

\* The fence in row x, and whether the attempt number has been given out.
Holds(x, k) == x.state = "running" /\ x.attempt = k[2]
Issued(x, k) == k[2] <= x.attempt

\* A job that may be granted has attempts left and nobody asked it to stop;
\* only a finished one has a failure kind.
RowOK(x) ==
  /\ x.state \in {"waiting", "queued"} => x.attempt < MaxAttempts /\ x.stop = None
  /\ x.state \notin Over => x.kind = None

\* The goroutine r of attempt k.
RunOK(x, k, r) ==
  /\ r.at = "none" => r.starts = 0 /\ r.cause = None
  /\ r.starts <= 1
  /\ ~Issued(x, k) => r.at = "none"
  /\ Holds(x, k) => /\ r.at \in Active => x.runner = r.by
                    /\ r.at \notin {"200", "409", "done"}
                    /\ r.cause # "abort"
                    /\ r.cause = "cancelled" => x.stop # None

\* Attempt k in the reply to a claim of w, and directive d for w.
GrantOK(x, w, k) == Issued(x, k) /\ (Holds(x, k) => x.runner = w)
DirOK(x, w, d) ==
  /\ Issued(x, d.key)
  /\ Holds(x, d.key) => /\ d.do = "abort" => x.runner # w
                        /\ d.do = "cancel" => x.stop # None

\* A report m that is under way after its sender gave it up.
ReportOK(x, m) ==
  Issued(x, m.key) /\ (Holds(x, m.key) /\ m.cause = "cancelled" => x.stop # None)

\* The recorded result: none of a job that is not over, else a truthful one.
BasisOK(x, b) ==
  /\ x.state \notin Over => b = None
  /\ b # None =>
       LET ran == b[1] \notin {"timeout", "cancelled"}
       IN  /\ x.state = "succeeded" => ran /\ b[2] = "zero"
           /\ x.kind = "exit_code" => ran /\ b[2] = "nonzero"
           /\ x.state = "cancelled" => x.stop = "user" /\ b[1] = "cancelled"
           /\ x.kind = "timeout" => b[1] = "timeout" \/ (b[1] = "cancelled" /\ x.stop = "timeout")

RowInv == \A j \in Jobs : RowOK(row[j]) /\ BasisOK(row[j], basis[j])
RunInv == \A k \in Attempt : RunOK(row[k[1]], k, run[k])

\* No two runners are granted the same attempt, and it has not started.
PollInv ==
  \A w \in Runners : poll[w] # None =>
    /\ GrantOK(row[poll[w][1]], w, poll[w])
    /\ run[poll[w]].at = "none"
    /\ \A v \in Runners : poll[v] = poll[w] => v = w

BeatInv ==
  \A w \in Runners : /\ \A k \in hb[w].refs : Issued(row[k[1]], k)
                     /\ \A d \in hb[w].dirs : DirOK(row[d.key[1]], w, d)
LateInv == \A m \in late : m.type = "complete" => ReportOK(row[m.key[1]], m)

\* A claim is in flight only while a slot is free for what it brings.
SlotInv ==
  \A w \in Runners : Cardinality(active(w)) + (IF poll[w] = None THEN 0 ELSE 1) <= Capacity

IInv == TypeOK /\ RowInv /\ RunInv /\ PollInv /\ BeatInv /\ LateInv /\ SlotInv
=============================================================================

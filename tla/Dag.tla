--------------------------------- MODULE Dag ---------------------------------
(***************************************************************************)
(* The job graph of a run and the part of the scheduler that walks it      *)
(* (advance): which pending jobs a change of job states skips or queues,   *)
(* and which state a run whose jobs are all over ends in.  The operators   *)
(* are pure: they map job states to job states.                            *)
(***************************************************************************)
EXTENDS Naturals, FiniteSets

CONSTANTS
  Runs,     \* run ids
  Jobs,     \* job ids, of all runs
  RunOf,    \* jobs.run_id
  Needs     \* job_deps: the jobs a job needs

(***************************************************************************)
(* What the validation of a pipeline and the constraints of CreateRun      *)
(* leave: at least one job in a run, needs inside the run, no cycle (every *)
(* non-empty set of jobs has one that needs none of the set).              *)
(***************************************************************************)
ASSUME DagAssumption ==
  /\ IsFiniteSet(Jobs)
  /\ RunOf \in [Jobs -> Runs]
  /\ Needs \in [Jobs -> SUBSET Jobs]
  /\ \A r \in Runs : \E j \in Jobs : RunOf[j] = r
  /\ \A j \in Jobs : \A n \in Needs[j] : RunOf[n] = RunOf[j]
  /\ \A S \in SUBSET Jobs : S # {} => \E j \in S : Needs[j] \cap S = {}

JobsOf(r) == {j \in Jobs : RunOf[j] = r}

Dead == {"failed", "cancelled", "skipped"}

isTerminal == Dead \cup {"succeeded"}

\* "absent" is a job whose run has not been submitted.
JobState == {"absent", "pending", "queued", "running"} \cup isTerminal

ActiveRun == {"pending", "running"}

TerminalRun == {"succeeded", "failed", "cancelled"}

RunState == {"absent"} \cup ActiveRun \cup TerminalRun
-----------------------------------------------------------------------------
PendingIn(st, r) == {j \in JobsOf(r) : st[j] = "pending"}

\* S holds every pending job of r that has a need over in another state than
\* succeeded, or in S.
SkipClosed(st, r, S) ==
  \A j \in PendingIn(st, r) :
    (\E n \in Needs[j] : st[n] \in Dead \/ n \in S) => j \in S

\* A wrong form for the mutation runs: the skip does not reach the dependents
\* of a skipped job.
SkipsOnePass(st, r) ==
  {j \in PendingIn(st, r) : \E n \in Needs[j] : st[n] \in Dead}

\* The jobs the loop of advance skips: the least such set, which is what
\* repeating the pass until nothing changes arrives at.
Skips(st, r) ==
  {j \in PendingIn(st, r) :
     \A S \in SUBSET PendingIn(st, r) : SkipClosed(st, r, S) => j \in S}

\* The jobs it queues.
Readies(st, r) ==
  {j \in PendingIn(st, r) : \A n \in Needs[j] : st[n] = "succeeded"}

\* The job states after the loop of advance over run r.
advance(st, r) ==
  [j \in Jobs |-> IF j \in Skips(st, r) THEN "skipped"
                  ELSE IF j \in Readies(st, r) THEN "queued"
                  ELSE st[j]]

\* The result of a run whose jobs are all over.
Verdict(st, r) ==
  IF \E j \in JobsOf(r) : st[j] = "failed" THEN "failed"
  ELSE IF \E j \in JobsOf(r) : st[j] = "cancelled" THEN "cancelled"
  ELSE "succeeded"

\* Wrong form: a running job does not keep its run open.
finalizeUnderRunning(st, r, rs) ==
  IF /\ \A j \in JobsOf(r) : st[j] \notin {"pending", "queued"}
     /\ rs \in ActiveRun
  THEN Verdict(st, r)
  ELSE rs

\* The state of run r, rs before, after the last part of advance.
finalize(st, r, rs) ==
  IF /\ \A j \in JobsOf(r) : st[j] \in isTerminal
     /\ rs \in ActiveRun
  THEN Verdict(st, r)
  ELSE rs
-----------------------------------------------------------------------------
\* A job is offered, runs or has succeeded only behind needs that succeeded,
\* and is skipped only behind one that is over in another state.
NeedsMet(st) ==
  \A j \in Jobs :
    /\ st[j] \in {"queued", "running", "succeeded"} =>
         \A n \in Needs[j] : st[n] = "succeeded"
    /\ st[j] = "skipped" => \E n \in Needs[j] : st[n] \in Dead

\* Nothing is left for advance to do in run r.
Settled(st, r) ==
  \A j \in PendingIn(st, r) :
    /\ \A n \in Needs[j] : st[n] \notin Dead
    /\ \E n \in Needs[j] : st[n] # "succeeded"
=============================================================================

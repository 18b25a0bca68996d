-------------------------- MODULE SchedulerProofs ---------------------------
(***************************************************************************)
(* The proofs about Scheduler, for every graph, every set of runners and   *)
(* every limit.  First what advance does to the job states of a run; then  *)
(* the effect of Settle, which ends Complete, CancelRun and Tick, on the   *)
(* graph and on the columns of the jobs; then that submission, every       *)
(* request of a runner or a user and a tick of the monitor keep the        *)
(* inductive invariant.  What follows from it: the invariants of           *)
(* Scheduler, that each transaction moves each job by one move of          *)
(* Lifecycle or leaves it alone, and, from the moves, the action           *)
(* properties.                                                             *)
(***************************************************************************)
EXTENDS SchedulerLifecycle, TLAPS

\* The set advance skips is closed under its own rule.
LEMMA SkipsClosed ==
  ASSUME NEW st, NEW r
  PROVE  SkipClosed(st, r, Skips(st, r))
<1> SUFFICES ASSUME NEW j \in PendingIn(st, r), NEW n \in Needs[j],
                    st[n] \in Dead \/ n \in Skips(st, r),
                    NEW S \in SUBSET PendingIn(st, r), SkipClosed(st, r, S)
             PROVE  j \in S
  BY Zenon DEF SkipClosed, Skips
<1> QED
  BY Zenon DEF SkipClosed, Skips

\* A job is skipped for a reason: one of its needs is dead or skipped with it.
LEMMA SkipsBlocked ==
  ASSUME NEW st, NEW r, NEW j \in Skips(st, r)
  PROVE  \E n \in Needs[j] : st[n] \in Dead \/ n \in Skips(st, r)
<1> DEFINE S == Skips(st, r) \ {j}
<1> SUFFICES ASSUME \A n \in Needs[j] : st[n] \notin Dead /\ n \notin Skips(st, r)
             PROVE  FALSE
  BY Zenon
<1>1. S \in SUBSET PendingIn(st, r)
  BY Zenon DEF Skips
<1>2. SkipClosed(st, r, S)
  BY SkipsClosed, Zenon DEF SkipClosed
<1>3. j \in S
  BY <1>1, <1>2, Zenon DEF Skips
<1> QED
  BY <1>3, Zenon

\* advance changes pending jobs of its run only, and only to queued or skipped.
LEMMA AdvanceFrame ==
  ASSUME NEW st \in [Jobs -> JobState], NEW r
  PROVE  /\ advance(st, r) \in [Jobs -> JobState]
         /\ \A j \in Jobs : j \notin PendingIn(st, r) => advance(st, r)[j] = st[j]
         /\ \A j \in PendingIn(st, r) : advance(st, r)[j] \in {"pending", "queued", "skipped"}
  BY Zenon DEF advance, Skips, Readies, JobState, isTerminal, Dead, PendingIn, JobsOf

\* advance keeps the order of the graph: what it queues has all its needs, what
\* it skips has lost one.
LEMMA AdvanceNeedsMet ==
  ASSUME NEW st \in [Jobs -> JobState], NEW r, NeedsMet(st)
  PROVE  NeedsMet(advance(st, r))
<1> DEFINE nx == advance(st, r)
<1>1. \A n \in Jobs : /\ st[n] = "succeeded" => nx[n] = "succeeded"
                      /\ st[n] \in Dead => nx[n] \in Dead
  BY AdvanceFrame DEF PendingIn, Dead
<1> SUFFICES ASSUME NEW j \in Jobs
             PROVE  /\ nx[j] \in {"queued", "running", "succeeded"} =>
                         \A n \in Needs[j] : nx[n] = "succeeded"
                    /\ nx[j] = "skipped" => \E n \in Needs[j] : nx[n] \in Dead
  BY Zenon DEF NeedsMet
<1>2. Needs[j] \subseteq Jobs
  BY DagAssumption, Zenon
<1>3. CASE j \notin PendingIn(st, r)
  BY <1>1, <1>2, <1>3, AdvanceFrame DEF NeedsMet
<1>4. CASE j \in Skips(st, r)
  <2>1. nx[j] = "skipped"
    BY <1>4, Zenon DEF advance
  <2>2. \A n \in Skips(st, r) : nx[n] = "skipped"
    BY Zenon DEF advance, Skips, PendingIn, JobsOf
  <2>3. \E n \in Needs[j] : nx[n] \in Dead
    BY <1>1, <1>2, <1>4, <2>2, SkipsBlocked, Zenon DEF Dead
  <2> QED
    BY <2>1, <2>3, Zenon
<1>5. CASE j \in PendingIn(st, r) \ Skips(st, r)
  <2>1. nx[j] = IF j \in Readies(st, r) THEN "queued" ELSE "pending"
    BY <1>5, Zenon DEF advance, PendingIn
  <2> QED
    BY <1>1, <1>2, <2>1, Zenon DEF Readies
<1> QED
  BY <1>3, <1>4, <1>5, Zenon

\* advance leaves nothing to do.
LEMMA AdvanceSettles ==
  ASSUME NEW st \in [Jobs -> JobState], NEW r
  PROVE  Settled(advance(st, r), r)
<1> DEFINE nx == advance(st, r)
<1> SUFFICES ASSUME NEW j \in PendingIn(nx, r)
             PROVE  /\ \A n \in Needs[j] : nx[n] \notin Dead
                    /\ \E n \in Needs[j] : nx[n] # "succeeded"
  BY Zenon DEF Settled
<1>1. j \in Jobs /\ RunOf[j] = r /\ nx[j] = "pending"
  BY Zenon DEF PendingIn, JobsOf
<1>2. Needs[j] \subseteq Jobs
  BY <1>1, DagAssumption, Zenon
<1>3. j \in PendingIn(st, r) /\ j \notin Skips(st, r) /\ j \notin Readies(st, r)
  BY <1>1, Zenon DEF advance, PendingIn, JobsOf
<1>4. \A n \in Needs[j] : st[n] \notin Dead /\ n \notin Skips(st, r)
  BY <1>3, SkipsClosed, Zenon DEF SkipClosed
<1>5. \A n \in Needs[j] : nx[n] \notin Dead
  BY <1>2, <1>4, Zenon DEF advance, Dead
<1>6. PICK n \in Needs[j] : st[n] # "succeeded"
  BY <1>3, Zenon DEF Readies
<1>7. nx[n] # "succeeded"
  BY <1>2, <1>6, Zenon DEF advance
<1> QED
  BY <1>5, <1>7, Zenon

\* In a graph without cycles, a run with a pending job and nothing left for
\* advance to do has a job that is neither pending nor over.
LEMMA SettledHasFrontier ==
  ASSUME NEW st \in [Jobs -> JobState], NEW r, Settled(st, r), PendingIn(st, r) # {}
  PROVE  \E n \in JobsOf(r) : st[n] \in JobState \ (isTerminal \cup {"pending"})
<1>1. PendingIn(st, r) \in SUBSET Jobs
  BY Zenon DEF PendingIn, JobsOf
<1>2. PICK j \in PendingIn(st, r) : Needs[j] \cap PendingIn(st, r) = {}
  BY <1>1, DagAssumption, Zenon
<1>3. j \in Jobs /\ RunOf[j] = r
  BY <1>2, Zenon DEF PendingIn, JobsOf
<1>4. PICK n \in Needs[j] : st[n] # "succeeded" /\ st[n] \notin Dead
  BY <1>2, Zenon DEF Settled
<1>5. n \in JobsOf(r)
  BY <1>3, <1>4, DagAssumption, Zenon DEF JobsOf
<1>6. st[n] # "pending"
  BY <1>2, <1>4, <1>5, Zenon DEF PendingIn
<1> QED
  BY <1>4, <1>5, <1>6, Zenon DEF isTerminal, JobsOf

\* A run that is over with no failed and no cancelled job has only succeeded
\* ones: a skipped job always traces back to one that failed or was cancelled.
LEMMA SkippedTracesBack ==
  ASSUME NEW st, NEW r, NeedsMet(st),
         \A j \in JobsOf(r) : st[j] \in {"succeeded", "skipped"}
  PROVE  \A j \in JobsOf(r) : st[j] = "succeeded"
<1> DEFINE S == {j \in JobsOf(r) : st[j] = "skipped"}
<1> SUFFICES ASSUME S # {}
             PROVE  FALSE
  BY Zenon
<1>1. S \in SUBSET Jobs
  BY Zenon DEF JobsOf
<1>2. PICK j \in S : Needs[j] \cap S = {}
  BY <1>1, DagAssumption, Zenon
<1>3. j \in Jobs /\ RunOf[j] = r /\ st[j] = "skipped"
  BY <1>2, Zenon DEF JobsOf
<1>4. PICK n \in Needs[j] : st[n] \in Dead
  BY <1>3, Zenon DEF NeedsMet
<1>5. n \in JobsOf(r)
  BY <1>3, <1>4, DagAssumption, Zenon DEF JobsOf
<1>6. n \in S
  BY <1>4, <1>5, Zenon DEF Dead
<1> QED
  BY <1>2, <1>4, <1>6, Zenon
-----------------------------------------------------------------------------

\* What the proofs use of the graph ...
LEMMA Graph ==
  /\ \A j \in Jobs : RunOf[j] \in Runs
  /\ \A j \in Jobs : \A n \in Needs[j] : n \in Jobs /\ RunOf[n] = RunOf[j]
  /\ \A j \in Jobs : Needs[j] \subseteq Jobs
  BY DagAssumption, Zenon

\* ... and of the limits.
LEMMA Limits ==
  /\ MaxAttempts \in Nat /\ MaxAttempts > 0
  /\ TTL \in Nat
  /\ None \notin {"user", "timeout"}
  BY SchedulerAssumption

\* The two columns most arguments need of TypeOK.
LEMMA States ==
  ASSUME IInv
  PROVE  state \in [Jobs -> JobState] /\ run \in [Runs -> RunState]
  BY Zenon DEF IInv, TypeOK

\* A job-state map that finishes or requeues running jobs, or cancels waiting
\* ones, and leaves the rest, before advance is run over it.
Moves(st) ==
  /\ st \in [Jobs -> JobState]
  /\ \A j \in Jobs :
       \/ st[j] = state[j]
       \/ state[j] = "running" /\ st[j] \in {"queued", "succeeded", "failed", "cancelled"}
       \/ state[j] \in {"pending", "queued"} /\ st[j] = "cancelled"

\* Outside the runs R, such a map only requeues.
MovesIn(st, R) ==
  \A j \in Jobs : RunOf[j] \notin R =>
    st[j] = state[j] \/ (state[j] = "running" /\ st[j] = "queued")

\* A move keeps the order of the graph.
LEMMA MovesNeedsMet ==
  ASSUME NEW st, Moves(st), NeedsMet(state)
  PROVE  NeedsMet(st)
<1> SUFFICES ASSUME NEW j \in Jobs
             PROVE  /\ st[j] \in {"queued", "running", "succeeded"} =>
                         \A n \in Needs[j] : st[n] = "succeeded"
                    /\ st[j] = "skipped" => \E n \in Needs[j] : st[n] \in Dead
  BY Zenon DEF NeedsMet
<1>1. Needs[j] \subseteq Jobs
  BY Graph, Zenon
<1>2. \A n \in Jobs : /\ state[n] = "succeeded" => st[n] = "succeeded"
                      /\ state[n] \in Dead => st[n] \in Dead
  BY Zenon DEF Moves, Dead
<1>3. ASSUME st[j] \in {"queued", "running", "succeeded"}
      PROVE  \A n \in Needs[j] : st[n] = "succeeded"
  <2>1. state[j] \in {"queued", "running", "succeeded"}
    BY <1>3, Zenon DEF Moves
  <2> QED
    BY <1>1, <1>2, <2>1, Zenon DEF NeedsMet
<1>4. ASSUME st[j] = "skipped"
      PROVE  \E n \in Needs[j] : st[n] \in Dead
  <2>1. state[j] = "skipped"
    BY <1>4, Zenon DEF Moves
  <2> QED
    BY <1>1, <1>2, <2>1, Zenon DEF NeedsMet
<1> QED
  BY <1>3, <1>4, Zenon

\* What a settled transaction leaves of the job states st.
LEMMA SettleFrame ==
  ASSUME NEW st, NEW R, Moves(st), Settle(st, R), TypeOK
  PROVE  /\ state' \in [Jobs -> JobState]
         /\ \A j \in Jobs : \/ state'[j] = st[j]
                            \/ st[j] = "pending" /\ state'[j] \in {"queued", "skipped"}
         /\ queuedAt' \in [Jobs -> Nat \cup {None}]
<1>1. st \in [Jobs -> JobState]
  BY Zenon DEF Moves
<1>2. \A j \in Jobs : state'[j] = IF RunOf[j] \in R THEN advance(st, RunOf[j])[j] ELSE st[j]
  BY Zenon DEF Settle
<1>3. \A j \in Jobs : advance(st, RunOf[j])[j] \in JobState
  BY <1>1, AdvanceFrame
<1>4. \A j \in Jobs : \/ advance(st, RunOf[j])[j] = st[j]
                      \/ st[j] = "pending" /\ advance(st, RunOf[j])[j] \in {"queued", "skipped"}
  BY <1>1, AdvanceFrame DEF PendingIn
<1>5. state' \in [Jobs -> JobState]
  BY <1>1, <1>3, Zenon DEF Settle
<1>6. queuedAt' \in [Jobs -> Nat \cup {None}]
  BY Zenon DEF Settle, TypeOK
<1> QED
  BY <1>2, <1>4, <1>5, <1>6, Zenon

\* So advance moves only jobs that wait.
LEMMA AfterAdvance ==
  ASSUME IInv, NEW st, NEW R, Moves(st), Settle(st, R)
  PROVE  \A j \in Jobs : \/ state'[j] = st[j]
                         \/ st[j] = "pending" /\ state'[j] \in {"queued", "skipped"}
  BY SettleFrame, Zenon DEF IInv

\* A transaction that moves jobs and ends with advance over the runs it
\* touched keeps the rows of runs, jobs and needs in agreement.
LEMMA SettleGraph ==
  ASSUME NEW st, NEW R \in SUBSET Runs, Moves(st), MovesIn(st, R), Settle(st, R),
         TypeOK, GraphInv, \A r \in R : run[r] \in ActiveRun
  PROVE  GraphInv' /\ run' \in [Runs -> RunState]
<1>1. st \in [Jobs -> JobState]
  BY Zenon DEF Moves
<1>2. \A j \in Jobs : RunOf[j] \in R => state'[j] = advance(st, RunOf[j])[j]
  BY Zenon DEF Settle
<1>3. \A j \in Jobs : RunOf[j] \notin R => state'[j] = st[j]
  BY Zenon DEF Settle
<1>4. \A r \in Runs : run'[r] = IF r \in R THEN finalize(state', r, run[r]) ELSE run[r]
  BY Zenon DEF Settle
<1>5. \A j \in Jobs : state[j] = "absent" <=> state'[j] = "absent"
  BY SettleFrame, Zenon DEF Moves
<1>6. run' \in [Runs -> RunState]
  <2>1. \A r \in Runs : finalize(state', r, run[r]) \in RunState
    BY Zenon DEF finalize, Verdict, RunState, TerminalRun, TypeOK
  <2> QED
    BY <2>1, Zenon DEF Settle, TypeOK
<1>7. \A r \in Runs : run[r] = "absent" <=> run'[r] = "absent"
  BY <1>4, Zenon DEF finalize, Verdict, ActiveRun
<1>8. \A j \in Jobs : state'[j] = "absent" <=> run'[RunOf[j]] = "absent"
  BY <1>5, <1>7, Graph, Zenon DEF GraphInv
<1>9. NeedsMet(state')
  <2>1. NeedsMet(st)
    BY MovesNeedsMet, Zenon DEF GraphInv
  <2> SUFFICES ASSUME NEW j \in Jobs
               PROVE  /\ state'[j] \in {"queued", "running", "succeeded"} =>
                           \A n \in Needs[j] : state'[n] = "succeeded"
                      /\ state'[j] = "skipped" => \E n \in Needs[j] : state'[n] \in Dead
    BY Zenon DEF NeedsMet
  <2>2. \A n \in Needs[j] : n \in Jobs /\ RunOf[n] = RunOf[j]
    BY Graph, Zenon
  <2>3. CASE RunOf[j] \in R
    <3>1. NeedsMet(advance(st, RunOf[j]))
      BY <1>1, <2>1, AdvanceNeedsMet, Zenon
    <3> QED
      BY <1>2, <2>2, <2>3, <3>1, Zenon DEF NeedsMet
  <2>4. CASE RunOf[j] \notin R
    BY <1>3, <2>1, <2>2, <2>4, Zenon DEF NeedsMet
  <2> QED
    BY <2>3, <2>4, Zenon
<1>10. ASSUME NEW r \in Runs
       PROVE  /\ run'[r] \in TerminalRun <=> \A j \in JobsOf(r) : state'[j] \in isTerminal
              /\ run'[r] \in TerminalRun => run'[r] = Verdict(state', r)
              /\ Settled(state', r)
  <2>1. CASE r \in R
    <3>1. Settled(advance(st, r), r)
      BY <1>1, AdvanceSettles, Zenon
    <3>2. \A j \in JobsOf(r) : state'[j] = advance(st, r)[j]
      BY <1>2, <2>1, Zenon DEF JobsOf
    <3>3. \A j \in JobsOf(r) : \A n \in Needs[j] : n \in JobsOf(r)
      BY Graph, Zenon DEF JobsOf
    <3>4. Settled(state', r)
      BY <3>1, <3>2, <3>3, Zenon DEF Settled, PendingIn
    <3>5. run[r] \in ActiveRun /\ run'[r] = finalize(state', r, run[r])
      BY <1>4, <2>1, Zenon
    <3>6. Verdict(state', r) \in TerminalRun
      BY Zenon DEF Verdict, TerminalRun
    <3> QED
      BY <3>4, <3>5, <3>6, Zenon DEF finalize, ActiveRun, TerminalRun
  <2>2. CASE r \notin R
    <3>1. \A j \in JobsOf(r) : \/ state'[j] = state[j]
                               \/ state[j] = "running" /\ state'[j] = "queued"
      BY <1>3, <2>2, Zenon DEF JobsOf, MovesIn
    <3>2. run'[r] = run[r]
      BY <1>4, <2>2, Zenon
    <3>3. \A j \in JobsOf(r) : state'[j] \in isTerminal <=> state[j] \in isTerminal
      BY <3>1, Zenon DEF isTerminal, Dead
    <3>4. run'[r] \in TerminalRun => Verdict(state', r) = Verdict(state, r)
      BY <3>1, <3>2, <3>3 DEF GraphInv, Verdict, isTerminal, Dead
    <3>5. \A j \in JobsOf(r) : \A n \in Needs[j] : n \in JobsOf(r)
      BY Graph, Zenon DEF JobsOf
    <3>6. Settled(state', r)
      BY <3>1, <3>5 DEF GraphInv, Settled, PendingIn, Dead
    <3> QED
      BY <3>2, <3>3, <3>4, <3>6, Zenon DEF GraphInv
  <2> QED
    BY <2>1, <2>2, Zenon
<1> QED
  BY <1>6, <1>8, <1>9, <1>10, Zenon DEF GraphInv

\* A step that leaves job and run states alone leaves their agreement alone.
LEMMA SameGraph ==
  ASSUME GraphInv, UNCHANGED <<run, state>>
  PROVE  GraphInv'
  BY DEF GraphInv, Settled, PendingIn, NeedsMet, Verdict

\* The parts of the invariant, each established after a transaction, make it up.
LEMMA Assemble ==
  ASSUME IInv, TypeOK', GraphInv', \A j \in Jobs : JobInv(j)',
         graceUntil' = graceUntil, bootAt' = bootAt,
         NEW C, cancelled' = C,
         \A r \in C : run'[r] # "absent",
         \A r \in C : \A j \in JobsOf(r) :
           state'[j] \in isTerminal \/ (state'[j] = "running" /\ cancel'[j] # None)
  PROVE  IInv'
<1>1. graceUntil' = bootAt' + TTL
  BY Zenon DEF IInv
<1>2. CancelReachesAll'
  BY Zenon DEF CancelReachesAll, JobsOf
<1> QED
  BY <1>1, <1>2, Zenon DEF IInv

\* The columns of every job still agree with its state after a transaction
\* that moves jobs and ends with advance, given what it did to those columns.
LEMMA SettleJobs ==
  ASSUME NEW st, NEW R, IInv, Moves(st), Settle(st, R), attempt' = attempt,
         \A j \in Jobs : state[j] = "running" /\ st[j] = "queued" =>
           attempt[j] < MaxAttempts /\ cancel[j] = None,
         \A j \in Jobs : state[j] = "running" /\ st[j] = "cancelled" => cancel[j] # "timeout",
         \A j \in Jobs : \/ cancel'[j] = cancel[j]
                         \/ state[j] = "running" /\ st[j] = "running" /\ cancel[j] = None,
         \A j \in Jobs : st[j] = "running" =>
           /\ runner'[j] = runner[j]
           /\ contact'[j] = contact[j]
           /\ started'[j] = started[j]
           /\ lease'[j] = lease[j],
         \A j \in Jobs : cancel[j] # None => cancel'[j] # None
  PROVE  /\ \A j \in Jobs : JobInv(j)'
         /\ \A r \in cancelled : \A j \in JobsOf(r) :
              state'[j] \in isTerminal \/ (state'[j] = "running" /\ cancel'[j] # None)
<1> USE DEF IInv
<1>1. \A j \in Jobs : \/ state'[j] = st[j]
                      \/ st[j] = "pending" /\ state'[j] \in {"queued", "skipped"}
  BY SettleFrame, Zenon
<1>2. ASSUME NEW j \in Jobs PROVE JobInv(j)'
  <2>1. JobInv(j)
    BY Zenon
  <2>2. \/ st[j] = state[j]
        \/ state[j] = "running" /\ st[j] \in {"queued", "succeeded", "failed", "cancelled"}
        \/ state[j] \in {"pending", "queued"} /\ st[j] = "cancelled"
    BY Zenon DEF Moves
  <2>3. /\ state'[j] \in {"absent", "pending"} => attempt'[j] = 0
        /\ attempt'[j] <= MaxAttempts
        /\ state'[j] = "queued" => attempt'[j] < MaxAttempts
    BY <1>1, <2>1, <2>2, Limits, Zenon DEF JobInv
  <2>4. state'[j] \in {"absent", "pending", "queued"} => cancel'[j] = None
    BY <1>1, <2>1, <2>2, Zenon DEF JobInv
  <2>5. ASSUME state'[j] = "cancelled" PROVE cancel'[j] # "timeout"
    <3>1. st[j] = "cancelled"
      BY <1>1, <2>5, Zenon
    <3>2. cancel'[j] = cancel[j]
      BY <3>1, Zenon
    <3>3. CASE state[j] = "running"
      BY <3>1, <3>2, <3>3, Zenon
    <3>4. CASE state[j] # "running"
      BY <2>1, <2>2, <3>1, <3>2, <3>4, Limits, Zenon DEF JobInv
    <3> QED
      BY <3>3, <3>4, Zenon
  <2>6. state'[j] = "running" => st[j] = "running" /\ state[j] = "running"
    BY <1>1, <2>2, Zenon
  <2> QED
    BY <2>1, <2>3, <2>4, <2>5, <2>6, Zenon DEF JobInv
<1>3. ASSUME NEW r \in cancelled, NEW j \in JobsOf(r)
      PROVE  state'[j] \in isTerminal \/ (state'[j] = "running" /\ cancel'[j] # None)
  <2>1. j \in Jobs
    BY Zenon DEF JobsOf
  <2>2. state[j] \in isTerminal \/ (state[j] = "running" /\ cancel[j] # None)
    BY Zenon DEF CancelReachesAll
  <2> QED
    BY <1>1, <2>1, <2>2 DEF Moves, isTerminal, Dead
<1> QED
  BY <1>2, <1>3, Zenon

\* Settling only takes a run out of an active state.
LEMMA SettleKeepsRuns ==
  ASSUME NEW st, NEW R, Settle(st, R), NEW r \in Runs, run[r] # "absent"
  PROVE  run'[r] # "absent"
  BY Zenon DEF Settle, finalize, Verdict

\* A run with a job on a runner is not over.
LEMMA RunningIsActive ==
  ASSUME IInv, NEW j \in Jobs, state[j] = "running"
  PROVE  run[RunOf[j]] \in ActiveRun
<1>1. RunOf[j] \in Runs /\ j \in JobsOf(RunOf[j])
  BY Graph, Zenon DEF JobsOf
<1>2. run[RunOf[j]] \in RunState
  BY <1>1, States, Zenon
<1>3. state[j] \notin isTerminal
  BY Zenon DEF isTerminal, Dead
<1>4. run[RunOf[j]] \notin TerminalRun
  BY <1>1, <1>3, Zenon DEF IInv, GraphInv
<1>5. run[RunOf[j]] # "absent"
  BY Zenon DEF IInv, GraphInv
<1> QED
  BY <1>2, <1>4, <1>5, Zenon DEF RunState

\* The columns Release writes keep their types.
LEMMA ReleaseTypes ==
  ASSUME NEW Q, NEW F, TypeOK, Release(Q, F)
  PROVE  /\ runner' \in [Jobs -> Runners \cup {None}]
         /\ lease' \in [Jobs -> Nat \cup {None}]
         /\ contact' \in [Jobs -> Nat \cup {None}]
         /\ started' \in [Jobs -> Nat \cup {None}]
  BY Zenon DEF TypeOK, Release

\* What Complete records for a result it accepts.
LEMMA RecordedFacts ==
  ASSUME IInv, NEW j \in Jobs, NEW res \in Result
  PROVE  /\ Recorded(j, res)[1] \in {"queued", "succeeded", "failed", "cancelled"}
         /\ Recorded(j, res)[2] \in FailureKind \cup {None}
         /\ Recorded(j, res)[1] = "queued" => attempt[j] < MaxAttempts /\ cancel[j] = None
         /\ Recorded(j, res)[1] = "cancelled" => cancel[j] # "timeout"
<1>1. kind[j] \in FailureKind \cup {None}
  BY Zenon DEF IInv, TypeOK
<1>2. res.status # "succeeded" => res.kind \in FailureKind
  BY DEF Result
<1> QED
  BY <1>1, <1>2, Zenon DEF Recorded, Stopped, Requeues, FailureKind
-----------------------------------------------------------------------------
\* The initial state satisfies the invariant.
LEMMA InitIInv == Init => IInv
<1> SUFFICES ASSUME Init
             PROVE  IInv
  BY Zenon
<1>1. TypeOK
  BY Limits, Zenon DEF Init, TypeOK, RunState, JobState
<1>2. GraphInv
  <2>1. \A r \in Runs : \E j \in JobsOf(r) : state[j] \notin isTerminal
    BY DagAssumption, Zenon DEF Init, JobsOf, isTerminal, Dead
  <2>2. \A r \in Runs : run[r] \notin TerminalRun
    BY Zenon DEF Init, TerminalRun
  <2>3. NeedsMet(state) /\ \A r \in Runs : Settled(state, r)
    BY Zenon DEF Init, NeedsMet, Settled, PendingIn, JobsOf
  <2> QED
    BY <2>1, <2>2, <2>3, Graph, Zenon DEF Init, GraphInv
<1>3. \A j \in Jobs : JobInv(j)
  BY Limits DEF Init, JobInv
<1> QED
  BY <1>1, <1>2, <1>3, Limits DEF Init, IInv, CancelReachesAll

\* Submission keeps the invariant: the new run is settled by construction.
LEMMA SubmitIInv ==
  ASSUME IInv, NEW r \in Runs, submitRun(r)
  PROVE  IInv'
<1> USE DEF IInv
<1>1. \A j \in Jobs : state'[j] = IF RunOf[j] # r THEN state[j]
                                  ELSE IF Needs[j] = {} THEN "queued" ELSE "pending"
  BY Zenon DEF submitRun
<1>2. \A j \in Jobs : RunOf[j] = r => state[j] = "absent"
  BY Zenon DEF submitRun, GraphInv
<1>3. TypeOK'
  <2>1. rowid' \in [Jobs -> Nat]
    <3>1. PICK last \in {0} \cup {rowid[i] : i \in Jobs} :
            rowid' = [j \in Jobs |-> IF RunOf[j] = r THEN last + Decl[j] ELSE rowid[j]]
      BY Zenon DEF submitRun
    <3>2. last \in Nat
      BY DEF TypeOK
    <3> QED
      BY <3>1, <3>2, SchedulerAssumption DEF TypeOK
  <2>2. state' \in [Jobs -> JobState] /\ run' \in [Runs -> RunState]
    BY Zenon DEF submitRun, TypeOK, JobState, RunState, ActiveRun
  <2>3. queuedAt' \in [Jobs -> Nat \cup {None}]
    BY Zenon DEF submitRun, TypeOK
  <2> QED
    BY <2>1, <2>2, <2>3, Zenon DEF submitRun, TypeOK, runnerVars, clockVars
<1>4. GraphInv'
  <2>1. \A q \in Runs : run'[q] = IF q = r THEN "pending" ELSE run[q]
    BY Zenon DEF submitRun, TypeOK
  <2>2. \A j \in Jobs : state'[j] = "absent" <=> run'[RunOf[j]] = "absent"
    BY <1>1, <2>1, Graph, Zenon DEF GraphInv
  <2>3. \A j \in Jobs : \A n \in Needs[j] : n \in Jobs /\ RunOf[n] = RunOf[j]
    BY Graph, Zenon
  <2>4. NeedsMet(state')
    BY <1>1, <2>3 DEF GraphInv, NeedsMet
  <2>5. ASSUME NEW q \in Runs
        PROVE  /\ run'[q] \in TerminalRun <=> \A j \in JobsOf(q) : state'[j] \in isTerminal
               /\ run'[q] \in TerminalRun => run'[q] = Verdict(state', q)
               /\ Settled(state', q)
    <3>1. CASE q = r
      <4>1. run'[q] \notin TerminalRun
        BY <2>1, <3>1, Zenon DEF TerminalRun
      <4>2. \E j \in JobsOf(q) : state'[j] \notin isTerminal
        BY <1>1, <3>1, DagAssumption, Zenon DEF JobsOf, isTerminal, Dead
      <4>3. Settled(state', q)
        BY <1>1, <2>3, <3>1 DEF Settled, PendingIn, JobsOf, Dead
      <4> QED
        BY <4>1, <4>2, <4>3, Zenon
    <3>2. CASE q # r
      <4>1. \A j \in JobsOf(q) : state'[j] = state[j]
        BY <1>1, <3>2, Zenon DEF JobsOf
      <4>2. Verdict(state', q) = Verdict(state, q)
        BY <4>1, Zenon DEF Verdict
      <4>3. \A j \in JobsOf(q) : \A n \in Needs[j] : n \in JobsOf(q)
        BY Graph, Zenon DEF JobsOf
      <4>4. Settled(state', q)
        BY <4>1, <4>3 DEF GraphInv, Settled, PendingIn
      <4> QED
        BY <2>1, <3>2, <4>1, <4>2, <4>4, Zenon DEF GraphInv
    <3> QED
      BY <3>1, <3>2, Zenon
  <2> QED
    BY <2>2, <2>4, <2>5, Zenon DEF GraphInv
<1>5. \A j \in Jobs : JobInv(j)'
  BY <1>1, <1>2, Limits, Zenon DEF submitRun, JobInv, TypeOK
<1>6. (\A q \in cancelled : run[q] # "absent")' /\ CancelReachesAll'
  <2>1. r \notin cancelled
    BY Zenon DEF submitRun
  <2> QED
    BY <1>1, <2>1 DEF submitRun, CancelReachesAll, JobsOf, TypeOK
<1> QED
  BY <1>3, <1>4, <1>5, <1>6, Zenon DEF submitRun, clockVars

\* Registrations, empty claims and the clock change no job.
LEMMA QuietIInv ==
  ASSUME IInv, UNCHANGED <<jobVars, run, state, cancelled>>, TypeOK',
         (graceUntil = bootAt + TTL)'
  PROVE  IInv'
<1>1. GraphInv'
  BY SameGraph, Zenon DEF IInv
<1>2. \A j \in Jobs : JobInv(j)'
  BY Zenon DEF IInv, JobInv, jobVars
<1> QED
  BY <1>1, <1>2, Zenon DEF IInv, CancelReachesAll, jobVars

\* A claim keeps the invariant: the job it starts has all its needs and an
\* attempt left, and its run is not cancelled.
LEMMA ClaimIInv ==
  ASSUME IInv, NEW w \in Runners, NEW j \in Jobs, Claim(w, j)
  PROVE  IInv'
<1> TypeOK /\ GraphInv /\ CancelReachesAll
  BY Zenon DEF IInv
<1>1. state[j] = "queued"
  BY Zenon DEF Claim, Eligible
<1>2. \A i \in Jobs : state'[i] = IF i = j THEN "running" ELSE state[i]
  BY Zenon DEF Claim, TypeOK
<1>3. \A r \in Runs : run'[r] = IF r = RunOf[j] /\ run[r] = "pending" THEN "running" ELSE run[r]
  BY Zenon DEF Claim, TypeOK
<1>4. TypeOK'
  BY Limits, Graph DEF Claim, Touch, TypeOK, JobState, RunState, ActiveRun, clockVars
<1>5. GraphInv'
  <2>1. \A i \in Jobs : state'[i] = "absent" <=> run'[RunOf[i]] = "absent"
    BY <1>1, <1>2, <1>3, Graph, Zenon DEF GraphInv
  <2>2. NeedsMet(state')
    BY <1>1, <1>2, Graph DEF GraphInv, NeedsMet, Dead
  <2>3. ASSUME NEW r \in Runs
        PROVE  /\ run'[r] \in TerminalRun <=> \A i \in JobsOf(r) : state'[i] \in isTerminal
               /\ run'[r] \in TerminalRun => run'[r] = Verdict(state', r)
               /\ Settled(state', r)
    <3>1. run'[r] \in TerminalRun <=> run[r] \in TerminalRun
      BY <1>3, Zenon DEF TerminalRun
    <3>2. \A i \in Jobs : state'[i] \in isTerminal <=> state[i] \in isTerminal
      BY <1>1, <1>2, Zenon DEF isTerminal, Dead
    <3>3. run'[r] \in TerminalRun => run'[r] = run[r]
      BY <1>3, Zenon DEF TerminalRun
    <3>4. Verdict(state', r) = Verdict(state, r)
      BY <1>1, <1>2, Zenon DEF Verdict, JobsOf
    <3>5. Settled(state', r)
      BY <1>1, <1>2, Graph DEF GraphInv, Settled, PendingIn, JobsOf, Dead
    <3> QED
      BY <3>1, <3>2, <3>3, <3>4, <3>5, Zenon DEF GraphInv, JobsOf
  <2> QED
    BY <2>1, <2>2, <2>3, Zenon DEF GraphInv
<1>6. ASSUME NEW i \in Jobs PROVE JobInv(i)'
  <2>1. JobInv(i)
    BY Zenon DEF IInv
  <2> QED
    BY <1>1, <1>2, <2>1, Limits DEF Claim, JobInv, TypeOK
<1>7. RunOf[j] \notin cancelled
  BY <1>1, Zenon DEF CancelReachesAll, JobsOf, isTerminal, Dead
<1>8. cancelled' = cancelled /\ cancel' = cancel /\ graceUntil' = graceUntil /\ bootAt' = bootAt
  BY Zenon DEF Claim, clockVars
<1>9. \A r \in cancelled : run'[r] # "absent"
  BY <1>3, Zenon DEF IInv, TypeOK
<1>10. \A r \in cancelled : \A i \in JobsOf(r) :
         state'[i] \in isTerminal \/ (state'[i] = "running" /\ cancel'[i] # None)
  BY <1>2, <1>7, <1>8, Zenon DEF CancelReachesAll, JobsOf
<1> QED
  BY <1>4, <1>5, <1>6, <1>8, <1>9, <1>10, Assemble, Zenon

\* A heartbeat keeps the invariant: it moves lease and contact together.
LEMMA HeartbeatIInv ==
  ASSUME IInv, NEW w \in Runners, NEW refs, Heartbeat(w, refs)
  PROVE  IInv'
<1> TypeOK /\ GraphInv /\ CancelReachesAll
  BY Zenon DEF IInv
<1>1. GraphInv'
  BY SameGraph, Zenon DEF Heartbeat
<1>2. TypeOK'
  <2>1. lease' \in [Jobs -> Nat \cup {None}] /\ contact' \in [Jobs -> Nat \cup {None}]
    BY Limits DEF Heartbeat, TypeOK
  <2>2. /\ online' \in [Runners -> {"absent", "online", "offline"}]
        /\ lastSeen' \in [Runners -> Nat \cup {None}]
    BY Zenon DEF Heartbeat, Touch, TypeOK
  <2> QED
    BY <2>1, <2>2, Zenon DEF Heartbeat, TypeOK, clockVars
<1>3. ASSUME NEW j \in Jobs PROVE JobInv(j)'
  <2>1. JobInv(j)
    BY Zenon DEF IInv
  <2> QED
    BY <2>1, Limits, Zenon DEF Heartbeat, JobInv, TypeOK, clockVars
<1>4. /\ UNCHANGED <<run, state, cancel, cancelled>>
      /\ graceUntil' = graceUntil /\ bootAt' = bootAt
  BY Zenon DEF Heartbeat, clockVars
<1>5. /\ \A r \in cancelled : run'[r] # "absent"
      /\ \A r \in cancelled : \A i \in JobsOf(r) :
           state'[i] \in isTerminal \/ (state'[i] = "running" /\ cancel'[i] # None)
  BY <1>4, Zenon DEF IInv, CancelReachesAll
<1> QED
  BY <1>1, <1>2, <1>3, <1>4, <1>5, Assemble, Zenon

\* A report keeps the invariant.
LEMMA CompleteIInv ==
  ASSUME IInv, NEW j \in Jobs, NEW a, NEW res \in Result, Complete(j, a, res)
  PROVE  IInv'
<1> DEFINE rec == Recorded(j, res)
           st == [state EXCEPT ![j] = rec[1]]
           Q == IF rec[1] = "queued" THEN {j} ELSE {}
<1>1. state[j] = "running"
  BY Zenon DEF Complete, Fence
<1>2. /\ kind' = [kind EXCEPT ![j] = rec[2]]
      /\ Release(Q, {j} \ Q)
      /\ Settle(st, {RunOf[j]})
      /\ UNCHANGED <<attempt, rowid, cancel, cancelled, runnerVars, clockVars>>
  BY Zenon DEF Complete
<1>3. /\ rec[1] \in {"queued", "succeeded", "failed", "cancelled"}
      /\ rec[2] \in FailureKind \cup {None}
      /\ rec[1] = "queued" => attempt[j] < MaxAttempts /\ cancel[j] = None
      /\ rec[1] = "cancelled" => cancel[j] # "timeout"
  BY RecordedFacts, Zenon
<1> HIDE DEF rec
<1>4. \A i \in Jobs : st[i] = IF i = j THEN rec[1] ELSE state[i]
  BY States, Zenon
<1>5. Moves(st) /\ MovesIn(st, {RunOf[j]})
  BY <1>1, <1>3, <1>4, States, Zenon DEF Moves, MovesIn, JobState, isTerminal, Dead
<1>6. run[RunOf[j]] \in ActiveRun
  BY <1>1, RunningIsActive, Zenon
<1> HIDE DEF st, Q
<1>7. GraphInv' /\ run' \in [Runs -> RunState]
  <2>1. {RunOf[j]} \in SUBSET Runs /\ \A r \in {RunOf[j]} : run[r] \in ActiveRun
    BY <1>6, Graph, Zenon
  <2>2. Settle(st, {RunOf[j]}) /\ TypeOK /\ GraphInv
    BY <1>2, Zenon DEF IInv
  <2> QED
    BY <1>5, <2>1, <2>2, SettleGraph, Zenon
<1>8. state' \in [Jobs -> JobState] /\ queuedAt' \in [Jobs -> Nat \cup {None}]
  BY <1>2, <1>5, SettleFrame, Zenon DEF IInv
<1>9. TypeOK'
  <2>1. /\ runner' \in [Jobs -> Runners \cup {None}]
        /\ lease' \in [Jobs -> Nat \cup {None}]
        /\ contact' \in [Jobs -> Nat \cup {None}]
        /\ started' \in [Jobs -> Nat \cup {None}]
    BY <1>2, ReleaseTypes, Zenon DEF IInv
  <2>2. kind' \in [Jobs -> FailureKind \cup {None}]
    BY <1>2, <1>3, Zenon DEF IInv, TypeOK
  <2> QED
    BY <1>2, <1>7, <1>8, <2>1, <2>2, Zenon DEF IInv, TypeOK, runnerVars, clockVars
<1>10. \A i \in Jobs : st[i] = "running" =>
         /\ runner'[i] = runner[i]
         /\ contact'[i] = contact[i]
         /\ started'[i] = started[i]
         /\ lease'[i] = lease[i]
  BY <1>2, <1>3, <1>4, Zenon DEF Release, Q
<1>11. /\ \A i \in Jobs : JobInv(i)'
       /\ \A r \in cancelled : \A i \in JobsOf(r) :
            state'[i] \in isTerminal \/ (state'[i] = "running" /\ cancel'[i] # None)
  <2>1. attempt' = attempt /\ cancel' = cancel
    BY <1>2, Zenon
  <2>2. \A i \in Jobs : state[i] = "running" /\ st[i] = "queued" =>
          attempt[i] < MaxAttempts /\ cancel[i] = None
    BY <1>3, <1>4, Zenon
  <2>3. \A i \in Jobs : state[i] = "running" /\ st[i] = "cancelled" => cancel[i] # "timeout"
    BY <1>3, <1>4, Zenon
  <2>4. \A i \in Jobs : \/ cancel'[i] = cancel[i]
                        \/ state[i] = "running" /\ st[i] = "running" /\ cancel[i] = None
    BY <2>1, Zenon
  <2>5. \A i \in Jobs : cancel[i] # None => cancel'[i] # None
    BY <2>1, Zenon
  <2>6. Settle(st, {RunOf[j]})
    BY <1>2, Zenon
  <2> QED
    BY <1>5, <1>10, <2>1, <2>2, <2>3, <2>4, <2>5, <2>6, SettleJobs, Zenon
<1>12. \A r \in cancelled : run'[r] # "absent"
  BY <1>2, SettleKeepsRuns, Zenon DEF IInv, TypeOK
<1>13. cancelled' = cancelled /\ graceUntil' = graceUntil /\ bootAt' = bootAt
  BY <1>2, Zenon DEF clockVars
<1> QED
  BY <1>7, <1>9, <1>11, <1>12, <1>13, Assemble, Zenon

\* A user's cancel keeps the invariant.
LEMMA CancelRunIInv ==
  ASSUME IInv, NEW r \in Runs, CancelRun(r)
  PROVE  IInv'
<1> DEFINE st == [j \in Jobs |-> IF j \in Waiting(r) THEN "cancelled" ELSE state[j]]
           asked == {j \in JobsOf(r) : state[j] = "running" /\ cancel[j] = None}
<1>1. /\ run[r] \in ActiveRun
      /\ kind' = [j \in Jobs |-> IF j \in Waiting(r) THEN "cancelled" ELSE kind[j]]
      /\ cancel' = [j \in Jobs |-> IF j \in asked THEN "user" ELSE cancel[j]]
      /\ Settle(st, {r})
      /\ cancelled' = cancelled \cup {r}
      /\ UNCHANGED <<attempt, runner, lease, started, rowid, contact, runnerVars, clockVars>>
  BY Zenon DEF CancelRun
<1>2. \A j \in Jobs : st[j] = IF j \in Waiting(r) THEN "cancelled" ELSE state[j]
  BY Zenon
<1>3. \A j \in Jobs : j \in Waiting(r) <=> RunOf[j] = r /\ state[j] \in {"pending", "queued"}
  BY Zenon DEF Waiting, JobsOf
<1>4. \A j \in Jobs : j \in asked <=> RunOf[j] = r /\ state[j] = "running" /\ cancel[j] = None
  BY Zenon DEF JobsOf
<1>5. Moves(st) /\ MovesIn(st, {r})
  BY <1>2, <1>3, States, Zenon DEF Moves, MovesIn, JobState, isTerminal, Dead
<1> HIDE DEF st, asked
<1>6. GraphInv' /\ run' \in [Runs -> RunState]
  <2>1. {r} \in SUBSET Runs /\ \A q \in {r} : run[q] \in ActiveRun
    BY <1>1, Zenon
  <2>2. Settle(st, {r}) /\ TypeOK /\ GraphInv
    BY <1>1, Zenon DEF IInv
  <2> QED
    BY <1>5, <2>1, <2>2, SettleGraph, Zenon
<1>7. state' \in [Jobs -> JobState] /\ queuedAt' \in [Jobs -> Nat \cup {None}]
  BY <1>1, <1>5, SettleFrame, Zenon DEF IInv
<1>8. TypeOK'
  <2>1. kind' \in [Jobs -> FailureKind \cup {None}]
    BY <1>1, Zenon DEF IInv, TypeOK, FailureKind
  <2>2. cancel' \in [Jobs -> {"user", "timeout", None}]
    BY <1>1, Zenon DEF IInv, TypeOK
  <2> QED
    BY <1>1, <1>6, <1>7, <2>1, <2>2, Zenon DEF IInv, TypeOK, runnerVars, clockVars
<1>9. /\ \A j \in Jobs : JobInv(j)'
      /\ \A q \in cancelled : \A j \in JobsOf(q) :
           state'[j] \in isTerminal \/ (state'[j] = "running" /\ cancel'[j] # None)
  <2>1. \A j \in Jobs : cancel'[j] = IF j \in asked THEN "user" ELSE cancel[j]
    BY <1>1, Zenon
  <2>2. \A j \in Jobs : state[j] = "running" => st[j] = "running"
    BY <1>2, <1>3, Zenon
  <2>3. \A j \in Jobs : \/ cancel'[j] = cancel[j]
                        \/ state[j] = "running" /\ st[j] = "running" /\ cancel[j] = None
    BY <1>4, <2>1, <2>2, Zenon
  <2>4. \A j \in Jobs : cancel[j] # None => cancel'[j] # None
    BY <1>4, <2>1, Zenon
  <2>5. Settle(st, {r}) /\ attempt' = attempt
    BY <1>1, Zenon
  <2>6. \A j \in Jobs : st[j] = "running" =>
          /\ runner'[j] = runner[j]
          /\ contact'[j] = contact[j]
          /\ started'[j] = started[j]
          /\ lease'[j] = lease[j]
    BY <1>1, Zenon
  <2>7. \A j \in Jobs : state[j] = "running" /\ st[j] = "queued" =>
          attempt[j] < MaxAttempts /\ cancel[j] = None
    BY <2>2, Zenon
  <2>8. \A j \in Jobs : state[j] = "running" /\ st[j] = "cancelled" => cancel[j] # "timeout"
    BY <2>2, Zenon
  <2> QED
    BY <1>5, <2>3, <2>4, <2>5, <2>6, <2>7, <2>8, SettleJobs, Zenon
<1>10. \A j \in JobsOf(r) : state'[j] \in isTerminal \/ (state'[j] = "running" /\ cancel'[j] # None)
  <2> SUFFICES ASSUME NEW j \in Jobs, RunOf[j] = r
               PROVE  state'[j] \in isTerminal \/ (state'[j] = "running" /\ cancel'[j] # None)
    BY Zenon DEF JobsOf
  <2>1. state[j] # "absent"
    BY <1>1, Zenon DEF IInv, GraphInv, ActiveRun
  <2>2. st[j] \in isTerminal \/ st[j] = "running"
    BY <1>2, <1>3, <2>1, States, Zenon DEF JobState, isTerminal, Dead
  <2>3. state'[j] = st[j]
    BY <1>1, <1>5, <2>2, SettleFrame, Zenon DEF IInv, isTerminal, Dead
  <2>4. st[j] = "running" => cancel'[j] # None
    <3>1. st[j] = "running" => state[j] = "running"
      BY <1>2, Zenon
    <3>2. cancel'[j] = IF j \in asked THEN "user" ELSE cancel[j]
      BY <1>1, Zenon
    <3> QED
      BY <1>4, <3>1, <3>2, Limits, Zenon
  <2> QED
    BY <2>2, <2>3, <2>4, Zenon
<1>11. \A q \in cancelled' : run'[q] # "absent"
  <2>1. \A q \in cancelled' : q \in Runs /\ run[q] # "absent"
    BY <1>1, Zenon DEF IInv, TypeOK, ActiveRun
  <2>2. Settle(st, {r})
    BY <1>1, Zenon
  <2> QED
    BY <2>1, <2>2, SettleKeepsRuns, Zenon
<1>12. graceUntil' = graceUntil /\ bootAt' = bootAt
  BY <1>1, Zenon DEF clockVars
<1>13. \A q \in cancelled' : \A j \in JobsOf(q) :
         state'[j] \in isTerminal \/ (state'[j] = "running" /\ cancel'[j] # None)
  BY <1>1, <1>9, <1>10, Zenon
<1> QED
  BY <1>6, <1>8, <1>9, <1>11, <1>12, <1>13, Assemble, Zenon
-----------------------------------------------------------------------------
\* One pass of the monitor keeps the invariant.
LEMMA TickIInv ==
  ASSUME IInv, Tick
  PROVE  IInv'
<1> DEFINE Q == {j \in ListExpiredLeases : Requeues(j, "lost_runner")}
           F == ListExpiredLeases \ Q
           R == {RunOf[j] : j \in F}
           st == [j \in Jobs |-> IF j \in Q THEN "queued"
                                 ELSE IF j \in F THEN "failed" ELSE state[j]]
<1>1. /\ kind' = [j \in Jobs |-> IF j \in F THEN "lost_runner" ELSE kind[j]]
      /\ Release(Q, F)
      /\ Settle(st, R)
      /\ cancel' = [j \in Jobs |-> IF j \in Overdue \ ListExpiredLeases
                                   THEN "timeout" ELSE cancel[j]]
      /\ online' = [w \in Runners |-> IF w \in Silent THEN "offline" ELSE online[w]]
      /\ UNCHANGED <<attempt, rowid, cancelled, lastSeen, clockVars>>
  BY Zenon DEF Tick
<1>2. \A j \in Jobs : st[j] = IF j \in Q THEN "queued" ELSE IF j \in F THEN "failed" ELSE state[j]
  BY Zenon
<1>3. \A j \in Q : j \in Jobs /\ state[j] = "running" /\ attempt[j] < MaxAttempts /\ cancel[j] = None
  BY Zenon DEF ListExpiredLeases, Requeues
<1>4. \A j \in F : j \in Jobs /\ state[j] = "running" /\ j \notin Q
  BY Zenon DEF ListExpiredLeases
<1>5. \A j \in Overdue \ ListExpiredLeases :
        j \notin Q /\ j \notin F /\ state[j] = "running" /\ cancel[j] = None
  BY Zenon DEF Overdue
<1>6. R \in SUBSET Runs /\ \A r \in R : run[r] \in ActiveRun
  BY <1>4, Graph, RunningIsActive, Zenon
<1>7. \A j \in Jobs : j \in F => RunOf[j] \in R
  BY Zenon
<1> HIDE DEF Q, F, R
<1>8. Moves(st) /\ MovesIn(st, R)
  BY <1>2, <1>3, <1>4, <1>7, States, Zenon DEF Moves, MovesIn, JobState, isTerminal, Dead
<1> HIDE DEF st
<1>9. TypeOK /\ GraphInv /\ Settle(st, R)
  BY <1>1, Zenon DEF IInv
<1>10. GraphInv' /\ run' \in [Runs -> RunState]
  BY <1>6, <1>8, <1>9, SettleGraph, Zenon
<1>11. state' \in [Jobs -> JobState] /\ queuedAt' \in [Jobs -> Nat \cup {None}]
  BY <1>8, <1>9, SettleFrame, Zenon
<1>12. TypeOK'
  <2>1. /\ runner' \in [Jobs -> Runners \cup {None}]
        /\ lease' \in [Jobs -> Nat \cup {None}]
        /\ contact' \in [Jobs -> Nat \cup {None}]
        /\ started' \in [Jobs -> Nat \cup {None}]
    BY <1>1, <1>9, ReleaseTypes, Zenon
  <2>2. kind' \in [Jobs -> FailureKind \cup {None}]
    BY <1>1, <1>9, Zenon DEF TypeOK, FailureKind
  <2>3. cancel' \in [Jobs -> {"user", "timeout", None}]
    BY <1>1, <1>9, Zenon DEF TypeOK
  <2>4. online' \in [Runners -> {"absent", "online", "offline"}]
    BY <1>1, <1>9, Zenon DEF TypeOK
  <2> QED
    BY <1>1, <1>9, <1>10, <1>11, <2>1, <2>2, <2>3, <2>4, Zenon DEF TypeOK, clockVars
<1>13. /\ \A j \in Jobs : JobInv(j)'
       /\ \A r \in cancelled : \A j \in JobsOf(r) :
            state'[j] \in isTerminal \/ (state'[j] = "running" /\ cancel'[j] # None)
  <2>1. \A j \in Jobs : cancel'[j] = IF j \in Overdue \ ListExpiredLeases THEN "timeout" ELSE cancel[j]
    BY <1>1, Zenon
  <2>2. \A j \in Jobs : \/ cancel'[j] = cancel[j]
                        \/ state[j] = "running" /\ st[j] = "running" /\ cancel[j] = None
    BY <1>2, <1>5, <2>1, Zenon
  <2>3. \A j \in Jobs : cancel[j] # None => cancel'[j] # None
    BY <2>1, Limits, Zenon
  <2>4. \A j \in Jobs : st[j] = "running" => j \notin Q /\ j \notin F
    BY <1>2, Zenon
  <2>5. \A j \in Jobs : st[j] = "running" =>
          /\ runner'[j] = runner[j]
          /\ contact'[j] = contact[j]
          /\ started'[j] = started[j]
          /\ lease'[j] = lease[j]
    BY <1>1, <2>4, Zenon DEF Release
  <2>6. \A j \in Jobs : state[j] = "running" /\ st[j] = "queued" =>
          attempt[j] < MaxAttempts /\ cancel[j] = None
    BY <1>2, <1>3, Zenon
  <2>7. \A j \in Jobs : state[j] = "running" /\ st[j] = "cancelled" => cancel[j] # "timeout"
    BY <1>2, Zenon
  <2>8. attempt' = attempt
    BY <1>1, Zenon
  <2> QED
    BY <1>8, <1>9, <2>2, <2>3, <2>5, <2>6, <2>7, <2>8, SettleJobs, Zenon
<1>14. \A r \in cancelled : run'[r] # "absent"
  BY <1>9, SettleKeepsRuns, Zenon DEF IInv, TypeOK
<1>15. cancelled' = cancelled /\ graceUntil' = graceUntil /\ bootAt' = bootAt
  BY <1>1, Zenon DEF clockVars
<1> QED
  BY <1>10, <1>12, <1>13, <1>14, <1>15, Assemble, Zenon

\* Every step keeps the invariant.
LEMMA StepIInv == IInv /\ [Next]_vars => IInv'
<1> SUFFICES ASSUME IInv, [Next]_vars
             PROVE  IInv'
  BY Zenon
<1>1. CASE UNCHANGED vars
  BY <1>1, QuietIInv, Zenon DEF IInv, TypeOK, vars, jobVars, runnerVars, clockVars
<1>2. ASSUME NEW r \in Runs, submitRun(r) \/ CancelRun(r) PROVE IInv'
  BY <1>2, SubmitIInv, CancelRunIInv, Zenon
<1>3. ASSUME NEW w \in Runners, Register(w) \/ ClaimNone(w) PROVE IInv'
  <2>1. TypeOK
    BY Zenon DEF IInv
  <2>2. UNCHANGED <<jobVars, run, state, cancelled, clockVars>> /\ Touch(w)
    BY <1>3, Zenon DEF Register, ClaimNone
  <2>3. /\ online' \in [Runners -> {"absent", "online", "offline"}]
        /\ lastSeen' \in [Runners -> Nat \cup {None}]
    BY <2>1, <2>2, Zenon DEF Touch, TypeOK
  <2>4. TypeOK'
    BY <2>1, <2>2, <2>3, Zenon DEF TypeOK, jobVars, clockVars
  <2> QED
    BY <2>2, <2>4, QuietIInv, Zenon DEF IInv, clockVars
<1>4. ASSUME NEW w \in Runners, NEW j \in Jobs, Claim(w, j) PROVE IInv'
  BY <1>4, ClaimIInv, Zenon
<1>5. ASSUME NEW w \in Runners, NEW refs, Heartbeat(w, refs) PROVE IInv'
  BY <1>5, HeartbeatIInv, Zenon
<1>6. ASSUME NEW j \in Jobs, NEW a, NEW res \in Result, Complete(j, a, res) PROVE IInv'
  BY <1>6, CompleteIInv, Zenon
<1>7. CASE Tick
  BY <1>7, TickIInv, Zenon
<1>8. ASSUME NEW d \in 0..MaxDowntime, Restart(d) PROVE IInv'
  <2>1. TypeOK
    BY Zenon DEF IInv
  <2>2. UNCHANGED <<jobVars, runnerVars, run, state, cancelled>>
    BY <1>8, Zenon DEF Restart
  <2>3. now' \in Nat /\ bootAt' \in Nat /\ graceUntil' \in Nat /\ graceUntil' = bootAt' + TTL
    BY <1>8, <2>1, Limits DEF Restart, TypeOK
  <2>4. TypeOK'
    BY <2>1, <2>2, <2>3, Zenon DEF TypeOK, jobVars, runnerVars
  <2> QED
    BY <2>2, <2>3, <2>4, QuietIInv, Zenon
<1>9. CASE Pass
  <2>1. TypeOK /\ graceUntil = bootAt + TTL
    BY Zenon DEF IInv
  <2>2. UNCHANGED <<graceUntil, bootAt, jobVars, runnerVars, run, state, cancelled>>
    BY <1>9, Zenon DEF Pass
  <2>3. now' \in Nat
    BY <1>9, <2>1 DEF Pass, TypeOK
  <2>4. TypeOK' /\ graceUntil' = bootAt' + TTL
    BY <2>1, <2>2, <2>3, Zenon DEF TypeOK, jobVars, runnerVars
  <2> QED
    BY <2>2, <2>4, QuietIInv, Zenon
<1> QED
  BY <1>1, <1>2, <1>3, <1>4, <1>5, <1>6, <1>7, <1>8, <1>9, Zenon DEF Next

\* The invariant holds in every reachable state, on every graph, with any set
\* of runners and any limits.
THEOREM Invariance == Spec => []IInv
  BY InitIInv, StepIInv, PTL DEF Spec

\* Columns keep their types and leases their form: TypeOK of every transaction.
THEOREM TypeCorrect == Spec => []TypeOK
<1>1. IInv => TypeOK
  BY Zenon DEF IInv
<1> QED
  BY <1>1, Invariance, PTL
-----------------------------------------------------------------------------
\* The needs of a job that is offered, runs or has succeeded have succeeded
\* (advance queues nothing too early, whatever order reports arrive in).
THEOREM NeedsAlwaysRespected == Spec => []NeedsRespected
<1>1. IInv => NeedsRespected
  BY Zenon DEF IInv, GraphInv, NeedsRespected
<1> QED
  BY <1>1, Invariance, PTL

\* Claims, infra reports and expired leases never overrun max_attempts.
THEOREM AttemptsAlwaysBounded == Spec => []AttemptsBounded
<1>1. IInv => AttemptsBounded
  BY Zenon DEF IInv, JobInv, AttemptsBounded
<1> QED
  BY <1>1, Invariance, PTL

\* Nothing of a cancelled run is left to start (CancelRun, advance, requeues).
THEOREM CancelAlwaysReachesAll == Spec => []CancelReachesAll
<1>1. IInv => CancelReachesAll
  BY Zenon DEF IInv
<1> QED
  BY <1>1, Invariance, PTL

\* The timeout backstop's stop is never recorded as a user's cancel.
THEOREM TimeoutNeverCancel == Spec => []TimeoutIsNotCancel
<1>1. IInv => TimeoutIsNotCancel
  BY Zenon DEF IInv, JobInv, TimeoutIsNotCancel
<1> QED
  BY <1>1, Invariance, PTL

\* A run that is not over has a job to offer or one that runs: advance strands
\* no run, because the graph has no cycle.
THEOREM NoRunStranded == Spec => []NoStrandedRun
<1>1. ASSUME IInv PROVE NoStrandedRun
  <2> SUFFICES ASSUME NEW r \in Runs, run[r] \in ActiveRun
               PROVE  \E j \in JobsOf(r) : state[j] \in {"queued", "running"}
    BY Zenon DEF NoStrandedRun
  <2>1. /\ state \in [Jobs -> JobState]
        /\ Settled(state, r)
        /\ run[r] \notin TerminalRun
    BY <1>1, States, Zenon DEF IInv, GraphInv, ActiveRun, TerminalRun
  <2>2. \A j \in JobsOf(r) : j \in Jobs /\ state[j] \in JobState /\ state[j] # "absent"
    BY <1>1, <2>1, Zenon DEF IInv, GraphInv, JobsOf, ActiveRun
  <2>3. PICK j \in JobsOf(r) : state[j] \notin isTerminal
    BY <1>1, <2>1, Zenon DEF IInv, GraphInv
  <2>4. CASE PendingIn(state, r) = {}
    <3>1. state[j] # "pending"
      BY <2>4, Zenon DEF PendingIn
    <3> QED
      BY <2>2, <2>3, <3>1, Zenon DEF JobState
  <2>5. CASE PendingIn(state, r) # {}
    BY <2>1, <2>2, <2>5, SettledHasFrontier, Zenon DEF JobState
  <2> QED
    BY <2>4, <2>5, Zenon
<1> QED
  BY <1>1, Invariance, PTL

\* The result of a run says what became of its jobs: in particular a run
\* succeeds only if every job did, though finalize does not look for skips.
THEOREM RunAlwaysFollowsJobs == Spec => []RunFollowsJobs
<1>1. ASSUME IInv PROVE RunFollowsJobs
  <2> SUFFICES ASSUME NEW r \in Runs
               PROVE  /\ run[r] \in TerminalRun <=> \A j \in JobsOf(r) : state[j] \in isTerminal
                      /\ run[r] = "succeeded" => \A j \in JobsOf(r) : state[j] = "succeeded"
                      /\ run[r] = "failed" => \E j \in JobsOf(r) : state[j] = "failed"
                      /\ run[r] = "cancelled" => /\ \E j \in JobsOf(r) : state[j] = "cancelled"
                                                 /\ ~ \E j \in JobsOf(r) : state[j] = "failed"
    BY Zenon DEF RunFollowsJobs
  <2>1. /\ run[r] \in TerminalRun <=> \A j \in JobsOf(r) : state[j] \in isTerminal
        /\ run[r] \in TerminalRun => run[r] = Verdict(state, r)
        /\ NeedsMet(state)
    BY <1>1, Zenon DEF IInv, GraphInv
  <2>2. ASSUME run[r] = "succeeded" PROVE \A j \in JobsOf(r) : state[j] = "succeeded"
    <3>1. \A j \in JobsOf(r) : state[j] \in {"succeeded", "skipped"}
      BY <2>1, <2>2, Zenon DEF TerminalRun, Verdict, isTerminal, Dead
    <3> QED
      BY <2>1, <3>1, SkippedTracesBack, Zenon
  <2> QED
    BY <2>1, <2>2, Zenon DEF TerminalRun, Verdict
<1> QED
  BY <1>1, Invariance, PTL
-----------------------------------------------------------------------------
(***************************************************************************)
(* Scheduler implements Lifecycle.                                         *)
(***************************************************************************)
\* Only a finished job has a failure kind: a requeued attempt leaves none.
KindInv == \A j \in Jobs : state[j] \notin isTerminal => kind[j] = None

\* A row of Lifecycle by its columns.
Row(s, a, w, c, k) == [state |-> s, attempt |-> a, runner |-> w, stop |-> c, kind |-> k]

\* A job that ends before it starts.
LEMMA RowUnstarted ==
  ASSUME NEW s, NEW a, NEW w, NEW c, NEW k, NEW t
  PROVE  Rows!Unstarted(Row(s, a, w, c, k), t)
           = Row(t, a, w, c, IF t = "cancelled" THEN t ELSE None)
<1> DEFINE u == IF t = "cancelled" THEN t ELSE None
<1>1. [Row(s, a, w, c, k) EXCEPT !.state = t] = Row(t, a, w, c, k)
  BY DEF Row
<1>2. [Row(t, a, w, c, k) EXCEPT !.kind = u] = Row(t, a, w, c, u)
  BY DEF Row
<1> QED
  BY <1>1, <1>2, Zenon DEF Rows!Unstarted

\* A job that gets its next attempt.
LEMMA RowGranted ==
  ASSUME NEW s, NEW a, NEW w, NEW c, NEW k, NEW v
  PROVE  Rows!Granted(Row(s, a, w, c, k), v) = Row("running", a + 1, v, c, k)
<1>1. [Row(s, a, w, c, k) EXCEPT !.state = "running"] = Row("running", a, w, c, k)
  BY DEF Row
<1>2. [Row("running", a, w, c, k) EXCEPT !.attempt = @ + 1] = Row("running", a + 1, w, c, k)
  BY DEF Row
<1>3. [Row("running", a + 1, w, c, k) EXCEPT !.runner = v] = Row("running", a + 1, v, c, k)
  BY DEF Row
<1> QED
  BY <1>1, <1>2, <1>3, Zenon DEF Rows!Granted

\* An attempt that failed with v and is requeued, and one that is not.
LEMMA RowRequeued ==
  ASSUME NEW s, NEW a, NEW w, NEW c, NEW k, NEW v, Rows!Requeues(Row(s, a, w, c, k), v)
  PROVE  Rows!Failed(Row(s, a, w, c, k), v) = Row("queued", a, None, c, k)
<1>1. [Row(s, a, w, c, k) EXCEPT !.state = "queued"] = Row("queued", a, w, c, k)
  BY DEF Row
<1>2. [Row("queued", a, w, c, k) EXCEPT !.runner = None] = Row("queued", a, None, c, k)
  BY DEF Row
<1> QED
  BY <1>1, <1>2, Zenon DEF Rows!Failed

\* A row that fails for good, in the form of Row.
LEMMA RowFailed ==
  ASSUME NEW s, NEW a, NEW w, NEW c, NEW k, NEW v, ~Rows!Requeues(Row(s, a, w, c, k), v)
  PROVE  Rows!Failed(Row(s, a, w, c, k), v) = Row("failed", a, w, c, v)
<1>1. [Row(s, a, w, c, k) EXCEPT !.state = "failed"] = Row("failed", a, w, c, k)
  BY DEF Row
<1>2. [Row("failed", a, w, c, k) EXCEPT !.kind = v] = Row("failed", a, w, c, v)
  BY DEF Row
<1> QED
  BY <1>1, <1>2, Zenon DEF Rows!Failed

\* An attempt whose stop was reported.
LEMMA RowStopped ==
  ASSUME NEW s, NEW a, NEW w, NEW c, NEW k, NEW res,
         res.status # "succeeded", res.kind = "cancelled"
  PROVE  Rows!Completed(Row(s, a, w, c, k), res)
           = IF c = "timeout" THEN Row("failed", a, w, c, "timeout")
             ELSE Row("cancelled", a, w, c, "cancelled")
<1>1. Row(s, a, w, c, k).stop = c
  BY Zenon DEF Row
<1>2. [Row(s, a, w, c, k) EXCEPT !.state = "failed"] = Row("failed", a, w, c, k)
  BY DEF Row
<1>3. [Row("failed", a, w, c, k) EXCEPT !.kind = "timeout"] = Row("failed", a, w, c, "timeout")
  BY DEF Row
<1>4. [Row(s, a, w, c, k) EXCEPT !.state = "cancelled"] = Row("cancelled", a, w, c, k)
  BY DEF Row
<1>5. [Row("cancelled", a, w, c, k) EXCEPT !.kind = "cancelled"] = Row("cancelled", a, w, c, "cancelled")
  BY DEF Row
<1> QED
  BY <1>1, <1>2, <1>3, <1>4, <1>5, Zenon DEF Rows!Completed

\* Untimed, by the state of the job, before and after a step.
LEMMA UntimedRow ==
  ASSUME NEW j \in Jobs, state[j] \notin {"absent", "pending"}
  PROVE  Untimed(j) = Row(state[j], attempt[j], runner[j], cancel[j], kind[j])
  BY Zenon DEF Untimed, Row

\* A job that is absent or pending is a waiting row.
LEMMA WaitingRow ==
  ASSUME NEW j \in Jobs, state[j] \in {"absent", "pending"}
  PROVE  Untimed(j) = Row("waiting", attempt[j], runner[j], cancel[j], kind[j])
  BY Zenon DEF Untimed, Row

\* The row of any other job, after a step.
LEMMA UntimedRowNext ==
  ASSUME NEW j \in Jobs, state'[j] \notin {"absent", "pending"}
  PROVE  Untimed(j)' = Row(state'[j], attempt'[j], runner'[j], cancel'[j], kind'[j])
  BY Zenon DEF Untimed, Row

\* What a step may do to the row of job j, seen through Untimed.
MovesRow(j) ==
  Untimed(j)' = Untimed(j) \/ Untimed(j)' \in Rows!Moves(Untimed(j))

\* The columns of j that Lifecycle has, but for its state, are left alone.
SameColumns(j) ==
  /\ attempt'[j] = attempt[j]
  /\ runner'[j] = runner[j]
  /\ cancel'[j] = cancel[j]
  /\ kind'[j] = kind[j]

\* A job that submission or advance moves, if anything does.
Swept(j) ==
  /\ SameColumns(j)
  /\ \/ state'[j] = state[j]
     \/ state[j] = "absent" /\ state'[j] \in {"pending", "queued"}
     \/ state[j] = "pending" /\ state'[j] \in {"queued", "skipped"}

\* Submission queues the roots, and advance queues or skips what waits.
LEMMA SweptMoves ==
  ASSUME NEW j \in Jobs, KindInv, Swept(j)
  PROVE  MovesRow(j)
<1> USE DEF Swept, SameColumns, MovesRow
<1>1. CASE state'[j] = state[j]
  BY <1>1, Zenon DEF Untimed
<1>2. CASE state[j] = "absent" /\ state'[j] = "pending"
  BY <1>2, Zenon DEF Untimed
<1>3. CASE state[j] \in {"absent", "pending"} /\ state'[j] = "queued"
  <2>1. Untimed(j)' = Rows!Offered(Untimed(j))
    BY <1>3 DEF Untimed, Rows!Offered
  <2>2. Untimed(j).state = "waiting"
    BY <1>3, Zenon DEF Untimed
  <2> QED
    BY <2>1, <2>2, Zenon DEF Rows!Moves
<1>4. CASE state[j] = "pending" /\ state'[j] = "skipped"
  <2>1. kind[j] = None
    BY <1>4, Zenon DEF KindInv, isTerminal, Dead
  <2>2. Untimed(j)' = Rows!Unstarted(Untimed(j), "skipped")
    <3>1. /\ Untimed(j) = Row("waiting", attempt[j], runner[j], cancel[j], kind[j])
          /\ Untimed(j)' = Row("skipped", attempt[j], runner[j], cancel[j], None)
      BY <1>4, <2>1, WaitingRow, UntimedRowNext, Zenon
    <3> QED
      BY <3>1, RowUnstarted
  <2>3. Untimed(j).state = "waiting"
    BY <1>4, Zenon DEF Untimed
  <2> QED
    BY <2>2, <2>3, Zenon DEF Rows!Moves
<1> QED
  BY <1>1, <1>2, <1>3, <1>4, Zenon

\* A step moves j as Lifecycle says, and keeps KindInv.
Follows(j) == MovesRow(j) /\ (state'[j] \notin isTerminal => kind'[j] = None)

\* So does what submission and advance do.
LEMMA SweptFollows ==
  ASSUME NEW j \in Jobs, KindInv, Swept(j)
  PROVE  Follows(j)
  BY SweptMoves, Zenon DEF Follows, Swept, SameColumns, KindInv, isTerminal, Dead

\* A user's cancel ends what has not started.
LEMMA CancelledMoves ==
  ASSUME NEW j \in Jobs, state[j] \in {"pending", "queued"},
         state'[j] = "cancelled", kind'[j] = "cancelled",
         attempt'[j] = attempt[j], runner'[j] = runner[j], cancel'[j] = cancel[j]
  PROVE  MovesRow(j)
<1> DEFINE s == IF state[j] = "pending" THEN "waiting" ELSE "queued"
<1>1. /\ Untimed(j) = Row(s, attempt[j], runner[j], cancel[j], kind[j])
      /\ Untimed(j)' = Row("cancelled", attempt[j], runner[j], cancel[j], "cancelled")
  BY WaitingRow, UntimedRow, UntimedRowNext, Zenon
<1>2. Untimed(j)' = Rows!Unstarted(Untimed(j), "cancelled")
  BY <1>1, RowUnstarted
<1>3. Untimed(j).state \in {"waiting", "queued"}
  BY Zenon DEF Untimed
<1> QED
  BY <1>2, <1>3, Zenon DEF MovesRow, Rows!Moves

\* A claim grants the next attempt.
LEMMA GrantedMoves ==
  ASSUME NEW j \in Jobs, NEW w \in Runners, state[j] = "queued", state'[j] = "running",
         attempt[j] < MaxAttempts, attempt'[j] = attempt[j] + 1, runner'[j] = w,
         cancel[j] = None, cancel'[j] = cancel[j], kind'[j] = kind[j]
  PROVE  MovesRow(j)
<1>1. /\ Untimed(j) = Row("queued", attempt[j], runner[j], None, kind[j])
      /\ Untimed(j)' = Row("running", attempt[j] + 1, w, None, kind[j])
  BY UntimedRow, UntimedRowNext, Zenon
<1>2. Untimed(j)' = Rows!Granted(Untimed(j), w)
  BY <1>1, RowGranted
<1>3. /\ Untimed(j).state = "queued"
      /\ Untimed(j).attempt < MaxAttempts
      /\ Untimed(j).stop = None
  BY Zenon DEF Untimed
<1> QED
  BY <1>2, <1>3, Zenon DEF MovesRow, Rows!Moves

\* A user's cancel or the backstop asks a running attempt to stop.
LEMMA AskedMoves ==
  ASSUME NEW j \in Jobs, NEW why \in {"user", "timeout"},
         state[j] = "running", state'[j] = "running", cancel[j] = None, cancel'[j] = why,
         attempt'[j] = attempt[j], runner'[j] = runner[j], kind'[j] = kind[j]
  PROVE  MovesRow(j)
<1>1. Untimed(j)' = Rows!Asked(Untimed(j), why)
  BY DEF Untimed, Rows!Asked
<1>2. Untimed(j).state = "running" /\ Untimed(j).stop = None
  BY Zenon DEF Untimed
<1> QED
  BY <1>1, <1>2, Zenon DEF MovesRow, Rows!Moves

\* The end of an attempt that failed with k: back to the queue, or over.
LEMMA FailedRow ==
  ASSUME NEW j \in Jobs, NEW k, state[j] = "running", attempt'[j] = attempt[j],
         cancel'[j] = cancel[j],
         \/ /\ Requeues(j, k)
            /\ state'[j] = "queued" /\ runner'[j] = None /\ kind'[j] = kind[j]
         \/ /\ ~Requeues(j, k)
            /\ state'[j] = "failed" /\ runner'[j] = runner[j] /\ kind'[j] = k
  PROVE  Untimed(j)' = Rows!Failed(Untimed(j), k)
<1>1. Untimed(j) = Row("running", attempt[j], runner[j], cancel[j], kind[j])
  BY UntimedRow, Zenon
<1>2. Rows!Requeues(Untimed(j), k) <=> Requeues(j, k)
  BY Zenon DEF Rows!Requeues, Requeues, retryable, Untimed
<1>3. CASE Requeues(j, k)
  <2>1. Untimed(j)' = Row("queued", attempt[j], None, cancel[j], kind[j])
    BY <1>3, UntimedRowNext, Zenon
  <2>2. Rows!Requeues(Row("running", attempt[j], runner[j], cancel[j], kind[j]), k)
    BY <1>1, <1>2, <1>3, Zenon
  <2>3. Rows!Failed(Row("running", attempt[j], runner[j], cancel[j], kind[j]), k)
          = Row("queued", attempt[j], None, cancel[j], kind[j])
    BY <2>2, RowRequeued
  <2> QED
    BY <1>1, <2>1, <2>3, Zenon
<1>4. CASE ~Requeues(j, k)
  <2>1. Untimed(j)' = Row("failed", attempt[j], runner[j], cancel[j], k)
    BY <1>4, UntimedRowNext, Zenon
  <2>2. ~Rows!Requeues(Row("running", attempt[j], runner[j], cancel[j], kind[j]), k)
    BY <1>1, <1>2, <1>4, Zenon
  <2>3. Rows!Failed(Row("running", attempt[j], runner[j], cancel[j], kind[j]), k)
          = Row("failed", attempt[j], runner[j], cancel[j], k)
    BY <2>2, RowFailed
  <2> QED
    BY <1>1, <2>1, <2>3, Zenon
<1> QED
  BY <1>3, <1>4, Zenon

\* The end of an attempt that was reported.
LEMMA CompletedMoves ==
  ASSUME IInv, KindInv, NEW j \in Jobs, NEW res \in Result, state[j] = "running",
         state'[j] = Recorded(j, res)[1], kind'[j] = Recorded(j, res)[2],
         runner'[j] = IF Recorded(j, res)[1] = "queued" THEN None ELSE runner[j],
         attempt'[j] = attempt[j], cancel'[j] = cancel[j]
  PROVE  MovesRow(j)
<1>1. Untimed(j).state = "running"
  BY Zenon DEF Untimed
<1>2. kind[j] = None
  BY Zenon DEF KindInv, isTerminal, Dead
<1>3. res \in Rows!Result
  BY Zenon DEF Result, FailureKind, Rows!Result
<1>4. Untimed(j)' = Rows!Completed(Untimed(j), res)
  <2>1. CASE res.status = "succeeded"
    BY <1>2, <2>1, Zenon DEF Recorded, Untimed, Rows!Completed
  <2>2. CASE res.status # "succeeded" /\ res.kind = "cancelled"
    <3>1. Untimed(j) = Row("running", attempt[j], runner[j], cancel[j], kind[j])
      BY UntimedRow, Zenon
    <3>2. <<state'[j], kind'[j]>> = IF cancel[j] = "timeout" THEN <<"failed", "timeout">>
                                    ELSE <<"cancelled", "cancelled">>
      BY <2>2, Zenon DEF Recorded, Stopped
    <3>3. Untimed(j)' = IF cancel[j] = "timeout"
                        THEN Row("failed", attempt[j], runner[j], cancel[j], "timeout")
                        ELSE Row("cancelled", attempt[j], runner[j], cancel[j], "cancelled")
      BY <3>2, UntimedRowNext, Zenon
    <3> QED
      BY <2>2, <3>1, <3>3, RowStopped
  <2>3. CASE res.status # "succeeded" /\ res.kind # "cancelled"
    <3>1. Rows!Completed(Untimed(j), res) = Rows!Failed(Untimed(j), res.kind)
      BY <2>3, Zenon DEF Rows!Completed
    <3>2. Untimed(j)' = Rows!Failed(Untimed(j), res.kind)
      BY <2>3, FailedRow, Zenon DEF Recorded
    <3> QED
      BY <3>1, <3>2, Zenon
  <2> QED
    BY <2>1, <2>2, <2>3, Zenon
<1> QED
  BY <1>1, <1>3, <1>4, Zenon DEF MovesRow, Rows!Moves

\* What a report does: the job it is about ends or is requeued, and advance
\* moves jobs that wait.
LEMMA CompleteMoves ==
  ASSUME IInv, KindInv, NEW j \in Jobs, NEW a, NEW res \in Result, Complete(j, a, res)
  PROVE  \A i \in Jobs : Follows(i)
<1> DEFINE rec == Recorded(j, res)
           st == [state EXCEPT ![j] = rec[1]]
           Q == IF rec[1] = "queued" THEN {j} ELSE {}
<1>1. /\ state[j] = "running"
      /\ kind' = [kind EXCEPT ![j] = rec[2]]
      /\ Release(Q, {j} \ Q)
      /\ Settle(st, {RunOf[j]})
      /\ attempt' = attempt /\ cancel' = cancel
  BY Zenon DEF Complete, Fence
<1>2. rec[1] \in {"queued", "succeeded", "failed", "cancelled"}
  BY RecordedFacts, Zenon
<1>3. rec[1] = "queued" => rec[2] = kind[j]
  BY Zenon DEF Recorded, Stopped
<1>4. kind[j] = None
  BY <1>1, Zenon DEF KindInv, isTerminal, Dead
<1> HIDE DEF rec
<1>5. \A i \in Jobs : st[i] = IF i = j THEN rec[1] ELSE state[i]
  BY States, Zenon
<1>6. Moves(st)
  BY <1>1, <1>2, <1>5, States, Zenon DEF Moves, JobState, isTerminal, Dead
<1> HIDE DEF st
<1>7. \A i \in Jobs : \/ state'[i] = st[i]
                      \/ st[i] = "pending" /\ state'[i] \in {"queued", "skipped"}
  BY <1>1, <1>6, AfterAdvance, Zenon
<1>8. \A i \in Jobs : runner'[i] = IF i \in Q THEN None ELSE runner[i]
  BY <1>1, Zenon DEF Release
<1>9. \A i \in Jobs : kind'[i] = IF i = j THEN rec[2] ELSE kind[i]
  BY <1>1, Zenon DEF IInv, TypeOK
<1>10. ASSUME NEW i \in Jobs, i # j PROVE Swept(i)
  <2>1. state'[i] = state[i] \/ (state[i] = "pending" /\ state'[i] \in {"queued", "skipped"})
    BY <1>5, <1>7, <1>10, Zenon
  <2>2. SameColumns(i)
    BY <1>1, <1>8, <1>9, <1>10, Zenon DEF SameColumns
  <2> QED
    BY <2>1, <2>2, Zenon DEF Swept
<1>11. /\ state'[j] = rec[1] /\ kind'[j] = rec[2]
       /\ runner'[j] = IF rec[1] = "queued" THEN None ELSE runner[j]
       /\ attempt'[j] = attempt[j] /\ cancel'[j] = cancel[j]
  BY <1>1, <1>2, <1>5, <1>7, <1>8, <1>9, Zenon
<1>12. MovesRow(j)
  BY <1>1, <1>11, CompletedMoves, Zenon DEF rec
<1>13. state'[j] \notin isTerminal => kind'[j] = None
  BY <1>2, <1>3, <1>4, <1>11, Zenon DEF isTerminal, Dead
<1> QED
  BY <1>10, <1>12, <1>13, SweptFollows, Zenon DEF Follows

\* What a user's cancel does: the jobs that wait end, those that run are asked.
LEMMA CancelRunMoves ==
  ASSUME IInv, KindInv, NEW r \in Runs, CancelRun(r)
  PROVE  \A j \in Jobs : Follows(j)
<1> DEFINE st == [j \in Jobs |-> IF j \in Waiting(r) THEN "cancelled" ELSE state[j]]
           asked == {j \in JobsOf(r) : state[j] = "running" /\ cancel[j] = None}
<1>1. /\ kind' = [j \in Jobs |-> IF j \in Waiting(r) THEN "cancelled" ELSE kind[j]]
      /\ cancel' = [j \in Jobs |-> IF j \in asked THEN "user" ELSE cancel[j]]
      /\ Settle(st, {r})
      /\ attempt' = attempt /\ runner' = runner
  BY Zenon DEF CancelRun
<1>2. \A j \in Jobs : st[j] = IF j \in Waiting(r) THEN "cancelled" ELSE state[j]
  BY Zenon
<1>3. \A j \in Waiting(r) : state[j] \in {"pending", "queued"}
  BY Zenon DEF Waiting
<1>4. \A j \in asked : state[j] = "running" /\ cancel[j] = None
  BY Zenon
<1>5. Moves(st)
  BY <1>2, <1>3, States, Zenon DEF Moves, JobState, isTerminal, Dead
<1> HIDE DEF st, asked
<1>6. \A j \in Jobs : \/ state'[j] = st[j]
                      \/ st[j] = "pending" /\ state'[j] \in {"queued", "skipped"}
  BY <1>1, <1>5, AfterAdvance, Zenon
<1> SUFFICES ASSUME NEW j \in Jobs
             PROVE  Follows(j)
  BY Zenon
<1>7. /\ attempt'[j] = attempt[j] /\ runner'[j] = runner[j]
      /\ kind'[j] = IF j \in Waiting(r) THEN "cancelled" ELSE kind[j]
      /\ cancel'[j] = IF j \in asked THEN "user" ELSE cancel[j]
  BY <1>1, Zenon
<1>8. CASE j \in Waiting(r)
  <2>1. state'[j] = "cancelled" /\ j \notin asked
    BY <1>2, <1>3, <1>4, <1>6, <1>8, Zenon
  <2>2. MovesRow(j)
    BY <1>3, <1>7, <1>8, <2>1, CancelledMoves, Zenon
  <2> QED
    BY <2>1, <2>2, Zenon DEF Follows, isTerminal, Dead
<1>9. CASE j \in asked
  <2>1. state'[j] = "running" /\ j \notin Waiting(r)
    BY <1>2, <1>3, <1>4, <1>6, <1>9, Zenon
  <2>2. MovesRow(j)
    BY <1>4, <1>7, <1>9, <2>1, AskedMoves, Zenon
  <2>3. kind[j] = None
    BY <1>4, <1>9, Zenon DEF KindInv, isTerminal, Dead
  <2> QED
    BY <1>7, <2>1, <2>2, <2>3, Zenon DEF Follows
<1>10. CASE j \notin Waiting(r) /\ j \notin asked
  <2>1. Swept(j)
    BY <1>2, <1>6, <1>7, <1>10, Zenon DEF Swept, SameColumns
  <2> QED
    BY <2>1, SweptFollows, Zenon
<1> QED
  BY <1>8, <1>9, <1>10, Zenon

\* What a tick does: expired attempts end or are requeued, overdue ones asked,
\* and exactly the jobs with an expired lease stop running.
LEMMA TickMoves ==
  ASSUME IInv, KindInv, Tick
  PROVE  /\ \A j \in Jobs : Follows(j)
         /\ \A j \in Jobs : state'[j] = "running" <=> state[j] = "running" /\ j \notin ListExpiredLeases
<1> DEFINE Q == {j \in ListExpiredLeases : Requeues(j, "lost_runner")}
           F == ListExpiredLeases \ Q
           R == {RunOf[j] : j \in F}
           st == [j \in Jobs |-> IF j \in Q THEN "queued"
                                 ELSE IF j \in F THEN "failed" ELSE state[j]]
<1>1. /\ kind' = [j \in Jobs |-> IF j \in F THEN "lost_runner" ELSE kind[j]]
      /\ Release(Q, F)
      /\ Settle(st, R)
      /\ cancel' = [j \in Jobs |-> IF j \in Overdue \ ListExpiredLeases
                                   THEN "timeout" ELSE cancel[j]]
      /\ attempt' = attempt
  BY Zenon DEF Tick
<1>2. \A j \in Jobs : st[j] = IF j \in Q THEN "queued" ELSE IF j \in F THEN "failed" ELSE state[j]
  BY Zenon
<1>3. \A j \in Q : state[j] = "running" /\ Requeues(j, "lost_runner") /\ j \notin F
  BY Zenon DEF ListExpiredLeases
<1>4. \A j \in F : state[j] = "running" /\ ~Requeues(j, "lost_runner") /\ j \notin Q
  BY Zenon DEF ListExpiredLeases
<1>5. \A j \in Overdue \ ListExpiredLeases :
        state[j] = "running" /\ cancel[j] = None /\ j \notin Q /\ j \notin F
  BY Zenon DEF Overdue
<1>6. \A j \in Jobs : j \in ListExpiredLeases <=> j \in Q \/ j \in F
  BY Zenon
<1> HIDE DEF Q, F, R
<1>7. Moves(st)
  BY <1>2, <1>3, <1>4, States, Zenon DEF Moves, JobState, isTerminal, Dead
<1> HIDE DEF st
<1>8. \A j \in Jobs : \/ state'[j] = st[j]
                      \/ st[j] = "pending" /\ state'[j] \in {"queued", "skipped"}
  BY <1>1, <1>7, AfterAdvance, Zenon
<1>9. \A j \in Jobs : state'[j] = "running" <=> state[j] = "running" /\ j \notin ListExpiredLeases
  BY <1>2, <1>3, <1>4, <1>6, <1>8, Zenon
<1>10. ASSUME NEW j \in Jobs PROVE Follows(j)
  <2>1. /\ attempt'[j] = attempt[j]
        /\ runner'[j] = IF j \in Q THEN None ELSE runner[j]
        /\ kind'[j] = IF j \in F THEN "lost_runner" ELSE kind[j]
        /\ cancel'[j] = IF j \in Overdue \ ListExpiredLeases THEN "timeout" ELSE cancel[j]
    BY <1>1, Zenon DEF Release
  <2>2. CASE j \in Q \cup F
    <3>1. /\ state[j] = "running"
          /\ state'[j] = IF j \in Q THEN "queued" ELSE "failed"
          /\ cancel'[j] = cancel[j]
          /\ kind[j] = None
      BY <1>2, <1>3, <1>4, <1>6, <1>8, <2>1, <2>2, Zenon DEF KindInv, isTerminal, Dead
    <3>2. Untimed(j)' = Rows!Failed(Untimed(j), "lost_runner")
      BY <1>3, <1>4, <2>1, <2>2, <3>1, FailedRow, Zenon
    <3>3. Untimed(j).state = "running"
      BY <3>1, Zenon DEF Untimed
    <3>4. MovesRow(j)
      BY <3>2, <3>3, Zenon DEF MovesRow, Rows!Moves
    <3> QED
      BY <1>3, <2>1, <2>2, <3>1, <3>4 DEF Follows, isTerminal, Dead
  <2>3. CASE j \in Overdue \ ListExpiredLeases
    <3>1. state'[j] = "running" /\ kind[j] = None
      BY <1>2, <1>5, <1>8, <2>3, Zenon DEF KindInv, isTerminal, Dead
    <3>2. MovesRow(j)
      BY <1>5, <2>1, <2>3, <3>1, AskedMoves, Zenon
    <3> QED
      BY <1>5, <2>1, <2>3, <3>1, <3>2, Zenon DEF Follows
  <2>4. CASE j \notin Q \cup F /\ j \notin Overdue \ ListExpiredLeases
    <3>1. Swept(j)
      BY <1>2, <1>8, <2>1, <2>4, Zenon DEF Swept, SameColumns
    <3> QED
      BY <3>1, SweptFollows, Zenon
  <2> QED
    BY <2>2, <2>3, <2>4, Zenon
<1> QED
  BY <1>9, <1>10, Zenon

\* Every step moves every job by a move of Lifecycle or leaves it alone.
LEMMA StepFollows == IInv /\ KindInv /\ [Next]_vars => \A j \in Jobs : Follows(j)
<1> SUFFICES ASSUME IInv, KindInv, [Next]_vars
             PROVE  \A j \in Jobs : Follows(j)
  BY Zenon
<1>1. ASSUME UNCHANGED <<state, attempt, runner, cancel, kind>> PROVE \A j \in Jobs : Follows(j)
  BY <1>1, SweptFollows, Zenon DEF Swept, SameColumns
<1>2. ASSUME NEW r \in Runs, submitRun(r) PROVE \A j \in Jobs : Follows(j)
  <2>1. \A j \in Jobs : RunOf[j] = r => state[j] = "absent"
    BY <1>2, Zenon DEF submitRun, IInv, GraphInv
  <2>2. \A j \in Jobs : Swept(j)
    BY <1>2, <2>1, Zenon DEF submitRun, Swept, SameColumns
  <2> QED
    BY <2>2, SweptFollows, Zenon
<1>3. ASSUME NEW w \in Runners, NEW j \in Jobs, Claim(w, j) PROVE \A i \in Jobs : Follows(i)
  <2>1. state[j] = "queued" /\ attempt[j] < MaxAttempts /\ cancel[j] = None /\ kind[j] = None
    BY <1>3, Zenon DEF Claim, Eligible, IInv, JobInv, KindInv, isTerminal, Dead
  <2>2. /\ state'[j] = "running" /\ attempt'[j] = attempt[j] + 1 /\ runner'[j] = w
        /\ cancel'[j] = cancel[j] /\ kind'[j] = kind[j]
    BY <1>3, Zenon DEF Claim, IInv, TypeOK
  <2>3. MovesRow(j)
    BY <2>1, <2>2, GrantedMoves, Zenon
  <2>4. \A i \in Jobs : i # j => Swept(i)
    BY <1>3, Zenon DEF Claim, Swept, SameColumns, IInv, TypeOK
  <2> QED
    BY <2>1, <2>2, <2>3, <2>4, SweptFollows, Zenon DEF Follows
<1>4. CASE UNCHANGED vars
  BY <1>1, <1>4, Zenon DEF vars, jobVars
<1>5. ASSUME NEW w \in Runners, Register(w) \/ ClaimNone(w) PROVE \A j \in Jobs : Follows(j)
  BY <1>1, <1>5, Zenon DEF Register, ClaimNone, jobVars
<1>6. ASSUME NEW w \in Runners, NEW refs, Heartbeat(w, refs) PROVE \A j \in Jobs : Follows(j)
  BY <1>1, <1>6, Zenon DEF Heartbeat
<1>7. ASSUME NEW d, Restart(d) \/ Pass PROVE \A j \in Jobs : Follows(j)
  BY <1>1, <1>7, Zenon DEF Restart, Pass, jobVars
<1> QED
  BY <1>2, <1>3, <1>4, <1>5, <1>6, <1>7, CompleteMoves, CancelRunMoves, TickMoves, Zenon DEF Next

\* No row that is still open has a failure kind (FinishJob and CancelJob set
\* it, RequeueJob and ClaimNext leave it NULL).
LEMMA KindInvariance == Spec => []KindInv
<1>1. Init => KindInv
  BY Zenon DEF Init, KindInv
<1>2. IInv /\ KindInv /\ [Next]_vars => KindInv'
  BY StepFollows, Zenon DEF Follows, KindInv
<1> QED
  BY <1>1, <1>2, Invariance, PTL DEF Spec

\* Every transaction of the scheduler moves every job by a move of Lifecycle or
\* not at all, on every graph: what Cluster assumes of the control plane holds.
THEOREM RefinesLifecycle == Spec => ImplementsLifecycle
<1>1. Init => Rows!LifecycleInit
  BY DEF Init, Rows!LifecycleInit, Rows!Blank, Untimed
<1>2. IInv /\ KindInv /\ [Next]_vars => [Rows!LifecycleNext]_[j \in Jobs |-> Untimed(j)]
  BY StepFollows, Zenon DEF Follows, MovesRow, Rows!LifecycleNext
<1> QED
  BY <1>1, <1>2, Invariance, KindInvariance, PTL DEF Spec, ImplementsLifecycle, Rows!LifecycleSpec
-----------------------------------------------------------------------------
(***************************************************************************)
(* What no step does, from the moves of Lifecycle.                         *)
(***************************************************************************)
\* No move of Lifecycle leaves a final state.
LEMMA FinishedRow ==
  ASSUME NEW j \in Jobs, MovesRow(j), state[j] \in isTerminal
  PROVE  <<state'[j], kind'[j], attempt'[j]>> = <<state[j], kind[j], attempt[j]>>
<1>1. Untimed(j).state = state[j] /\ state[j] \notin {"waiting", "queued", "running"}
  BY Zenon DEF Untimed, isTerminal, Dead
<1>2. Rows!Moves(Untimed(j)) = {}
  BY <1>1, Zenon DEF Rows!Moves
<1>3. Untimed(j)' = Untimed(j)
  BY <1>2, Zenon DEF MovesRow
<1> QED
  BY <1>1, <1>3, Zenon DEF Untimed

\* A move of a job that was asked to stop starts nothing and requeues nothing.
LEMMA StoppedRow ==
  ASSUME IInv, NEW j \in Jobs, MovesRow(j), cancel[j] # None
  PROVE  attempt'[j] = attempt[j] /\ state'[j] # "queued"
<1> DEFINE x == Untimed(j)
<1>1. state[j] \notin {"absent", "pending", "queued"}
  BY Zenon DEF IInv, JobInv
<1>2. CASE state[j] = "running"
  <2>1. x = Row("running", attempt[j], runner[j], cancel[j], kind[j])
    BY <1>2, UntimedRow, Zenon
  <2>2. x.state = "running" /\ x.stop = cancel[j] /\ x.attempt = attempt[j]
    BY <2>1 DEF Row
  <2>3. \/ Untimed(j)' = x
        \/ \E res \in Rows!Result : Untimed(j)' = Rows!Completed(x, res)
        \/ Untimed(j)' = Rows!Failed(x, "lost_runner")
    BY <2>2, Zenon DEF MovesRow, Rows!Moves
  <2> HIDE DEF x
  <2>4. ASSUME NEW k PROVE Rows!Failed(x, k) = Row("failed", attempt[j], runner[j], cancel[j], k)
    <3>1. ~Rows!Requeues(x, k)
      BY <2>2, Zenon DEF Rows!Requeues
    <3> QED
      BY <2>1, <3>1, RowFailed
  <2>5. ASSUME NEW k PROVE Rows!Failed(x, k).attempt = attempt[j] /\ Rows!Failed(x, k).state # "queued"
    BY <2>4 DEF Row
  <2>6. ASSUME NEW res \in Rows!Result
        PROVE  /\ Rows!Completed(x, res).attempt = attempt[j]
               /\ Rows!Completed(x, res).state # "queued"
    <3>1. CASE res.status = "succeeded"
      BY <2>1, <3>1, Zenon DEF Rows!Completed, Row
    <3>2. CASE res.status # "succeeded" /\ res.kind # "cancelled"
      BY <2>5, <3>2, Zenon DEF Rows!Completed
    <3>3. CASE res.status # "succeeded" /\ res.kind = "cancelled"
      <4>1. \/ Rows!Completed(x, res) = Row("failed", attempt[j], runner[j], cancel[j], "timeout")
            \/ Rows!Completed(x, res) = Row("cancelled", attempt[j], runner[j], cancel[j], "cancelled")
        BY <2>1, <3>3, RowStopped
      <4> QED
        BY <4>1 DEF Row
    <3> QED
      BY <3>1, <3>2, <3>3, Zenon
  <2>7. Untimed(j)'.attempt = attempt[j] /\ Untimed(j)'.state # "queued"
    BY <2>2, <2>3, <2>5, <2>6, Zenon
  <2> QED
    BY <2>7, Zenon DEF Untimed
<1>3. CASE state[j] \in isTerminal
  BY <1>3, FinishedRow, Zenon DEF isTerminal, Dead
<1> QED
  BY <1>1, <1>2, <1>3, States, Zenon DEF JobState

\* A run that is over keeps its state: finalize and the claim write only the
\* state of an active run.
LEMMA RunsKept ==
  IInv /\ [Next]_vars => \A r \in Runs : run[r] \in TerminalRun => run'[r] = run[r]
<1> SUFFICES ASSUME IInv, [Next]_vars, NEW r \in Runs, run[r] \in TerminalRun
             PROVE  run'[r] = run[r]
  BY Zenon
<1>1. ASSUME NEW st, NEW R, Settle(st, R) PROVE run'[r] = run[r]
  BY <1>1, Zenon DEF Settle, finalize, TerminalRun, ActiveRun
<1>2. ASSUME NEW q \in Runs, submitRun(q) \/ CancelRun(q) PROVE run'[r] = run[r]
  BY <1>1, <1>2, States, Zenon DEF submitRun, CancelRun, TerminalRun
<1>3. ASSUME NEW w \in Runners, NEW j \in Jobs, Claim(w, j) PROVE run'[r] = run[r]
  BY <1>3, States, Zenon DEF Claim, TerminalRun
<1>4. ASSUME NEW w \in Runners, Register(w) \/ ClaimNone(w) \/ \E refs : Heartbeat(w, refs)
      PROVE  run'[r] = run[r]
  BY <1>4, Zenon DEF Register, ClaimNone, Heartbeat
<1>5. ASSUME NEW j \in Jobs, NEW a, NEW res, Complete(j, a, res) PROVE run'[r] = run[r]
  BY <1>1, <1>5, Zenon DEF Complete
<1>6. ASSUME Tick PROVE run'[r] = run[r]
  BY <1>1, <1>6, Zenon DEF Tick
<1>7. ASSUME NEW d, Restart(d) \/ Pass \/ UNCHANGED vars PROVE run'[r] = run[r]
  BY <1>7, Zenon DEF Restart, Pass, vars
<1> QED
  BY <1>2, <1>3, <1>4, <1>5, <1>6, <1>7, Zenon DEF Next

\* Late, duplicate and stale reports, expired leases and cancels rewrite no
\* finished job or run (the fence of Complete, the guards of FinishJob,
\* RequeueJob, CancelJob and SetRunState).
THEOREM FinishedStaysFinished == Spec => FinalIsFinal
<1> DEFINE A == /\ \A j \in Jobs : state[j] \in isTerminal =>
                     <<state'[j], kind'[j], attempt'[j]>> = <<state[j], kind[j], attempt[j]>>
                /\ \A r \in Runs : run[r] \in TerminalRun => run'[r] = run[r]
<1>1. IInv /\ KindInv /\ [Next]_vars => A
  BY StepFollows, FinishedRow, RunsKept, Zenon DEF Follows
<1>2. IInv /\ KindInv /\ [Next]_vars => [A]_vars
  BY <1>1, Zenon
<1> QED
  BY <1>2, Invariance, KindInvariance, PTL DEF Spec, FinalIsFinal

\* A job with a cancel request is neither requeued nor claimed again.
THEOREM NoAttemptAfterCancel == Spec => CancelledAttemptIsLast
<1> DEFINE A == \A j \in Jobs : cancel[j] # None => attempt'[j] = attempt[j]
                                                   /\ state'[j] # "queued"
<1>1. IInv /\ KindInv /\ [Next]_vars => A
  BY StepFollows, StoppedRow, Zenon DEF Follows
<1>2. IInv /\ KindInv /\ [Next]_vars => [A]_vars
  BY <1>1, Zenon
<1> QED
  BY <1>2, Invariance, KindInvariance, PTL DEF Spec, CancelledAttemptIsLast

\* The monitor takes an attempt only after one TTL of silence and one TTL of
\* uptime (ListExpiredLeases, leaseGraceUntil).
THEOREM OnlyTheSilentAreLost == Spec => LostOnlyAfterSilence
<1> DEFINE A == Tick => \A j \in Jobs : state[j] = "running" /\ state'[j] # "running" =>
                  now > contact[j] + TTL /\ now >= bootAt + TTL
<1>1. ASSUME IInv, KindInv, Tick, NEW j \in Jobs, state[j] = "running", state'[j] # "running"
      PROVE  now > contact[j] + TTL /\ now >= bootAt + TTL
  <2>1. j \in ListExpiredLeases
    BY <1>1, TickMoves, Zenon
  <2> QED
    BY <1>1, <2>1, Limits, Zenon DEF ListExpiredLeases, IInv, JobInv, TypeOK
<1>2. IInv /\ KindInv /\ [Next]_vars => [A]_vars
  BY <1>1, Zenon
<1> QED
  BY <1>2, Invariance, KindInvariance, PTL DEF Spec, LostOnlyAfterSilence

\* A second tick at the same time finds nothing to do (monitor.go, Tick).
THEOREM TickAlwaysIdempotent == Spec => TickIdempotent
<1> DEFINE A == Tick => ListExpiredLeases' = {} /\ Overdue' = {} /\ Silent' = {}
<1>1. ASSUME IInv, KindInv, Tick PROVE ListExpiredLeases' = {} /\ Overdue' = {} /\ Silent' = {}
  <2>1. \A j \in Jobs : state'[j] = "running" => state[j] = "running" /\ j \notin ListExpiredLeases
    BY <1>1, TickMoves, Zenon
  <2>2. now' = now /\ graceUntil' = graceUntil /\ lastSeen' = lastSeen
    BY <1>1, Zenon DEF Tick, clockVars
  <2>3. \A j \in Jobs : j \notin ListExpiredLeases => lease'[j] = lease[j] /\ started'[j] = started[j]
    BY <1>1, Zenon DEF Tick, Release
  <2>4. \A j \in Jobs : cancel'[j] = IF j \in Overdue \ ListExpiredLeases THEN "timeout" ELSE cancel[j]
    BY <1>1, Zenon DEF Tick
  <2>5. ListExpiredLeases' = {}
    BY <2>1, <2>2, <2>3, Zenon DEF ListExpiredLeases
  <2>6. Overdue' = {}
    BY <2>1, <2>2, <2>3, <2>4, Limits, Zenon DEF Overdue
  <2>7. Silent' = {}
    BY <1>1, <2>2, Zenon DEF Tick, Silent
  <2> QED
    BY <2>5, <2>6, <2>7, Zenon
<1>2. IInv /\ KindInv /\ [Next]_vars => [A]_vars
  BY <1>1, Zenon
<1> QED
  BY <1>2, Invariance, KindInvariance, PTL DEF Spec, TickIdempotent
=============================================================================

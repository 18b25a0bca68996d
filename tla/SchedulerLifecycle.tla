------------------------- MODULE SchedulerLifecycle -------------------------
(***************************************************************************)
(* Scheduler implements Lifecycle: the rows without clock, leases, queue   *)
(* positions and needs.  A job whose run does not exist yet, or that waits *)
(* for its needs, is "waiting".                                            *)
(***************************************************************************)
EXTENDS Scheduler

Untimed(j) ==
  [state   |-> IF state[j] \in {"absent", "pending"} THEN "waiting" ELSE state[j],
   attempt |-> attempt[j],
   runner  |-> runner[j],
   stop    |-> cancel[j],
   kind    |-> kind[j]]

Rows == INSTANCE Lifecycle WITH row <- [j \in Jobs |-> Untimed(j)]

\* Every transaction moves every job by a move of Lifecycle or not at all:
\* what Cluster assumes of the control plane is what the scheduler does.
ImplementsLifecycle == Rows!LifecycleSpec
=============================================================================

----------------------------- MODULE MCScheduler -----------------------------
(* Instances of Scheduler for TLC. *)
EXTENDS SchedulerLifecycle, TLC

CONSTANTS r1, a, b, c, d, w1, w2

\* One run of one job.
OneRunOf == a :> r1
OneNeeds == a :> {}

\* One run of four jobs: b and c after a, d after both.
DiamondRunOf == [x \in {a, b, c, d} |-> r1]
DiamondNeeds == a :> {} @@ b :> {a} @@ c :> {a} @@ d :> {b, c}

\* Jobs are declared in alphabetical order.
InOrder == [x \in Jobs |-> CASE x = a -> 1 [] x = b -> 2 [] x = c -> 3 [] x = d -> 4]

Timeout1 == [x \in Jobs |-> 1]

NoLabels == [x \in Jobs |-> <<>>]
PlainRunners == [x \in Runners |-> <<>>]

\* Every job requires a label with an empty value, which only w2 has.
EmptyLabel == [x \in Jobs |-> "gpu" :> ""]
OneLabelled == w1 :> <<>> @@ w2 :> ("gpu" :> "")

Symmetry == Permutations(Runners)
=============================================================================

---------------------------- MODULE ClusterProofs ----------------------------
(***************************************************************************)
(* The inductive invariant of Cluster, for any number of jobs, runners,    *)
(* attempts, slots and faults.  What anybody remembers of an attempt stays *)
(* true of the job's row however the row moves (Carried); so a step of one *)
(* process has to account only for what it writes itself (Preserved).      *)
(***************************************************************************)
EXTENDS Cluster, FiniteSetTheorems, TLAPS

\* The limits, and what None is not.
LEMMA Limits ==
  /\ Capacity \in Nat \ {0} /\ CompleteRetries \in Nat \ {0} /\ MaxAttempts \in Nat \ {0}
  /\ MaxFaults \in Nat
  /\ IsFiniteSet(Jobs)
  /\ None \notin Runners /\ None \notin Attempt
  /\ None # "user" /\ None # "timeout" /\ None # "cancelled" /\ None # "abort" /\ None # "exit_code"
BY ClusterAssumption, Zenon DEF Attempt

\* An attempt is a job and a number.
LEMMA Attempts ==
  \A k \in Attempt : k[1] \in Jobs /\ k[2] \in 1..MaxAttempts /\ k = <<k[1], k[2]>>
BY DEF Attempt

\* The types, one by one.
LEMMA Types ==
  TypeOK <=> /\ row \in [Jobs -> Rows]
             /\ life \in [Runners -> {"off", "on", "draining", "ending"}]
             /\ poll \in [Runners -> Attempt \cup {None}]
             /\ hb \in [Runners -> Beats]
             /\ run \in [Attempt -> Runs]
             /\ late \subseteq Requests
             /\ basis \in [Jobs -> {None} \cup (Causes \X Outs)]
             /\ faults \in 0..MaxFaults
BY Zenon DEF TypeOK
-----------------------------------------------------------------------------
(***************************************************************************)
(* Rows.                                                                   *)
(***************************************************************************)

\* How a row may differ from an earlier one: attempt numbers only grow, and
\* while an attempt runs its runner stays and a request to stop is not undone.
Moved(x, y) ==
  /\ x.attempt <= y.attempt
  /\ y.state = "running" /\ y.attempt = x.attempt =>
       x.state = "running" /\ y.runner = x.runner /\ (x.stop # None => y.stop # None)

\* The fields of the rows after each kind of move.
LEMMA RowAfter ==
  ASSUME NEW x \in Rows
  PROVE  /\ Offered(x) \in Rows
         /\ Unstarted(x, "cancelled") \in Rows
         /\ Unstarted(x, "skipped") \in Rows
         /\ \A w \in Runners : x.attempt < MaxAttempts => Granted(x, w) \in Rows
         /\ \A y \in {"user", "timeout"} : Asked(x, y) \in Rows
         /\ \A y \in {"exit_code", "timeout", "infra", "lost_runner"} : Failed(x, y) \in Rows
         /\ \A y \in Result : Completed(x, y) \in Rows
<1>1. Offered(x) \in Rows
  BY Zenon DEF Offered, Rows
<1>2. Unstarted(x, "cancelled") \in Rows /\ Unstarted(x, "skipped") \in Rows
  BY Zenon DEF Unstarted, Rows, Over
<1>3. ASSUME NEW w \in Runners, x.attempt < MaxAttempts PROVE Granted(x, w) \in Rows
  <2>1. x.attempt + 1 \in 0..MaxAttempts
    BY <1>3, Limits DEF Rows
  <2> QED
    BY <1>3, <2>1, Zenon DEF Granted, Rows
<1>4. ASSUME NEW y \in {"user", "timeout"} PROVE Asked(x, y) \in Rows
  BY <1>4, Zenon DEF Asked, Rows
<1>5. ASSUME NEW y \in {"exit_code", "timeout", "infra", "lost_runner"} PROVE Failed(x, y) \in Rows
  BY <1>5, Zenon DEF Failed, Rows, Over
<1>6. ASSUME NEW y \in Result PROVE Completed(x, y) \in Rows
  <2>1. CASE y.status = "succeeded"
    BY <2>1, Zenon DEF Completed, Rows, Over
  <2>2. CASE y.status # "succeeded" /\ y.kind # "cancelled"
    BY <2>2, <1>5 DEF Completed, Result
  <2>3. CASE y.status # "succeeded" /\ y.kind = "cancelled"
    BY <2>3, Zenon DEF Completed, Rows, Over
  <2> QED
    BY <2>1, <2>2, <2>3, Zenon
<1> QED
  BY <1>1, <1>2, <1>3, <1>4, <1>5, <1>6, Zenon

\* Every move keeps the row well formed, and is one that everybody's memory of
\* the attempts survives; a finished row has no moves.
LEMMA MovesOK ==
  ASSUME NEW x \in Rows, RowOK(x), NEW y \in Moves(x)
  PROVE  y \in Rows /\ RowOK(y) /\ Moved(x, y) /\ x.state \notin Over
<1>1. x.attempt \in 0..MaxAttempts /\ x.state \in {"waiting", "queued", "running"} \cup Over
  BY Zenon DEF Rows
<1>2. CASE x.state = "waiting"
  <2>1. y \in {Offered(x), Unstarted(x, "cancelled"), Unstarted(x, "skipped")}
    BY <1>2, Zenon DEF Moves
  <2>2. y \in Rows
    BY <2>1, RowAfter, Zenon
  <2>3. /\ y.attempt = x.attempt /\ y.stop = x.stop
        /\ y.state \in {"queued", "cancelled", "skipped"}
        /\ y.state = "queued" => y.kind = x.kind
    BY <2>1, Zenon DEF Offered, Unstarted, Rows
  <2> QED
    BY <1>1, <1>2, <2>2, <2>3, Limits DEF RowOK, Moved, Over
<1>3. CASE x.state = "queued"
  <2>1. CASE y = Unstarted(x, "cancelled")
    <3>1. y.attempt = x.attempt /\ y.state = "cancelled"
      BY <2>1, Zenon DEF Unstarted, Rows
    <3> QED
      BY <1>1, <1>3, <2>1, <3>1, RowAfter, Limits DEF RowOK, Moved, Over
  <2>2. ASSUME NEW w \in Runners, y = Granted(x, w) PROVE y \in Rows /\ RowOK(y) /\ Moved(x, y)
    <3>1. y.attempt = x.attempt + 1 /\ y.state = "running" /\ y.kind = x.kind
      BY <2>2, Zenon DEF Granted, Rows
    <3>2. x.attempt < MaxAttempts
      BY <1>3, Zenon DEF RowOK
    <3> QED
      BY <1>1, <1>3, <2>2, <3>1, <3>2, RowAfter, Limits DEF RowOK, Moved, Over
  <2>3. y = Unstarted(x, "cancelled") \/ \E w \in Runners : y = Granted(x, w)
    BY <1>3, Zenon DEF Moves
  <2> QED
    BY <1>3, <2>1, <2>2, <2>3, Zenon DEF Over
<1>4. CASE x.state = "running"
  <2> DEFINE Ended(z) == /\ z.attempt = x.attempt
                         /\ z.state \in {"queued"} \cup Over
                         /\ z.state = "queued" => /\ x.attempt < MaxAttempts /\ z.stop = None
                                                  /\ z.kind = x.kind
  <2>1. ASSUME NEW z \in Rows, Ended(z) PROVE RowOK(z) /\ Moved(x, z)
    BY <1>1, <1>4, <2>1, Limits DEF RowOK, Moved, Over
  <2>2. ASSUME NEW z \in {"exit_code", "timeout", "infra", "lost_runner"} PROVE Ended(Failed(x, z))
    BY <2>2, Zenon DEF Failed, Requeues, Rows, Over
  <2>3. ASSUME NEW res \in Result PROVE Ended(Completed(x, res))
    <3>1. CASE res.status = "succeeded"
      BY <3>1, Zenon DEF Completed, Rows, Over
    <3>2. CASE res.status # "succeeded" /\ res.kind # "cancelled"
      BY <3>2, <2>2 DEF Completed, Result
    <3>3. CASE res.status # "succeeded" /\ res.kind = "cancelled"
      BY <3>3, Zenon DEF Completed, Rows, Over
    <3> QED
      BY <3>1, <3>2, <3>3, Zenon
  <2>4. ASSUME NEW z \in {"user", "timeout"}, x.stop = None
        PROVE  RowOK(Asked(x, z)) /\ Moved(x, Asked(x, z))
    <3>1. /\ Asked(x, z).attempt = x.attempt /\ Asked(x, z).state = x.state
          /\ Asked(x, z).runner = x.runner /\ Asked(x, z).kind = x.kind
      BY Zenon DEF Asked, Rows
    <3> QED
      BY <1>1, <1>4, <2>4, <3>1, Limits DEF RowOK, Moved, Over
  <2>5. \/ \E res \in Result : y = Completed(x, res)
        \/ y = Failed(x, "lost_runner")
        \/ x.stop = None /\ y \in {Asked(x, "user"), Asked(x, "timeout")}
    BY <1>4, Zenon DEF Moves
  <2> HIDE DEF Ended
  <2> QED
    BY <1>4, <2>1, <2>2, <2>3, <2>4, <2>5, RowAfter, Zenon DEF Over
<1>5. CASE x.state \in Over
  BY <1>5, Zenon DEF Moves, Over
<1> QED
  BY <1>1, <1>2, <1>3, <1>4, <1>5, Zenon

\* What is remembered of an attempt stays true of the row.
LEMMA Carried ==
  ASSUME NEW x \in Rows, NEW y \in Rows, Moved(x, y)
  PROVE  /\ \A k \in Attempt : Issued(x, k) => Issued(y, k)
         /\ \A k \in Attempt, r \in Runs : RunOK(x, k, r) => RunOK(y, k, r)
         /\ \A k \in Attempt, w \in Runners : GrantOK(x, w, k) => GrantOK(y, w, k)
         /\ \A d \in [key : Attempt, do : {"abort", "cancel"}], w \in Runners :
              DirOK(x, w, d) => DirOK(y, w, d)
         /\ \A m \in Requests : m.type = "complete" /\ ReportOK(x, m) => ReportOK(y, m)
<1>1. x.attempt \in Nat /\ y.attempt \in Nat /\ x.attempt <= y.attempt
  BY Limits DEF Rows, Moved
<1>2. \A k \in Attempt : k[2] \in Nat
  BY Attempts, Limits
<1>3. ASSUME NEW k \in Attempt, Issued(x, k)
      PROVE  Issued(y, k) /\ (Holds(y, k) => Holds(x, k) /\ y.runner = x.runner
                                             /\ (x.stop # None => y.stop # None))
  BY <1>1, <1>2, <1>3 DEF Issued, Holds, Moved
<1>4. ASSUME NEW k \in Attempt, NEW r \in Runs, RunOK(x, k, r) PROVE RunOK(y, k, r)
  <2>1. CASE Issued(x, k)
    BY <1>3, <1>4, <2>1, Zenon DEF RunOK
  <2>2. CASE ~Issued(x, k)
    BY <1>4, <2>2, Limits, Zenon DEF RunOK, Active, Executing
  <2> QED
    BY <2>1, <2>2, Zenon
<1>5. \A m \in Requests : m.type = "complete" => m.key \in Attempt
  BY Zenon DEF Requests
<1> QED
  BY <1>3, <1>4, <1>5, Zenon DEF GrantOK, DirOK, ReportOK
-----------------------------------------------------------------------------
(***************************************************************************)
(* Steps in general.                                                       *)
(***************************************************************************)

\* A transaction that moves the row of one job.
LEMMA SetRow ==
  ASSUME IInv, NEW j \in Jobs, NEW x \in Moves(row[j]), Set(j, x)
  PROVE  /\ row' \in [Jobs -> Rows]
         /\ row'[j] = x
         /\ \A i \in Jobs : row'[i] = row[i] \/ row'[i] \in Moves(row[i])
<1>1. row \in [Jobs -> Rows] /\ x \in Rows
  BY MovesOK, Types, Zenon DEF IInv, RowInv
<1> QED
  BY <1>1, Zenon DEF Set

\* A step keeps the invariant when rows only make moves and what it writes is
\* in order.
LEMMA Preserved ==
  ASSUME IInv, TypeOK',
         \A j \in Jobs : row'[j] = row[j] \/ row'[j] \in Moves(row[j]),
         \A j \in Jobs : basis'[j] = basis[j] \/ BasisOK(row'[j], basis'[j]),
         \A k \in Attempt : run'[k] = run[k] \/ RunOK(row'[k[1]], k, run'[k]),
         \A w \in Runners : hb'[w] = hb[w]
           \/ /\ \A k \in hb'[w].refs : Issued(row'[k[1]], k)
              /\ \A d \in hb'[w].dirs : DirOK(row'[d.key[1]], w, d),
         \A m \in late' \ late : m.type = "complete" => ReportOK(row'[m.key[1]], m),
         \/ \A w \in Runners : poll'[w] # None =>
              poll'[w] = poll[w] /\ run'[poll'[w]] = run[poll'[w]]
         \/ PollInv',
         SlotInv'
  PROVE  IInv'
<1>1. /\ row \in [Jobs -> Rows] /\ poll \in [Runners -> Attempt \cup {None}]
      /\ hb \in [Runners -> Beats] /\ run \in [Attempt -> Runs] /\ late \subseteq Requests
      /\ row' \in [Jobs -> Rows] /\ poll' \in [Runners -> Attempt \cup {None}]
      /\ hb' \in [Runners -> Beats] /\ run' \in [Attempt -> Runs] /\ late' \subseteq Requests
  BY Zenon DEF IInv, TypeOK
<1>2. \A j \in Jobs : Moved(row[j], row'[j]) /\ RowOK(row'[j])
                      /\ (row'[j] = row[j] \/ row[j].state \notin Over)
  <2> SUFFICES ASSUME NEW j \in Jobs
               PROVE  Moved(row[j], row'[j]) /\ RowOK(row'[j])
                      /\ (row'[j] = row[j] \/ row[j].state \notin Over)
    BY Zenon
  <2>1. row[j] \in Rows /\ RowOK(row[j])
    BY <1>1, Zenon DEF IInv, RowInv
  <2>2. CASE row'[j] = row[j]
    BY <2>1, <2>2, Limits DEF Moved, Rows
  <2>3. CASE row'[j] \in Moves(row[j])
    BY <2>1, <2>3, MovesOK, Zenon
  <2> QED
    BY <2>2, <2>3, Zenon
<1>3. RowInv'
  <2> SUFFICES ASSUME NEW j \in Jobs
               PROVE  BasisOK(row'[j], basis'[j])
    BY <1>2, Zenon DEF RowInv
  <2>1. CASE basis'[j] = basis[j] /\ row'[j] = row[j]
    BY <2>1, Zenon DEF IInv, RowInv
  <2>2. CASE basis'[j] = basis[j] /\ row[j].state \notin Over
    BY <2>2, Zenon DEF IInv, RowInv, BasisOK
  <2> QED
    BY <1>2, <2>1, <2>2, Zenon
<1>4. \A k \in Attempt : k[1] \in Jobs
  BY Attempts, Zenon
<1>5. RunInv'
  BY <1>1, <1>2, <1>4, Carried DEF IInv, RunInv
<1>6. PollInv'
  <2>1. CASE \A w \in Runners : poll'[w] # None =>
               poll'[w] = poll[w] /\ run'[poll'[w]] = run[poll'[w]]
    <3> SUFFICES ASSUME NEW w \in Runners, poll'[w] # None
                 PROVE  /\ GrantOK(row'[poll'[w][1]], w, poll'[w])
                        /\ run'[poll'[w]].at = "none"
                        /\ \A v \in Runners : poll'[v] = poll'[w] => v = w
      BY Zenon DEF PollInv
    <3>1. poll[w] \in Attempt /\ poll[w][1] \in Jobs /\ poll'[w] = poll[w] /\ run'[poll[w]] = run[poll[w]]
      BY <1>1, <1>4, <2>1, Zenon
    <3>2. GrantOK(row[poll[w][1]], w, poll[w]) /\ run[poll[w]].at = "none"
          /\ \A v \in Runners : poll[v] = poll[w] => v = w
      BY <3>1, Zenon DEF IInv, PollInv
    <3>3. GrantOK(row'[poll[w][1]], w, poll[w])
      BY <1>1, <1>2, <3>1, <3>2, Carried
    <3>4. \A v \in Runners : poll'[v] = poll'[w] => poll[v] = poll[w]
      BY <2>1, <3>1, Zenon
    <3> QED
      BY <3>1, <3>2, <3>3, <3>4, Zenon
  <2> QED
    BY <2>1, Zenon
<1>7. BeatInv'
  <2> SUFFICES ASSUME NEW w \in Runners, hb'[w] = hb[w]
               PROVE  /\ \A k \in hb[w].refs : Issued(row'[k[1]], k)
                      /\ \A d \in hb[w].dirs : DirOK(row'[d.key[1]], w, d)
    BY Zenon DEF BeatInv
  <2>1. /\ hb[w].refs \subseteq Attempt
        /\ hb[w].dirs \subseteq [key : Attempt, do : {"abort", "cancel"}]
    BY <1>1, Zenon DEF Beats
  <2>2. /\ \A k \in hb[w].refs : Issued(row[k[1]], k)
        /\ \A d \in hb[w].dirs : DirOK(row[d.key[1]], w, d)
    BY Zenon DEF IInv, BeatInv
  <2>3. ASSUME NEW k \in hb[w].refs PROVE Issued(row'[k[1]], k)
    <3>1. k \in Attempt /\ k[1] \in Jobs
      BY <2>1, <1>4, Zenon
    <3> QED
      BY <1>1, <1>2, <2>2, <3>1, Carried
  <2>4. ASSUME NEW d \in hb[w].dirs PROVE DirOK(row'[d.key[1]], w, d)
    <3>1. d.key[1] \in Jobs
      BY <2>1, <1>4, Zenon
    <3> QED
      BY <1>1, <1>2, <2>1, <2>2, <3>1, Carried
  <2> QED
    BY <2>3, <2>4, Zenon
<1>8. LateInv'
  <2> SUFFICES ASSUME NEW m \in late, m \in late', m.type = "complete"
               PROVE  ReportOK(row'[m.key[1]], m)
    BY Zenon DEF LateInv
  <2>1. m \in Requests /\ m.key \in Attempt /\ m.key[1] \in Jobs
    BY <1>1, <1>4, Zenon DEF Requests
  <2>2. ReportOK(row[m.key[1]], m)
    BY Zenon DEF IInv, LateInv
  <2> QED
    BY <1>1, <1>2, <2>1, <2>2, Carried
<1> QED
  BY <1>3, <1>5, <1>6, <1>7, <1>8, Zenon DEF IInv

\* The attempts of a runner are finite in number.
LEMMA Slots ==
  \A w \in Runners : /\ IsFiniteSet(active(w)) /\ Cardinality(active(w)) \in Nat
                     /\ \A S \in SUBSET active(w) :
                          Cardinality(S) \in Nat /\ Cardinality(S) <= Cardinality(active(w))
<1>1. IsFiniteSet(Attempt)
  <2>1. IsFiniteSet(1..MaxAttempts)
    BY FS_Interval, Limits
  <2> QED
    BY <2>1, FS_Product, Limits, Zenon DEF Attempt
<1> SUFFICES ASSUME NEW w \in Runners
             PROVE  /\ IsFiniteSet(active(w)) /\ Cardinality(active(w)) \in Nat
                    /\ \A S \in SUBSET active(w) :
                         Cardinality(S) \in Nat /\ Cardinality(S) <= Cardinality(active(w))
  BY Zenon
<1>2. IsFiniteSet(active(w))
  BY <1>1, FS_Subset, Zenon DEF active
<1>3. \A S \in SUBSET active(w) : IsFiniteSet(S) /\ Cardinality(S) <= Cardinality(active(w))
  BY <1>2, FS_Subset, Zenon
<1> QED
  BY <1>2, <1>3, FS_CardinalityType, Zenon

\* Attempts that end or go on take no slot.
LEMMA SlotsKept ==
  ASSUME IInv,
         \A w \in Runners : poll'[w] = poll[w] \/ poll'[w] = None,
         \A w \in Runners : active(w)' \subseteq active(w)
  PROVE  SlotInv'
<1> SUFFICES ASSUME NEW w \in Runners
             PROVE  Cardinality(active(w)') + (IF poll'[w] = None THEN 0 ELSE 1) <= Capacity
  BY Zenon DEF SlotInv
<1>1. Cardinality(active(w)) + (IF poll[w] = None THEN 0 ELSE 1) <= Capacity
  BY Zenon DEF IInv, SlotInv
<1>2. /\ Cardinality(active(w)') \in Nat /\ Cardinality(active(w)) \in Nat
      /\ Cardinality(active(w)') <= Cardinality(active(w))
  BY Slots, Zenon
<1> QED
  BY <1>1, <1>2, Limits

\* The goroutine of an active attempt goes on with r, or is gone.
LEMMA GotoIInv ==
  ASSUME IInv, NEW k \in Attempt, NEW r \in Runs, Goto(k, r),
         run[k].at \in Active,
         r.at \in Active => r.by = run[k].by,
         RunOK(row'[k[1]], k, r),
         row' \in [Jobs -> Rows],
         \A j \in Jobs : row'[j] = row[j] \/ row'[j] \in Moves(row[j]),
         basis' \in [Jobs -> {None} \cup (Causes \X Outs)],
         \A j \in Jobs : basis'[j] = basis[j] \/ BasisOK(row'[j], basis'[j]),
         late' \subseteq Requests,
         \A m \in late' \ late : m.type = "complete" => ReportOK(row'[m.key[1]], m),
         life' = life, poll' = poll, hb' = hb, faults' \in 0..MaxFaults
  PROVE  IInv'
<1>1. /\ run \in [Attempt -> Runs]
      /\ run' \in [Attempt -> Runs]
      /\ \A l \in Attempt : run'[l] = IF l = k THEN r ELSE run[l]
  BY Types, Zenon DEF IInv, Goto
<1>2. TypeOK'
  BY <1>1, Zenon DEF IInv, TypeOK
<1>3. SlotInv'
  <2>1. \A w \in Runners : active(w)' \subseteq active(w)
    BY <1>1, Zenon DEF active
  <2> QED
    BY <2>1, SlotsKept, Zenon
<1>4. \A w \in Runners : poll'[w] # None =>
        poll'[w] = poll[w] /\ run'[poll'[w]] = run[poll'[w]]
  <2>1. \A w \in Runners : poll[w] # None => poll[w] \in Attempt /\ run[poll[w]].at = "none"
    BY Types, Zenon DEF IInv, PollInv
  <2>2. run[k].at # "none"
    BY Zenon DEF Active, Executing
  <2> QED
    BY <1>1, <2>1, <2>2, Zenon
<1>5. \A l \in Attempt : run'[l] = run[l] \/ RunOK(row'[l[1]], l, run'[l])
  BY <1>1, Zenon
<1> QED
  BY <1>2, <1>3, <1>4, <1>5, Preserved, Zenon

\* The row of an attempt moves, and nothing else does.
LEMMA RowsIInv ==
  ASSUME IInv, NEW j \in Jobs, NEW x \in Moves(row[j]), Set(j, x),
         basis' = basis, life' = life, poll' = poll, hb' = hb, run' = run, late' \subseteq late,
         faults' = faults
  PROVE  IInv'
<1>1. /\ row' \in [Jobs -> Rows]
      /\ \A i \in Jobs : row'[i] = row[i] \/ row'[i] \in Moves(row[i])
  BY SetRow, Zenon
<1>2. TypeOK'
  BY <1>1, Zenon DEF IInv, TypeOK
<1>3. SlotInv'
  <2>1. \A w \in Runners : active(w)' \subseteq active(w)
    BY Zenon DEF active
  <2> QED
    BY <2>1, SlotsKept, Zenon
<1> QED
  BY <1>1, <1>2, <1>3, Preserved, Zenon
-----------------------------------------------------------------------------
(***************************************************************************)
(* The server.                                                             *)
(***************************************************************************)

\* Submission, cancel, the backstop and the monitor.
LEMMA ServerIInv ==
  ASSUME IInv, NEW j \in Jobs, Submit(j) \/ Cancel(j) \/ Backstop(j) \/ Lose(j)
  PROVE  IInv'
<1>1. /\ basis' = basis /\ life' = life /\ poll' = poll /\ hb' = hb
      /\ run' = run /\ late' = late /\ faults' = faults
  BY Zenon DEF Submit, Cancel, Backstop, Lose, net
<1>2. \E x \in Moves(row[j]) : Set(j, x)
  <2>1. CASE Submit(j)
    BY <2>1, Zenon DEF Submit, Moves
  <2>2. CASE Cancel(j)
    BY <2>2, Zenon DEF Cancel, Moves
  <2>3. CASE Backstop(j)
    BY <2>3, Zenon DEF Backstop, Moves
  <2>4. CASE Lose(j)
    BY <2>4, Zenon DEF Lose, Moves
  <2> QED
    BY <2>1, <2>2, <2>3, <2>4, Zenon
<1> QED
  BY <1>1, <1>2, RowsIInv, Zenon

\* A queued job is granted.
LEMMA GrantMoves ==
  ASSUME IInv, NEW j \in Jobs, NEW w \in Runners, row[j].state = "queued"
  PROVE  /\ Granted(row[j], w) \in Moves(row[j])
         /\ Granted(row[j], w).attempt = row[j].attempt + 1
         /\ Granted(row[j], w).runner = w
         /\ row[j].attempt + 1 \in 1..MaxAttempts
<1>1. row[j] \in Rows /\ row[j].attempt < MaxAttempts /\ row[j].stop = None
  BY Types, Zenon DEF IInv, RowInv, RowOK
<1>2. Granted(row[j], w) \in Moves(row[j])
  BY <1>1, Zenon DEF Moves
<1>3. Granted(row[j], w).attempt = row[j].attempt + 1 /\ Granted(row[j], w).runner = w
  BY <1>1, Zenon DEF Granted, Rows
<1>4. row[j].attempt + 1 \in 1..MaxAttempts
  BY <1>1, Limits DEF Rows
<1> QED
  BY <1>2, <1>3, <1>4, Zenon

\* What the recorded result of row x says once the report of an attempt that
\* ended with a cause and an outcome has been accepted.
LEMMA CompletedBasis ==
  ASSUME NEW x \in Rows, RowOK(x), x.state = "running",
         NEW r, r.cause \in Causes, r.out \in Outs,
         r.cause = "cancelled" => x.stop # None
  PROVE  LET y == Completed(x, Verdict(r))
         IN  /\ Verdict(r) \in Result
             /\ y.state # "running"
             /\ BasisOK(y, IF y.state \in Over THEN <<r.cause, r.out>> ELSE None)
<1> DEFINE y == Completed(x, Verdict(r))
           b == <<r.cause, r.out>>
<1>1. x.kind = None /\ x.stop \in {None, "user", "timeout"}
  BY Zenon DEF RowOK, Rows, Over
<1>2. b[1] = r.cause /\ b[2] = r.out
  BY Zenon
<1>3. CASE r.cause = "timeout"
  <2>0. Verdict(r) = [status |-> "failed", kind |-> r.cause]
    BY <1>3, Zenon DEF Verdict
  <2>1. Verdict(r) = [status |-> "failed", kind |-> "timeout"]
    BY <1>3, <2>0, Zenon
  <2>2. y.state = "failed" /\ y.kind = "timeout"
    BY <2>1 DEF Completed, Failed, Requeues, Rows
  <2>3. Verdict(r) \in Result
    BY <2>1 DEF Result
  <2>4. BasisOK(y, b)
    BY <1>2, <1>3, <2>2, Zenon DEF BasisOK, Over
  <2> QED
    BY <2>2, <2>3, <2>4, Zenon DEF Over
<1>4. CASE r.cause = "cancelled"
  <2>0. Verdict(r) = [status |-> "failed", kind |-> r.cause]
    BY <1>4, Zenon DEF Verdict
  <2>1. Verdict(r) = [status |-> "failed", kind |-> "cancelled"]
    BY <1>4, <2>0, Zenon
  <2>2. /\ y.stop = x.stop
        /\ x.stop = "timeout" => y.state = "failed" /\ y.kind = "timeout"
        /\ x.stop # "timeout" => y.state = "cancelled" /\ y.kind = "cancelled"
    BY <2>1 DEF Completed, Rows
  <2>3. Verdict(r) \in Result
    BY <2>1 DEF Result
  <2>4. BasisOK(y, b)
    BY <1>1, <1>2, <1>4, <2>2, Zenon DEF BasisOK, Over
  <2> QED
    BY <2>2, <2>3, <2>4, Zenon DEF Over
<1>5. CASE r.cause \notin {"timeout", "cancelled"} /\ r.out = "zero"
  <2>1. Verdict(r) = [status |-> "succeeded", kind |-> None]
    BY <1>5, Zenon DEF Verdict
  <2>2. y.state = "succeeded" /\ y.kind = None
    BY <1>1, <2>1 DEF Completed, Rows
  <2> QED
    BY <1>2, <1>5, <2>1, <2>2, Limits, Zenon DEF Result, BasisOK, Over
<1>6. CASE r.cause \notin {"timeout", "cancelled"} /\ r.out = "nonzero"
  <2>1. Verdict(r) = [status |-> "failed", kind |-> "exit_code"]
    BY <1>6, Zenon DEF Verdict
  <2>2. y.state = "failed" /\ y.kind = "exit_code"
    BY <2>1 DEF Completed, Failed, Requeues, Rows
  <2> QED
    BY <1>2, <1>6, <2>1, <2>2 DEF Result, BasisOK, Over
<1>7. CASE r.cause \notin {"timeout", "cancelled"} /\ r.out \notin {"zero", "nonzero"}
  <2>1. Verdict(r) = [status |-> "failed", kind |-> "infra"]
    BY <1>7, Zenon DEF Verdict
  <2>2. (y.state = "failed" /\ y.kind = "infra") \/ y.state = "queued"
    BY <2>1 DEF Completed, Failed, Rows
  <2> QED
    BY <1>2, <1>7, <2>1, <2>2 DEF Result, BasisOK, Over
<1> QED
  BY <1>3, <1>4, <1>5, <1>6, <1>7, Zenon

\* A report is handled: the row moves, the record is truthful, and the attempt
\* holds its job no longer.
LEMMA CompleteKeeps ==
  ASSUME IInv, NEW k \in Attempt, NEW r, r.cause \in Causes, r.out \in Outs,
         Holds(row[k[1]], k) /\ r.cause = "cancelled" => row[k[1]].stop # None,
         complete(k, r)
  PROVE  /\ row' \in [Jobs -> Rows]
         /\ \A j \in Jobs : row'[j] = row[j] \/ row'[j] \in Moves(row[j])
         /\ basis' \in [Jobs -> {None} \cup (Causes \X Outs)]
         /\ \A j \in Jobs : basis'[j] = basis[j] \/ BasisOK(row'[j], basis'[j])
         /\ ~Holds(row'[k[1]], k)
<1> DEFINE j == k[1]
           x == row[j]
<1>1. /\ row \in [Jobs -> Rows] /\ basis \in [Jobs -> {None} \cup (Causes \X Outs)]
      /\ j \in Jobs
      /\ x \in Rows /\ RowOK(x)
  BY Types, Attempts, Zenon DEF IInv, RowInv
<1>2. CASE ~Fence(k)
  BY <1>1, <1>2, Zenon DEF complete, Fence, Holds
<1>3. CASE Fence(k)
  <2> DEFINE y == Completed(x, Verdict(r))
             b == IF y.state \in Over THEN <<r.cause, r.out>> ELSE None
  <2>1. x.state = "running" /\ Holds(x, k)
    BY <1>3, Zenon DEF Fence, Holds
  <2>2. Verdict(r) \in Result /\ y.state # "running" /\ BasisOK(y, b)
    BY <1>1, <2>1, CompletedBasis, Zenon
  <2>3. y \in Moves(x)
    BY <2>1, <2>2, Zenon DEF Moves
  <2>4. Set(j, y)
    BY <1>3, Zenon DEF complete
  <2> HIDE DEF y
  <2>5. /\ row' \in [Jobs -> Rows] /\ row'[j] = y
        /\ \A i \in Jobs : row'[i] = row[i] \/ row'[i] \in Moves(row[i])
    BY <1>1, <2>3, <2>4, SetRow, Zenon
  <2>6. basis' = [basis EXCEPT ![j] = b]
    BY <1>3, <2>5, Zenon DEF complete
  <2>7. b \in {None} \cup (Causes \X Outs)
    BY Zenon
  <2> HIDE DEF b
  <2>8. /\ basis' \in [Jobs -> {None} \cup (Causes \X Outs)]
        /\ \A i \in Jobs : basis'[i] = IF i = j THEN b ELSE basis[i]
    BY <1>1, <2>6, <2>7, Zenon
  <2>9. ~Holds(row'[j], k)
    BY <2>2, <2>5, Zenon DEF Holds
  <2> QED
    BY <2>2, <2>5, <2>8, <2>9, Zenon
<1> QED
  BY <1>2, <1>3, Zenon

\* A request is handled after its sender gave it up.
LEMMA DeliverIInv == ASSUME IInv, NEW m \in late, Deliver(m) PROVE IInv'
<1>1. /\ life' = life /\ poll' = poll /\ hb' = hb /\ run' = run
      /\ faults' = faults /\ late' \subseteq late
      /\ m \in Requests
  BY Types, Zenon DEF Deliver, IInv
<1>2. CASE m.type = "claim"
  <2>1. m.from \in Runners
    BY <1>1, <1>2, Zenon DEF Requests
  <2>2. PICK j \in Jobs : row[j].state = "queued" /\ Set(j, Granted(row[j], m.from)) /\ basis' = basis
    BY <1>2, Zenon DEF Deliver
  <2> QED
    BY <1>1, <2>1, <2>2, GrantMoves, RowsIInv, Zenon
<1>3. CASE m.type = "complete"
  <2>1. m.key \in Attempt /\ m.cause \in Causes /\ m.out \in Outs
    BY <1>1, <1>3, Zenon DEF Requests
  <2>2. complete(m.key, m)
    BY <1>3, Zenon DEF Deliver
  <2>3. ReportOK(row[m.key[1]], m)
    BY <1>3, Zenon DEF IInv, LateInv
  <2>4. /\ row' \in [Jobs -> Rows]
        /\ \A j \in Jobs : row'[j] = row[j] \/ row'[j] \in Moves(row[j])
        /\ basis' \in [Jobs -> {None} \cup (Causes \X Outs)]
        /\ \A j \in Jobs : basis'[j] = basis[j] \/ BasisOK(row'[j], basis'[j])
    BY <2>1, <2>2, <2>3, CompleteKeeps, Zenon DEF ReportOK
  <2>5. TypeOK'
    BY <1>1, <2>4, Zenon DEF IInv, TypeOK
  <2>6. SlotInv'
    <3>1. \A w \in Runners : active(w)' \subseteq active(w)
      BY <1>1, Zenon DEF active
    <3> QED
      BY <1>1, <3>1, SlotsKept, Zenon
  <2> QED
    BY <1>1, <2>4, <2>5, <2>6, Preserved, Zenon
<1> QED
  BY <1>2, <1>3, Zenon DEF Deliver
-----------------------------------------------------------------------------
(***************************************************************************)
(* The runner processes.                                                   *)
(***************************************************************************)

\* The context of an attempt ends with a cause that is no lie.
LEMMA CausedOK ==
  ASSUME NEW x, NEW k, NEW r \in Runs, NEW c \in Causes,
         RunOK(x, k, r),
         Holds(x, k) => c # "abort" /\ (c = "cancelled" => x.stop # None)
  PROVE  /\ Caused(r, c) \in Runs
         /\ Caused(r, c).at = r.at /\ Caused(r, c).by = r.by /\ Caused(r, c).out = r.out
         /\ RunOK(x, k, Caused(r, c))
<1>1. CASE r.at \in Executing /\ r.cause = None
  <2>1. Caused(r, c) = [r EXCEPT !.cause = c]
    BY <1>1, Zenon DEF Caused
  <2>2. /\ Caused(r, c) \in Runs
        /\ Caused(r, c).at = r.at /\ Caused(r, c).by = r.by /\ Caused(r, c).out = r.out
        /\ Caused(r, c).starts = r.starts /\ Caused(r, c).cause = c
    BY <2>1, Zenon DEF Runs
  <2> QED
    BY <1>1, <2>2, Zenon DEF RunOK, Executing
<1>2. CASE ~(r.at \in Executing /\ r.cause = None)
  BY <1>2, Zenon DEF Caused
<1> QED
  BY <1>1, <1>2, Zenon

\* The goroutine is gone, and if it is done with the attempt so is the server.
LEMMA GoneOK ==
  ASSUME NEW x, NEW k, NEW r \in Runs, NEW at \in {"done", "left"},
         RunOK(x, k, r), r.at \in Active, Holds(x, k) => at = "left"
  PROVE  Gone(r, at) \in Runs /\ Gone(r, at).at = at /\ RunOK(x, k, Gone(r, at))
<1>1. Fresh \in Runs /\ Fresh.cause = None
  BY Limits DEF Fresh, Runs, Causes, Outs
<1>2. /\ Gone(r, at) \in Runs
      /\ Gone(r, at).at = at /\ Gone(r, at).cause = None /\ Gone(r, at).starts = r.starts
  BY <1>1, Zenon DEF Gone, Runs
<1>3. Issued(x, k) /\ r.starts <= 1
  BY Zenon DEF RunOK, Active, Executing
<1> QED
  BY <1>2, <1>3, Limits, Zenon DEF RunOK, Active, Executing

\* A step of a process that leaves the server alone.
LEMMA RunsIInv ==
  ASSUME IInv, TypeOK', row' = row, basis' = basis,
         \A k \in Attempt : run'[k] = run[k]
           \/ /\ run[k].at \in Active
              /\ run'[k].at \in Active => run'[k].by = run[k].by
              /\ RunOK(row[k[1]], k, run'[k]),
         \A w \in Runners : poll'[w] = poll[w] \/ poll'[w] = None,
         \A w \in Runners : hb'[w] = hb[w]
           \/ /\ \A k \in hb'[w].refs : Issued(row[k[1]], k)
              /\ \A d \in hb'[w].dirs : DirOK(row[d.key[1]], w, d),
         \A m \in late' \ late : m.type = "complete" => ReportOK(row[m.key[1]], m)
  PROVE  IInv'
<1>1. SlotInv'
  <2>1. \A w \in Runners : active(w)' \subseteq active(w)
    BY Zenon DEF active
  <2> QED
    BY <2>1, SlotsKept, Zenon
<1>2. \A w \in Runners : poll'[w] # None =>
        poll'[w] = poll[w] /\ run'[poll'[w]] = run[poll'[w]]
  <2>1. \A w \in Runners : poll[w] # None => poll[w] \in Attempt /\ run[poll[w]].at = "none"
    BY Types, Zenon DEF IInv, PollInv
  <2>2. "none" \notin Active
    BY Zenon DEF Active, Executing
  <2> QED
    BY <2>1, <2>2, Zenon
<1> QED
  BY <1>1, <1>2, Preserved, Zenon

\* Starting, the end of the deliveries, and Run's return.
LEMMA LifeIInv ==
  ASSUME IInv, NEW w \in Runners, Register(w) \/ StopDelivery(w) \/ Exit(w)
  PROVE  IInv'
<1>1. /\ row' = row /\ basis' = basis /\ poll' = poll /\ run' = run /\ late' = late
      /\ faults' = faults
      /\ hb' = hb \/ hb' = [hb EXCEPT ![w] = NoBeat]
  BY Zenon DEF Register, StopDelivery, Exit, net
<1>2. life' \in [Runners -> {"off", "on", "draining", "ending"}]
  BY Types, Zenon DEF IInv, Register, StopDelivery, Exit
<1>3. hb' \in [Runners -> Beats] /\ \A v \in Runners : hb'[v] = hb[v] \/ hb'[v] = NoBeat
  <2>1. NoBeat \in Beats
    BY Zenon DEF NoBeat, Beats
  <2> QED
    BY <1>1, <2>1, Types, Zenon DEF IInv
<1>4. TypeOK'
  BY <1>1, <1>2, <1>3, Zenon DEF IInv, TypeOK
<1> QED
  BY <1>1, <1>3, <1>4, RunsIInv DEF NoBeat

\* A late report carries what the attempt knew.
LEMMA LateOK ==
  ASSUME IInv, NEW k \in Attempt, run[k].at \in Active
  PROVE  CompleteOf(k) \in Requests /\ ReportOK(row[k[1]], CompleteOf(k))
<1>1. run[k] \in Runs /\ RunOK(row[k[1]], k, run[k]) /\ run[k].at # "none"
  BY Types, Zenon DEF IInv, RunInv, Active, Executing
<1>2. CompleteOf(k) \in Requests
  BY <1>1, Zenon DEF CompleteOf, Requests, Runs
<1>3. CompleteOf(k).key = k /\ CompleteOf(k).cause = run[k].cause
  BY Zenon DEF CompleteOf
<1> QED
  BY <1>1, <1>2, <1>3, Zenon DEF RunOK, ReportOK

\* SIGTERM: contexts end, nothing more.
LEMMA ShutdownIInv == ASSUME IInv, NEW w \in Runners, Shutdown(w) PROVE IInv'
<1>1. /\ row' = row /\ basis' = basis /\ poll' = poll /\ hb' = hb /\ late' = late
      /\ life' = [life EXCEPT ![w] = "draining"]
      /\ faults < MaxFaults /\ faults' = faults + 1
      /\ run' = [k \in Attempt |-> IF k \in active(w) THEN Caused(run[k], "shutdown") ELSE run[k]]
  BY Zenon DEF Shutdown, Fault, net
<1>2. \A k \in Attempt : run[k] \in Runs /\ RunOK(row[k[1]], k, run[k])
  BY Types, Zenon DEF IInv, RunInv
<1>3. "shutdown" \in Causes
  BY Zenon DEF Causes
<1>4. \A k \in Attempt :
        /\ Caused(run[k], "shutdown") \in Runs
        /\ Caused(run[k], "shutdown").by = run[k].by
        /\ RunOK(row[k[1]], k, Caused(run[k], "shutdown"))
  BY <1>2, <1>3, CausedOK
<1>5. run' \in [Attempt -> Runs]
  BY <1>1, <1>2, <1>4, Zenon
<1>6. TypeOK'
  BY <1>1, <1>5, Limits DEF IInv, TypeOK
<1> QED
  BY <1>1, <1>4, <1>6, RunsIInv, Zenon DEF active

\* The process dies: its attempts are left to their leases.
LEMMA CrashIInv == ASSUME IInv, NEW w \in Runners, Crash(w) PROVE IInv'
<1>1. /\ row' = row /\ basis' = basis
      /\ poll' = [poll EXCEPT ![w] = None]
      /\ hb' = [hb EXCEPT ![w] = NoBeat]
      /\ life' = [life EXCEPT ![w] = "off"]
      /\ faults < MaxFaults /\ faults' = faults + 1
      /\ run' = [k \in Attempt |-> IF k \in active(w) THEN Gone(run[k], "left") ELSE run[k]]
  BY Zenon DEF Crash, Fault
<1>2. \A k \in Attempt : run[k] \in Runs /\ RunOK(row[k[1]], k, run[k])
  BY Types, Zenon DEF IInv, RunInv
<1>3. \A k \in active(w) :
        /\ k \in Attempt /\ run[k].at \in Active
        /\ Gone(run[k], "left") \in Runs /\ Gone(run[k], "left").at \notin Active
        /\ RunOK(row[k[1]], k, Gone(run[k], "left"))
  BY <1>2, GoneOK DEF active, Active, Executing
<1>4. run' \in [Attempt -> Runs]
  BY <1>1, <1>2, <1>3, Zenon
<1>5. /\ hb' \in [Runners -> Beats] /\ \A v \in Runners : hb'[v] = hb[v] \/ hb'[v] = NoBeat
      /\ poll' \in [Runners -> Attempt \cup {None}]
      /\ \A v \in Runners : poll'[v] = poll[v] \/ poll'[v] = None
  BY <1>1, Types, Zenon DEF IInv, NoBeat, Beats
<1>6. \A m \in late' \ late : m \in Requests /\ (m.type = "complete" => ReportOK(row[m.key[1]], m))
  <2>1. ClaimBy(w) \in Requests /\ ClaimBy(w).type # "complete"
    BY Zenon DEF ClaimBy, Requests
  <2>2. \A k \in active(w) : CompleteOf(k) \in Requests /\ CompleteOf(k).key = k
                             /\ ReportOK(row[k[1]], CompleteOf(k))
    BY <1>3, LateOK, Zenon DEF CompleteOf
  <2>3. \A m \in late' \ late : m = ClaimBy(w) \/ \E k \in active(w) : m = CompleteOf(k)
    BY Zenon DEF Crash
  <2> QED
    BY <2>1, <2>2, <2>3, Zenon
<1>7. TypeOK'
  BY <1>1, <1>4, <1>5, <1>6, Limits DEF IInv, TypeOK
<1> QED
  BY <1>1, <1>3, <1>5, <1>6, <1>7, RunsIInv, Zenon DEF NoBeat

\* A grant is a number not given out before, and there is a slot for it.
LEMMA ClaimIInv == ASSUME IInv, NEW w \in Runners, claim(w) PROVE IInv'
<1>1. /\ basis' = basis /\ life' = life /\ hb' = hb /\ run' = run /\ late' = late /\ faults' = faults
      /\ poll[w] = None /\ Cardinality(active(w)) < Capacity
  BY Zenon DEF claim, claiming
<1>2. PICK j \in Jobs : /\ row[j].state = "queued"
                        /\ Set(j, Granted(row[j], w))
                        /\ poll' = [poll EXCEPT ![w] = <<j, row'[j].attempt>>]
  BY Zenon DEF claim
<1> DEFINE n == row[j].attempt + 1
           k == <<j, n>>
<1>3. /\ Granted(row[j], w) \in Moves(row[j])
      /\ Granted(row[j], w).attempt = n /\ Granted(row[j], w).runner = w
      /\ n \in 1..MaxAttempts
  BY <1>2, GrantMoves, Zenon
<1>4. /\ row' \in [Jobs -> Rows] /\ row'[j] = Granted(row[j], w)
      /\ \A i \in Jobs : row'[i] = row[i] \/ row'[i] \in Moves(row[i])
  BY <1>2, <1>3, SetRow, Zenon
<1>5. k \in Attempt /\ k[1] = j /\ k[2] = n
  BY <1>3, Zenon DEF Attempt
<1>6. /\ row'[j].attempt = n /\ row'[j].runner = w
      /\ row[j].attempt \in Nat /\ ~Issued(row[j], k)
  BY <1>3, <1>4, <1>5, Types, Limits DEF IInv, Rows, Issued
<1> HIDE DEF n, k
<1>7. /\ poll \in [Runners -> Attempt \cup {None}]
      /\ poll' \in [Runners -> Attempt \cup {None}]
      /\ \A v \in Runners : poll'[v] = IF v = w THEN k ELSE poll[v]
  BY <1>2, <1>5, <1>6, Types, Zenon DEF IInv, k
<1>8. TypeOK'
  BY <1>1, <1>4, <1>7, Zenon DEF IInv, TypeOK
<1>9. run[k].at = "none"
  BY <1>5, <1>6, Zenon DEF IInv, RunInv, RunOK
<1>10. ASSUME NEW v \in Runners, poll[v] # None
       PROVE  poll[v] # k /\ GrantOK(row'[poll[v][1]], v, poll[v])
  <2>1. poll[v] \in Attempt /\ poll[v][1] \in Jobs /\ GrantOK(row[poll[v][1]], v, poll[v])
    BY <1>7, <1>10, Attempts, Zenon DEF IInv, PollInv
  <2>2. poll[v] # k
    BY <1>5, <1>6, <2>1, Zenon DEF GrantOK
  <2>3. row[poll[v][1]] \in Rows /\ row'[poll[v][1]] \in Rows
        /\ (row'[poll[v][1]] = row[poll[v][1]] \/ Moved(row[poll[v][1]], row'[poll[v][1]]))
    BY <1>4, <2>1, Types, MovesOK, Zenon DEF IInv, RowInv
  <2> QED
    BY <2>1, <2>2, <2>3, Carried, Zenon
<1>11. GrantOK(row'[j], w, k)
  BY <1>3, <1>5, <1>6, Limits DEF GrantOK, Issued, Holds
<1>12. PollInv'
  <2> SUFFICES ASSUME NEW v \in Runners, poll'[v] # None
               PROVE  /\ GrantOK(row'[poll'[v][1]], v, poll'[v])
                      /\ run[poll'[v]].at = "none"
                      /\ \A u \in Runners : poll'[u] = poll'[v] => u = v
    BY <1>1, Zenon DEF PollInv
  <2>1. CASE v = w
    BY <1>5, <1>7, <1>9, <1>10, <1>11, <2>1, Limits, Zenon
  <2>2. CASE v # w
    <3>1. poll'[v] = poll[v] /\ poll[v] # None
      BY <1>7, <2>2, Zenon
    <3>2. run[poll[v]].at = "none" /\ \A u \in Runners : poll[u] = poll[v] => u = v
      BY <3>1, Zenon DEF IInv, PollInv
    <3> QED
      BY <1>7, <1>10, <3>1, <3>2
  <2> QED
    BY <2>1, <2>2, Zenon
<1>13. SlotInv'
  <2> SUFFICES ASSUME NEW v \in Runners
               PROVE  Cardinality(active(v)) + (IF poll'[v] = None THEN 0 ELSE 1) <= Capacity
    BY <1>1, Zenon DEF SlotInv, active
  <2>1. Cardinality(active(v)) \in Nat
    BY Slots, Zenon
  <2>2. Cardinality(active(v)) + (IF poll[v] = None THEN 0 ELSE 1) <= Capacity
    BY Zenon DEF IInv, SlotInv
  <2> QED
    BY <1>1, <1>7, <2>1, <2>2, Limits
<1> QED
  BY <1>1, <1>4, <1>8, <1>12, <1>13, Preserved, Zenon

\* A claim that is lost brings nothing.
LEMMA LoseClaimIInv == ASSUME IInv, NEW w \in Runners, loseClaim(w) PROVE IInv'
<1>1. /\ row' = row /\ basis' = basis /\ life' = life /\ hb' = hb /\ run' = run
      /\ poll' = [poll EXCEPT ![w] = None]
      /\ late' = late \/ late' = late \cup {ClaimBy(w)}
  BY Zenon DEF loseClaim
<1>2. faults' \in 0..MaxFaults
  BY Types, Limits DEF IInv, loseClaim, Fault
<1>3. ClaimBy(w) \in Requests /\ ClaimBy(w).type # "complete"
  BY Zenon DEF ClaimBy, Requests
<1>4. /\ poll' \in [Runners -> Attempt \cup {None}]
      /\ \A v \in Runners : poll'[v] = poll[v] \/ poll'[v] = None
  BY <1>1, Types, Zenon DEF IInv
<1>5. TypeOK'
  BY <1>1, <1>2, <1>3, <1>4, Zenon DEF IInv, TypeOK
<1> QED
  BY <1>1, <1>3, <1>4, <1>5, RunsIInv, Zenon

\* The attempt granted starts, for the first time.
LEMMA StartIInv == ASSUME IInv, NEW w \in Runners, start(w) PROVE IInv'
<1>1. /\ row' = row /\ basis' = basis /\ life' = life /\ hb' = hb /\ late' = late /\ faults' = faults
      /\ poll[w] # None
      /\ poll' = [poll EXCEPT ![w] = None]
  BY Zenon DEF start
<1>2. PICK k : k = poll[w]
  BY Zenon
<1>3. /\ k \in Attempt /\ k[1] \in Jobs
      /\ GrantOK(row[k[1]], w, k) /\ run[k].at = "none"
      /\ \A v \in Runners : poll[v] = k => v = w
  BY <1>1, <1>2, Types, Attempts DEF IInv, PollInv
<1>4. run[k].starts = 0
  BY <1>3, Zenon DEF IInv, RunInv, RunOK
<1>5. PICK q \in Started(w) : run' = [run EXCEPT ![k] = [q EXCEPT !.starts = @ + 0]]
  BY <1>2, <1>4, Zenon DEF start
<1>6. /\ q \in Runs /\ q.starts \in {0, 1} /\ q.by = w
      /\ q.at \in {"exec", "report"} /\ q.cause \in {None, "shutdown"}
  <2>1. /\ Fresh \in Runs /\ Fresh.starts = 0 /\ Fresh.cause = None
    BY Limits DEF Fresh, Runs, Causes, Outs
  <2>2. PICK f : f = [Fresh EXCEPT !.by = w]
    BY Zenon
  <2>3. f \in Runs /\ f.starts = 0 /\ f.cause = None /\ f.by = w
    BY <2>1, <2>2, Zenon DEF Runs
  <2>4. \/ q = [f EXCEPT !.at = "exec", !.starts = 1,
                         !.cause = IF life[w] = "on" THEN None ELSE "shutdown"]
        \/ q = [f EXCEPT !.at = "report", !.out = "error"]
    BY <2>2, Zenon DEF Started
  <2>5. CASE q = [f EXCEPT !.at = "exec", !.starts = 1,
                           !.cause = IF life[w] = "on" THEN None ELSE "shutdown"]
    <3>1. q.at = "exec" /\ q.starts = 1 /\ q.by = w /\ q.cause \in {None, "shutdown"}
      BY <2>3, <2>5, Zenon DEF Runs
    <3>2. q \in Runs
      BY <2>3, <2>5, Zenon DEF Runs, Causes, Active, Executing
    <3> QED
      BY <3>1, <3>2, Zenon
  <2>6. CASE q = [f EXCEPT !.at = "report", !.out = "error"]
    <3>1. q.at = "report" /\ q.starts = 0 /\ q.by = w /\ q.cause = None
      BY <2>3, <2>6, Zenon DEF Runs
    <3>2. q \in Runs
      BY <2>3, <2>6, Zenon DEF Runs, Outs, Active, Executing
    <3> QED
      BY <3>1, <3>2, Zenon
  <2> QED
    BY <2>4, <2>5, <2>6, Zenon
<1>7. PICK r : r = [q EXCEPT !.starts = @ + 0]
  BY Zenon
<1>8. /\ r \in Runs /\ r.starts \in {0, 1} /\ r.by = w /\ r.at \in Active
      /\ r.at \notin {"none", "200", "409", "done"} /\ r.cause \in {None, "shutdown"}
  BY <1>6, <1>7 DEF Runs, Active, Executing
<1>9. /\ run \in [Attempt -> Runs] /\ run' \in [Attempt -> Runs]
      /\ \A l \in Attempt : run'[l] = IF l = k THEN r ELSE run[l]
  BY <1>3, <1>5, <1>7, <1>8, Types, Zenon DEF IInv
<1>10. RunOK(row[k[1]], k, r)
  BY <1>3, <1>8, Limits DEF GrantOK, RunOK
<1>11. /\ poll' \in [Runners -> Attempt \cup {None}]
       /\ \A v \in Runners : poll'[v] # None => poll'[v] = poll[v] /\ v # w /\ poll[v] \in Attempt
  BY <1>1, Types, Zenon DEF IInv
<1>12. TypeOK'
  BY <1>1, <1>9, <1>11, Zenon DEF IInv, TypeOK
<1>13. SlotInv'
  <2> SUFFICES ASSUME NEW v \in Runners
               PROVE  Cardinality(active(v)') + (IF poll'[v] = None THEN 0 ELSE 1) <= Capacity
    BY Zenon DEF SlotInv
  <2>1. /\ IsFiniteSet(active(v)) /\ Cardinality(active(v)) \in Nat
        /\ Cardinality(active(v)) + (IF poll[v] = None THEN 0 ELSE 1) <= Capacity
    BY Slots, Zenon DEF IInv, SlotInv
  <2>2. k \notin active(v)
    BY <1>3, Zenon DEF active, Active, Executing
  <2>3. CASE v = w
    <3>1. active(v)' = active(v) \cup {k}
      BY <1>3, <1>8, <1>9, <2>3, Zenon DEF active
    <3>2. Cardinality(active(v) \cup {k}) = Cardinality(active(v)) + 1
      BY <2>1, <2>2, FS_AddElement, Zenon
    <3>3. poll'[v] = None
      BY <1>11, <2>3, Zenon
    <3> QED
      BY <1>1, <2>1, <2>3, <3>1, <3>2, <3>3, Limits
  <2>4. CASE v # w
    <3>1. active(v)' = active(v)
      BY <1>8, <1>9, <2>2, <2>4, Zenon DEF active
    <3>2. poll'[v] = None \/ poll'[v] = poll[v]
      BY <1>11, Zenon
    <3> QED
      BY <2>1, <3>1, <3>2, Limits
  <2> QED
    BY <2>3, <2>4, Zenon
<1>14. \A v \in Runners : poll'[v] # None =>
         poll'[v] = poll[v] /\ run'[poll'[v]] = run[poll'[v]]
  BY <1>2, <1>3, <1>9, <1>11, Zenon
<1>15. \A l \in Attempt : run'[l] = run[l] \/ RunOK(row'[l[1]], l, run'[l])
  BY <1>1, <1>9, <1>10, Zenon
<1> QED
  BY <1>1, <1>12, <1>13, <1>14, <1>15, Preserved, Zenon

\* The directives of a reply hold of the rows they were computed from.
LEMMA HeartbeatIInv == ASSUME IInv, NEW w \in Runners, heartbeat(w) PROVE IInv'
<1>1. /\ row' = row /\ basis' = basis /\ life' = life /\ poll' = poll /\ run' = run /\ late' = late
  BY Zenon DEF heartbeat
<1>2. PICK refs : /\ refs = IF hb[w].at = "idle" THEN active(w) ELSE hb[w].refs
                  /\ \/ /\ hb' = [hb EXCEPT ![w] = [at |-> "replied", refs |-> {},
                                                    dirs |-> Directives(w, refs)]]
                        /\ UNCHANGED faults
                     \/ /\ hb' = [hb EXCEPT ![w] = [at |-> "resend", refs |-> refs, dirs |-> {}]]
                        /\ Fault
  BY Zenon DEF heartbeat
<1>3. faults' \in 0..MaxFaults
  BY <1>2, Types, Limits DEF IInv, Fault
<1>4. \A k \in refs : k \in Attempt /\ Issued(row[k[1]], k)
  <2>1. \A k \in active(w) : k \in Attempt /\ Issued(row[k[1]], k)
    BY Zenon DEF IInv, RunInv, RunOK, active, Active, Executing
  <2>2. \A k \in hb[w].refs : k \in Attempt /\ Issued(row[k[1]], k)
    BY Types, Zenon DEF IInv, BeatInv, Beats
  <2> QED
    BY <1>2, <2>1, <2>2, Zenon
<1>5. ASSUME NEW d \in Directives(w, refs)
      PROVE  d \in [key : Attempt, do : {"abort", "cancel"}] /\ DirOK(row[d.key[1]], w, d)
  <2>1. PICK k \in refs : d \in Directive(w, k)
    BY <1>5, Zenon DEF Directives
  <2>2. \/ d = [key |-> k, do |-> "abort"] /\ ~(Fence(k) /\ row[k[1]].runner = w)
        \/ d = [key |-> k, do |-> "cancel"] /\ row[k[1]].stop # None
    BY <2>1, Zenon DEF Directive
  <2>3. k \in Attempt /\ Issued(row[k[1]], k)
    BY <1>4, Zenon
  <2>4. /\ d \in [key : Attempt, do : {"abort", "cancel"}] /\ d.key = k
        /\ d.do = "abort" => ~(Fence(k) /\ row[k[1]].runner = w)
        /\ d.do = "cancel" => row[k[1]].stop # None
    BY <2>2, <2>3
  <2> QED
    BY <2>3, <2>4, Zenon DEF DirOK, Fence, Holds
<1>6. PICK b \in Beats : /\ hb' = [hb EXCEPT ![w] = b]
                         /\ \A k \in b.refs : Issued(row[k[1]], k)
                         /\ \A d \in b.dirs : DirOK(row[d.key[1]], w, d)
  <2>1. [at |-> "replied", refs |-> {}, dirs |-> Directives(w, refs)] \in Beats
    BY <1>5, Zenon DEF Beats
  <2>2. [at |-> "resend", refs |-> refs, dirs |-> {}] \in Beats
    BY <1>4, Zenon DEF Beats
  <2> QED
    BY <1>2, <1>4, <1>5, <2>1, <2>2, Zenon
<1>7. /\ hb' \in [Runners -> Beats]
      /\ \A v \in Runners : hb'[v] = IF v = w THEN b ELSE hb[v]
  BY <1>6, Types, Zenon DEF IInv
<1>8. TypeOK'
  BY <1>1, <1>3, <1>7, Zenon DEF IInv, TypeOK
<1> QED
  BY <1>1, <1>6, <1>7, <1>8, RunsIInv, Zenon

\* A directive ends the attempt it is for, and it still holds when it is applied.
LEMMA ApplyIInv == ASSUME IInv, NEW w \in Runners, apply(w) PROVE IInv'
<1> DEFINE told(k) == k \in active(w) /\ \E d \in hb[w].dirs : Targets(d, k)
           c(k) == CauseOf(CHOOSE d \in hb[w].dirs : Targets(d, k))
<1>1. /\ row' = row /\ basis' = basis /\ life' = life /\ poll' = poll /\ late' = late
      /\ faults' = faults
      /\ hb' = [hb EXCEPT ![w] = NoBeat]
      /\ run' = [k \in Attempt |-> IF told(k) THEN Caused(run[k], c(k)) ELSE run[k]]
  BY Zenon DEF apply
<1>2. \A k \in Attempt : run[k] \in Runs /\ RunOK(row[k[1]], k, run[k])
  BY Types, Zenon DEF IInv, RunInv
<1>3. ASSUME NEW k \in Attempt, told(k)
      PROVE  /\ run[k].at \in Active
             /\ Caused(run[k], c(k)) \in Runs /\ Caused(run[k], c(k)).by = run[k].by
             /\ RunOK(row[k[1]], k, Caused(run[k], c(k)))
  <2>1. PICK d \in hb[w].dirs : Targets(d, k) /\ c(k) = CauseOf(d)
    BY <1>3, Zenon
  <2>2. DirOK(row[k[1]], w, d) /\ d.key = k /\ d.do \in {"abort", "cancel"}
    BY <2>1, Types DEF IInv, BeatInv, Beats, Targets
  <2>3. run[k].at \in Active /\ run[k].by = w
    BY <1>3, Zenon DEF active
  <2>4. Holds(row[k[1]], k) => row[k[1]].runner = w
    BY <1>2, <2>3, Zenon DEF RunOK
  <2>5. /\ CauseOf(d) \in Causes
        /\ Holds(row[k[1]], k) =>
             CauseOf(d) # "abort" /\ (CauseOf(d) = "cancelled" => row[k[1]].stop # None)
    BY <2>2, <2>4, Zenon DEF DirOK, CauseOf, Causes
  <2> QED
    BY <1>2, <2>1, <2>3, <2>5, CausedOK
<1> HIDE DEF told, c
<1>4. /\ run' \in [Attempt -> Runs]
      /\ \A k \in Attempt : run'[k] = IF told(k) THEN Caused(run[k], c(k)) ELSE run[k]
  BY <1>1, <1>2, <1>3, Zenon
<1>5. hb' \in [Runners -> Beats] /\ \A v \in Runners : hb'[v] = hb[v] \/ hb'[v] = NoBeat
  <2>1. NoBeat \in Beats
    BY Zenon DEF NoBeat, Beats
  <2> QED
    BY <1>1, <2>1, Types, Zenon DEF IInv
<1>6. TypeOK'
  BY <1>1, <1>4, <1>5, Zenon DEF IInv, TypeOK
<1> QED
  BY <1>1, <1>3, <1>4, <1>5, <1>6, RunsIInv DEF NoBeat
-----------------------------------------------------------------------------
(***************************************************************************)
(* runAttempt.                                                             *)
(***************************************************************************)

\* A step of a goroutine that leaves the server alone.
LEMMA AloneIInv ==
  ASSUME IInv, NEW k \in Attempt, NEW r \in Runs, Goto(k, r), run[k].at \in Active,
         r.at \in Active => r.by = run[k].by,
         RunOK(row[k[1]], k, r),
         row' = row, basis' = basis, life' = life, poll' = poll, hb' = hb,
         late' = late \/ late' = late \cup {CompleteOf(k)},
         faults' \in 0..MaxFaults
  PROVE  IInv'
<1>1. CompleteOf(k) \in Requests /\ CompleteOf(k).key = k /\ ReportOK(row[k[1]], CompleteOf(k))
  BY LateOK, Zenon DEF CompleteOf
<1>2. /\ row \in [Jobs -> Rows] /\ basis \in [Jobs -> {None} \cup (Causes \X Outs)]
      /\ late \subseteq Requests
  BY Types DEF IInv
<1> QED
  BY <1>1, <1>2, GotoIInv, Zenon

\* What is known of the goroutine of an active attempt.
LEMMA AttemptFacts ==
  ASSUME IInv, NEW k \in Attempt, run[k].at \in Active
  PROVE  /\ run[k] \in Runs /\ RunOK(row[k[1]], k, run[k])
         /\ Issued(row[k[1]], k) /\ run[k].at # "none"
         /\ Holds(row[k[1]], k) <=> Fence(k)
BY Types, Zenon DEF IInv, RunInv, RunOK, Active, Executing, Holds, Fence

\* The context ends, the executor returns, an upload fails.
LEMMA ExecIInv ==
  ASSUME IInv, NEW k \in Attempt, endContext(k) \/ execReturns(k) \/ uploadFails(k)
  PROVE  IInv'
<1>1. /\ row' = row /\ basis' = basis /\ life' = life /\ poll' = poll /\ hb' = hb
      /\ late' = late /\ faults' = faults
      /\ run[k].at \in Active
  BY Zenon DEF endContext, execReturns, uploadFails, net, Active, Executing
<1>2. /\ run[k] \in Runs /\ RunOK(row[k[1]], k, run[k])
      /\ Issued(row[k[1]], k) /\ run[k].at # "none"
      /\ Holds(row[k[1]], k) <=> Fence(k)
  BY <1>1, AttemptFacts, Zenon
<1>3. faults' \in 0..MaxFaults
  BY <1>1, Types, Zenon DEF IInv
<1>4. "timeout" \in Causes /\ "abort" \in Causes
  BY Zenon DEF Causes
<1>5. CASE endContext(k)
  <2>1. PICK c \in {"timeout", "abort"} : Goto(k, Caused(run[k], c)) /\ (c = "abort" => ~Fence(k))
    BY <1>5, Zenon DEF endContext
  <2>2. /\ Caused(run[k], c) \in Runs /\ Caused(run[k], c).by = run[k].by
        /\ RunOK(row[k[1]], k, Caused(run[k], c))
    BY <1>2, <1>4, <2>1, CausedOK
  <2> QED
    BY <1>1, <1>3, <2>1, <2>2, AloneIInv, Zenon
<1>6. CASE execReturns(k)
  <2>1. PICK out \in {"zero", "nonzero", "error"} :
               Goto(k, [run[k] EXCEPT !.at = "returned", !.out = out])
    BY <1>6, Zenon DEF execReturns
  <2>2. PICK r : r = [run[k] EXCEPT !.at = "returned", !.out = out]
    BY Zenon
  <2>3. /\ r \in Runs /\ r.by = run[k].by /\ r.at = "returned"
        /\ r.cause = run[k].cause /\ r.starts = run[k].starts
    BY <1>2, <2>2 DEF Runs, Outs, Active, Executing
  <2>4. RunOK(row[k[1]], k, r)
    BY <1>1, <1>2, <2>3, Zenon DEF RunOK, Active, Executing
  <2> QED
    BY <1>1, <1>3, <2>1, <2>2, <2>3, <2>4, AloneIInv, Zenon
<1>7. CASE uploadFails(k)
  <2>1. PICK r : r = [run[k] EXCEPT !.out = "error"]
    BY Zenon
  <2>2. /\ r \in Runs /\ r.by = run[k].by /\ r.at = run[k].at
        /\ r.cause = run[k].cause /\ r.starts = run[k].starts
    BY <1>2, <2>1, Zenon DEF Runs, Outs
  <2>3. RunOK(row[k[1]], k, r)
    BY <1>2, <2>2 DEF RunOK
  <2>4. Goto(k, r) \/ (~Fence(k) /\ Goto(k, Caused(r, "abort")))
    BY <1>7, <2>1, Zenon DEF uploadFails
  <2>5. CASE Goto(k, r)
    BY <1>1, <1>3, <2>2, <2>3, <2>5, AloneIInv, Zenon
  <2>6. CASE ~Fence(k) /\ Goto(k, Caused(r, "abort"))
    <3>1. /\ Caused(r, "abort") \in Runs /\ Caused(r, "abort").by = r.by
          /\ RunOK(row[k[1]], k, Caused(r, "abort"))
      BY <1>2, <1>4, <2>2, <2>3, <2>6, CausedOK
    <3> QED
      BY <1>1, <1>3, <2>2, <2>6, <3>1, AloneIInv
  <2> QED
    BY <2>4, <2>5, <2>6, Zenon
<1> QED
  BY <1>5, <1>6, <1>7, Zenon

\* The goroutine goes on at another place of runAttempt.
LEMMA AtOK ==
  ASSUME IInv, NEW k \in Attempt, run[k].at \in Active,
         NEW at \in {"report", "500"}, NEW r, NEW e \in 0..(CompleteRetries - 1),
         \/ r = [run[k] EXCEPT !.at = at] /\ e = run[k].errors
         \/ r = [run[k] EXCEPT !.at = at, !.errors = e]
  PROVE  r \in Runs /\ r.by = run[k].by /\ RunOK(row[k[1]], k, r)
<1>1. /\ run[k] \in Runs /\ RunOK(row[k[1]], k, run[k])
      /\ Issued(row[k[1]], k)
  BY AttemptFacts, Zenon
<1>2. /\ r \in Runs /\ r.by = run[k].by /\ r.at = at
      /\ r.cause = run[k].cause /\ r.starts = run[k].starts
  <2>1. CASE r = [run[k] EXCEPT !.at = at]
    BY <1>1, <2>1, Zenon DEF Runs, Active, Executing
  <2>2. CASE r = [run[k] EXCEPT !.at = at, !.errors = e]
    BY <1>1, <2>2, Zenon DEF Runs, Active, Executing
  <2> QED
    BY <2>1, <2>2, Zenon
<1> QED
  BY <1>1, <1>2, Zenon DEF RunOK, Active, Executing

\* The verdict is fixed; an aborted attempt is forgotten, and it is not the one
\* that holds the job.
LEMMA FixVerdictIInv == ASSUME IInv, NEW k \in Attempt, fixVerdict(k) PROVE IInv'
<1>1. /\ row' = row /\ basis' = basis /\ life' = life /\ poll' = poll /\ hb' = hb
      /\ late' = late /\ faults' = faults
      /\ run[k].at \in Active
  BY Zenon DEF fixVerdict, net, Active, Executing
<1>2. faults' \in 0..MaxFaults
  BY <1>1, Types, Zenon DEF IInv
<1>3. /\ run[k] \in Runs /\ RunOK(row[k[1]], k, run[k])
  BY <1>1, AttemptFacts, Zenon
<1>4. CASE Aborted(run[k])
  <2>1. ~Holds(row[k[1]], k)
    BY <1>3, <1>4, Zenon DEF Aborted, RunOK
  <2>2. /\ Gone(run[k], "done") \in Runs /\ Gone(run[k], "done").at \notin Active
        /\ RunOK(row[k[1]], k, Gone(run[k], "done"))
    BY <1>1, <1>3, <2>1, GoneOK DEF Active, Executing
  <2>3. Goto(k, Gone(run[k], "done"))
    BY <1>4, Zenon DEF fixVerdict
  <2> QED
    BY <1>1, <1>2, <2>2, <2>3, AloneIInv
<1>5. CASE ~Aborted(run[k])
  <2>1. PICK r : r = [run[k] EXCEPT !.at = "report"]
    BY Zenon
  <2>2. run[k].errors \in 0..(CompleteRetries - 1)
    BY <1>3, Zenon DEF Runs
  <2>3. r \in Runs /\ r.by = run[k].by /\ RunOK(row[k[1]], k, r)
    BY <1>1, <2>1, <2>2, AtOK
  <2>4. Goto(k, r)
    BY <1>5, <2>1, Zenon DEF fixVerdict
  <2> QED
    BY <1>1, <1>2, <2>3, <2>4, AloneIInv, Zenon
<1> QED
  BY <1>4, <1>5, Zenon

\* The report is handled, and the attempt holds its job no longer.
LEMMA ReportIInv == ASSUME IInv, NEW k \in Attempt, report(k) PROVE IInv'
<1>1. /\ life' = life /\ poll' = poll /\ hb' = hb /\ late' = late
      /\ run[k].at \in Active /\ run[k].at = "report"
  BY DEF report, net, Active, Executing
<1>2. /\ run[k] \in Runs /\ RunOK(row[k[1]], k, run[k]) /\ Issued(row[k[1]], k)
  BY <1>1, AttemptFacts
<1>3. CASE complete(k, run[k]) /\ Goto(k, [run[k] EXCEPT !.at = ReplyTo(k)]) /\ UNCHANGED faults
  <2>1. /\ row' \in [Jobs -> Rows]
        /\ \A j \in Jobs : row'[j] = row[j] \/ row'[j] \in Moves(row[j])
        /\ basis' \in [Jobs -> {None} \cup (Causes \X Outs)]
        /\ \A j \in Jobs : basis'[j] = basis[j] \/ BasisOK(row'[j], basis'[j])
        /\ ~Holds(row'[k[1]], k)
    BY <1>2, <1>3, CompleteKeeps, Zenon DEF RunOK, Runs
  <2>2. PICK r : r = [run[k] EXCEPT !.at = ReplyTo(k)]
    BY Zenon
  <2>3. ReplyTo(k) \in {"200", "409"}
    BY Zenon DEF ReplyTo
  <2>4. /\ r \in Runs /\ r.by = run[k].by /\ r.at \in {"200", "409"}
        /\ r.starts = run[k].starts
    BY <1>2, <2>2, <2>3 DEF Runs, Active, Executing
  <2>5. Issued(row'[k[1]], k)
    <3>1. k[1] \in Jobs /\ row[k[1]] \in Rows /\ RowOK(row[k[1]])
      BY Attempts, Types, Zenon DEF IInv, RowInv
    <3>2. row'[k[1]] = row[k[1]] \/ Moved(row[k[1]], row'[k[1]])
      BY <2>1, <3>1, MovesOK
    <3> QED
      BY <1>2, <2>1, <3>1, <3>2, Carried, Zenon
  <2>6. RunOK(row'[k[1]], k, r)
    BY <1>2, <2>1, <2>4, <2>5, Zenon DEF RunOK
  <2>7. faults' \in 0..MaxFaults /\ late \subseteq Requests
    BY <1>3, Types, Zenon DEF IInv
  <2> QED
    BY <1>1, <1>3, <2>1, <2>2, <2>4, <2>6, <2>7, GotoIInv, Zenon
<1>4. CASE Fault /\ Goto(k, [run[k] EXCEPT !.at = "500"]) /\ UNCHANGED <<row, basis>>
  <2>1. PICK r : r = [run[k] EXCEPT !.at = "500"]
    BY Zenon
  <2>2. run[k].errors \in 0..(CompleteRetries - 1)
    BY <1>2, Zenon DEF Runs
  <2>3. r \in Runs /\ r.by = run[k].by /\ RunOK(row[k[1]], k, r)
    BY <1>1, <2>1, <2>2, AtOK
  <2>4. faults' \in 0..MaxFaults
    BY <1>4, Types, Limits DEF IInv, Fault
  <2> QED
    BY <1>1, <1>4, <2>1, <2>3, <2>4, AloneIInv, Zenon
<1> QED
  BY <1>3, <1>4, Zenon DEF report

\* A request or a reply is lost, or deliveries have been stopped.
LEMMA LoseReportIInv == ASSUME IInv, NEW k \in Attempt, loseReport(k) \/ giveUp(k) PROVE IInv'
<1>1. /\ row' = row /\ basis' = basis /\ life' = life /\ poll' = poll /\ hb' = hb
      /\ run[k].at \in Active
      /\ late' = late \/ late' = late \cup {CompleteOf(k)}
  BY Zenon DEF loseReport, giveUp, Active, Executing
<1>2. /\ run[k] \in Runs /\ RunOK(row[k[1]], k, run[k])
  BY <1>1, AttemptFacts, Zenon
<1>3. faults' \in 0..MaxFaults
  BY Types, Limits DEF IInv, Fault, loseReport, giveUp
<1>4. CASE loseReport(k)
  <2>1. PICK r : r = [run[k] EXCEPT !.at = "report"]
    BY Zenon
  <2>2. run[k].errors \in 0..(CompleteRetries - 1)
    BY <1>2, Zenon DEF Runs
  <2>3. r \in Runs /\ r.by = run[k].by /\ RunOK(row[k[1]], k, r)
    BY <1>1, <2>1, <2>2, AtOK, Zenon
  <2>4. Goto(k, r)
    BY <1>4, <2>1, Zenon DEF loseReport
  <2> QED
    BY <1>1, <1>3, <2>3, <2>4, AloneIInv, Zenon
<1>5. CASE giveUp(k)
  <2>1. /\ Gone(run[k], "left") \in Runs /\ Gone(run[k], "left").at \notin Active
        /\ RunOK(row[k[1]], k, Gone(run[k], "left"))
    BY <1>1, <1>2, GoneOK, Zenon DEF Active, Executing
  <2>2. Goto(k, Gone(run[k], "left"))
    BY <1>5, Zenon DEF giveUp
  <2> QED
    BY <1>1, <1>3, <2>1, <2>2, AloneIInv, Zenon
<1> QED
  BY <1>4, <1>5, Zenon

\* The runner has its reply, and is done with the attempt only when the server is.
LEMMA RetryIInv == ASSUME IInv, NEW k \in Attempt, completeWithRetry(k) PROVE IInv'
<1>1. /\ row' = row /\ basis' = basis /\ life' = life /\ poll' = poll /\ hb' = hb
      /\ late' = late /\ faults' = faults
      /\ run[k].at \in {"200", "409", "500"} /\ run[k].at \in Active
      /\ Goto(k, NextReport(run[k]))
  BY Zenon DEF completeWithRetry, net, Active, Executing
<1>2. /\ run[k] \in Runs /\ RunOK(row[k[1]], k, run[k])
      /\ run[k].errors \in 0..(CompleteRetries - 1)
  BY <1>1, AttemptFacts, Zenon DEF Runs
<1>3. faults' \in 0..MaxFaults
  BY <1>1, Types DEF IInv
<1>4. /\ Gone(run[k], "left") \in Runs /\ Gone(run[k], "left").at \notin Active
      /\ RunOK(row[k[1]], k, Gone(run[k], "left"))
  BY <1>1, <1>2, GoneOK, Zenon DEF Active, Executing
<1>5. CASE run[k].at \in {"200", "409"}
  <2>1. ~Holds(row[k[1]], k)
    BY <1>2, <1>5, Zenon DEF RunOK
  <2>2. /\ Gone(run[k], "done") \in Runs /\ Gone(run[k], "done").at \notin Active
        /\ RunOK(row[k[1]], k, Gone(run[k], "done"))
    BY <1>1, <1>2, <2>1, GoneOK DEF Active, Executing
  <2>3. Goto(k, Gone(run[k], "done"))
    BY <1>1, <1>5, Zenon DEF NextReport
  <2> QED
    BY <1>1, <1>3, <2>2, <2>3, AloneIInv, Zenon
<1>6. CASE run[k].at = "500" /\ run[k].errors + 1 = CompleteRetries
  <2>1. Goto(k, Gone(run[k], "left"))
    BY <1>1, <1>6, Zenon DEF NextReport
  <2> QED
    BY <1>1, <1>3, <1>4, <2>1, AloneIInv, Zenon
<1>7. CASE run[k].at = "500" /\ run[k].errors + 1 # CompleteRetries
  <2>1. PICK e : e = run[k].errors + 1
    BY Zenon
  <2>2. PICK r : r = [run[k] EXCEPT !.at = "report", !.errors = e]
    BY Zenon
  <2>3. e \in 0..(CompleteRetries - 1)
    BY <1>2, <1>7, <2>1, Limits
  <2>4. r \in Runs /\ r.by = run[k].by /\ RunOK(row[k[1]], k, r)
    BY <1>1, <2>2, <2>3, AtOK, Zenon
  <2>5. Goto(k, r)
    BY <1>1, <1>7, <2>1, <2>2, Zenon DEF NextReport
  <2> QED
    BY <1>1, <1>3, <2>4, <2>5, AloneIInv, Zenon
<1> QED
  BY <1>1, <1>5, <1>6, <1>7, Zenon
-----------------------------------------------------------------------------
\* The first state.
LEMMA InitIInv == Init => IInv
<1> SUFFICES ASSUME Init
             PROVE  IInv
  BY Zenon
<1>1. Blank \in Rows /\ RowOK(Blank) /\ Blank.attempt = 0 /\ Blank.state = "waiting"
  BY Limits DEF Blank, Rows, RowOK, Over
<1>2. Fresh \in Runs /\ Fresh.at = "none" /\ Fresh.starts = 0 /\ Fresh.cause = None
  BY Limits DEF Fresh, Runs, Causes, Outs
<1>3. NoBeat \in Beats /\ NoBeat.refs = {} /\ NoBeat.dirs = {}
  BY Zenon DEF NoBeat, Beats
<1>4. TypeOK
  BY <1>1, <1>2, <1>3, Limits DEF Init, LifecycleInit, TypeOK
<1>5. RowInv
  BY <1>1, Zenon DEF Init, LifecycleInit, RowInv, BasisOK
<1>6. RunInv
  BY <1>1, <1>2, Attempts DEF Init, LifecycleInit, RunInv, RunOK, Holds
<1>7. PollInv /\ BeatInv /\ LateInv
  BY <1>3, Zenon DEF Init, PollInv, BeatInv, LateInv
<1>8. SlotInv
  <2>1. \A w \in Runners : active(w) = {}
    BY <1>2, Zenon DEF Init, active, Active, Executing
  <2>2. Cardinality({}) = 0
    BY FS_EmptySet, Zenon
  <2> QED
    BY <2>1, <2>2, Limits DEF Init, SlotInv
<1> QED
  BY <1>4, <1>5, <1>6, <1>7, <1>8, Zenon DEF IInv

\* Every step keeps the invariant.
LEMMA StepIInv == IInv /\ [Next]_vars => IInv'
<1> SUFFICES ASSUME IInv, [Next]_vars
             PROVE  IInv'
  BY Zenon
<1>1. CASE UNCHANGED vars
  <2>1. /\ row' = row /\ basis' = basis /\ life' = life /\ poll' = poll /\ hb' = hb
        /\ late' = late /\ run' = run /\ faults' = faults
    BY <1>1, Zenon DEF vars, net
  <2>2. TypeOK'
    BY <2>1, Zenon DEF IInv, TypeOK
  <2> QED
    BY <2>1, <2>2, RunsIInv, Zenon
<1>2. ASSUME NEW j \in Jobs, Submit(j) \/ Cancel(j) \/ Backstop(j) \/ Lose(j) PROVE IInv'
  BY <1>2, ServerIInv, Zenon
<1>3. ASSUME NEW m \in late, Deliver(m) PROVE IInv'
  BY <1>3, DeliverIInv, Zenon
<1>4. ASSUME NEW w \in Runners,
             \/ Register(w) \/ Shutdown(w) \/ StopDelivery(w) \/ Exit(w) \/ Crash(w)
             \/ Polling(w) \/ loseClaim(w)
             \/ Beating(w)
      PROVE  IInv'
  BY <1>4, LifeIInv, ShutdownIInv, CrashIInv, ClaimIInv, StartIInv, LoseClaimIInv,
     HeartbeatIInv, ApplyIInv DEF Polling, Beating
<1>5. ASSUME NEW k \in Attempt,
             \/ endContext(k) \/ execReturns(k) \/ uploadFails(k)
             \/ Finishing(k) \/ loseReport(k)
      PROVE  IInv'
  BY <1>5, ExecIInv, FixVerdictIInv, ReportIInv, LoseReportIInv, RetryIInv, Zenon DEF Finishing
<1> QED
  BY <1>1, <1>2, <1>3, <1>4, <1>5, Zenon DEF Next

\* Whoever takes a step, rows only make the moves Lifecycle allows.
LEMMA StepMoves ==
  ASSUME IInv, Next
  PROVE  row' = row \/ LifecycleNext
<1> SUFFICES ASSUME row' # row
             PROVE  /\ row' \in [Jobs -> Rows]
                    /\ \A j \in Jobs : row'[j] = row[j] \/ row'[j] \in Moves(row[j])
  BY Zenon DEF LifecycleNext
<1>1. ASSUME NEW j \in Jobs, Submit(j) \/ Cancel(j) \/ Backstop(j) \/ Lose(j)
      PROVE  \E x \in Moves(row[j]) : Set(j, x)
  <2>1. CASE Submit(j)
    BY <2>1, Zenon DEF Submit, Moves
  <2>2. CASE Cancel(j)
    BY <2>2, Zenon DEF Cancel, Moves
  <2>3. CASE Backstop(j)
    BY <2>3, Zenon DEF Backstop, Moves
  <2>4. CASE Lose(j)
    BY <2>4, Zenon DEF Lose, Moves
  <2> QED
    BY <1>1, <2>1, <2>2, <2>3, <2>4, Zenon
<1>2. ASSUME NEW w \in Runners, NEW j \in Jobs, row[j].state = "queued", Set(j, Granted(row[j], w))
      PROVE  \E x \in Moves(row[j]) : Set(j, x)
  BY <1>2, GrantMoves, Zenon
<1>3. ASSUME NEW k \in Attempt, report(k)
      PROVE  /\ row' \in [Jobs -> Rows]
             /\ \A j \in Jobs : row'[j] = row[j] \/ row'[j] \in Moves(row[j])
  <2>1. complete(k, run[k]) /\ run[k].at \in Active
    BY <1>3, Zenon DEF report, Active, Executing
  <2>2. run[k] \in Runs /\ RunOK(row[k[1]], k, run[k])
    BY <2>1, AttemptFacts, Zenon
  <2> QED
    BY <2>1, <2>2, CompleteKeeps, Zenon DEF RunOK, Runs
<1>4. ASSUME NEW m \in late, Deliver(m)
      PROVE  /\ row' \in [Jobs -> Rows]
             /\ \A j \in Jobs : row'[j] = row[j] \/ row'[j] \in Moves(row[j])
  <2>1. m \in Requests
    BY Types, Zenon DEF IInv
  <2>2. CASE m.type = "claim"
    <3>1. m.from \in Runners
      BY <2>1, <2>2, Zenon DEF Requests
    <3>2. PICK j \in Jobs : row[j].state = "queued" /\ Set(j, Granted(row[j], m.from))
      BY <1>4, <2>2, Zenon DEF Deliver
    <3> QED
      BY <1>2, <3>1, <3>2, SetRow, Zenon
  <2>3. CASE m.type = "complete"
    <3>1. m.key \in Attempt /\ m.cause \in Causes /\ m.out \in Outs
      BY <2>1, <2>3, Zenon DEF Requests
    <3>2. complete(m.key, m) /\ ReportOK(row[m.key[1]], m)
      BY <1>4, <2>3, Zenon DEF Deliver, IInv, LateInv
    <3> QED
      BY <3>1, <3>2, CompleteKeeps, Zenon DEF ReportOK
  <2> QED
    BY <1>4, <2>2, <2>3, Zenon DEF Deliver
<1>5. ASSUME NEW w \in Runners, claim(w)
      PROVE  \E j \in Jobs : \E x \in Moves(row[j]) : Set(j, x)
  BY <1>2, <1>5, Zenon DEF claim
<1>6. \/ \E j \in Jobs : Submit(j) \/ Cancel(j) \/ Backstop(j) \/ Lose(j)
      \/ \E m \in late : Deliver(m)
      \/ \E w \in Runners : claim(w)
      \/ \E k \in Attempt : report(k)
  BY Zenon DEF Next, Polling, Beating, Finishing, Register, Shutdown, StopDelivery, Exit, Crash, start,
     loseClaim, heartbeat, apply, endContext, execReturns, uploadFails, fixVerdict, giveUp,
     completeWithRetry, loseReport
<1> QED
  BY <1>1, <1>3, <1>4, <1>5, <1>6, SetRow, Zenon
-----------------------------------------------------------------------------
\* The invariant holds in every reachable state, with any number of jobs,
\* runners, attempts and faults.
THEOREM Invariance == Spec => []IInv
  BY InitIInv, StepIInv, PTL DEF Spec

\* No attempt is executed twice: a claim gives out a number nobody has had
\* (Scheduler.Claim), and a reply starts it once.
THEOREM AlwaysExecutedOnce == Spec => []ExecutedOnce
<1>1. IInv => ExecutedOnce
  BY Zenon DEF IInv, RunInv, RunOK, ExecutedOnce
<1> QED
  BY <1>1, Invariance, PTL

\* A runner is done with an attempt only when the server is: an abort is only
\* for an attempt the job no longer runs, when it is computed (the heartbeat
\* handler) and still when it is applied (Agent.apply).
THEOREM ForgottenIsAlwaysOver == Spec => []ForgottenIsOver
<1>1. IInv => ForgottenIsOver
  BY DEF IInv, RunInv, RunOK, ForgottenIsOver, Fence, Holds
<1> QED
  BY <1>1, Invariance, PTL

\* What is recorded of a job is what happened to its attempt, for reports that
\* come in time, repeated or late (runAttempt, Scheduler.Complete).
THEOREM VerdictAlwaysTruthful == Spec => []VerdictTruthful
<1>1. IInv => VerdictTruthful
  BY Zenon DEF IInv, RowInv, BasisOK, VerdictTruthful
<1> QED
  BY <1>1, Invariance, PTL

\* A runner never has more attempts than slots, the one it is being granted
\* included (pollLoop takes the slot before it claims).
THEOREM NeverOverCapacity ==
  Spec => [](\A w \in Runners : Cardinality(active(w)) <= Capacity)
<1>1. IInv => \A w \in Runners : Cardinality(active(w)) <= Capacity
  BY Slots, Limits DEF IInv, SlotInv
<1> QED
  BY <1>1, Invariance, PTL

\* Whatever is lost, late or repeated between the processes, the rows of the
\* jobs make only the moves of Lifecycle.
THEOREM DrivesLifecycle == Spec => LifecycleSpec
<1>1. Init => LifecycleInit
  BY Zenon DEF Init
<1>2. IInv /\ [Next]_vars => [LifecycleNext]_row
  BY StepMoves, Zenon DEF vars
<1> QED
  BY <1>1, <1>2, Invariance, PTL DEF Spec, LifecycleSpec
=============================================================================

---------------------------- MODULE ServerProofs ----------------------------
(***************************************************************************)
(* Proofs about three parts of the server: validating a pipeline and       *)
(* advancing its jobs (Pipeline), taking in artifacts (Artifacts), and     *)
(* starting, migrating and stopping (Boot).                                *)
(***************************************************************************)
EXTENDS Pipeline, Artifacts, Boot, FiniteSetTheorems, SequenceTheorems, TLAPS

-----------------------------------------------------------------------------
(***************************************************************************)
(* Boot, for any processes with binaries of any age on one database file.  *)
(***************************************************************************)
\* The calls that run has deferred, by name.
LEMMA Order ==
  /\ Deferred[1] = "monitor"
  /\ NextDeferred("monitor") = "listener" /\ NextDeferred("listener") = "store"
  /\ NextDeferred("store") = "closed"
<1>1. Deferred[1] = "monitor" /\ Deferred[2] = "listener" /\ Deferred[3] = "store"
  BY Zenon DEF Deferred
<1>2. /\ (CHOOSE k \in 1..3 : Deferred[k] = "monitor") = 1
      /\ (CHOOSE k \in 1..3 : Deferred[k] = "listener") = 2
      /\ (CHOOSE k \in 1..3 : Deferred[k] = "store") = 3
  <2>1. \A k \in 1..3 : k = 1 \/ k = 2 \/ k = 3
    OBVIOUS
  <2>2. /\ \A k \in 1..3 : Deferred[k] = "monitor" <=> k = 1
        /\ \A k \in 1..3 : Deferred[k] = "listener" <=> k = 2
        /\ \A k \in 1..3 : Deferred[k] = "store" <=> k = 3
    BY <1>1, <2>1, Zenon
  <2> QED BY <2>2
<1> QED BY <1>1, <1>2 DEF NextDeferred

\* The migrations are the first ones, in their order.
LEMMA Whole ==
  ASSUME NEW c \in Seq(Nat)
  PROVE  c = [i \in 1..Len(c) |-> i] <=> \A i \in 1..Len(c) : c[i] = i
OBVIOUS

\* A version is recorded exactly if its migration has been committed.
LEMMA RecordedIsDone ==
  ASSUME BootInv, NEW v \in Nat \ {0}
  PROVE  Recorded(v) <=> v <= Len(commits)
<1>1. commits \in Seq(Nat) /\ \A i \in 1..Len(commits) : commits[i] = i
  BY Whole, Zenon DEF BootInv, BootTypeOK
<1>2. DOMAIN commits = 1..Len(commits) /\ Len(commits) \in Nat
  BY <1>1
<1>3. ASSUME v <= Len(commits)
      PROVE  Recorded(v)
  <2>1. v \in DOMAIN commits /\ commits[v] = v
    BY <1>1, <1>2, <1>3
  <2> QED BY <2>1, Zenon DEF Recorded
<1>4. ASSUME Recorded(v)
      PROVE  v <= Len(commits)
  BY <1>1, <1>2, <1>4 DEF Recorded
<1> QED BY <1>3, <1>4, Zenon

\* A step of one process that leaves the database alone: what is left to show is
\* about that process.
LEMMA LocalIInv ==
  ASSUME BootInv, BootTypeOK', NEW s \in Servers, UNCHANGED commits,
         \A t \in Servers \ {s} :
           /\ pc'[t] = pc[t] /\ next'[t] = next[t] /\ found'[t] = found[t]
           /\ monitor'[t] = monitor[t] /\ reqs'[t] = reqs[t]
           /\ opened'[t] = opened[t] /\ cut'[t] = cut[t]
           /\ pc[t] = "tx" => lock' = lock,
         pc'[s] = "tx" => lock' = s /\ next'[s] \in 1..Known[s] /\ (found'[s] <=> next'[s] <= Len(commits)),
         pc'[s] \in {"migrate", "tx"} => next'[s] \in 1..Len(commits) + 1,
         pc'[s] \notin {"down", "migrate", "tx"} => Known[s] <= Len(commits),
         opened'[s] <=> pc'[s] \notin {"down", "closed"},
         monitor'[s] # "off" => pc'[s] \in {"serve", "drain", "monitor"},
         reqs'[s] > 0 => \/ pc'[s] \in {"serve", "drain"}
                         \/ pc'[s] \in {"monitor", "listener", "store", "closed"} /\ cut'[s]
  PROVE  BootInv'
<1>1. TxInv'
  BY DEF BootInv, TxInv
<1>2. UseInv'
  BY DEF BootInv, UseInv
<1> QED BY <1>1, <1>2, Zenon DEF BootInv

\* A process opens the database.
LEMMA OpenIInv ==
  ASSUME BootInv, NEW s \in Servers, OpenStore(s)
  PROVE  BootInv'
<1> USE DEF disk
<1>1. BootTypeOK'
  BY Zenon DEF BootInv, BootTypeOK, OpenStore
<1>2. /\ pc[s] = "down" /\ pc'[s] = "migrate" /\ next'[s] = 1 /\ opened'[s] /\ monitor'[s] = monitor[s]
      /\ reqs'[s] = reqs[s] /\ lock' = lock /\ commits' = commits
      /\ \A t \in Servers \ {s} :
           /\ pc'[t] = pc[t] /\ next'[t] = next[t] /\ found'[t] = found[t]
           /\ monitor'[t] = monitor[t] /\ reqs'[t] = reqs[t]
           /\ opened'[t] = opened[t] /\ cut'[t] = cut[t]
  BY Zenon DEF BootInv, BootTypeOK, OpenStore
<1>3. monitor[s] = "off" /\ ~(reqs[s] > 0)
  BY <1>2, Zenon DEF BootInv, UseInv, BootTypeOK
<1>4. Len(commits) \in Nat
  BY DEF BootInv, BootTypeOK
<1> QED BY <1>1, <1>2, <1>3, <1>4, LocalIInv

\* A process finds every migration done.
LEMMA MigratedIInv ==
  ASSUME BootInv, NEW s \in Servers, migrated(s)
  PROVE  BootInv'
<1>1. BootTypeOK'
  BY BootAssumption, Zenon DEF BootInv, BootTypeOK, migrated, disk
<1>2. /\ commits' = commits
      /\ lock' = lock /\ pc[s] = "migrate" /\ next[s] > Known[s] /\ pc'[s] = "artifacts"
      /\ monitor'[s] = monitor[s] /\ reqs'[s] = reqs[s] /\ opened'[s] = opened[s] /\ cut'[s] = cut[s]
      /\ \A t \in Servers \ {s} :
           /\ pc'[t] = pc[t] /\ next'[t] = next[t] /\ found'[t] = found[t]
           /\ monitor'[t] = monitor[t] /\ reqs'[t] = reqs[t]
           /\ opened'[t] = opened[t] /\ cut'[t] = cut[t]
  BY Zenon DEF BootInv, BootTypeOK, migrated, disk
<1>3. Len(commits) \in Nat /\ TxInv /\ UseInv /\ BootTypeOK
  BY DEF BootInv, BootTypeOK
<1> QED BY <1>1, <1>2, <1>3, LocalIInv, BootAssumption DEF TxInv, UseInv

\* The artifact store is opened.
LEMMA OpenArtifactsIInv ==
  ASSUME BootInv, NEW s \in Servers, openArtifacts(s)
  PROVE  BootInv'
<1>1. BootTypeOK'
  BY BootAssumption, Zenon DEF BootInv, BootTypeOK, openArtifacts, disk
<1>2. /\ commits' = commits
      /\ lock' = lock /\ pc[s] = "artifacts" /\ pc'[s] = "listen"
      /\ monitor'[s] = monitor[s] /\ reqs'[s] = reqs[s] /\ opened'[s] = opened[s] /\ cut'[s] = cut[s]
      /\ \A t \in Servers \ {s} :
           /\ pc'[t] = pc[t] /\ next'[t] = next[t] /\ found'[t] = found[t]
           /\ monitor'[t] = monitor[t] /\ reqs'[t] = reqs[t]
           /\ opened'[t] = opened[t] /\ cut'[t] = cut[t]
  BY Zenon DEF BootInv, BootTypeOK, openArtifacts, disk
<1>3. Len(commits) \in Nat /\ TxInv /\ UseInv /\ BootTypeOK
  BY DEF BootInv, BootTypeOK
<1> QED BY <1>1, <1>2, <1>3, LocalIInv DEF TxInv, UseInv

\* The server begins to listen.
LEMMA ListenIInv ==
  ASSUME BootInv, NEW s \in Servers, Listen(s)
  PROVE  BootInv'
<1>1. BootTypeOK'
  BY BootAssumption, Zenon DEF BootInv, BootTypeOK, Listen, disk
<1>2. /\ commits' = commits
      /\ lock' = lock /\ pc[s] = "listen" /\ pc'[s] = "serve"
      /\ reqs'[s] = reqs[s] /\ opened'[s] = opened[s] /\ cut'[s] = cut[s]
      /\ \A t \in Servers \ {s} :
           /\ pc'[t] = pc[t] /\ next'[t] = next[t] /\ found'[t] = found[t]
           /\ monitor'[t] = monitor[t] /\ reqs'[t] = reqs[t]
           /\ opened'[t] = opened[t] /\ cut'[t] = cut[t]
  BY Zenon DEF BootInv, BootTypeOK, Listen, disk
<1>3. Len(commits) \in Nat /\ TxInv /\ UseInv /\ BootTypeOK
  BY DEF BootInv, BootTypeOK
<1> QED BY <1>1, <1>2, <1>3, LocalIInv DEF TxInv, UseInv

\* A signal arrives.
LEMMA SignalIInv ==
  ASSUME BootInv, NEW s \in Servers, Signal(s)
  PROVE  BootInv'
<1>1. BootTypeOK'
  BY BootAssumption, Zenon DEF BootInv, BootTypeOK, Signal, disk
<1>2. /\ commits' = commits
      /\ lock' = lock /\ pc[s] = "serve" /\ pc'[s] = "drain"
      /\ monitor'[s] = monitor[s] /\ reqs'[s] = reqs[s] /\ opened'[s] = opened[s] /\ cut'[s] = cut[s]
      /\ \A t \in Servers \ {s} :
           /\ pc'[t] = pc[t] /\ next'[t] = next[t] /\ found'[t] = found[t]
           /\ monitor'[t] = monitor[t] /\ reqs'[t] = reqs[t]
           /\ opened'[t] = opened[t] /\ cut'[t] = cut[t]
  BY Zenon DEF BootInv, BootTypeOK, Signal, disk
<1>3. Len(commits) \in Nat /\ TxInv /\ UseInv /\ BootTypeOK
  BY DEF BootInv, BootTypeOK
<1> QED BY <1>1, <1>2, <1>3, LocalIInv DEF TxInv, UseInv

\* A request comes or ends.
LEMMA RequestIInv ==
  ASSUME BootInv, NEW s \in Servers, Request(s)
  PROVE  BootInv'
<1>1. BootTypeOK'
  <2>1. PICK n \in 0..MaxReqs : reqs' = [reqs EXCEPT ![s] = n]
    BY BootAssumption DEF BootInv, BootTypeOK, Request
  <2> QED BY <2>1, Zenon DEF BootInv, BootTypeOK, Request, disk
<1>2. /\ commits' = commits
      /\ lock' = lock /\ pc'[s] = pc[s] /\ next'[s] = next[s] /\ found'[s] = found[s]
      /\ reqs'[s] > 0 => reqs[s] > 0 \/ pc[s] = "serve"
      /\ monitor'[s] = monitor[s] /\ opened'[s] = opened[s] /\ cut'[s] = cut[s]
      /\ \A t \in Servers \ {s} :
           /\ pc'[t] = pc[t] /\ next'[t] = next[t] /\ found'[t] = found[t]
           /\ monitor'[t] = monitor[t] /\ reqs'[t] = reqs[t]
           /\ opened'[t] = opened[t] /\ cut'[t] = cut[t]
  BY Zenon DEF BootInv, BootTypeOK, Request, disk
<1>3. Len(commits) \in Nat /\ TxInv /\ UseInv /\ BootTypeOK
  BY DEF BootInv, BootTypeOK
<1> QED BY <1>1, <1>2, <1>3, LocalIInv DEF TxInv, UseInv

\* The monitor begins or ends a pass.
LEMMA TickIInv ==
  ASSUME BootInv, NEW s \in Servers, Tick(s)
  PROVE  BootInv'
<1>1. BootTypeOK'
  BY BootAssumption, Zenon DEF BootInv, BootTypeOK, Tick, disk
<1>2. /\ commits' = commits
      /\ lock' = lock /\ pc'[s] = pc[s] /\ next'[s] = next[s] /\ found'[s] = found[s]
      /\ monitor[s] # "off"
      /\ reqs'[s] = reqs[s] /\ opened'[s] = opened[s] /\ cut'[s] = cut[s]
      /\ \A t \in Servers \ {s} :
           /\ pc'[t] = pc[t] /\ next'[t] = next[t] /\ found'[t] = found[t]
           /\ monitor'[t] = monitor[t] /\ reqs'[t] = reqs[t]
           /\ opened'[t] = opened[t] /\ cut'[t] = cut[t]
  BY Zenon DEF BootInv, BootTypeOK, Tick, disk
<1>3. Len(commits) \in Nat /\ TxInv /\ UseInv /\ BootTypeOK
  BY DEF BootInv, BootTypeOK
<1> QED BY <1>1, <1>2, <1>3, LocalIInv DEF TxInv, UseInv

\* The monitor returns.
LEMMA RunMonitorReturnsIInv ==
  ASSUME BootInv, NEW s \in Servers, RunMonitorReturns(s)
  PROVE  BootInv'
<1>1. BootTypeOK'
  BY BootAssumption, Zenon DEF BootInv, BootTypeOK, RunMonitorReturns, disk
<1>2. /\ commits' = commits
      /\ lock' = lock /\ pc'[s] = pc[s] /\ next'[s] = next[s] /\ found'[s] = found[s]
      /\ monitor'[s] = "off"
      /\ reqs'[s] = reqs[s] /\ opened'[s] = opened[s] /\ cut'[s] = cut[s]
      /\ \A t \in Servers \ {s} :
           /\ pc'[t] = pc[t] /\ next'[t] = next[t] /\ found'[t] = found[t]
           /\ monitor'[t] = monitor[t] /\ reqs'[t] = reqs[t]
           /\ opened'[t] = opened[t] /\ cut'[t] = cut[t]
  BY Zenon DEF BootInv, BootTypeOK, RunMonitorReturns, disk
<1>3. Len(commits) \in Nat /\ TxInv /\ UseInv /\ BootTypeOK
  BY DEF BootInv, BootTypeOK
<1> QED BY <1>1, <1>2, <1>3, LocalIInv DEF TxInv, UseInv

\* Serve returns.
LEMMA ServeReturnsIInv ==
  ASSUME BootInv, NEW s \in Servers, serveReturns(s)
  PROVE  BootInv'
<1>1. BootTypeOK'
  BY BootAssumption, Order DEF BootInv, BootTypeOK, serveReturns, disk
<1>2. /\ commits' = commits
      /\ lock' = lock /\ pc[s] \in {"serve", "drain"} /\ pc'[s] = "monitor"
      /\ cut'[s] <=> reqs[s] > 0
      /\ monitor'[s] = monitor[s] /\ reqs'[s] = reqs[s] /\ opened'[s] = opened[s]
      /\ \A t \in Servers \ {s} :
           /\ pc'[t] = pc[t] /\ next'[t] = next[t] /\ found'[t] = found[t]
           /\ monitor'[t] = monitor[t] /\ reqs'[t] = reqs[t]
           /\ opened'[t] = opened[t] /\ cut'[t] = cut[t]
  BY Order, Zenon DEF BootInv, BootTypeOK, serveReturns, disk
<1>3. Len(commits) \in Nat /\ TxInv /\ UseInv /\ BootTypeOK
  BY DEF BootInv, BootTypeOK
<1> QED BY <1>1, <1>2, <1>3, LocalIInv DEF TxInv, UseInv

\* The start fails.
LEMMA StartFailsIInv ==
  ASSUME BootInv, NEW s \in Servers, StartFails(s)
  PROVE  BootInv'
<1>1. BootTypeOK'
  BY BootAssumption, Zenon DEF BootInv, BootTypeOK, StartFails, disk
<1>2. /\ commits' = commits
      /\ pc[s] \in {"migrate", "tx", "artifacts", "listen"} /\ pc'[s] = "down" /\ ~opened'[s]
      /\ lock' = IF lock = s THEN None ELSE lock
      /\ monitor'[s] = monitor[s] /\ reqs'[s] = reqs[s]
      /\ \A t \in Servers \ {s} :
           /\ pc'[t] = pc[t] /\ next'[t] = next[t] /\ found'[t] = found[t]
           /\ monitor'[t] = monitor[t] /\ reqs'[t] = reqs[t]
           /\ opened'[t] = opened[t] /\ cut'[t] = cut[t]
  BY Zenon DEF BootInv, BootTypeOK, StartFails, disk
<1>3. Len(commits) \in Nat /\ TxInv /\ UseInv /\ BootTypeOK
  BY DEF BootInv, BootTypeOK
<1> QED BY <1>1, <1>2, <1>3, LocalIInv DEF TxInv, UseInv

\* A migration is begun in a transaction of its own.
LEMMA MigrateBeginIInv ==
  ASSUME BootInv, NEW s \in Servers, migrateBegin(s)
  PROVE  BootInv'
<1>1. BootTypeOK'
  BY Zenon DEF BootInv, BootTypeOK, migrateBegin, Recorded
<1>2. /\ commits' = commits /\ lock = None /\ lock' = s
      /\ pc[s] = "migrate" /\ pc'[s] = "tx" /\ next[s] <= Known[s]
      /\ found'[s] = Recorded(next[s])
      /\ next'[s] = next[s] /\ monitor'[s] = monitor[s] /\ reqs'[s] = reqs[s]
      /\ opened'[s] = opened[s] /\ cut'[s] = cut[s]
      /\ \A t \in Servers \ {s} :
           /\ pc'[t] = pc[t] /\ next'[t] = next[t] /\ found'[t] = found[t]
           /\ monitor'[t] = monitor[t] /\ reqs'[t] = reqs[t]
           /\ opened'[t] = opened[t] /\ cut'[t] = cut[t]
  BY Zenon DEF BootInv, BootTypeOK, migrateBegin, MayBegin
<1>3. Len(commits) \in Nat /\ TxInv /\ UseInv /\ BootTypeOK
  BY DEF BootInv, BootTypeOK
<1>4. next[s] \in 1..Len(commits) + 1 /\ next[s] \in 1..Known[s]
  BY <1>2, <1>3, BootAssumption DEF TxInv
<1>5. found'[s] <=> next'[s] <= Len(commits)
  BY <1>2, <1>3, <1>4, RecordedIsDone
<1>6. \A t \in Servers : pc[t] # "tx"
  BY <1>2, <1>3, BootAssumption, Zenon DEF TxInv
<1> QED BY <1>1, <1>2, <1>3, <1>4, <1>5, <1>6, LocalIInv DEF UseInv

\* The one that holds the lock commits: the migration it is at is recorded, and it
\* was the next one if it was not.
LEMMA MigrateCommitIInv ==
  ASSUME BootInv, NEW s \in Servers, migrateCommit(s)
  PROVE  BootInv'
<1>1. /\ lock = s /\ pc[s] = "tx" /\ pc'[s] = "migrate" /\ next'[s] = next[s] + 1
      /\ commits' = IF found[s] THEN commits ELSE Append(commits, next[s])
      /\ UNCHANGED <<synced, found, monitor, reqs, opened, cut>>
      /\ \A t \in Servers \ {s} : pc'[t] = pc[t] /\ next'[t] = next[t]
  BY Zenon DEF BootInv, BootTypeOK, TxInv, migrateCommit
<1>2. /\ Len(commits) \in Nat /\ TxInv /\ UseInv /\ BootTypeOK
      /\ commits \in Seq(Nat) /\ \A i \in 1..Len(commits) : commits[i] = i
  BY Whole DEF BootInv, BootTypeOK
<1>3. next[s] \in 1..Len(commits) + 1 /\ (found[s] <=> next[s] <= Len(commits))
  BY <1>1, <1>2, Zenon DEF TxInv
<1>4. /\ commits' \in Seq(Nat) /\ Len(commits') \in Nat /\ Len(commits) <= Len(commits')
      /\ next[s] <= Len(commits')
      /\ \A i \in 1..Len(commits') : commits'[i] = i
  <2>1. CASE found[s]
    BY <1>1, <1>2, <1>3, <2>1
  <2>2. CASE ~found[s]
    <3>1. next[s] = Len(commits) + 1 /\ commits' = Append(commits, next[s])
      BY <1>1, <1>2, <1>3, <2>2
    <3> QED BY <1>2, <3>1
  <2> QED BY <2>1, <2>2, Zenon
<1>5. BootTypeOK'
  <2>1. pc' \in [Servers -> {"down", "migrate", "tx", "artifacts", "listen", "serve", "drain",
                            "monitor", "listener", "store", "closed"}]
    BY <1>2, Zenon DEF BootTypeOK, migrateCommit
  <2>2. next' \in [Servers -> Nat]
    BY <1>2 DEF BootTypeOK, migrateCommit
  <2>3. lock' = None
    BY Zenon DEF migrateCommit
  <2> QED BY <1>1, <1>2, <1>4, <2>1, <2>2, <2>3 DEF BootTypeOK
<1>6. TxInv'
  <2>1. \A t \in Servers \ {s} : pc[t] # "tx"
    BY <1>1, <1>2, Zenon DEF TxInv
  <2>2. ASSUME NEW t \in Servers
        PROVE  /\ pc'[t] # "tx"
               /\ pc'[t] \in {"migrate", "tx"} => next'[t] \in 1..Len(commits') + 1
               /\ pc'[t] \notin {"down", "migrate", "tx"} => Known[t] <= Len(commits')
    <3>1. CASE t = s
      BY <1>1, <1>3, <1>4, <3>1
    <3>2. CASE t # s
      <4>1. /\ pc[t] = "migrate" => next[t] \in 1..Len(commits) + 1
            /\ pc[t] \notin {"down", "migrate", "tx"} => Known[t] <= Len(commits)
            /\ Known[t] \in Nat /\ next[t] \in Nat
        BY <1>2, BootAssumption, Zenon DEF TxInv, BootTypeOK
      <4> QED BY <1>1, <1>2, <1>4, <2>1, <3>2, <4>1
    <3> QED BY <3>1, <3>2, Zenon
  <2> QED BY <2>2, Zenon DEF TxInv
<1>7. UseInv'
  BY <1>1, <1>2, Zenon DEF UseInv
<1>8. commits' = [i \in 1..Len(commits') |-> i]
  BY <1>4, Whole, Zenon
<1> QED BY <1>5, <1>6, <1>7, <1>8, Zenon DEF BootInv

\* run returns, and the deferred calls run.
LEMMA RunReturnsIInv ==
  ASSUME BootInv, NEW s \in Servers, runReturns(s)
  PROVE  BootInv'
<1>1. /\ pc[s] \in {"monitor", "listener", "store"} /\ pc' = [pc EXCEPT ![s] = NextDeferred(@)]
      /\ pc[s] = "monitor" => monitor[s] = "off"
      /\ opened' = [opened EXCEPT ![s] = @ /\ pc[s] # "store"]
      /\ UNCHANGED <<commits, synced, lock, next, found, monitor, reqs, cut>>
  BY Zenon DEF runReturns, disk
<1>2. Len(commits) \in Nat /\ TxInv /\ UseInv /\ BootTypeOK
  BY DEF BootInv, BootTypeOK
<1>3. NextDeferred(pc[s]) \in {"listener", "store", "closed"} /\ (NextDeferred(pc[s]) = "closed" <=> pc[s] = "store")
  BY <1>1, Order, Zenon
<1>4. BootTypeOK'
  BY <1>1, <1>2, <1>3, Zenon DEF BootTypeOK
<1>5. /\ pc'[s] \in {"listener", "store", "closed"} /\ (pc'[s] = "closed" <=> pc[s] = "store")
      /\ opened'[s] <=> opened[s] /\ pc[s] # "store"
      /\ \A t \in Servers \ {s} : pc'[t] = pc[t] /\ opened'[t] = opened[t]
  BY <1>1, <1>2, <1>3, Zenon DEF BootTypeOK
<1> QED BY <1>1, <1>2, <1>4, <1>5, LocalIInv DEF TxInv, UseInv

\* Processes go down; the migrations of the others stay.
LEMMA DownIInv ==
  ASSUME BootInv, NEW S \in SUBSET Servers, Down(S),
         \/ UNCHANGED <<commits, synced>>
         \/ /\ S = Servers /\ UNCHANGED synced
            /\ \E k \in synced..Len(commits) : commits' = SubSeq(commits, 1, k)
  PROVE  BootInv'
<1>1. /\ Len(commits) \in Nat /\ TxInv /\ UseInv /\ BootTypeOK
      /\ commits \in Seq(Nat) /\ \A i \in 1..Len(commits) : commits[i] = i
  BY Whole DEF BootInv, BootTypeOK
<1>2. /\ commits' \in Seq(Nat) /\ synced' \in 0..Len(commits')
      /\ \A i \in 1..Len(commits') : commits'[i] = i
  <2>1. CASE UNCHANGED <<commits, synced>>
    BY <1>1, <2>1, Zenon DEF BootTypeOK
  <2>2. ASSUME UNCHANGED synced, NEW k \in synced..Len(commits), commits' = SubSeq(commits, 1, k)
        PROVE  /\ commits' \in Seq(Nat) /\ synced' \in 0..Len(commits')
               /\ \A i \in 1..Len(commits') : commits'[i] = i
    <3>1. k \in 0..Len(commits) /\ synced \in 0..k
      BY <1>1, <2>2 DEF BootTypeOK
    <3>2. commits' \in Seq(Nat) /\ Len(commits') = k /\ \A i \in 1..k : commits'[i] = commits[i]
      BY <1>1, <2>2, <3>1
    <3> QED BY <1>1, <2>2, <3>1, <3>2
  <2> QED BY <2>1, <2>2, Zenon
<1>3. \A t \in Servers :
        /\ pc'[t] = IF t \in S THEN "down" ELSE pc[t]
        /\ monitor'[t] = IF t \in S THEN "off" ELSE monitor[t]
        /\ reqs'[t] = IF t \in S THEN 0 ELSE reqs[t]
        /\ opened'[t] <=> opened[t] /\ t \notin S
        /\ next'[t] = next[t] /\ found'[t] = found[t] /\ cut'[t] = cut[t]
  BY Zenon DEF Down
<1>4. BootTypeOK'
  BY <1>1, <1>2, BootAssumption DEF BootTypeOK, Down
<1>5. TxInv'
  <2>1. CASE UNCHANGED <<commits, synced>>
    BY <1>1, <1>3, <2>1, Zenon DEF TxInv, Down
  <2>2. CASE S = Servers
    BY <1>3, <2>2, Zenon DEF TxInv
  <2> QED BY <2>1, <2>2, Zenon
<1>6. UseInv'
  BY <1>1, <1>3 DEF UseInv, BootTypeOK
<1> QED BY <1>2, <1>4, <1>5, <1>6, Whole, Zenon DEF BootInv

\* Every step keeps the invariant.
LEMMA StepBoot ==
  ASSUME BootInv, [BootNext]_bootVars
  PROVE  BootInv'
<1>1. ASSUME NEW s \in Servers, Exit(s) \/ Die(s)
      PROVE  BootInv'
  BY <1>1, DownIInv, Zenon DEF Exit, Die
<1>2. CASE PowerFails
  BY <1>2, DownIInv, Zenon DEF PowerFails
<1>3. CASE Checkpoint
  <2>1. BootTypeOK'
    BY <1>3 DEF BootInv, BootTypeOK, Checkpoint
  <2>2. TxInv' /\ UseInv'
    BY <1>3, Zenon DEF BootInv, TxInv, UseInv, Checkpoint
  <2> QED BY <1>3, <2>1, <2>2, Zenon DEF BootInv, Checkpoint
<1>4. CASE UNCHANGED bootVars
  BY <1>4, Zenon DEF BootInv, BootTypeOK, TxInv, UseInv, bootVars, disk
<1> QED BY <1>1, <1>2, <1>3, <1>4, OpenIInv, MigrateBeginIInv, MigrateCommitIInv, MigratedIInv,
           OpenArtifactsIInv, ListenIInv, StartFailsIInv, RequestIInv, TickIInv,
           RunMonitorReturnsIInv, SignalIInv, ServeReturnsIInv, RunReturnsIInv, Zenon DEF BootNext

\* No process runs and the file is empty.
LEMMA InitBoot ==
  ASSUME BootInit
  PROVE  BootInv
<1>1. BootTypeOK
  BY BootAssumption DEF BootInit, BootTypeOK
<1>2. TxInv /\ UseInv
  BY DEF BootInit, TxInv, UseInv
<1>3. commits = [i \in 1..Len(commits) |-> i]
  BY Whole DEF BootInit
<1> QED BY <1>1, <1>2, <1>3, Zenon DEF BootInv

\* The inductive invariant holds in every state: one transaction at a time, which
\* has seen all that is committed; the store is open for as long as it has users.
THEOREM BootInvariance == BootSpec => []BootInv
BY InitBoot, StepBoot, PTL DEF BootSpec

\* However many processes migrate one file at once (migrate, each migration in an
\* immediate transaction), die, or lose their last commits with the power: the
\* schema is the first migrations, each once and in order, and whoever serves has
\* all that its binary knows.
THEOREM SchemaAlwaysWhole == BootSpec => []SchemaWhole
<1>1. BootInv => SchemaWhole
  BY Zenon DEF BootInv, SchemaWhole, TxInv
<1> QED BY <1>1, BootInvariance, PTL

\* The deferred calls of run keep their order: the store is closed when the monitor
\* has returned and no request is left but those the shutdown gave up on.
THEOREM StoreAlwaysOutlivesUsers == BootSpec => []StoreOutlivesUsers
<1>1. BootInv => StoreOutlivesUsers
  BY Zenon DEF BootInv, StoreOutlivesUsers, UseInv, BootTypeOK
<1> QED BY <1>1, BootInvariance, PTL
-----------------------------------------------------------------------------
(***************************************************************************)
(* The invariants and the action property of Artifacts, for any number of  *)
(* attempts, files, errors and deliveries.                                 *)
(***************************************************************************)
\* What the proofs use of the limits.
LEMMA Limits ==
  /\ MaxAttempts \in Nat /\ Files \in Nat /\ Files >= 1
  /\ CompleteRetries \in Nat /\ CompleteRetries >= 1 /\ MaxSends \in Nat
  BY ArtifactsAssumption

\* The types of the runners and of the handlers.
Uploads == [at : {"off", "ready", "waiting", "uploaded", "failed", "stopped", "gone"},
            path : 1..Files, errors : 0..CompleteRetries, conn : 0..MaxSends]
PC == {"none", "dead"} \cup Busy \cup Replies
Handlers == [pc : PC, attempt : Attempts, path : 1..Files]

\* The types, one by one.
LEMMA Types ==
  TypeOK <=> /\ state \in {"queued", "running", "succeeded", "failed"}
             /\ attempt \in 0..MaxAttempts
             /\ up \in [Attempts -> Uploads]
             /\ sent \in 0..MaxSends
             /\ hd \in [1..MaxSends -> Handlers]
             /\ objects \subseteq Key /\ rows \subseteq Key /\ orphans \subseteq Key
             /\ late \subseteq StoreCall
             /\ overlaid \subseteq Attempts
  BY Zenon DEF TypeOK, Uploads, Handlers, PC

\* A step of handler n.
LEMMA GotoFacts ==
  ASSUME TypeOK, NEW n \in 1..MaxSends, NEW place \in PC, Goto(n, place)
  PROVE  /\ hd' \in [1..MaxSends -> Handlers]
         /\ \A m \in 1..MaxSends : /\ hd'[m].attempt = hd[m].attempt
                                   /\ hd'[m].path = hd[m].path
                                   /\ hd'[m].pc = IF m = n THEN place ELSE hd[m].pc
                                   /\ key(m)' = key(m)
                                   /\ key(m) \in Key
<1>1. hd \in [1..MaxSends -> Handlers]
  BY Types, Zenon
<1>2. hd' = [hd EXCEPT ![n] = [hd[n] EXCEPT !.pc = place]]
  BY <1>1, Zenon DEF Goto
<1>3. /\ [hd[n] EXCEPT !.pc = place] \in Handlers
      /\ [hd[n] EXCEPT !.pc = place].attempt = hd[n].attempt
      /\ [hd[n] EXCEPT !.pc = place].path = hd[n].path
      /\ [hd[n] EXCEPT !.pc = place].pc = place
  BY <1>1, Zenon DEF Handlers
<1>4. hd' \in [1..MaxSends -> Handlers]
  BY <1>1, <1>2, <1>3, Zenon
<1>5. \A m \in 1..MaxSends : hd'[m] = IF m = n THEN [hd[n] EXCEPT !.pc = place] ELSE hd[m]
  BY <1>1, <1>2, Zenon
<1>6. \A m \in 1..MaxSends : /\ hd'[m].attempt = hd[m].attempt
                             /\ hd'[m].path = hd[m].path
                             /\ hd'[m].pc = IF m = n THEN place ELSE hd[m].pc
  BY <1>3, <1>5, Zenon
<1>7. \A m \in 1..MaxSends : key(m) \in Key
  BY <1>1, Zenon DEF key, Key, Handlers
<1> QED
  BY <1>4, <1>6, <1>7, Zenon DEF key

\* Deliveries sent are among the handlers.
LEMMA SentFits == TypeOK => 1..sent \subseteq 1..MaxSends
BY Types, Limits

\* Requests to the artifact store and their keys.
LEMMA Calls ==
  /\ \A kind \in {"put", "delete"}, k \in Key : [kind |-> kind, key |-> k] \in StoreCall
  /\ \A m \in StoreCall : m.kind \in {"put", "delete"} /\ m.key \in Key
  /\ \A k \in Key : k[1] \in Attempts
  BY DEF StoreCall, Key

\* What handler n leaves under way when it goes on to place: puts of an object that
\* is accounted for, and deletes only as its last step.
LeftBehind(stuck, n, place) ==
  \A m \in stuck : /\ m.key = key(n)
                   /\ m.kind = "put" => key(n) \in orphans'
                   /\ m.kind = "delete" => place \notin Busy /\ place # "201"

\* A step of a busy handler n keeps the invariant when it records what it
\* acknowledges, keeps account of its object and touches no other.
LEMMA HandlerIInv ==
  ASSUME IInv, NEW n \in 1..MaxSends, NEW place \in PC, Goto(n, place),
         hd[n].pc \in Busy, place # "none",
         UNCHANGED <<job, up, sent, overlaid>>,
         rows' \in {rows, rows \cup {key(n)}}, place = "201" => key(n) \in rows',
         objects' \in {objects, objects \cup {key(n)}, objects \ {key(n)}},
         orphans' \in {orphans, orphans \cup {key(n)}},
         NEW stuck \in SUBSET StoreCall, late' = late \cup stuck, LeftBehind(stuck, n, place),
         place = "row" => key(n) \in objects',
         place = "201" => hd[n].pc = "row" /\ objects' = objects,
         key(n) \in objects' => \/ key(n) \in rows' \cup orphans'
                                \/ place \in Holding
                                \/ hd[n].pc \notin Holding /\ key(n) \in objects
  PROVE  IInv'
<1> USE DEF IInv
<1>1. /\ hd' \in [1..MaxSends -> Handlers]
      /\ \A m \in 1..MaxSends : /\ hd'[m].attempt = hd[m].attempt
                                /\ hd'[m].path = hd[m].path
                                /\ hd'[m].pc = IF m = n THEN place ELSE hd[m].pc
                                /\ key(m)' = key(m)
                                /\ key(m) \in Key
  BY GotoFacts, Zenon
<1>2. state' = state /\ attempt' = attempt /\ up' = up /\ sent' = sent /\ overlaid' = overlaid
  BY Zenon DEF job
<1>3. TypeOK'
  <2>1. objects' \subseteq Key /\ rows' \subseteq Key /\ orphans' \subseteq Key /\ late' \subseteq StoreCall
    BY <1>1, Types, Zenon
  <2> QED
    BY <1>1, <1>2, <2>1, Types, Zenon DEF TypeOK, Handlers, PC
<1>4. /\ up \in [Attempts -> Uploads] /\ sent \in 0..MaxSends
      /\ sent \in Nat /\ MaxSends \in Nat
  BY Types, Limits
<1>5. n <= sent
  BY <1>4 DEF UploadInv, Busy
<1>6. UploadInv'
  <2>1. \A m \in 1..MaxSends : m > sent => hd'[m].pc = "none"
    BY <1>1, <1>4, <1>5 DEF UploadInv
  <2>2. \A a \in Attempts : up[a].at = "waiting" => /\ up[a].conn \in 1..sent
                                                    /\ up[a].conn \in 1..MaxSends
                                                    /\ key(up[a].conn) = <<a, up[a].path>>
    BY <1>4 DEF UploadInv
  <2>3. \A a \in Attempts : up[a].at = "waiting" => key(up[a].conn)' = <<a, up[a].path>>
    <3>1. \A a \in Attempts : up[a].at = "waiting" =>
            hd[up[a].conn].attempt = a /\ hd[up[a].conn].path = up[a].path
      BY <2>2, Zenon DEF key
    <3>2. \A a \in Attempts : up[a].at = "waiting" =>
            hd'[up[a].conn].attempt = a /\ hd'[up[a].conn].path = up[a].path
      BY <1>1, <2>2, <3>1, Zenon
    <3> QED
      BY <1>2, <3>2, Zenon DEF key
  <2>4. \A a \in Attempts : /\ a > attempt => up[a].at = "off"
                            /\ up[a].at = "off" => up[a].path = 1
                            /\ Open(a) => up[a].errors < CompleteRetries
                            /\ state = "succeeded" /\ attempt = a => up[a].at = "gone"
    BY Zenon DEF UploadInv
  <2>5. \A a \in Attempts : Open(a)' <=> Open(a)
    BY <1>2, Zenon DEF Open
  <2> QED
    BY <1>2, <2>1, <2>2, <2>3, <2>4, <2>5, Zenon DEF UploadInv
<1>7. RecordInv'
  <2>1. rows \subseteq rows'
    BY Zenon
  <2>2. \A m \in 1..MaxSends : hd'[m].pc = "201" => key(m)' \in rows'
    BY <1>1, <2>1, Zenon DEF RecordInv
  <2> QED
    BY <1>2, <2>1, <2>2, Zenon DEF RecordInv, Open, SucceededIsRecorded
<1>8. ObjectInv'
  <2> SUFFICES ASSUME NEW k \in objects', k \notin rows', k \notin orphans'
               PROVE  \E m \in 1..MaxSends :
                        hd'[m].pc \in Holding /\ key(m)' = k
    BY Zenon DEF ObjectInv
  <2>1. CASE k = key(n) /\ place \in Holding
    BY <1>1, <2>1, Zenon
  <2>2. CASE k = key(n) => hd[n].pc \notin Holding /\ key(n) \in objects
    <3>1. k \in objects /\ k \notin rows /\ k \notin orphans
      BY <2>2, Zenon
    <3>2. PICK m \in 1..MaxSends : hd[m].pc \in Holding /\ key(m) = k
      BY <3>1, Zenon DEF ObjectInv
    <3> QED
      BY <1>1, <2>2, <3>2, Zenon
  <2> QED
    BY <2>1, <2>2, Zenon
<1>9. SerialInv'
  <2> SUFFICES ASSUME NEW a \in Attempts, a \notin overlaid'
               PROVE  /\ \A m \in 1..MaxSends : hd'[m].attempt = a /\ hd'[m].pc \in Busy =>
                           /\ m = up'[a].conn /\ hd'[m].path = up'[a].path
                           /\ up'[a].at \notin {"off", "uploaded"}
                           /\ state' = "succeeded" => attempt' # a
                           /\ hd'[m].pc = "row" => key(m)' \in objects'
                      /\ Open(a)' => \A p \in 1..(up'[a].path - 1) : <<a, p>> \in objects'
                      /\ up'[a].at = "waiting" /\ hd'[up'[a].conn].pc = "201" =>
                           key(up[a].conn)' \in objects'
                      /\ up'[a].at = "uploaded" => \A p \in 1..Files : <<a, p>> \in objects'
    BY Zenon DEF SerialInv
  <2>0. a \notin overlaid /\ (Open(a)' <=> Open(a))
    BY <1>2, Zenon DEF Open
  <2> SUFFICES        /\ \A m \in 1..MaxSends : hd'[m].attempt = a /\ hd'[m].pc \in Busy =>
                           /\ m = up[a].conn /\ hd'[m].path = up[a].path
                           /\ up[a].at \notin {"off", "uploaded"}
                           /\ state = "succeeded" => attempt # a
                           /\ hd'[m].pc = "row" => key(m)' \in objects'
                      /\ Open(a) => \A p \in 1..(up[a].path - 1) : <<a, p>> \in objects'
                      /\ up[a].at = "waiting" /\ hd'[up[a].conn].pc = "201" =>
                           key(up[a].conn)' \in objects'
                      /\ up[a].at = "uploaded" => \A p \in 1..Files : <<a, p>> \in objects'
    BY <1>2, <2>0, Zenon
  <2>1. \A m \in 1..MaxSends : hd[m].attempt = a /\ hd[m].pc \in Busy =>
          /\ m = up[a].conn /\ hd[m].path = up[a].path
          /\ up[a].at \notin {"off", "uploaded"}
          /\ state = "succeeded" => attempt # a
          /\ hd[m].pc = "row" => key(m) \in objects
    BY <2>0, Zenon DEF SerialInv
  <2>2. \A k \in Key : k # key(n) /\ k \in objects => k \in objects'
    BY Zenon
  <2>3. \A m \in 1..MaxSends : hd'[m].attempt = a /\ hd'[m].pc \in Busy =>
          hd[m].attempt = a /\ hd[m].pc \in Busy
    BY <1>1, Zenon
  <2>4. \A m \in 1..MaxSends : hd'[m].attempt = a /\ hd'[m].pc = "row" => key(m)' \in objects'
    <3> SUFFICES ASSUME NEW m \in 1..MaxSends, hd'[m].attempt = a, hd'[m].pc = "row"
                 PROVE  key(m)' \in objects'
      BY Zenon
    <3>1. CASE m = n
      BY <1>1, <3>1, Zenon
    <3>2. CASE m # n
      <4>1. hd[m].attempt = a /\ hd[m].pc = "row"
        BY <1>1, <3>2, Zenon
      <4>2. m = up[a].conn /\ key(m) \in objects
        BY <2>1, <4>1, Zenon DEF Busy
      <4>3. hd[n].attempt # a
        BY <2>1, <3>2, <4>2, Zenon
      <4>4. key(m) # key(n)
        BY <4>1, <4>3, Zenon DEF key
      <4> QED
        BY <1>1, <2>2, <4>2, <4>4
    <3> QED
      BY <3>1, <3>2, Zenon
  <2>5. \A p \in 1..Files : <<a, p>> \in Key
    BY Zenon DEF Key
  <2>6. key(n) = <<a, up[a].path>> \/ key(n)[1] # a
    BY <2>1, Zenon DEF key
  <2>7. ASSUME Open(a), NEW p \in 1..(up[a].path - 1) PROVE <<a, p>> \in objects'
    <3>1. up[a].path \in 1..Files
      BY <1>4, Zenon DEF Uploads
    <3>2. p \in 1..Files /\ p # up[a].path
      BY <3>1, Limits
    <3>3. <<a, p>> \in objects
      BY <2>0, <2>7, Zenon DEF SerialInv
    <3> QED
      BY <2>2, <2>5, <2>6, <3>2, <3>3
  <2>8. ASSUME up[a].at = "uploaded", NEW p \in 1..Files PROVE <<a, p>> \in objects'
    <3>1. <<a, p>> \in objects
      BY <2>0, <2>8, Zenon DEF SerialInv
    <3>2. hd[n].attempt # a
      BY <2>1, <2>8, Zenon
    <3> QED
      BY <2>2, <2>5, <3>1, <3>2, Zenon DEF key
  <2>9. ASSUME up[a].at = "waiting", hd'[up[a].conn].pc = "201"
        PROVE  key(up[a].conn)' \in objects'
    <3>1. up[a].conn \in 1..MaxSends /\ key(up[a].conn) = <<a, up[a].path>>
      BY <2>9, SentFits, Zenon DEF UploadInv
    <3>2. key(up[a].conn)' = <<a, up[a].path>>
      BY <1>1, <1>2, <3>1, Zenon DEF key
    <3>3. hd[up[a].conn].attempt = a
      BY <3>1, Zenon DEF key
    <3>4. CASE up[a].conn = n
      <4>1. hd[n].pc = "row" /\ objects' = objects
        BY <1>1, <2>9, <3>1, <3>4, Zenon
      <4> QED
        BY <2>1, <3>1, <3>2, <3>3, <3>4, <4>1, Zenon DEF Busy
    <3>5. CASE up[a].conn # n
      <4>1. key(up[a].conn) \in objects
        BY <1>1, <2>0, <2>9, <3>1, <3>5, Zenon DEF SerialInv
      <4>2. hd[n].attempt # a
        BY <2>1, <3>5, Zenon
      <4>3. <<a, up[a].path>> # key(n)
        BY <4>2, Zenon DEF key
      <4> QED
        BY <1>1, <2>2, <3>1, <3>2, <4>1, <4>3, Zenon
    <3> QED
      BY <3>4, <3>5, Zenon
  <2> QED
    BY <1>1, <2>1, <2>3, <2>4, <2>7, <2>8, <2>9, Zenon
<1>11. LateInv'
  <2>1. \A m \in late' : m.kind = "put" => m.key \in orphans'
    BY Zenon DEF LateInv, LeftBehind
  <2> SUFFICES ASSUME NEW a \in Attempts, a \notin overlaid', NEW m \in Deletes(a)'
               PROVE  /\ m.key = <<a, up'[a].path>>
                      /\ up'[a].at \notin {"off", "uploaded"}
                      /\ state' = "succeeded" => attempt' # a
                      /\ up'[a].at = "waiting" => hd'[up'[a].conn].pc # "201"
                      /\ \A l \in 1..MaxSends : hd'[l].attempt = a => hd'[l].pc \notin Busy
    BY <2>1, Zenon DEF LateInv
  <2> SUFFICES /\ m.key = <<a, up[a].path>>
               /\ up[a].at \notin {"off", "uploaded"}
               /\ state = "succeeded" => attempt # a
               /\ up[a].at = "waiting" => hd'[up[a].conn].pc # "201"
               /\ \A l \in 1..MaxSends : hd'[l].attempt = a => hd'[l].pc \notin Busy
    BY <1>2, Zenon
  <2>0. a \notin overlaid /\ m \in late' /\ m.kind = "delete" /\ m.key[1] = a
    BY <1>2, Zenon DEF Deletes
  <2>2. up[a].at = "waiting" => up[a].conn \in 1..MaxSends /\ hd[up[a].conn].attempt = a
    <3>1. up[a].at = "waiting" => up[a].conn \in 1..sent /\ key(up[a].conn) = <<a, up[a].path>>
      BY Zenon DEF UploadInv
    <3>2. 1..sent \subseteq 1..MaxSends
      BY SentFits, Zenon
    <3> QED BY <3>1, <3>2, Zenon DEF key
  <2>3. CASE m \in late
    <3>1. /\ m.key = <<a, up[a].path>>
          /\ up[a].at \notin {"off", "uploaded"}
          /\ state = "succeeded" => attempt # a
          /\ up[a].at = "waiting" => hd[up[a].conn].pc # "201"
          /\ \A l \in 1..MaxSends : hd[l].attempt = a => hd[l].pc \notin Busy
      BY <2>0, <2>3, Zenon DEF LateInv, Deletes
    <3>2. hd[n].attempt # a
      BY <3>1, Zenon
    <3> QED BY <1>1, <2>2, <3>1, <3>2, Zenon
  <2>4. CASE m \in stuck
    <3>1. m.key = key(n) /\ place \notin Busy /\ place # "201"
      BY <2>0, <2>4, Zenon DEF LeftBehind
    <3>0. key(n)[1] = hd[n].attempt
      BY Zenon DEF key
    <3>2. hd[n].attempt = a
      BY <2>0, <3>0, <3>1, Zenon
    <3>3. /\ \A l \in 1..MaxSends : hd[l].attempt = a /\ hd[l].pc \in Busy => l = up[a].conn
          /\ hd[n].path = up[a].path
          /\ up[a].at \notin {"off", "uploaded"}
          /\ state = "succeeded" => attempt # a
      BY <2>0, <3>2, Zenon DEF SerialInv
    <3>4. n = up[a].conn
      BY <3>2, <3>3, Zenon
    <3>5. m.key = <<a, up[a].path>>
      BY <3>1, <3>2, <3>3, Zenon DEF key
    <3>6. \A l \in 1..MaxSends : hd'[l].attempt = a => hd'[l].pc \notin Busy
      BY <1>1, <3>1, <3>3, <3>4, Zenon
    <3> QED BY <1>1, <3>1, <3>3, <3>4, <3>5, <3>6, Zenon
  <2> QED BY <2>0, <2>3, <2>4, Zenon
<1>10. SerialHasBytes'
  <2> SUFFICES ASSUME state = "succeeded", attempt \notin overlaid, NEW p \in 1..Files
               PROVE  <<attempt, p>> \in objects'
    BY <1>2, Zenon DEF SerialHasBytes
  <2>1. <<attempt, p>> \in objects
    BY Zenon DEF SerialHasBytes
  <2>2. <<attempt, p>> \in Key /\ attempt \in Attempts
    BY <2>1, Types, Zenon DEF Key
  <2>3. hd[n].attempt # attempt
    BY <2>2, Zenon DEF SerialInv
  <2> QED
    BY <2>1, <2>2, <2>3, Zenon DEF key
<1> QED
  BY <1>3, <1>6, <1>7, <1>8, <1>9, <1>10, <1>11, Zenon

\* The steps of handleUploadArtifact.
LEMMA HandlersIInv ==
  ASSUME IInv, NEW n \in 1..MaxSends, Check(n) \/ Put(n) \/ Record(n) \/ discard(n)
  PROVE  IInv'
<1> USE DEF Busy, Holding, PC, Replies
<1>0. key(n) \in Key
  BY Types, Zenon DEF IInv, key, Key, Handlers
<1>5. {} \in SUBSET StoreCall /\ \A place : LeftBehind({}, n, place)
  BY Zenon DEF LeftBehind
<1>1. CASE Check(n)
  <2>1. PICK place \in {"put", "409"} : Goto(n, place)
    BY <1>1, Zenon DEF Check
  <2>2. late' = late \cup {}
    BY <1>1, Zenon DEF Check, stored
  <2> QED
    BY <1>1, <1>5, <2>1, <2>2, HandlerIInv, Zenon DEF Check, stored
<1>2. CASE Put(n)
  <2>1. PICK stuck \in SUBSET Asked(n) :
          /\ late' = late \cup stuck
          /\ \/ /\ objects' = objects \cup {key(n)} /\ Goto(n, "row")
                /\ orphans' = orphans \cup {m.key : m \in stuck}
             \/ /\ objects' \in {objects, objects \cup {key(n)}} /\ Goto(n, "500")
                /\ orphans' = orphans \cup {key(n)}
    BY <1>2, Zenon DEF Put, Leave
  <2>2. \A m \in stuck : m = [kind |-> "put", key |-> key(n)]
    BY <1>2, Zenon DEF Put, Asked
  <2>3. \A m \in stuck : m \in StoreCall /\ m.key = key(n) /\ m.kind = "put"
    <3>1. [kind |-> "put", key |-> key(n)] \in StoreCall
      BY <1>0, Calls, Zenon
    <3>2. \A m \in stuck : m.key = key(n) /\ m.kind = "put"
      BY <2>2
    <3> QED BY <2>2, <3>1, <3>2, Zenon
  <2>4. stuck \in SUBSET StoreCall
    BY <2>3, Zenon
  <2>5. CASE /\ objects' = objects \cup {key(n)} /\ Goto(n, "row")
             /\ orphans' = orphans \cup {m.key : m \in stuck}
    <3>1. orphans' \in {orphans, orphans \cup {key(n)}} /\ \A m \in stuck : m.key \in orphans'
      <4>1. CASE stuck = {}
        BY <2>5, <4>1, Zenon
      <4>2. CASE stuck # {}
        <5>1. {m.key : m \in stuck} = {key(n)}
          BY <2>3, <4>2, Zenon
        <5> QED BY <2>3, <2>5, <5>1, Zenon
      <4> QED BY <4>1, <4>2, Zenon
    <3>2. LeftBehind(stuck, n, "row")
      BY <2>3, <3>1, Zenon DEF LeftBehind
    <3> QED BY <1>2, <2>1, <2>4, <2>5, <3>1, <3>2, HandlerIInv, Zenon DEF Put
  <2>6. CASE /\ objects' \in {objects, objects \cup {key(n)}} /\ Goto(n, "500")
             /\ orphans' = orphans \cup {key(n)}
    <3>1. LeftBehind(stuck, n, "500")
      BY <2>3, <2>6, Zenon DEF LeftBehind
    <3> QED BY <1>2, <2>1, <2>4, <2>6, <3>1, HandlerIInv, Zenon DEF Put
  <2> QED
    BY <2>1, <2>5, <2>6, Zenon
<1>3. CASE Record(n)
  <2>0. /\ late' = late \cup {}
        /\ hd[n].pc = "row"
        /\ UNCHANGED <<job, objects, orphans, up, sent, overlaid>>
    BY <1>3, Zenon DEF Record
  <2>1. CASE rows' = rows \cup {key(n)} /\ Goto(n, "201")
    <3>1. /\ rows' \in {rows, rows \cup {key(n)}} /\ key(n) \in rows' /\ key(n) \in rows' \cup orphans'
          /\ objects' = objects /\ orphans' = orphans /\ hd[n].pc \in Busy /\ "201" \in PC
      BY <2>0, <2>1, Zenon
    <3> QED BY <1>5, <2>0, <2>1, <3>1, HandlerIInv, Zenon
  <2>2. ASSUME NEW place \in {"drop409", "drop500"}, rows' = rows, Goto(n, place) PROVE IInv'
    BY <1>5, <2>0, <2>2, HandlerIInv, Zenon
  <2> QED
    BY <1>3, <2>1, <2>2, Zenon DEF Record
<1>4. CASE discard(n)
  <2>1. PICK place \in {"409", "500"} : Goto(n, place)
    BY <1>4, Zenon DEF discard
  <2>2. PICK stuck \in SUBSET Asked(n) : late' = late \cup stuck
    BY <1>4, Zenon DEF discard, Leave
  <2>3. \A m \in stuck : m = [kind |-> "delete", key |-> key(n)]
    BY <1>4, Zenon DEF discard, Asked
  <2>4. \A m \in stuck : m \in StoreCall /\ m.key = key(n) /\ m.kind = "delete"
    <3>1. [kind |-> "delete", key |-> key(n)] \in StoreCall
      BY <1>0, Calls, Zenon
    <3>2. \A m \in stuck : m.key = key(n) /\ m.kind = "delete"
      BY <2>3
    <3> QED BY <2>3, <3>1, <3>2, Zenon
  <2>5. stuck \in SUBSET StoreCall
    BY <2>4, Zenon
  <2>6. /\ hd[n].pc \in {"drop409", "drop500"}
        /\ UNCHANGED <<job, rows, up, sent, overlaid>>
        /\ \/ objects' = objects \ {key(n)} /\ orphans' = orphans
           \/ objects' \in {objects, objects \ {key(n)}} /\ orphans' = orphans \cup {key(n)}
    BY <1>4, Zenon DEF discard
  <2>7. LeftBehind(stuck, n, place)
    BY <2>1, <2>4, Zenon DEF LeftBehind
  <2> QED
    BY <2>1, <2>2, <2>5, <2>6, <2>7, HandlerIInv, Zenon
<1> QED
  BY <1>1, <1>2, <1>3, <1>4, Zenon

\* A step of the runner of attempt a that sends nothing keeps the invariant
\* when the runner claims no more than it was told, and moves on to another file
\* only once neither a handler nor a late delete is at work on its own.
LEMMA RunnerIInv ==
  ASSUME IInv, NEW a \in Attempts, NEW u \in Uploads, up' = [up EXCEPT ![a] = u],
         UNCHANGED <<stored, sent, hd, overlaid>>,
         state' \in {"queued", "running", "succeeded", "failed"},
         attempt' \in 0..MaxAttempts, attempt <= attempt', a <= attempt',
         u.at \notin {"off", "waiting"},
         u.at = "ready" =>
           /\ u.errors < CompleteRetries
           /\ \A p \in 1..(u.path - 1) : /\ <<a, p>> \in rows
                                         /\ a \notin overlaid => <<a, p>> \in objects,
         u.at = "uploaded" =>
           \A p \in 1..Files : /\ <<a, p>> \in rows
                               /\ a \notin overlaid => <<a, p>> \in objects,
         a \notin overlaid =>
           /\ \A n \in 1..MaxSends : hd[n].attempt = a /\ hd[n].pc \in Busy =>
                u.conn = up[a].conn /\ u.path = up[a].path /\ u.at # "uploaded"
           /\ Deletes(a) # {} => u.path = up[a].path /\ u.at # "uploaded",
         up[a].at # "gone",
         state' = "succeeded" => \/ state = "succeeded" /\ attempt' = attempt
                                 \/ attempt' = a /\ up[a].at = "uploaded" /\ u.at = "gone"
  PROVE  IInv'
<1> USE DEF IInv
<1>1. /\ objects' = objects /\ rows' = rows /\ orphans' = orphans /\ late' = late
      /\ sent' = sent /\ hd' = hd /\ overlaid' = overlaid
  BY Zenon DEF stored
<1>2. /\ up \in [Attempts -> Uploads] /\ up' \in [Attempts -> Uploads]
      /\ \A b \in Attempts : up'[b] = IF b = a THEN u ELSE up[b]
  BY Types, Zenon
<1>3. attempt \in Nat /\ attempt' \in Nat /\ MaxAttempts \in Nat /\ a \in Nat
  BY Types, Limits DEF Attempts
<1>4. TypeOK'
  <2>1. overlaid' \subseteq Attempts
    BY <1>1, Types, Zenon
  <2> QED
    BY <1>1, <1>2, <2>1, Zenon DEF TypeOK, Uploads
<1>5. \A b \in Attempts : Open(b)' <=> (IF b = a THEN u.at = "ready" ELSE Open(b))
  BY <1>2, Zenon DEF Open, Uploads
<1>6. UploadInv'
  <2> SUFFICES ASSUME NEW b \in Attempts
               PROVE  /\ b > attempt' => up'[b].at = "off"
                      /\ up'[b].at = "off" => up'[b].path = 1
                      /\ Open(b)' => up'[b].errors < CompleteRetries
                      /\ up'[b].at = "waiting" => /\ up'[b].conn \in 1..sent
                                                  /\ key(up[b].conn)' = <<b, up'[b].path>>
                      /\ state' = "succeeded" /\ attempt' = b => up'[b].at = "gone"
    <3>1. \A n \in 1..MaxSends : n > sent' => hd'[n].pc = "none"
      BY <1>1, Zenon DEF UploadInv
    <3>2. 1..sent' = 1..sent
      BY <1>1, Zenon
    <3> QED BY <3>1, <3>2, Zenon DEF UploadInv
  <2>1. CASE b = a
    BY <1>2, <1>3, <1>5, <2>1 DEF UploadInv
  <2>2. CASE b # a
    <3>1. /\ up'[b] = up[b]
          /\ b > attempt' => b > attempt
          /\ Open(b)' <=> Open(b)
      BY <1>2, <1>3, <1>5, <2>2 DEF Attempts
    <3>2. key(up[b].conn)' = key(up[b].conn)
      BY <1>1, <3>1, Zenon DEF key
    <3> QED
      BY <2>2, <3>1, <3>2, Zenon DEF UploadInv
  <2> QED
    BY <2>1, <2>2, Zenon
<1>7. \A p \in 1..Files : state' = "succeeded" =>
        /\ <<attempt', p>> \in rows
        /\ attempt' \notin overlaid => <<attempt', p>> \in objects
  <2>1. CASE state = "succeeded" /\ attempt' = attempt
    <3>1. \A p \in 1..Files : <<attempt, p>> \in rows
      BY <2>1, Zenon DEF RecordInv, SucceededIsRecorded
    <3>2. attempt \notin overlaid => \A p \in 1..Files : <<attempt, p>> \in objects
      BY <2>1, Zenon DEF SerialHasBytes
    <3> QED BY <2>1, <3>1, <3>2, Zenon
  <2>2. CASE attempt' = a /\ up[a].at = "uploaded"
    <3>1. \A p \in 1..Files : <<a, p>> \in rows
      BY <2>2, Zenon DEF RecordInv
    <3>2. a \notin overlaid => \A p \in 1..Files : <<a, p>> \in objects
      BY <2>2, Zenon DEF SerialInv
    <3> QED BY <2>2, <3>1, <3>2, Zenon
  <2> QED BY <2>1, <2>2, Zenon
<1>8. RecordInv'
  <2>1. \A n \in 1..MaxSends : hd'[n].pc = "201" => key(n)' \in rows'
    BY <1>1, Zenon DEF RecordInv, key
  <2>2. \A b \in Attempts : Open(b)' => \A p \in 1..(up'[b].path - 1) : <<b, p>> \in rows
    BY <1>2, <1>5, Zenon DEF RecordInv
  <2>3. \A b \in Attempts : up'[b].at = "uploaded" => \A p \in 1..Files : <<b, p>> \in rows
    BY <1>2, Zenon DEF RecordInv
  <2> QED
    BY <1>1, <1>7, <2>1, <2>2, <2>3, Zenon DEF RecordInv, SucceededIsRecorded
<1>9. ObjectInv'
  BY <1>1, Zenon DEF ObjectInv, key
<1>10. SerialHasBytes'
  BY <1>1, <1>7, Zenon DEF SerialHasBytes
<1>11. SerialInv'
  <2> SUFFICES ASSUME NEW b \in Attempts, b \notin overlaid'
               PROVE  /\ \A n \in 1..MaxSends : hd'[n].attempt = b /\ hd'[n].pc \in Busy =>
                           /\ n = up'[b].conn /\ hd'[n].path = up'[b].path
                           /\ up'[b].at \notin {"off", "uploaded"}
                           /\ state' = "succeeded" => attempt' # b
                           /\ hd'[n].pc = "row" => key(n)' \in objects'
                      /\ Open(b)' => \A p \in 1..(up'[b].path - 1) : <<b, p>> \in objects'
                      /\ up'[b].at = "waiting" /\ hd'[up'[b].conn].pc = "201" =>
                           key(up[b].conn)' \in objects'
                      /\ up'[b].at = "uploaded" => \A p \in 1..Files : <<b, p>> \in objects'
    BY Zenon DEF SerialInv
  <2>0. \A n \in 1..MaxSends : key(n)' = key(n)
    BY <1>1, Zenon DEF key
  <2> SUFFICES        /\ \A n \in 1..MaxSends : hd[n].attempt = b /\ hd[n].pc \in Busy =>
                           /\ n = up'[b].conn /\ hd[n].path = up'[b].path
                           /\ up'[b].at \notin {"off", "uploaded"}
                           /\ state' = "succeeded" => attempt' # b
                           /\ hd[n].pc = "row" => key(n) \in objects
                      /\ Open(b)' => \A p \in 1..(up'[b].path - 1) : <<b, p>> \in objects
                      /\ up'[b].at = "waiting" /\ hd[up'[b].conn].pc = "201" =>
                           key(up[b].conn)' \in objects
                      /\ up'[b].at = "uploaded" => \A p \in 1..Files : <<b, p>> \in objects
    BY <1>1, <2>0, Zenon
  <2>1. b \notin overlaid
    BY <1>1, Zenon
  <2>2. \A n \in 1..MaxSends : hd[n].attempt = b /\ hd[n].pc \in Busy =>
          /\ n = up[b].conn /\ hd[n].path = up[b].path
          /\ up[b].at \notin {"off", "uploaded"}
          /\ state = "succeeded" => attempt # b
          /\ hd[n].pc = "row" => key(n) \in objects
    BY <2>1, Zenon DEF SerialInv
  <2>3. CASE b = a
    BY <1>2, <1>5, <2>2, <2>3, Zenon
  <2>4. CASE b # a
    <3>1. up'[b] = up[b] /\ (Open(b)' <=> Open(b))
      BY <1>2, <1>5, <2>4, Zenon
    <3>2. key(up[b].conn)' = key(up[b].conn)
      BY <1>1, <3>1, Zenon DEF key
    <3>3. state' = "succeeded" /\ attempt' = b => state = "succeeded" /\ attempt = b
      BY <2>4, Zenon
    <3> QED
      BY <2>1, <2>2, <3>1, <3>2, <3>3, Zenon DEF SerialInv
  <2> QED
    BY <2>3, <2>4, Zenon
<1>12. LateInv'
  <2>1. \A m \in late' : m.kind = "put" => m.key \in orphans'
    BY <1>1, Zenon DEF LateInv
  <2>0. \A b : Deletes(b)' = Deletes(b)
    BY <1>1, Zenon DEF Deletes
  <2> SUFFICES ASSUME NEW b \in Attempts, b \notin overlaid', NEW m \in Deletes(b)'
               PROVE  /\ m.key = <<b, up'[b].path>>
                      /\ up'[b].at \notin {"off", "uploaded"}
                      /\ state' = "succeeded" => attempt' # b
                      /\ up'[b].at = "waiting" => hd'[up'[b].conn].pc # "201"
                      /\ \A n \in 1..MaxSends : hd'[n].attempt = b => hd'[n].pc \notin Busy
    BY <2>1, Zenon DEF LateInv
  <2> SUFFICES /\ m.key = <<b, up'[b].path>>
               /\ up'[b].at \notin {"off", "uploaded"}
               /\ state' = "succeeded" => attempt' # b
               /\ up'[b].at = "waiting" => hd[up'[b].conn].pc # "201"
               /\ \A n \in 1..MaxSends : hd[n].attempt = b => hd[n].pc \notin Busy
    BY <1>1, Zenon
  <2>5. b \notin overlaid /\ m \in Deletes(b)
    BY <1>1, <2>0, Zenon
  <2>2. /\ m.key = <<b, up[b].path>>
        /\ up[b].at \notin {"off", "uploaded"}
        /\ state = "succeeded" => attempt # b
        /\ up[b].at = "waiting" => hd[up[b].conn].pc # "201"
        /\ \A n \in 1..MaxSends : hd[n].attempt = b => hd[n].pc \notin Busy
    BY <2>5, Zenon DEF LateInv
  <2>3. CASE b = a
    <3>1. up'[b] = u
      BY <1>2, <2>3, Zenon
    <3>2. u.path = up[b].path /\ u.at \notin {"off", "waiting", "uploaded"}
      BY <2>3, <2>5, Zenon
    <3>3. state' = "succeeded" => attempt' # b
      BY <2>2, <2>3, Zenon
    <3> QED BY <2>2, <3>1, <3>2, <3>3, Zenon
  <2>4. CASE b # a
    <3>1. up'[b] = up[b]
      BY <1>2, <2>4, Zenon
    <3>2. state' = "succeeded" /\ attempt' = b => state = "succeeded" /\ attempt = b
      BY <2>4, Zenon
    <3> QED BY <2>2, <3>1, <3>2, Zenon
  <2> QED
    BY <2>3, <2>4, Zenon
<1> QED
  BY <1>4, <1>6, <1>8, <1>9, <1>10, <1>11, <1>12, Zenon

\* A runner record with a new place.
LEMMA UpAt ==
  ASSUME TypeOK, NEW a \in Attempts,
         NEW now \in {"off", "ready", "waiting", "uploaded", "failed", "stopped", "gone"}
  PROVE  /\ [up[a] EXCEPT !.at = now] \in Uploads
         /\ [up[a] EXCEPT !.at = now].at = now
         /\ [up[a] EXCEPT !.at = now].path = up[a].path
         /\ [up[a] EXCEPT !.at = now].errors = up[a].errors
         /\ [up[a] EXCEPT !.at = now].conn = up[a].conn
         /\ [up EXCEPT ![a].at = now] = [up EXCEPT ![a] = [up[a] EXCEPT !.at = now]]
<1>1. up \in [Attempts -> Uploads]
  BY Types, Zenon
<1> QED
  BY <1>1, Zenon DEF Uploads

\* A claim starts the upload of a new attempt.
LEMMA ClaimIInv == ASSUME IInv, Claim PROVE IInv'
<1> DEFINE a == attempt + 1
           u == [up[a] EXCEPT !.at = "ready"]
<1>1. a \in Attempts /\ a > attempt /\ attempt' = a /\ attempt \in 0..MaxAttempts /\ attempt' \in 0..MaxAttempts
  BY Types, Limits DEF IInv, Claim, Attempts
<1>2. up[a].at = "off" /\ up[a].path = 1 /\ up[a].errors < CompleteRetries
  BY <1>1, Zenon DEF IInv, UploadInv, Open
<1> HIDE DEF a
<1>3. /\ u \in Uploads /\ u.at = "ready" /\ u.path = 1 /\ u.errors < CompleteRetries
      /\ up' = [up EXCEPT ![a] = u]
  BY <1>1, <1>2, UpAt, Zenon DEF IInv, Claim, a
<1>4. a \notin overlaid => /\ \A n \in 1..MaxSends : ~(hd[n].attempt = a /\ hd[n].pc \in Busy)
                          /\ Deletes(a) = {}
  BY <1>1, <1>2, Zenon DEF IInv, SerialInv, LateInv
<1>5. UNCHANGED <<stored, sent, hd, overlaid>> /\ state' = "running"
  BY Zenon DEF Claim
<1>6. attempt <= attempt' /\ a <= attempt'
  BY <1>1
<1> HIDE DEF u
<1>7. \A p \in 1..(u.path - 1) : FALSE
  BY <1>3
<1> QED
  BY <1>1, <1>2, <1>3, <1>4, <1>5, <1>6, <1>7, RunnerIInv, Zenon

\* A broken connection: the runner is ready to send the file again.
LEMMA ReconnectIInv == ASSUME IInv, NEW a \in Attempts, reconnect(a) PROVE IInv'
<1> DEFINE u == [up[a] EXCEPT !.at = "ready"]
<1>1. /\ u \in Uploads /\ u.at = "ready" /\ u.path = up[a].path /\ u.conn = up[a].conn
      /\ u.errors = up[a].errors /\ up' = [up EXCEPT ![a] = u]
  BY UpAt, Zenon DEF IInv, reconnect
<1>2. /\ up[a].at = "waiting" /\ Open(a)
      /\ UNCHANGED <<stored, sent, hd, overlaid>> /\ state' = state /\ attempt' = attempt
  BY Zenon DEF reconnect, Open, job
<1>3. /\ state' \in {"queued", "running", "succeeded", "failed"}
      /\ attempt' \in 0..MaxAttempts /\ attempt <= attempt' /\ a <= attempt'
  BY <1>2, Types, Limits DEF IInv, UploadInv, Attempts
<1>4. u.errors < CompleteRetries
  BY <1>1, <1>2, Zenon DEF IInv, UploadInv
<1>5. \A p \in 1..(u.path - 1) : <<a, p>> \in rows /\ (a \notin overlaid => <<a, p>> \in objects)
  BY <1>1, <1>2, Zenon DEF IInv, RecordInv, SerialInv
<1> HIDE DEF u
<1> QED
  BY <1>1, <1>2, <1>3, <1>4, <1>5, RunnerIInv, Zenon

\* The upload ends on the runner's side.
LEMMA StopIInv == ASSUME IInv, NEW a \in Attempts, Stop(a) PROVE IInv'
<1>1. PICK how \in {"failed", "stopped"} : up' = [up EXCEPT ![a].at = how]
  BY Zenon DEF Stop
<1> DEFINE u == [up[a] EXCEPT !.at = how]
<1>2. /\ u \in Uploads /\ u.at = how /\ u.path = up[a].path /\ u.conn = up[a].conn
      /\ up' = [up EXCEPT ![a] = u]
  <2>1. TypeOK /\ how \in {"off", "ready", "waiting", "uploaded", "failed", "stopped", "gone"}
    BY Zenon DEF IInv
  <2> QED
    BY <1>1, <2>1, UpAt, Zenon
<1>3. /\ up[a].at \in {"ready", "waiting"}
      /\ UNCHANGED <<stored, sent, hd, overlaid>> /\ state' = state /\ attempt' = attempt
  BY Zenon DEF Stop, job
<1>4. /\ state' \in {"queued", "running", "succeeded", "failed"}
      /\ attempt' \in 0..MaxAttempts /\ attempt <= attempt' /\ a <= attempt'
  BY <1>3, Types, Limits DEF IInv, UploadInv, Attempts
<1> HIDE DEF u
<1> QED
  BY <1>2, <1>3, <1>4, RunnerIInv, Zenon

\* The report of an attempt.
LEMMA ReportIInv == ASSUME IInv, NEW a \in Attempts, report(a) PROVE IInv'
<1> DEFINE u == [up[a] EXCEPT !.at = "gone"]
<1>1. /\ u \in Uploads /\ u.at = "gone" /\ u.path = up[a].path /\ u.conn = up[a].conn
      /\ up' = [up EXCEPT ![a] = u]
  BY UpAt, Zenon DEF IInv, report
<1>2. /\ up[a].at \in {"uploaded", "failed", "stopped"}
      /\ UNCHANGED <<stored, sent, hd, overlaid>> /\ attempt' = attempt
  BY Zenon DEF report
<1>3. /\ state' \in {"queued", "running", "succeeded", "failed"}
      /\ state' = "succeeded" => \/ state = "succeeded" /\ attempt' = attempt
                                 \/ attempt' = a /\ up[a].at = "uploaded"
  BY <1>2, Types, Zenon DEF IInv, report, Fence
<1>4. attempt' \in 0..MaxAttempts /\ attempt <= attempt' /\ a <= attempt'
  BY <1>2, Types, Limits DEF IInv, UploadInv, Attempts
<1> HIDE DEF u
<1> QED
  BY <1>1, <1>2, <1>3, <1>4, RunnerIInv, Zenon

\* The reply to a file: what a 201 says is recorded, and for a runner that never
\* resent too early, in the store.
LEMMA RepliedIInv == ASSUME IInv, NEW a \in Attempts, uploadArtifacts(a) PROVE IInv'
<1> DEFINE reply == hd[up[a].conn].pc
           u == NextUp(up[a], reply)
<1>1. /\ up[a].at = "waiting" /\ Open(a) /\ reply \in Replies
      /\ UNCHANGED <<stored, sent, hd, overlaid>> /\ state' = state /\ attempt' = attempt
  BY Zenon DEF uploadArtifacts, Open, job
<1>2. /\ up \in [Attempts -> Uploads] /\ up[a] \in Uploads
      /\ up' = [up EXCEPT ![a] = u]
  BY Types, Zenon DEF IInv, uploadArtifacts
<1>3. /\ up[a].errors \in 0..CompleteRetries /\ up[a].errors < CompleteRetries
      /\ up[a].path \in 1..Files
      /\ up[a].conn \in 1..MaxSends
      /\ key(up[a].conn) = <<a, up[a].path>>
  BY <1>1, <1>2, Types, Limits DEF IInv, UploadInv, Uploads
<1>4. \A p \in 1..(up[a].path - 1) : <<a, p>> \in rows /\ (a \notin overlaid => <<a, p>> \in objects)
  BY <1>1, Zenon DEF IInv, RecordInv, SerialInv
<1>5. reply = "201" => /\ <<a, up[a].path>> \in rows
                       /\ a \notin overlaid => <<a, up[a].path>> \in objects
  BY <1>1, <1>3, Zenon DEF IInv, RecordInv, SerialInv
<1>6. a \notin overlaid => \A n \in 1..MaxSends : ~(hd[n].attempt = a /\ hd[n].pc \in Busy)
  BY <1>1, Zenon DEF IInv, SerialInv, Replies, Busy
<1>11. a \notin overlaid /\ Deletes(a) # {} => reply # "201"
  BY <1>1, Zenon DEF IInv, LateInv
<1>7. /\ state' \in {"queued", "running", "succeeded", "failed"}
      /\ attempt' \in 0..MaxAttempts /\ attempt <= attempt' /\ a <= attempt'
  BY <1>1, Types, Limits DEF IInv, UploadInv, Attempts
<1> HIDE DEF reply
<1>8. /\ u \in Uploads /\ u.at \notin {"off", "waiting"}
      /\ u.at = "ready" => /\ u.errors < CompleteRetries
                           /\ reply = "201" => u.path = up[a].path + 1
      /\ reply # "201" => u.path = up[a].path
      /\ u.at = "uploaded" => reply = "201" /\ up[a].path = Files
  <2>1. CASE reply = "201" /\ up[a].path = Files
    BY <1>2, <1>3, <2>1, Limits DEF NextUp, Uploads
  <2>2. CASE reply = "201" /\ up[a].path < Files
    <3>1. u = [up[a] EXCEPT !.at = "ready", !.path = @ + 1, !.errors = 0]
      BY <1>3, <2>2, Limits DEF NextUp
    <3>2. u.at = "ready" /\ u.path = up[a].path + 1 /\ u.errors = 0
      BY <1>2, <3>1, Zenon DEF Uploads
    <3>3. up[a].path + 1 \in 1..Files /\ 0 \in 0..CompleteRetries
      BY <1>3, <2>2, Limits
    <3>4. u \in Uploads
      BY <1>2, <3>1, <3>3, Zenon DEF Uploads
    <3>5. 0 < CompleteRetries
      BY Limits
    <3> QED
      BY <2>2, <3>2, <3>4, <3>5, Zenon
  <2>3. CASE reply = "409"
    BY <1>2, <1>3, <2>3, Limits, Zenon DEF NextUp, Uploads
  <2>4. CASE reply = "500"
    <3> DEFINE now == IF up[a].errors + 1 < CompleteRetries THEN "ready" ELSE "failed"
    <3>1. u = [up[a] EXCEPT !.at = now, !.errors = @ + 1]
      BY <1>3, <2>4, Limits, Zenon DEF NextUp
    <3>2. up[a].errors + 1 \in 0..CompleteRetries /\ now \in {"ready", "failed"}
      BY <1>3, Limits
    <3> HIDE DEF now
    <3>3. u.at = now /\ u.path = up[a].path /\ u.errors = up[a].errors + 1
      BY <1>2, <3>1, Zenon DEF Uploads
    <3>4. u \in Uploads
      BY <1>2, <3>1, <3>2, Zenon DEF Uploads
    <3> QED
      BY <1>3, <2>4, <3>2, <3>3, <3>4, Limits, Zenon DEF now
  <2>5. up[a].path = Files \/ up[a].path < Files
    BY <1>3, Limits
  <2> QED
    BY <1>1, <2>1, <2>2, <2>3, <2>4, <2>5, Zenon DEF Replies
<1> HIDE DEF u
<1>9. u.at = "ready" =>
        \A p \in 1..(u.path - 1) : <<a, p>> \in rows /\ (a \notin overlaid => <<a, p>> \in objects)
  BY <1>3, <1>4, <1>5, <1>8
<1>10. u.at = "uploaded" =>
         \A p \in 1..Files : <<a, p>> \in rows /\ (a \notin overlaid => <<a, p>> \in objects)
  BY <1>3, <1>4, <1>5, <1>8, Limits
<1> QED
  BY <1>1, <1>2, <1>6, <1>7, <1>8, <1>9, <1>10, <1>11, RunnerIInv, Zenon

\* A delivery is sent: a handler of its own, and the runner waits for it.
LEMMA SendIInv == ASSUME IInv, NEW a \in Attempts, uploadArtifact(a) PROVE IInv'
<1>1. PICK c \in 1..MaxSends : c = sent + 1
  BY Types, Limits DEF IInv, uploadArtifact
<1> DEFINE x == [pc |-> "check", attempt |-> a, path |-> up[a].path]
           u == [up[a] EXCEPT !.at = "waiting", !.conn = c]
<1>2. /\ up \in [Attempts -> Uploads] /\ hd \in [1..MaxSends -> Handlers]
      /\ sent \in 0..MaxSends /\ up[a].at = "ready" /\ Open(a)
      /\ sent' = sent + 1 /\ sent < MaxSends
      /\ hd' = [hd EXCEPT ![c] = x]
      /\ state' = state /\ attempt' = attempt
      /\ overlaid \subseteq Attempts
      /\ overlaid' = IF AtWork(a) THEN overlaid \cup {a} ELSE overlaid
      /\ objects' = objects /\ rows' = rows /\ orphans' = orphans /\ late' = late
  BY <1>1, Types, Zenon DEF IInv, uploadArtifact, Open, job, stored
<1>3. c \in 1..MaxSends /\ c \in 0..MaxSends /\ c > sent /\ c \in 1..sent' /\ sent' \in 0..MaxSends
  BY <1>1, <1>2, Limits
<1>4. up' = [up EXCEPT ![a] = u]
  BY <1>1, <1>2, Zenon DEF uploadArtifact
<1>5. u.at = "waiting" /\ u.path = up[a].path /\ u.errors = up[a].errors /\ u.conn = c
  BY <1>2, Zenon DEF Uploads
<1>6. u \in Uploads
  BY <1>2, <1>3, Zenon DEF Uploads
<1>7. x \in Handlers
  BY <1>2, Zenon DEF Handlers, PC, Busy, Uploads
<1>8. x.pc = "check" /\ x.attempt = a /\ x.path = up[a].path
  BY Zenon
<1> HIDE DEF u, x
<1>9. /\ up' \in [Attempts -> Uploads]
      /\ \A b \in Attempts : up'[b] = IF b = a THEN u ELSE up[b]
      /\ hd' \in [1..MaxSends -> Handlers]
      /\ \A n \in 1..MaxSends : hd'[n] = IF n = c THEN x ELSE hd[n]
  BY <1>2, <1>3, <1>4, <1>6, <1>7, Zenon
<1>10. \A n \in 1..MaxSends : n # c => key(n)' = key(n)
  BY <1>9, Zenon DEF key
<1>11. key(c)' = <<a, up[a].path>>
  BY <1>3, <1>8, <1>9, Zenon DEF key
<1>12. hd[c].pc = "none"
  BY <1>3, Zenon DEF IInv, UploadInv
<1>13. \A b \in Attempts : Open(b)' <=> Open(b)
  BY <1>2, <1>5, <1>9, Zenon DEF Open
<1>14. \A b \in Attempts : /\ up'[b].path = up[b].path /\ up'[b].errors = up[b].errors
                           /\ up'[b].at = "uploaded" <=> up[b].at = "uploaded"
                           /\ up'[b].at = "gone" <=> up[b].at = "gone"
  BY <1>2, <1>5, <1>9, Zenon
<1>21. overlaid \subseteq overlaid' /\ overlaid' \subseteq Attempts
  BY <1>2, Zenon
<1>22. a \notin overlaid' => /\ \A n \in 1..MaxSends : hd[n].attempt = a => hd[n].pc \notin Busy
                            /\ Deletes(a) = {}
  BY <1>2, Zenon DEF AtWork
<1>15. TypeOK'
  BY <1>2, <1>3, <1>9, <1>21, Zenon DEF IInv, TypeOK, Uploads, Handlers, PC
<1>16. UploadInv'
  <2>1. \A n \in 1..MaxSends : n > sent' => hd'[n].pc = "none"
    BY <1>2, <1>3, <1>9 DEF IInv, UploadInv
  <2> SUFFICES ASSUME NEW b \in Attempts
               PROVE  /\ b > attempt => up'[b].at = "off"
                      /\ up'[b].at = "off" => up'[b].path = 1
                      /\ Open(b)' => up'[b].errors < CompleteRetries
                      /\ up'[b].at = "waiting" => /\ up'[b].conn \in 1..sent'
                                                  /\ key(up[b].conn)' = <<b, up'[b].path>>
                      /\ state = "succeeded" /\ attempt = b => up'[b].at = "gone"
    BY <1>2, <2>1, Zenon DEF UploadInv
  <2>2. CASE b = a
    <3>1. ~(a > attempt)
      BY <1>2, Zenon DEF IInv, UploadInv
    <3>2. up'[a].conn = c /\ up'[a].at = "waiting" /\ key(up[a].conn)' = key(c)'
      BY <1>5, <1>9, Zenon DEF key
    <3> QED
      BY <1>2, <1>3, <1>11, <1>13, <1>14, <2>2, <3>1, <3>2, Zenon DEF IInv, UploadInv
  <2>3. CASE b # a
    <3>1. up'[b] = up[b]
      BY <1>9, <2>3, Zenon
    <3>2. up[b].at = "waiting" =>
            /\ up[b].conn \in 1..sent /\ up[b].conn \in 1..sent'
            /\ up[b].conn \in 1..MaxSends /\ up[b].conn # c
            /\ key(up[b].conn) = <<b, up[b].path>>
      BY <1>1, <1>2, <1>3, Limits DEF IInv, UploadInv
    <3>3. up[b].at = "waiting" => key(up[b].conn)' = key(up[b].conn)
      BY <1>9, <3>1, <3>2, Zenon DEF key
    <3> QED
      BY <1>13, <1>14, <3>1, <3>2, <3>3, Zenon DEF IInv, UploadInv
  <2> QED
    BY <2>2, <2>3, Zenon
<1>17. RecordInv'
  <2>1. \A n \in 1..MaxSends : hd'[n].pc = "201" => key(n)' \in rows'
    BY <1>2, <1>8, <1>9, <1>10, Zenon DEF IInv, RecordInv
  <2> QED
    BY <1>2, <1>13, <1>14, <2>1, Zenon DEF IInv, RecordInv, SucceededIsRecorded
<1>18. ObjectInv'
  <2> SUFFICES ASSUME NEW k \in objects \ (rows \cup orphans)
               PROVE  \E n \in 1..MaxSends : hd'[n].pc \in Holding /\ key(n)' = k
    BY <1>2, Zenon DEF ObjectInv
  <2>1. PICK n \in 1..MaxSends : hd[n].pc \in Holding /\ key(n) = k
    BY Zenon DEF IInv, ObjectInv
  <2>2. n # c
    BY <1>12, <2>1, Zenon DEF Holding
  <2> QED
    BY <1>9, <1>10, <2>1, <2>2, Zenon
<1>19. SerialHasBytes'
  BY <1>2, <1>21, Zenon DEF IInv, SerialHasBytes
<1>20. SerialInv'
  <2> SUFFICES ASSUME NEW b \in Attempts, b \notin overlaid'
               PROVE  /\ \A n \in 1..MaxSends : hd'[n].attempt = b /\ hd'[n].pc \in Busy =>
                           /\ n = up'[b].conn /\ hd'[n].path = up'[b].path
                           /\ up'[b].at \notin {"off", "uploaded"}
                           /\ state = "succeeded" => attempt # b
                           /\ hd'[n].pc = "row" => key(n)' \in objects
                      /\ Open(b)' => \A p \in 1..(up'[b].path - 1) : <<b, p>> \in objects
                      /\ up'[b].at = "waiting" /\ hd'[up'[b].conn].pc = "201" =>
                           key(up[b].conn)' \in objects
                      /\ up'[b].at = "uploaded" => \A p \in 1..Files : <<b, p>> \in objects
    BY <1>2, Zenon DEF SerialInv
  <2>0. b \notin overlaid
    BY <1>21, Zenon
  <2>1. \A n \in 1..MaxSends : hd[n].attempt = b /\ hd[n].pc \in Busy =>
          /\ n = up[b].conn /\ hd[n].path = up[b].path
          /\ up[b].at \notin {"off", "uploaded"}
          /\ state = "succeeded" => attempt # b
          /\ hd[n].pc = "row" => key(n) \in objects
    BY <2>0, Zenon DEF IInv, SerialInv
  <2>2. CASE b = a
    <3>1. up'[a] = u /\ hd'[c] = x
      BY <1>3, <1>9, Zenon
    <3>2. \A n \in 1..MaxSends : hd'[n].attempt = b /\ hd'[n].pc \in Busy => n = c
      BY <1>9, <1>22, <2>2, Zenon
    <3>3. state = "succeeded" => attempt # a
      BY <1>2, Zenon DEF IInv, UploadInv
    <3> QED
      BY <1>2, <1>5, <1>8, <1>13, <1>14, <2>0, <2>2, <3>1, <3>2, <3>3, Zenon DEF IInv, SerialInv
  <2>3. CASE b # a
    <3>1. up'[b] = up[b]
      BY <1>9, <2>3, Zenon
    <3>2. \A n \in 1..MaxSends : hd'[n].attempt = b => n # c /\ hd'[n] = hd[n] /\ key(n)' = key(n)
      BY <1>8, <1>9, <1>10, <2>3, Zenon
    <3>3. up[b].at = "waiting" => up[b].conn \in 1..MaxSends /\ up[b].conn # c
      BY <1>1, <1>2, <1>3, Limits DEF IInv, UploadInv
    <3>4. up[b].at = "waiting" => /\ key(up[b].conn)' = key(up[b].conn)
                                  /\ hd'[up[b].conn] = hd[up[b].conn]
      BY <1>9, <3>1, <3>3, Zenon DEF key
    <3> QED
      <4>1. \A n \in 1..MaxSends : hd'[n].attempt = b /\ hd'[n].pc \in Busy =>
              /\ n = up'[b].conn /\ hd'[n].path = up'[b].path
              /\ up'[b].at \notin {"off", "uploaded"}
              /\ state = "succeeded" => attempt # b
              /\ hd'[n].pc = "row" => key(n)' \in objects
        BY <2>1, <3>1, <3>2, Zenon
      <4>2. Open(b)' <=> Open(b)
        BY <3>1, Zenon DEF Open
      <4>3. /\ Open(b) => \A p \in 1..(up[b].path - 1) : <<b, p>> \in objects
            /\ up[b].at = "waiting" /\ hd[up[b].conn].pc = "201" => key(up[b].conn) \in objects
            /\ up[b].at = "uploaded" => \A p \in 1..Files : <<b, p>> \in objects
        BY <2>0, Zenon DEF IInv, SerialInv
      <4>4. up'[b].at = "waiting" /\ hd'[up'[b].conn].pc = "201" => key(up[b].conn)' \in objects
        BY <3>1, <3>4, <4>3, Zenon
      <4> QED BY <3>1, <4>1, <4>2, <4>3, <4>4, Zenon
  <2> QED
    BY <2>2, <2>3, Zenon
<1>23. LateInv'
  <2>1. \A m \in late' : m.kind = "put" => m.key \in orphans'
    BY <1>2, Zenon DEF IInv, LateInv
  <2> SUFFICES ASSUME NEW b \in Attempts, b \notin overlaid', NEW m \in Deletes(b)
               PROVE  /\ m.key = <<b, up'[b].path>>
                      /\ up'[b].at \notin {"off", "uploaded"}
                      /\ state = "succeeded" => attempt # b
                      /\ up'[b].at = "waiting" => hd'[up'[b].conn].pc # "201"
                      /\ \A n \in 1..MaxSends : hd'[n].attempt = b => hd'[n].pc \notin Busy
    BY <1>2, <2>1, Zenon DEF LateInv, Deletes
  <2>2. b # a /\ b \notin overlaid
    BY <1>21, <1>22, Zenon
  <2>3. /\ m.key = <<b, up[b].path>>
        /\ up[b].at \notin {"off", "uploaded"}
        /\ state = "succeeded" => attempt # b
        /\ up[b].at = "waiting" => hd[up[b].conn].pc # "201"
        /\ \A n \in 1..MaxSends : hd[n].attempt = b => hd[n].pc \notin Busy
    BY <2>2, Zenon DEF IInv, LateInv
  <2>4. up'[b] = up[b]
    BY <1>9, <2>2, Zenon
  <2>5. \A n \in 1..MaxSends : hd'[n].attempt = b => hd'[n] = hd[n]
    BY <1>8, <1>9, <2>2, Zenon
  <2>6. up[b].at = "waiting" => up[b].conn \in 1..MaxSends /\ up[b].conn # c
    BY <1>1, <1>2, <1>3, Limits DEF IInv, UploadInv
  <2> QED
    BY <1>9, <2>3, <2>4, <2>5, <2>6, Zenon
<1> QED
  BY <1>15, <1>16, <1>17, <1>18, <1>19, <1>20, <1>23, Zenon DEF IInv

\* The attempt is lost: only the job changes, and it has not succeeded.
LEMMA LoseIInv == ASSUME IInv, Lose PROVE IInv'
<1>1. /\ state' \in {"queued", "failed"} /\ attempt' = attempt /\ up' = up /\ sent' = sent
      /\ hd' = hd /\ overlaid' = overlaid
      /\ objects' = objects /\ rows' = rows /\ orphans' = orphans /\ late' = late
  BY Zenon DEF Lose, stored
<1>2. \A n : key(n)' = key(n)
  BY <1>1, Zenon DEF key
<1>3. \A a \in Attempts : (Open(a)' <=> Open(a)) /\ key(up[a].conn)' = key(up[a].conn)
  BY <1>1, Zenon DEF Open, key
<1>4. TypeOK' /\ SerialHasBytes'
  BY <1>1, Zenon DEF IInv, TypeOK, SerialHasBytes
<1>5. UploadInv'
  BY <1>1, <1>3, Zenon DEF IInv, UploadInv
<1>6. RecordInv' /\ ObjectInv'
  BY <1>1, <1>2, <1>3, Zenon DEF IInv, RecordInv, SucceededIsRecorded, ObjectInv
<1>7. SerialInv'
  BY <1>1, <1>2, <1>3, Zenon DEF IInv, SerialInv
<1>8. LateInv'
  BY <1>1, Zenon DEF IInv, LateInv, Deletes
<1> QED
  BY <1>4, <1>5, <1>6, <1>7, <1>8, Zenon DEF IInv

\* A request that was given up takes effect: a put brings back an orphan, a delete
\* takes the object of a file that is not yet recorded, or of an overlaid attempt.
LEMMA ArriveIInv == ASSUME IInv, Arrive PROVE IInv'
<1>1. PICK m \in late :
        /\ late' = late \ {m}
        /\ objects' = IF m.kind = "put" THEN objects \cup {m.key} ELSE objects \ {m.key}
  BY Zenon DEF Arrive
<1>2. /\ state' = state /\ attempt' = attempt /\ up' = up /\ sent' = sent
      /\ hd' = hd /\ overlaid' = overlaid /\ rows' = rows /\ orphans' = orphans
  BY Zenon DEF Arrive, job
<1>3. m \in StoreCall /\ m.kind \in {"put", "delete"} /\ m.key \in Key /\ m.key[1] \in Attempts
  BY Calls, Types, Zenon DEF IInv
<1>4. m.kind = "put" => m.key \in orphans
  BY Zenon DEF IInv, LateInv
<1>5. \A n : key(n)' = key(n)
  BY <1>2, Zenon DEF key
<1>6. \A a \in Attempts : (Open(a)' <=> Open(a)) /\ key(up[a].conn)' = key(up[a].conn)
  BY <1>2, Zenon DEF Open, key
<1>7. TypeOK'
  <2>1. objects' \subseteq Key /\ late' \subseteq StoreCall
    BY <1>1, <1>3, Types, Zenon DEF IInv
  <2> QED
    BY <1>2, <2>1, Zenon DEF IInv, TypeOK
<1>8. UploadInv'
  BY <1>2, <1>6, Zenon DEF IInv, UploadInv
<1>9. RecordInv'
  BY <1>2, <1>5, <1>6, Zenon DEF IInv, RecordInv, SucceededIsRecorded
<1>10. ObjectInv'
  <2>1. \A k \in objects' : k \notin orphans => k \in objects
    BY <1>1, <1>4, Zenon
  <2> QED
    BY <1>2, <1>5, <2>1, Zenon DEF IInv, ObjectInv
<1>11. LateInv'
  <2>1. late' \subseteq late /\ \A a : Deletes(a)' \subseteq Deletes(a)
    BY <1>1, Zenon DEF Deletes
  <2> QED
    BY <1>2, <2>1, Zenon DEF IInv, LateInv
<1>12. ASSUME NEW a \in Attempts, a \notin overlaid, m.kind = "delete", m.key[1] = a
       PROVE  /\ m.key = <<a, up[a].path>>
              /\ up[a].at \notin {"off", "uploaded"}
              /\ state = "succeeded" => attempt # a
              /\ up[a].at = "waiting" => hd[up[a].conn].pc # "201"
              /\ \A n \in 1..MaxSends : hd[n].attempt = a => hd[n].pc \notin Busy
  BY <1>12, Zenon DEF IInv, LateInv, Deletes
<1>13. SerialInv'
  <2> SUFFICES ASSUME NEW a \in Attempts, a \notin overlaid
               PROVE  /\ \A n \in 1..MaxSends : hd[n].attempt = a /\ hd[n].pc \in Busy =>
                           /\ n = up[a].conn /\ hd[n].path = up[a].path
                           /\ up[a].at \notin {"off", "uploaded"}
                           /\ state = "succeeded" => attempt # a
                           /\ hd[n].pc = "row" => key(n) \in objects'
                      /\ Open(a) => \A p \in 1..(up[a].path - 1) : <<a, p>> \in objects'
                      /\ up[a].at = "waiting" /\ hd[up[a].conn].pc = "201" =>
                           key(up[a].conn) \in objects'
                      /\ up[a].at = "uploaded" => \A p \in 1..Files : <<a, p>> \in objects'
    BY <1>2, <1>5, <1>6, Zenon DEF SerialInv
  <2>1. /\ \A n \in 1..MaxSends : hd[n].attempt = a /\ hd[n].pc \in Busy =>
             /\ n = up[a].conn /\ hd[n].path = up[a].path
             /\ up[a].at \notin {"off", "uploaded"}
             /\ state = "succeeded" => attempt # a
             /\ hd[n].pc = "row" => key(n) \in objects
        /\ Open(a) => \A p \in 1..(up[a].path - 1) : <<a, p>> \in objects
        /\ up[a].at = "waiting" /\ hd[up[a].conn].pc = "201" => key(up[a].conn) \in objects
        /\ up[a].at = "uploaded" => \A p \in 1..Files : <<a, p>> \in objects
    BY Zenon DEF IInv, SerialInv
  <2>2. CASE m.kind = "delete" /\ m.key[1] = a
    <3>1. \A p \in 1..(up[a].path - 1) : p # up[a].path
      <4>1. up[a].path \in Nat
        BY Types, Limits DEF IInv, Uploads
      <4> QED BY <4>1
    <3>2. \A k \in objects : k # <<a, up[a].path>> => k \in objects'
      BY <1>1, <1>12, <2>2, Zenon
    <3>3. \A p \in 1..(up[a].path - 1) : <<a, p>> # <<a, up[a].path>>
      BY <3>1, Zenon
    <3> QED BY <1>12, <2>1, <2>2, <3>2, <3>3, Zenon DEF Busy
  <2>3. CASE ~(m.kind = "delete" /\ m.key[1] = a)
    <3>1. \A p : <<a, p>> \in objects => <<a, p>> \in objects'
      <4>1. \A p : <<a, p>>[1] = a
        BY Zenon
      <4>2. \A p : m.kind = "put" \/ <<a, p>> # m.key
        BY <1>3, <2>3, <4>1, Zenon
      <4> QED BY <1>1, <4>2, Zenon
    <3>2. \A n \in 1..MaxSends : hd[n].attempt = a /\ key(n) \in objects => key(n) \in objects'
      BY <3>1, Zenon DEF key
    <3>3. up[a].at = "waiting" => up[a].conn \in 1..MaxSends /\ hd[up[a].conn].attempt = a
      <4>1. up[a].at = "waiting" => up[a].conn \in 1..sent /\ key(up[a].conn) = <<a, up[a].path>>
        BY Zenon DEF IInv, UploadInv
      <4>2. 1..sent \subseteq 1..MaxSends
        BY SentFits, Zenon DEF IInv
      <4> QED BY <4>1, <4>2, Zenon DEF key
    <3> QED BY <2>1, <3>1, <3>2, <3>3, Zenon
  <2> QED BY <2>2, <2>3, Zenon
<1>14. SerialHasBytes'
  <2> SUFFICES ASSUME state = "succeeded", attempt \notin overlaid, NEW p \in 1..Files
               PROVE  <<attempt, p>> \in objects'
    BY <1>2, Zenon DEF SerialHasBytes
  <2>1. <<attempt, p>> \in objects
    BY Zenon DEF IInv, SerialHasBytes
  <2>2. ~(m.kind = "delete" /\ m.key[1] = attempt)
    BY <1>3, <1>12, Zenon
  <2>3. <<attempt, p>>[1] = attempt
    BY Zenon
  <2>4. m.kind = "put" \/ <<attempt, p>> # m.key
    BY <1>3, <2>2, <2>3, Zenon
  <2> QED BY <1>1, <2>1, <2>4, Zenon
<1> QED
  BY <1>7, <1>8, <1>9, <1>10, <1>11, <1>13, <1>14, Zenon DEF IInv

\* The server dies: its busy handlers are dead and their objects accounted for.
LEMMA CrashIInv == ASSUME IInv, Crash PROVE IInv'
<1>13. PICK stuck \in SUBSET UNION {Asked(n) : n \in 1..MaxSends} : late' = late \cup stuck
  BY Zenon DEF Crash, Leave
<1>1. /\ hd \in [1..MaxSends -> Handlers]
      /\ hd' = [n \in 1..MaxSends |-> IF hd[n].pc \in Busy THEN [hd[n] EXCEPT !.pc = "dead"] ELSE hd[n]]
      /\ orphans' = orphans \cup {key(n) : n \in {m \in 1..MaxSends : hd[m].pc \in Busy}}
      /\ state' = state /\ attempt' = attempt /\ up' = up /\ sent' = sent
      /\ overlaid' = overlaid /\ objects' = objects /\ rows' = rows
  BY Types, Zenon DEF IInv, Crash, job
<1>2. \A n \in 1..MaxSends :
        /\ hd'[n] \in Handlers
        /\ hd'[n].attempt = hd[n].attempt /\ hd'[n].path = hd[n].path
        /\ hd'[n].pc = IF hd[n].pc \in Busy THEN "dead" ELSE hd[n].pc
  BY <1>1, Zenon DEF Handlers, PC
<1>3. \A n \in 1..MaxSends : key(n)' = key(n) /\ key(n) \in Key
  BY <1>1, <1>2, Zenon DEF key, Key, Handlers
<1>14. \A m \in stuck : /\ m \in StoreCall
                         /\ \E n \in 1..MaxSends : hd[n].pc \in Busy /\ m.key = key(n)
  <2> SUFFICES ASSUME NEW n \in 1..MaxSends, NEW m \in Asked(n)
               PROVE  m \in StoreCall /\ hd[n].pc \in Busy /\ m.key = key(n)
    BY <1>13, Zenon
  <2>1. /\ hd[n].pc \in {"put", "drop409", "drop500"}
        /\ m \in {[kind |-> "put", key |-> key(n)], [kind |-> "delete", key |-> key(n)]}
    BY Zenon DEF Asked
  <2>2. key(n) \in Key
    BY <1>3, Zenon
  <2>3. m.key = key(n)
    BY <2>1
  <2>4. m \in StoreCall
    BY <2>1, <2>2, Calls, Zenon
  <2> QED BY <2>1, <2>3, <2>4, Zenon DEF Busy
<1>4. \A n \in 1..MaxSends : hd'[n].pc \notin Busy /\ (hd'[n].pc = "201" => hd[n].pc = "201")
  BY <1>2, Zenon DEF Busy
<1>5. \A a \in Attempts : Open(a)' <=> Open(a)
  BY <1>1, Zenon DEF Open
<1>6. \A a \in Attempts : up[a].at = "waiting" =>
        /\ up[a].conn \in 1..MaxSends
        /\ key(up[a].conn)' = key(up[a].conn)
  BY <1>1, <1>2, Types, Limits DEF IInv, UploadInv, key
<1>7. TypeOK'
  <2>1. hd' \in [1..MaxSends -> Handlers]
    BY <1>1, <1>2, Zenon
  <2>2. orphans' \subseteq Key
    BY <1>1, <1>3, Types, Zenon DEF IInv
  <2>3. stuck \subseteq StoreCall
    BY <1>14, Zenon
  <2>4. late' \subseteq StoreCall
    BY <1>13, <2>3, Types, Zenon DEF IInv
  <2> QED
    BY <1>1, <2>1, <2>2, <2>4, Zenon DEF IInv, TypeOK, Handlers, PC
<1>8. UploadInv'
  <2>1. \A n \in 1..MaxSends : n > sent => hd'[n].pc = "none"
    BY <1>2, Zenon DEF IInv, UploadInv, Busy
  <2> QED
    BY <1>1, <1>5, <1>6, <2>1, Zenon DEF IInv, UploadInv
<1>9. RecordInv'
  BY <1>1, <1>3, <1>4, <1>5, Zenon DEF IInv, RecordInv, SucceededIsRecorded
<1>10. ObjectInv'
  <2> SUFFICES ASSUME NEW k \in objects, k \notin rows, k \notin orphans'
               PROVE  FALSE
    BY <1>1, Zenon DEF ObjectInv
  <2>1. PICK n \in 1..MaxSends : hd[n].pc \in Holding /\ key(n) = k
    BY <1>1, Zenon DEF IInv, ObjectInv
  <2> QED
    BY <1>1, <2>1, Zenon DEF Holding, Busy
<1>11. SerialInv'
  BY <1>1, <1>3, <1>4, <1>5, <1>6, Zenon DEF IInv, SerialInv
<1>12. SerialHasBytes'
  BY <1>1, Zenon DEF IInv, SerialHasBytes
<1>15. LateInv'
  <2>1. \A m \in stuck : m.key \in orphans'
    BY <1>1, <1>14, Zenon
  <2>2. \A m \in late' : m.kind = "put" => m.key \in orphans'
    BY <1>1, <1>13, <2>1, Zenon DEF IInv, LateInv
  <2> SUFFICES ASSUME NEW a \in Attempts, a \notin overlaid, NEW m \in late',
                      m.kind = "delete", m.key[1] = a
               PROVE  /\ m.key = <<a, up[a].path>>
                      /\ up[a].at \notin {"off", "uploaded"}
                      /\ state = "succeeded" => attempt # a
                      /\ up[a].at = "waiting" => hd'[up[a].conn].pc # "201"
    BY <1>1, <1>4, <2>2, Zenon DEF LateInv, Deletes
  <2>3. CASE m \in late
    <3>1. /\ m.key = <<a, up[a].path>>
          /\ up[a].at \notin {"off", "uploaded"}
          /\ state = "succeeded" => attempt # a
          /\ up[a].at = "waiting" => hd[up[a].conn].pc # "201"
      BY <2>3, Zenon DEF IInv, LateInv, Deletes
    <3> QED BY <1>4, <1>6, <3>1, Zenon
  <2>4. CASE m \in stuck
    <3>1. PICK n \in 1..MaxSends : hd[n].pc \in Busy /\ m.key = key(n)
      BY <1>14, <2>4, Zenon
    <3>0. key(n)[1] = hd[n].attempt
      BY Zenon DEF key
    <3>2. hd[n].attempt = a
      BY <3>0, <3>1, Zenon
    <3>3. /\ n = up[a].conn /\ hd[n].path = up[a].path
          /\ up[a].at \notin {"off", "uploaded"}
          /\ state = "succeeded" => attempt # a
      BY <3>1, <3>2, Zenon DEF IInv, SerialInv
    <3>4. hd[n].pc # "201"
      BY <3>1, Zenon DEF Busy
    <3> QED BY <1>4, <3>1, <3>2, <3>3, <3>4, Zenon DEF key
  <2> QED BY <1>13, <2>3, <2>4, Zenon
<1> QED
  BY <1>7, <1>8, <1>9, <1>10, <1>11, <1>12, <1>15, Zenon DEF IInv

\* Every step keeps the invariant.
LEMMA StepIInv == IInv /\ [Next]_vars => IInv'
<1> SUFFICES ASSUME IInv, [Next]_vars
             PROVE  IInv'
  BY Zenon
<1>1. CASE UNCHANGED vars
  <2>1. /\ state' = state /\ attempt' = attempt /\ up' = up /\ sent' = sent
        /\ hd' = hd /\ overlaid' = overlaid
        /\ objects' = objects /\ rows' = rows /\ orphans' = orphans /\ late' = late
    BY <1>1, Zenon DEF vars, job, stored
  <2>2. \A n : key(n)' = key(n)
    BY <2>1, Zenon DEF key
  <2>3. \A a \in Attempts : (Open(a)' <=> Open(a)) /\ key(up[a].conn)' = key(up[a].conn)
    BY <2>1, Zenon DEF Open, key
  <2>4. TypeOK' /\ SerialHasBytes'
    BY <2>1, Zenon DEF IInv, TypeOK, SerialHasBytes
  <2>5. UploadInv'
    BY <2>1, <2>3, Zenon DEF IInv, UploadInv
  <2>6. RecordInv' /\ ObjectInv'
    BY <2>1, <2>2, <2>3, Zenon DEF IInv, RecordInv, SucceededIsRecorded, ObjectInv
  <2>7. SerialInv'
    BY <2>1, <2>2, <2>3 DEF IInv, SerialInv
  <2>8. LateInv'
    BY <2>1, Zenon DEF IInv, LateInv, Deletes
  <2> QED
    BY <2>4, <2>5, <2>6, <2>7, <2>8, Zenon DEF IInv
<1>2. CASE Claim \/ Lose \/ Crash \/ Arrive
  BY <1>2, ClaimIInv, LoseIInv, CrashIInv, ArriveIInv, Zenon
<1>3. ASSUME NEW a \in Attempts,
             uploadArtifact(a) \/ reconnect(a) \/ Stop(a) \/ uploadArtifacts(a) \/ report(a)
      PROVE  IInv'
  BY <1>3, SendIInv, ReconnectIInv, StopIInv, RepliedIInv, ReportIInv, Zenon
<1>4. ASSUME NEW n \in 1..MaxSends, Check(n) \/ Put(n) \/ Record(n) \/ discard(n)
      PROVE  IInv'
  BY <1>4, HandlersIInv, Zenon
<1> QED
  BY <1>1, <1>2, <1>3, <1>4, Zenon DEF Next

\* The first state.
LEMMA InitIInv == Init => IInv
<1> SUFFICES ASSUME Init
             PROVE  IInv
  BY Zenon
<1>1. \A a \in Attempts : up[a].at = "off" /\ up[a].path = 1 /\ up[a].errors = 0
  BY Zenon DEF Init
<1>2. \A n \in 1..MaxSends : hd[n].pc = "none"
  BY Zenon DEF Init
<1>3. TypeOK
  <2>1. up \in [Attempts -> Uploads]
    BY Limits DEF Init, Uploads
  <2>2. hd \in [1..MaxSends -> Handlers]
    BY Limits, ArtifactsAssumption DEF Init, Handlers, PC, Attempts
  <2> QED
    BY <2>1, <2>2, Types, Limits DEF Init
<1>4. UploadInv
  BY <1>1, <1>2, Limits DEF Init, UploadInv, Open
<1>5. RecordInv
  BY <1>1, <1>2 DEF Init, RecordInv, SucceededIsRecorded
<1>6. ObjectInv /\ SerialHasBytes
  BY Zenon DEF Init, ObjectInv, SerialHasBytes
<1>7. SerialInv
  BY <1>1, <1>2 DEF Init, SerialInv, Busy
<1>8. LateInv
  BY Zenon DEF Init, LateInv, Deletes
<1> QED
  BY <1>3, <1>4, <1>5, <1>6, <1>7, <1>8, Zenon DEF IInv
-----------------------------------------------------------------------------
\* The invariant holds in every reachable state, with any limits.
THEOREM Invariance == Spec => []IInv
  BY InitIInv, StepIInv, PTL DEF Spec

\* A job that succeeded has a row for every file of the attempt that succeeded
\* (Agent.uploadArtifacts goes on only after a 201, which follows the row).
THEOREM SuccessAlwaysRecorded == Spec => []SucceededIsRecorded
<1>1. IInv => SucceededIsRecorded
  BY Zenon DEF IInv, RecordInv
<1> QED
  BY <1>1, Invariance, PTL

\* When no delivery is being handled, every object has a row, or is under a key on
\* which the server died or the artifact store failed: handleUploadArtifact cleans
\* up after a lost fence and a failed insert.
THEOREM NeverLeaksObjects == Spec => []NoLeakedObject
<1>1. IInv => NoLeakedObject
  BY Zenon DEF IInv, ObjectInv, NoLeakedObject, Holding, Busy
<1> QED
  BY <1>1, Invariance, PTL

\* An attempt that succeeded has all its bytes in the store, late deletes or not,
\* when its runner never sent a file while a handler or a delete was still at work
\* on an earlier delivery.
THEOREM SerialAlwaysHasBytes == Spec => []SerialHasBytes
<1>1. IInv => SerialHasBytes
  BY Zenon DEF IInv
<1> QED
  BY <1>1, Invariance, PTL

\* Once its attempt is over, no delivery adds to the record of it: the fence is
\* checked again in the transaction that inserts the row.
THEOREM RecordAlwaysFrozen == Spec => RecordFrozen
<1> DEFINE A == \A k \in Key : ~Fence(k[1]) => (k \in rows' <=> k \in rows)
<1>1. ASSUME IInv, Next PROVE A
  <2>1. ASSUME NEW n \in 1..MaxSends, Record(n) PROVE A
    <3>1. rows' = rows \/ (Fence(hd[n].attempt) /\ rows' = rows \cup {key(n)})
      BY <2>1, Zenon DEF Record
    <3>2. key(n)[1] = hd[n].attempt
      BY Zenon DEF key
    <3> QED
      BY <3>1, <3>2, Zenon
  <2>2. ASSUME rows' = rows PROVE A
    BY <2>2, Zenon
  <2> QED
    BY <1>1, <2>1, <2>2, Zenon DEF Next, Claim, Lose, Crash, Arrive, uploadArtifact, reconnect, Stop,
       uploadArtifacts, report, Check, Put, discard, stored
<1>2. IInv /\ [Next]_vars => [A]_vars
  BY <1>1, Zenon
<1> QED
  BY <1>2, Invariance, PTL DEF Spec, RecordFrozen
-----------------------------------------------------------------------------
(***************************************************************************)
(* Pipeline, for documents of any number of jobs and needs. A cycle is a   *)
(* set of jobs each of which needs one of the set. When every job is out,  *)
(* the first of a set to go out shows that the set is not a cycle          *)
(* (LeastNumber); when topo is stuck, the jobs not out are one. The loop   *)
(* of advance skips only what every closed set contains, and when a whole  *)
(* pass changes nothing, what it has skipped is closed.                    *)
(***************************************************************************)
\* What finalize lets through, and that there is no cycle.
Valid ==
  /\ \A i, j \in Decl : name[i] = name[j] => i = j
  /\ \A i \in Decl : name[i] # ""
  /\ \A i \in Decl, k, l \in 1..MaxNeeds :
       k \in DOMAIN needs[i] /\ l \in DOMAIN needs[i] /\ k # l => needs[i][k] # needs[i][l]
  /\ \A i \in Decl : \A k \in DOMAIN needs[i] : \E j \in Decl : name[j] = needs[i][k]

Acyclic == \A S \in SUBSET Decl : S # {} => \E i \in S : NeedsOf(i) \cap S = {}

\* The needs of a job that are not out yet.
Left(i) == {k \in DOMAIN needs[i] : byName(needs[i][k]) \notin Range(out)}

States == {"pending", "queued", "running", "succeeded"} \cup Dead

DocInv ==
  /\ name \in [Decl -> Names \cup {""}]
  /\ needs \in [Decl -> UNION {[1..k -> Names] : k \in 0..MaxNeeds}]

\* Where topo is: the order so far has every job once and after its needs, and the
\* counts and the ready set are about the jobs not in it.
TopoInv ==
  /\ Valid
  /\ out \in Seq(Decl)
  /\ \A k, l \in 1..Len(out) : out[k] = out[l] => k = l
  /\ indeg = [i \in Decl |-> Cardinality(Left(i))]
  /\ ready = {i \in Decl : i \notin Range(out) /\ Left(i) = {}}
  /\ \A l \in 1..Len(out) : \A n \in NeedsOf(out[l]) : \E k \in 1..Len(out) : k < l /\ out[k] = n

\* The jobs the loop of advance has to skip, from the states it was called with.
Pending == {i \in Decl : start[i] = "pending"}

SkipClosed(S) == \A i \in Pending : (\E n \in NeedsOf(i) : start[n] \in Dead \/ n \in S) => i \in S

Skips == {i \in Pending : \A S \in SUBSET Pending : SkipClosed(S) => i \in S}

\* Nothing to do at job i.
Waits(i) ==
  /\ \A n \in NeedsOf(i) : st[n] \notin Dead
  /\ \E n \in NeedsOf(i) : st[n] \notin Dead \cup {"succeeded"}

\* Where the loop is: what it has moved it had to move, and as long as a pass has
\* changed nothing there is nothing to do at the jobs it has come by.
LoopInv ==
  /\ start \in [Decl -> States] /\ st \in [Decl -> States]
  /\ at \in 1..NumJobs + 1 /\ changed \in BOOLEAN
  /\ \A i \in Decl :
       \/ st[i] = start[i]
       \/ start[i] = "pending" /\ st[i] = "skipped" /\ i \in Skips
       \/ start[i] = "pending" /\ st[i] = "queued" /\ \A n \in NeedsOf(i) : start[n] = "succeeded"
  /\ ~changed => \A i \in Decl : i < at /\ st[i] = "pending" => Waits(i)
  /\ phase = "settled" => ~changed /\ at > NumJobs

PipelineInv ==
  /\ DocInv
  /\ phase \in {"finalize", "topo", "refused", "accepted", "advance", "settled"}
  /\ phase = "finalize" => out = <<>>
  /\ phase = "topo" => TopoInv
  /\ phase \in {"accepted", "advance", "settled"} => Valid
  /\ phase \in {"advance", "settled"} => LoopInv
  /\ AcceptsExactlyDags
-----------------------------------------------------------------------------
\* A set of numbers has a least one.
LEMMA LeastNumber ==
  ASSUME NEW T \in SUBSET Nat, T # {}
  PROVE  \E x \in T : \A y \in T : x <= y
<1> DEFINE R == OpToRel(<, Nat)
<1>1. IsWellFoundedOn(R, Nat)
  BY NatLessThanWellFounded, Zenon
<1>2. \A y, x \in Nat : y < x => <<y, x>> \in R
  BY Zenon DEF OpToRel
<1> HIDE DEF R
<1>3. PICK x \in T : \A y \in T : ~(<<y, x>> \in R)
  BY <1>1, WFMin, Zenon
<1>4. \A y \in T : ~(y < x)
  BY <1>2, <1>3, Zenon
<1>5. \A y \in T : x <= y
  <2> SUFFICES ASSUME NEW y \in T PROVE x <= y
    BY Zenon
  <2>1. x \in Nat /\ y \in Nat /\ ~(y < x)
    BY <1>4, Zenon
  <2> QED BY <2>1
<1> QED BY <1>5, Zenon

\* What Min of the community modules returns on numbers.
LEMMA MinFacts ==
  ASSUME NEW T \in SUBSET Nat, T # {}
  PROVE  Min(T) \in T /\ \A y \in T : Min(T) <= y
BY LeastNumber, Zenon DEF Min

\* The bounds are numbers, and so are the places of the document.
LEMMA Sizes == NumJobs \in Nat /\ NumJobs > 0 /\ MaxNeeds \in Nat /\ Decl \subseteq Nat
BY PipelineAssumption DEF Decl

\* Places in a list.
LEMMA Apart ==
  ASSUME NEW m \in Nat, NEW k \in 1..m, NEW l \in 1..m, k # l
  PROVE  l \in 1..k - 1 \/ k \in 1..l - 1
OBVIOUS

\* A place before another one of the same list.
LEMMA Before ==
  ASSUME NEW m \in Nat, NEW n \in Nat, m <= n, NEW k \in 1..m, NEW l \in 1..k - 1
  PROVE  k \in 1..n /\ l \in 1..n /\ l \in 1..m /\ k # l
OBVIOUS

\* The needs of a job are a sequence of names.
LEMMA NeedsSeq ==
  ASSUME DocInv, NEW i \in Decl
  PROVE  /\ DOMAIN needs[i] = 1..Len(needs[i]) /\ Len(needs[i]) \in Nat /\ Len(needs[i]) <= MaxNeeds
         /\ needs[i] \in Seq(Names)
         /\ IsFiniteSet(DOMAIN needs[i]) /\ Cardinality(DOMAIN needs[i]) = Len(needs[i])
<1>1. PICK m \in 0..MaxNeeds : needs[i] \in [1..m -> Names]
  <2>1. needs[i] \in UNION {[1..k -> Names] : k \in 0..MaxNeeds}
    BY Zenon DEF DocInv
  <2> QED BY <2>1, Zenon
<1>2. m \in Nat
  BY Sizes
<1>3. needs[i] \in Seq(Names) /\ Len(needs[i]) = m
  BY <1>1, <1>2
<1>4. IsFiniteSet(1..m) /\ Cardinality(1..m) = m
  BY <1>2, FS_Interval
<1>5. DOMAIN needs[i] = 1..m /\ m <= MaxNeeds
  BY <1>1, Sizes
<1> QED BY <1>2, <1>3, <1>4, <1>5, Zenon

\* byName of a name that is declared.
LEMMA ByName ==
  ASSUME DocInv, NEW j \in Decl
  PROVE  byName(name[j]) \in Decl /\ name[byName(name[j])] = name[j]
<1> DEFINE T == {i \in Decl : name[i] = name[j]}
<1>1. T \in SUBSET Nat /\ T # {}
  BY Sizes, Zenon
<1> QED BY <1>1, MinFacts, Zenon DEF byName

\* In a valid document a need is the one job of its name.
LEMMA NeedIsJob ==
  ASSUME DocInv, Valid, NEW i \in Decl, NEW k \in DOMAIN needs[i]
  PROVE  /\ byName(needs[i][k]) \in Decl
         /\ byName(needs[i][k]) \in NeedsOf(i)
         /\ \A n \in Decl : needs[i][k] = name[n] <=> byName(needs[i][k]) = n
<1>1. PICK j \in Decl : name[j] = needs[i][k]
  BY Zenon DEF Valid
<1>2. byName(needs[i][k]) \in Decl /\ name[byName(needs[i][k])] = needs[i][k]
  BY <1>1, ByName, Zenon
<1> QED BY <1>2, Zenon DEF Valid, NeedsOf

\* In a document that finalize lets through, needs are jobs.
LEMMA NeedsAreJobs == ASSUME DocInv, Valid, NEW i \in Decl PROVE NeedsOf(i) \subseteq Decl
BY NeedIsJob DEF NeedsOf
-----------------------------------------------------------------------------
\* Any document may come, and nothing has been done with it.
LEMMA InitPipeline == PipelineInit => PipelineInv
<1> SUFFICES ASSUME PipelineInit PROVE PipelineInv
  BY Zenon
<1> QED BY Zenon DEF PipelineInit, PipelineInv, DocInv, AcceptsExactlyDags

\* What finalize refuses has no order.
LEMMA FinalizeRefuses ==
  ASSUME DocInv,
         \/ \E i \in Decl : name[i] = "" \/ byName(name[i]) # i
         \/ \E i \in Decl : name[i] # "" /\ byName(name[i]) = i /\ BadNeeds(i)
  PROVE  ~(Valid /\ Acyclic)
<1> SUFFICES ASSUME Valid, Acyclic PROVE FALSE
  BY Zenon
<1>1. \A i \in Decl : name[i] # "" /\ byName(name[i]) = i
  BY ByName, ZenonT(40) DEF Valid
<1>2. PICK i \in Decl : BadNeeds(i)
  BY <1>1, Zenon
<1>3. DOMAIN needs[i] = 1..Len(needs[i]) /\ Len(needs[i]) \in Nat /\ Len(needs[i]) <= MaxNeeds /\ MaxNeeds \in Nat
  BY NeedsSeq, Sizes, Zenon
<1>7. PICK k \in 1..Len(needs[i]) :
        \/ needs[i][k] = name[i]
        \/ \E l \in 1..k - 1 : needs[i][l] = needs[i][k]
        \/ \A j \in Decl : name[j] # needs[i][k]
  BY <1>2, <1>3, Zenon DEF BadNeeds
<1>4. CASE needs[i][k] = name[i]
  <2>1. i \in NeedsOf(i)
    BY <1>1, <1>3, <1>4, Zenon DEF NeedsOf
  <2>2. {i} \in SUBSET Decl /\ {i} # {}
    BY Zenon
  <2>3. \E j \in {i} : NeedsOf(j) \cap {i} = {}
    BY <2>2, Zenon DEF Acyclic
  <2> QED BY <2>1, <2>3, Zenon
<1>5. CASE \E l \in 1..k - 1 : needs[i][l] = needs[i][k]
  <2>1. PICK l \in 1..k - 1 : needs[i][l] = needs[i][k]
    BY <1>5, Zenon
  <2>2. k \in 1..MaxNeeds /\ l \in 1..MaxNeeds /\ l \in 1..Len(needs[i]) /\ k # l
    BY <1>3, Before, Zenon
  <2> QED BY <1>3, <2>1, <2>2, Zenon DEF Valid
<1>6. CASE \A j \in Decl : name[j] # needs[i][k]
  BY <1>3, <1>6, Zenon DEF Valid
<1> QED BY <1>7, <1>4, <1>5, <1>6, Zenon

\* What it lets through is valid.
LEMMA FinalizeAccepts ==
  ASSUME DocInv,
         \A i \in Decl : name[i] # "" /\ byName(name[i]) = i /\ ~BadNeeds(i)
  PROVE  Valid
<1>1. \A i, j \in Decl : name[i] = name[j] => i = j
  <2> SUFFICES ASSUME NEW i \in Decl, NEW j \in Decl, name[i] = name[j] PROVE i = j
    BY Zenon
  <2>1. byName(name[i]) = i /\ byName(name[j]) = j
    BY Zenon
  <2> QED BY <2>1, Zenon
<1>2. \A i \in Decl : \A k \in DOMAIN needs[i] :
        /\ \A l \in 1..k - 1 : needs[i][l] # needs[i][k]
        /\ \E j \in Decl : name[j] = needs[i][k]
  <2> SUFFICES ASSUME NEW i \in Decl, NEW k \in DOMAIN needs[i]
               PROVE  /\ \A l \in 1..k - 1 : needs[i][l] # needs[i][k]
                      /\ \E j \in Decl : name[j] = needs[i][k]
    BY Zenon
  <2>1. ~BadNeeds(i)
    BY Zenon
  <2> QED BY <2>1, Zenon DEF BadNeeds
<1>3. ASSUME NEW i \in Decl PROVE \A k, l \in DOMAIN needs[i] : k # l => needs[i][k] # needs[i][l]
  <2>1. DOMAIN needs[i] = 1..Len(needs[i]) /\ Len(needs[i]) \in Nat
    BY NeedsSeq, Zenon
  <2>2. ASSUME NEW k \in 1..Len(needs[i]), NEW l \in 1..Len(needs[i]), k # l
        PROVE  needs[i][k] # needs[i][l]
    <3>1. l \in 1..k - 1 \/ k \in 1..l - 1
      BY <2>1, <2>2, Apart, Zenon
    <3> QED BY <1>2, <2>1, <3>1, Zenon
  <2> QED BY <2>1, <2>2, Zenon
<1>4. \A i \in Decl : name[i] # ""
  BY Zenon
<1> QED BY <1>1, <1>2, <1>3, <1>4, ZenonT(40) DEF Valid

\* finalize refuses what is not sound and hands over to topo what is.
LEMMA FinalizePipeline == ASSUME PipelineInv, finalize PROVE PipelineInv'
<1>1. DocInv /\ phase = "finalize" /\ out = <<>> /\ name' = name /\ needs' = needs
  BY Zenon DEF PipelineInv, finalize, doc
<1>2. DocInv'
  BY <1>1, Zenon DEF DocInv
<1>3. CASE \/ \E i \in Decl : name[i] = "" \/ byName(name[i]) # i
           \/ \E i \in Decl : name[i] # "" /\ byName(name[i]) = i /\ BadNeeds(i)
  <2>1. phase' = "refused" /\ UNCHANGED <<indeg, ready, out>>
    BY <1>3, Zenon DEF finalize, topoVars
  <2>2. ~(Valid /\ Acyclic)
    BY <1>1, <1>3, FinalizeRefuses, Zenon
  <2>3. ~(Valid /\ Acyclic)'
    <3>1. Valid' <=> Valid
      BY <1>1 DEF Valid
    <3>2. \A i : NeedsOf(i)' = NeedsOf(i)
      BY <1>1, Zenon DEF NeedsOf, byName
    <3>3. Acyclic' <=> Acyclic
      BY <3>2, Zenon DEF Acyclic
    <3> QED BY <2>2, <3>1, <3>3, Zenon
  <2>4. AcceptsExactlyDags'
    BY <2>1, <2>3, Zenon DEF AcceptsExactlyDags, Valid, Acyclic
  <2> QED BY <1>2, <2>1, <2>4, Zenon DEF PipelineInv
<1>4. CASE ~(\/ \E i \in Decl : name[i] = "" \/ byName(name[i]) # i
             \/ \E i \in Decl : name[i] # "" /\ byName(name[i]) = i /\ BadNeeds(i))
  <2>1. /\ phase' = "topo"
        /\ indeg' = [i \in Decl |-> Len(needs[i])]
        /\ ready' = {i \in Decl : needs[i] = <<>>}
        /\ out' = <<>>
    BY <1>1, <1>4, Zenon DEF finalize
  <2>2. Valid
    BY <1>1, <1>4, FinalizeAccepts, Zenon
  <2>3. Valid'
    BY <1>1, <2>2, ZenonT(40) DEF Valid
  <2>4. Range(out') = {} /\ Len(out') = 0
    BY <2>1 DEF Range
  <2>5. \A i \in Decl : Left(i)' = DOMAIN needs[i]
    BY <1>1, <2>4, Zenon DEF Left
  <2>6. \A i \in Decl : Cardinality(DOMAIN needs[i]) = Len(needs[i]) /\ (DOMAIN needs[i] = {} <=> needs[i] = <<>>)
    <3> SUFFICES ASSUME NEW i \in Decl
                 PROVE  Cardinality(DOMAIN needs[i]) = Len(needs[i]) /\ (DOMAIN needs[i] = {} <=> needs[i] = <<>>)
      BY Zenon
    <3>1. DOMAIN needs[i] = 1..Len(needs[i]) /\ Len(needs[i]) \in Nat /\ Cardinality(DOMAIN needs[i]) = Len(needs[i])
      BY <1>1, NeedsSeq, Zenon
    <3>2. needs[i] \in Seq(Names)
      BY <1>1, NeedsSeq, Zenon
    <3>3. Len(needs[i]) = 0 <=> needs[i] = <<>>
      BY <3>2, EmptySeq, Zenon
    <3>4. 1..Len(needs[i]) = {} <=> Len(needs[i]) = 0
      BY <3>1, SMTT(30)
    <3> QED BY <3>1, <3>3, <3>4, Zenon
  <2>7. TopoInv'
    BY <2>1, <2>3, <2>4, <2>5, <2>6 DEF TopoInv
  <2>8. AcceptsExactlyDags'
    BY <2>1, Zenon DEF AcceptsExactlyDags
  <2> QED BY <1>2, <2>1, <2>7, <2>8, Zenon DEF PipelineInv
<1> QED BY <1>3, <1>4, Zenon

\* What the document says does not change.
LEMMA SameDoc ==
  ASSUME name' = name, needs' = needs
  PROVE  /\ Valid' <=> Valid
         /\ Acyclic' <=> Acyclic
         /\ DocInv' <=> DocInv
         /\ \A n : byName(n)' = byName(n)
         /\ \A i : NeedsOf(i)' = NeedsOf(i)
<1>1. \A n : byName(n)' = byName(n)
  BY Zenon DEF byName
<1>2. \A i : NeedsOf(i)' = NeedsOf(i)
  BY <1>1, Zenon DEF NeedsOf
<1>3. Acyclic' <=> Acyclic
  BY <1>2, Zenon DEF Acyclic
<1>4. Valid' <=> Valid
  <2>1. (\A i, j \in Decl : name[i] = name[j] => i = j)' <=> (\A i, j \in Decl : name[i] = name[j] => i = j)
    BY Zenon
  <2>2. (\A i \in Decl : name[i] # "")' <=> (\A i \in Decl : name[i] # "")
    BY Zenon
  <2>3. (\A i \in Decl, k, l \in 1..MaxNeeds :
           k \in DOMAIN needs[i] /\ l \in DOMAIN needs[i] /\ k # l => needs[i][k] # needs[i][l])'
        <=> (\A i \in Decl, k, l \in 1..MaxNeeds :
               k \in DOMAIN needs[i] /\ l \in DOMAIN needs[i] /\ k # l => needs[i][k] # needs[i][l])
    BY Zenon
  <2>4. (\A i \in Decl : \A k \in DOMAIN needs[i] : \E j \in Decl : name[j] = needs[i][k])'
        <=> (\A i \in Decl : \A k \in DOMAIN needs[i] : \E j \in Decl : name[j] = needs[i][k])
    BY Zenon
  <2> QED BY <2>1, <2>2, <2>3, <2>4, Zenon DEF Valid
<1>5. DocInv' <=> DocInv
  BY Zenon DEF DocInv
<1> QED BY <1>1, <1>2, <1>3, <1>4, <1>5, Zenon

\* The jobs that are out are the places of the order.
LEMMA Places ==
  ASSUME NEW q \in Seq(Decl)
  PROVE  /\ Len(q) \in Nat /\ DOMAIN q = 1..Len(q)
         /\ \A l \in 1..Len(q) : q[l] \in Range(q) /\ q[l] \in Decl
         /\ \A n \in Range(q) : n \in Decl /\ \E l \in 1..Len(q) : q[l] = n
BY LenProperties, ElementOfSeq DEF Range

\* A job is taken: the places before it stand.
LEMMA Taken ==
  ASSUME NEW q \in Seq(Decl), NEW n \in Decl
  PROVE  /\ Append(q, n) \in Seq(Decl) /\ Len(Append(q, n)) = Len(q) + 1
         /\ \A l \in 1..Len(q) : Append(q, n)[l] = q[l]
         /\ Append(q, n)[Len(q) + 1] = n
         /\ Range(Append(q, n)) = Range(q) \cup {n}
<1>1. /\ Append(q, n) \in Seq(Decl) /\ Len(Append(q, n)) = Len(q) + 1
      /\ \A l \in 1..Len(q) : Append(q, n)[l] = q[l]
      /\ Append(q, n)[Len(q) + 1] = n
  BY AppendProperties
<1>2. Append(q, n) = q \o <<n>> /\ <<n>> \in Seq(Decl)
  BY AppendIsConcat
<1>3. Range(q \o <<n>>) = Range(q) \cup Range(<<n>>)
  <2>1. PICK p \in Seq(Decl) : p = <<n>>
    BY <1>2, Zenon
  <2>2. Range(q \o p) = Range(q) \cup Range(p)
    BY RangeConcatenation, ZenonT(40)
  <2> QED BY <2>1, <2>2, Zenon
<1>4. Range(<<n>>) = {n}
  BY DEF Range
<1> QED BY <1>1, <1>2, <1>3, <1>4, Zenon

\* topo takes the ready job n.
LEMMA TakeReady ==
  ASSUME DocInv, TopoInv, NEW n \in ready, name' = name, needs' = needs, out' = Append(out, n),
         indeg' = [i \in Decl |-> indeg[i] - Cardinality({k \in DOMAIN needs[i] : needs[i][k] = name[n]})],
         ready' = (ready \ {n}) \cup
                    {i \in Decl : /\ {k \in DOMAIN needs[i] : needs[i][k] = name[n]} # {}
                                  /\ indeg[i] - Cardinality({k \in DOMAIN needs[i] : needs[i][k] = name[n]}) = 0}
  PROVE  TopoInv'
<1> DEFINE deps(i) == {k \in DOMAIN needs[i] : needs[i][k] = name[n]}
<1>1. /\ Valid /\ out \in Seq(Decl) /\ n \in Decl /\ n \notin Range(out) /\ Left(n) = {}
      /\ ready = {i \in Decl : i \notin Range(out) /\ Left(i) = {}}
  BY Zenon DEF TopoInv
<1>2. /\ out' \in Seq(Decl) /\ Len(out') = Len(out) + 1 /\ Len(out) \in Nat
      /\ \A l \in 1..Len(out) : out'[l] = out[l]
      /\ out'[Len(out) + 1] = n
      /\ Range(out') = Range(out) \cup {n}
  BY <1>1, Taken, LenProperties
<1>3. \A i \in Decl : deps(i) = {k \in DOMAIN needs[i] : byName(needs[i][k]) = n}
  <2>1. \A i \in Decl : \A k \in DOMAIN needs[i] : needs[i][k] = name[n] <=> byName(needs[i][k]) = n
    <3> SUFFICES ASSUME NEW i \in Decl, NEW k \in DOMAIN needs[i]
                 PROVE  needs[i][k] = name[n] <=> byName(needs[i][k]) = n
      BY Zenon
    <3>0. Valid
      BY <1>1, Zenon
    <3>1. \A m \in Decl : needs[i][k] = name[m] <=> byName(needs[i][k]) = m
      BY <3>0, NeedIsJob, Zenon
    <3> QED BY <1>1, <3>1, Zenon
  <2> QED BY <2>1, Zenon
<1>4. \A i \in Decl : deps(i) \subseteq Left(i) /\ Left(i)' = Left(i) \ deps(i)
  <2> SUFFICES ASSUME NEW i \in Decl PROVE deps(i) \subseteq Left(i) /\ Left(i)' = Left(i) \ deps(i)
    BY Zenon
  <2>1. deps(i) = {k \in DOMAIN needs[i] : byName(needs[i][k]) = n}
    BY <1>3, Zenon
  <2>2. Left(i)' = {k \in DOMAIN needs[i] : byName(needs[i][k]) \notin Range(out')}
    <3>1. needs' = needs /\ \A m : byName(m)' = byName(m)
      BY SameDoc, Zenon
    <3> QED BY <3>1, ZenonT(40) DEF Left
  <2> HIDE DEF deps
  <2> QED BY <1>1, <1>2, <2>1, <2>2, Zenon DEF Left
<1>5. \A i \in Decl : IsFiniteSet(Left(i)) /\ indeg[i] = Cardinality(Left(i))
  BY NeedsSeq, FS_Subset, Zenon DEF Left, TopoInv
<1> HIDE DEF deps
<1>6. \A i \in Decl : /\ indeg[i] - Cardinality(deps(i)) = Cardinality(Left(i)')
                      /\ Cardinality(Left(i)') = 0 <=> Left(i)' = {}
  <2> SUFFICES ASSUME NEW i \in Decl
               PROVE  /\ indeg[i] - Cardinality(deps(i)) = Cardinality(Left(i) \ deps(i))
                      /\ Cardinality(Left(i) \ deps(i)) = 0 <=> Left(i) \ deps(i) = {}
    BY <1>4, Zenon
  <2>1. Left(i) \cap deps(i) = deps(i)
    BY <1>4, Zenon
  <2>2. IsFiniteSet(Left(i) \ deps(i)) /\ Cardinality(Left(i) \ deps(i)) = Cardinality(Left(i)) - Cardinality(deps(i))
    <3>1. /\ IsFiniteSet(Left(i) \ deps(i))
          /\ Cardinality(Left(i) \ deps(i)) = Cardinality(Left(i)) - Cardinality(Left(i) \cap deps(i))
      BY <1>5, FS_Difference, Zenon
    <3> QED BY <2>1, <3>1, Zenon
  <2> QED BY <1>5, <2>2, FS_EmptySet, Zenon
<1>7. indeg' = [i \in Decl |-> Cardinality(Left(i)')]
  BY <1>6, Zenon DEF deps
<1>8. \A i \in Range(out) : i \in Decl /\ deps(i) = {}
  <2> SUFFICES ASSUME NEW i \in Range(out), NEW k \in deps(i) PROVE FALSE
    BY <1>1, Places, Zenon
  <2>1. PICK l \in 1..Len(out) : out[l] = i /\ i \in Decl
    BY <1>1, Places, Zenon
  <2>2. k \in DOMAIN needs[i] /\ byName(needs[i][k]) = n
    BY <1>3, <2>1, Zenon
  <2>3. n \in NeedsOf(i)
    BY <2>2, Zenon DEF NeedsOf
  <2>4. \E m \in 1..Len(out) : out[m] = n
    BY <2>1, <2>3, Zenon DEF TopoInv
  <2> QED BY <1>1, <2>4, Places, Zenon
<1>9. deps(n) = {}
  BY <1>1, <1>4, Zenon
<1>10. ready' = {i \in Decl : i \notin Range(out') /\ Left(i)' = {}}
  <2>1. ready' = (ready \ {n}) \cup {i \in Decl : deps(i) # {} /\ Left(i)' = {}}
    <3>1. \A i \in Decl : indeg[i] - Cardinality(deps(i)) = 0 <=> Left(i)' = {}
      BY <1>6, Zenon
    <3> QED BY <3>1, Zenon DEF deps
  <2>2. \A i \in ready' : i \in Decl
    BY <1>1, <2>1, Zenon
  <2>3. ASSUME NEW i \in Decl PROVE i \in ready' <=> i \notin Range(out') /\ Left(i)' = {}
    <3>1. i \in Range(out') <=> i \in Range(out) \/ i = n
      BY <1>2, Zenon
    <3>2. /\ i \in ready <=> i \notin Range(out) /\ Left(i) = {}
          /\ deps(i) \subseteq Left(i) /\ Left(i)' = Left(i) \ deps(i)
      BY <1>1, <1>4, Zenon
    <3>3. i \in Range(out) \/ i = n => deps(i) = {}
      BY <1>8, <1>9, Zenon
    <3>4. i \in ready' <=> (i \in ready /\ i # n) \/ (deps(i) # {} /\ Left(i)' = {})
      BY <2>1, Zenon
    <3> HIDE DEF deps
    <3>5. deps(i) = {} => Left(i)' = Left(i)
      BY <3>2, Zenon
    <3>6. deps(i) # {} => Left(i) # {}
      BY <3>2, Zenon
    <3> QED BY <3>1, <3>2, <3>3, <3>4, <3>5, <3>6, Zenon
  <2> QED BY <2>2, <2>3, Zenon
<1>11. \A k, l \in 1..Len(out') : out'[k] = out'[l] => k = l
  <2>1. \A k, l \in 1..Len(out) : out[k] = out[l] => k = l
    BY Zenon DEF TopoInv
  <2>2. \A k \in 1..Len(out) : out[k] # n
    BY <1>1, Places, Zenon
  <2>3. \A k \in 1..(Len(out) + 1) : k \in 1..Len(out) \/ k = Len(out) + 1
    BY <1>2
  <2> QED BY <1>2, <2>1, <2>2, <2>3
<1>12. \A l \in 1..Len(out') : \A m \in NeedsOf(out'[l]) : \E k \in 1..Len(out') : k < l /\ out'[k] = m
  <2> SUFFICES ASSUME NEW l \in 1..Len(out'), NEW m \in NeedsOf(out'[l])
               PROVE  \E k \in 1..Len(out') : k < l /\ out'[k] = m
    BY Zenon
  <2>1. CASE l \in 1..Len(out)
    <3>1. PICK k \in 1..Len(out) : k < l /\ out[k] = m
      BY <1>2, <2>1, Zenon DEF TopoInv
    <3> QED BY <1>2, <3>1
  <2>2. CASE l = Len(out) + 1
    <3>1. out'[l] = n
      BY <1>2, <2>2, Zenon
    <3>2. PICK k \in DOMAIN needs[n] : m = byName(needs[n][k])
      BY <3>1, Zenon DEF NeedsOf
    <3>3. m \in Range(out)
      BY <1>1, <3>2, Zenon DEF Left
    <3>4. PICK j \in 1..Len(out) : out[j] = m
      BY <1>1, <3>3, Places, Zenon
    <3> QED BY <1>2, <2>2, <3>4
  <2> QED BY <1>2, <2>1, <2>2
<1>13. Valid' /\ \A i : NeedsOf(i)' = NeedsOf(i)
  BY <1>1, SameDoc, Zenon
<1> QED BY <1>2, <1>7, <1>10, <1>11, <1>12, <1>13, Zenon DEF TopoInv

\* When all jobs are out, the order shows that there is no cycle.
LEMMA OrderIsAcyclic ==
  ASSUME DocInv, TopoInv, Len(out) = NumJobs
  PROVE  /\ Acyclic
         /\ \A i \in Decl : \A n \in NeedsOf(i) : \E k, l \in Decl : k < l /\ out[k] = n /\ out[l] = i
<1>1. /\ Valid /\ out \in Seq(Decl)
      /\ \A k, l \in Decl : out[k] = out[l] => k = l
      /\ \A l \in Decl : \A n \in NeedsOf(out[l]) : \E k \in Decl : k < l /\ out[k] = n
  BY Zenon DEF TopoInv, Decl
<1>2. out \in Injection(Decl, Decl)
  <2>1. out \in [Decl -> Decl]
    BY <1>1, LenProperties, Zenon DEF Decl
  <2> QED BY <1>1, <2>1, Zenon DEF Injection, IsInjective
<1>3. IsFiniteSet(Decl)
  BY Sizes, FS_Interval DEF Decl
<1>4. out \in Surjection(Decl, Decl)
  BY <1>2, <1>3, FS_Injection, Zenon
<1>5. \A i \in Decl : \E l \in Decl : out[l] = i
  BY <1>4, Zenon DEF Surjection
<1>6. ASSUME NEW S \in SUBSET Decl, S # {} PROVE \E i \in S : NeedsOf(i) \cap S = {}
  <2> DEFINE T == {l \in Decl : out[l] \in S}
  <2>1. T \in SUBSET Nat /\ T # {}
    BY <1>5, <1>6, Sizes, Zenon
  <2>2. PICK l \in T : \A k \in T : l <= k
    BY <2>1, LeastNumber, Zenon
  <2>3. ASSUME NEW n \in NeedsOf(out[l]) \cap S PROVE FALSE
    <3>1. PICK k \in Decl : k < l /\ out[k] = n
      BY <1>1, <2>3, Zenon
    <3>2. k \in T /\ k \in Nat /\ l \in Nat
      BY <2>1, <3>1, Sizes, Zenon
    <3> QED BY <2>2, <3>1, <3>2
  <2> QED BY <2>3, Zenon
<1>7. ASSUME NEW i \in Decl, NEW n \in NeedsOf(i) PROVE \E k, l \in Decl : k < l /\ out[k] = n /\ out[l] = i
  <2>1. PICK l \in Decl : out[l] = i
    BY <1>5, Zenon
  <2>2. PICK k \in Decl : k < l /\ out[k] = n
    BY <1>1, <2>1, Zenon
  <2> QED BY <2>1, <2>2, Zenon
<1> QED BY <1>6, <1>7, Zenon DEF Acyclic

\* When none is ready and some are left, each of those needs one of them.
LEMMA StuckIsCyclic ==
  ASSUME DocInv, TopoInv, ready = {}, Len(out) # NumJobs
  PROVE  ~Acyclic
<1>1. /\ Valid /\ out \in Seq(Decl) /\ Len(out) \in Nat /\ out \in [1..Len(out) -> Decl]
      /\ \A k, l \in 1..Len(out) : out[k] = out[l] => k = l
  BY LenProperties, Zenon DEF TopoInv
<1> DEFINE S == Decl \ Range(out)
<1>2. S # {}
  <2> SUFFICES ASSUME S = {} PROVE FALSE
    BY Zenon
  <2>1. \A i \in Decl : \E l \in 1..Len(out) : out[l] = i
    BY <1>1, Places, Zenon
  <2>2. out \in Surjection(1..Len(out), Decl) /\ out \in Injection(1..Len(out), Decl)
    BY <1>1, <2>1, Zenon DEF Surjection, Injection, IsInjective
  <2>3. IsFiniteSet(1..Len(out)) /\ Cardinality(1..Len(out)) = Len(out) /\ Cardinality(Decl) = NumJobs
    <3>0. \A b \in Nat : IsFiniteSet(1..b) /\ Cardinality(1..b) = b
      BY FS_Interval, SMTT(30)
    <3>1. IsFiniteSet(1..Len(out)) /\ Cardinality(1..Len(out)) = Len(out)
      BY <1>1, <3>0, Zenon
    <3>2. Cardinality(1..NumJobs) = NumJobs
      BY Sizes, <3>0, Zenon
    <3> QED BY <3>1, <3>2, Zenon DEF Decl
  <2>4. Cardinality(Decl) = Cardinality(1..Len(out))
    BY <2>2, <2>3, FS_Surjection, Zenon
  <2> QED BY <2>3, <2>4, Zenon
<1>3. ASSUME NEW i \in S PROVE NeedsOf(i) \cap S # {}
  <2>1. Left(i) # {}
    BY Zenon DEF TopoInv
  <2>2. PICK k \in DOMAIN needs[i] : byName(needs[i][k]) \notin Range(out)
    BY <2>1, Zenon DEF Left
  <2> QED BY <1>1, <2>2, NeedIsJob, Zenon
<1> QED BY <1>2, <1>3, Zenon DEF Acyclic

\* topo takes a ready job, or ends and knows whether there is a cycle.
LEMMA TopoPipeline == ASSUME PipelineInv, topo PROVE PipelineInv'
<1>1. DocInv /\ phase = "topo" /\ TopoInv /\ name' = name /\ needs' = needs
  BY Zenon DEF PipelineInv, topo, doc
<1>2. DocInv'
  BY <1>1, SameDoc, Zenon
<1>3. ASSUME ready # {}, phase' = phase,
             LET n == Min(ready)
                 deps(i) == {k \in DOMAIN needs[i] : needs[i][k] = name[n]}
                 left == [i \in Decl |-> indeg[i] - Cardinality(deps(i))]
             IN  /\ out' = Append(out, n)
                 /\ indeg' = left
                 /\ ready' = (ready \ {n}) \cup {i \in Decl : deps(i) # {} /\ left[i] = 0}
      PROVE  PipelineInv'
  <2> DEFINE n == Min(ready)
             deps(i) == {k \in DOMAIN needs[i] : needs[i][k] = name[n]}
  <2>1. ready \in SUBSET Nat
    BY <1>1, Sizes, Zenon DEF TopoInv
  <2>2. n \in ready
    BY <1>3, <2>1, MinFacts, Zenon
  <2>3. /\ out' = Append(out, n)
        /\ indeg' = [i \in Decl |-> indeg[i] - Cardinality(deps(i))]
        /\ ready' = (ready \ {n}) \cup {i \in Decl : deps(i) # {} /\ indeg[i] - Cardinality(deps(i)) = 0}
    BY <1>3, Zenon
  <2> HIDE DEF n
  <2>4. TopoInv'
    BY <1>1, <2>2, <2>3, TakeReady, Zenon
  <2>5. AcceptsExactlyDags'
    BY <1>1, <1>3, Zenon DEF AcceptsExactlyDags
  <2> QED BY <1>1, <1>2, <1>3, <2>4, <2>5, Zenon DEF PipelineInv
<1>4. ASSUME ready = {}, phase' = IF Len(out) = NumJobs THEN "accepted" ELSE "refused", UNCHANGED topoVars
      PROVE  PipelineInv'
  <2>1. out' = out /\ (Valid' <=> Valid) /\ (Acyclic' <=> Acyclic) /\ \A i : NeedsOf(i)' = NeedsOf(i)
    BY <1>1, <1>4, SameDoc, Zenon DEF topoVars
  <2>2. Valid
    BY <1>1, Zenon DEF TopoInv
  <2>3. CASE Len(out) = NumJobs
    <3>1. /\ phase' = "accepted" /\ Acyclic
          /\ \A i \in Decl : \A n \in NeedsOf(i) : \E k, l \in Decl : k < l /\ out[k] = n /\ out[l] = i
      BY <1>1, <1>4, <2>3, OrderIsAcyclic, Zenon
    <3>2. (\A i \in Decl : \A n \in NeedsOf(i) : \E k, l \in Decl : k < l /\ out[k] = n /\ out[l] = i)'
      BY <2>1, <3>1
    <3>3. Valid' /\ Acyclic' /\ Len(out') = NumJobs /\ phase' = "accepted"
      BY <2>1, <2>2, <2>3, <3>1, Zenon
    <3>4. AcceptsExactlyDags'
      BY <3>2, <3>3, Zenon DEF AcceptsExactlyDags, Valid, Acyclic
    <3> QED BY <1>2, <3>3, <3>4, Zenon DEF PipelineInv
  <2>4. CASE Len(out) # NumJobs
    <3>1. phase' = "refused" /\ ~Acyclic'
      BY <1>1, <1>4, <2>1, <2>4, StuckIsCyclic, Zenon
    <3>2. AcceptsExactlyDags'
      BY <3>1, Zenon DEF AcceptsExactlyDags, Acyclic
    <3> QED BY <1>2, <3>1, <3>2, Zenon DEF PipelineInv
  <2> QED BY <2>3, <2>4, Zenon
<1> QED BY <1>3, <1>4, Zenon DEF topo
-----------------------------------------------------------------------------
\* advance is called on an accepted document.
LEMMA CalledPipeline == ASSUME PipelineInv, Called PROVE PipelineInv'
<1>1. PICK s \in [Decl -> States] : st' = s /\ start' = s
  BY Zenon DEF Called, States
<1>2. /\ phase = "accepted" /\ phase' = "advance" /\ at' = 1 /\ changed' = FALSE
      /\ name' = name /\ needs' = needs
  BY Zenon DEF Called, doc
<1>3. DocInv' /\ Valid'
  BY <1>2, SameDoc, Zenon DEF PipelineInv
<1>4. LoopInv'
  <2>1. 1 \in 1..NumJobs + 1 /\ \A i \in Decl : ~(i < 1)
    BY Sizes DEF Decl
  <2> QED BY <1>1, <1>2, <2>1, Zenon DEF LoopInv
<1> QED BY <1>2, <1>3, <1>4, Zenon DEF PipelineInv, AcceptsExactlyDags

\* A job with a dead need has to be skipped.
LEMMA DeadNeedSkips ==
  ASSUME NEW i \in Pending, NEW n \in NeedsOf(i), start[n] \in Dead \/ n \in Skips
  PROVE  i \in Skips
BY Zenon DEF Skips, SkipClosed

\* The loop comes to job at.
LEMMA PassJob ==
  ASSUME DocInv, Valid, LoopInv, phase = "advance", at <= NumJobs, name' = name, needs' = needs,
         LET blocked == \E n \in NeedsOf(at) : st[n] \in Dead
             waiting == \E n \in NeedsOf(at) : st[n] \notin Dead \cup {"succeeded"}
             moves == st[at] = "pending" /\ (blocked \/ ~waiting)
         IN  /\ st' = IF moves THEN [st EXCEPT ![at] = IF blocked THEN "skipped" ELSE "queued"] ELSE st
             /\ changed' = (changed \/ moves),
         at' = at + 1, phase' = phase, start' = start
  PROVE  LoopInv'
<1> DEFINE blocked == \E n \in NeedsOf(at) : st[n] \in Dead
           waiting == \E n \in NeedsOf(at) : st[n] \notin Dead \cup {"succeeded"}
           moves == st[at] = "pending" /\ (blocked \/ ~waiting)
<1>1. at \in Decl /\ NeedsOf(at) \subseteq Decl /\ at' \in 1..NumJobs + 1
  BY Sizes, NeedsAreJobs DEF LoopInv, Decl
<1>2. /\ start \in [Decl -> States] /\ st \in [Decl -> States]
      /\ \A i \in Decl :
           \/ st[i] = start[i]
           \/ start[i] = "pending" /\ st[i] = "skipped" /\ i \in Skips
           \/ start[i] = "pending" /\ st[i] = "queued" /\ \A n \in NeedsOf(i) : start[n] = "succeeded"
  BY Zenon DEF LoopInv
<1>3. Skips' = Skips /\ \A i : NeedsOf(i)' = NeedsOf(i)
  BY SameDoc DEF Skips, SkipClosed, Pending
<1>4. CASE moves
  <2>1. /\ st' = [st EXCEPT ![at] = IF blocked THEN "skipped" ELSE "queued"] /\ changed' = TRUE
        /\ st[at] = "pending" /\ start[at] = "pending"
    BY <1>1, <1>2, <1>4, Zenon
  <2>2. blocked => at \in Skips
    <3> SUFFICES ASSUME NEW n \in NeedsOf(at), st[n] \in Dead PROVE at \in Skips
      BY Zenon
    <3>1. start[n] \in Dead \/ n \in Skips
      BY <1>1, <1>2, Zenon DEF Dead
    <3> QED BY <1>1, <2>1, <3>1, DeadNeedSkips, Zenon DEF Pending
  <2>3. ~blocked => \A n \in NeedsOf(at) : start[n] = "succeeded"
    <3> SUFFICES ASSUME NEW n \in NeedsOf(at), ~blocked PROVE start[n] = "succeeded"
      BY Zenon
    <3>1. st[n] = "succeeded"
      BY <1>4, Zenon
    <3> QED BY <1>1, <1>2, <3>1, Zenon
  <2> HIDE DEF blocked, waiting, moves
  <2>4. st' \in [Decl -> States]
    BY <1>1, <1>2, <2>1, Zenon DEF States, Dead
  <2>5. \A i \in Decl :
           \/ st'[i] = start[i]
           \/ start[i] = "pending" /\ st'[i] = "skipped" /\ i \in Skips
           \/ start[i] = "pending" /\ st'[i] = "queued" /\ \A n \in NeedsOf(i) : start[n] = "succeeded"
    <3> SUFFICES ASSUME NEW i \in Decl
                 PROVE  \/ st'[i] = start[i]
                        \/ start[i] = "pending" /\ st'[i] = "skipped" /\ i \in Skips
                        \/ start[i] = "pending" /\ st'[i] = "queued" /\ \A n \in NeedsOf(i) : start[n] = "succeeded"
      BY Zenon
    <3>1. CASE i = at
      BY <1>1, <1>2, <2>1, <2>2, <2>3, <3>1, Zenon
    <3>2. CASE i # at
      <4>1. st'[i] = st[i]
        BY <1>2, <2>1, <3>2, Zenon
      <4> QED BY <1>2, <4>1
    <3> QED BY <3>1, <3>2, Zenon
  <2> QED BY <1>1, <1>2, <1>3, <2>1, <2>4, <2>5, Zenon DEF LoopInv
<1>5. CASE ~moves
  <2>1. st' = st /\ changed' = changed /\ changed \in BOOLEAN
    BY <1>5, Zenon DEF LoopInv
  <2>2. st[at] = "pending" => Waits(at)
    BY <1>5, Zenon DEF Waits
  <2> HIDE DEF blocked, waiting, moves
  <2>3. \A i : Waits(i)' = Waits(i)
    BY <1>3, <2>1, Zenon DEF Waits
  <2>4. \A i \in Decl : i < at' => i < at \/ i = at
    BY <1>1, Sizes DEF Decl
  <2>5. ~changed => \A i \in Decl : i < at' /\ st[i] = "pending" => Waits(i)
    BY <2>2, <2>4, Zenon DEF LoopInv
  <2> QED BY <1>1, <1>2, <1>3, <2>1, <2>3, <2>5, Zenon DEF LoopInv
<1> QED BY <1>4, <1>5, Zenon

\* A step of the loop of advance.
LEMMA AdvancePipeline == ASSUME PipelineInv, advance PROVE PipelineInv'
<1>1. DocInv /\ phase = "advance" /\ Valid /\ LoopInv /\ name' = name /\ needs' = needs
  BY Zenon DEF PipelineInv, advance, doc
<1>2. DocInv' /\ Valid' /\ \A i : NeedsOf(i)' = NeedsOf(i)
  BY <1>1, SameDoc, Zenon
<1>3. phase' \in {"advance", "settled"} /\ LoopInv'
  <2>1. CASE at <= NumJobs
    <3> DEFINE blocked == \E n \in NeedsOf(at) : st[n] \in Dead
               waiting == \E n \in NeedsOf(at) : st[n] \notin Dead \cup {"succeeded"}
               moves == st[at] = "pending" /\ (blocked \/ ~waiting)
    <3>1. \A x, y \in Int : x <= y => ~(x > y)
      OBVIOUS
    <3>2. at \in Int /\ NumJobs \in Int
      BY <1>1, Sizes DEF LoopInv
    <3>3. ~(at > NumJobs)
      BY <2>1, <3>1, <3>2, Zenon
    <3>4. /\ st' = IF moves THEN [st EXCEPT ![at] = IF blocked THEN "skipped" ELSE "queued"] ELSE st
          /\ changed' = (changed \/ moves)
          /\ at' = at + 1 /\ phase' = phase /\ start' = start
      BY <3>3, Zenon DEF advance
    <3>5. LoopInv'
      BY <1>1, <2>1, <3>4, PassJob, Zenon
    <3> QED BY <1>1, <3>4, <3>5, Zenon
  <2>2. CASE at > NumJobs
    <3>1. /\ st' = st /\ start' = start
          /\ \/ changed /\ at' = 1 /\ changed' = FALSE /\ phase' = phase
             \/ ~changed /\ phase' = "settled" /\ at' = at /\ changed' = changed
      BY <1>1, <2>2, Sizes DEF advance, Again, LoopInv
    <3>2. Skips' = Skips /\ \A i : Waits(i)' = Waits(i)
      BY <1>2, <3>1, Zenon DEF Skips, SkipClosed, Pending, Waits
    <3>3. 1 \in 1..NumJobs + 1 /\ \A i \in Decl : ~(i < 1)
      BY Sizes DEF Decl
    <3>4. CASE changed /\ at' = 1 /\ changed' = FALSE /\ phase' = phase
      <4>1. at' \in 1..NumJobs + 1 /\ changed' \in BOOLEAN /\ \A i \in Decl : ~(i < at')
        BY <3>3, <3>4, Zenon
      <4> QED BY <1>1, <1>2, <3>1, <3>2, <3>4, <4>1, Zenon DEF LoopInv
    <3>5. CASE ~changed /\ phase' = "settled" /\ at' = at /\ changed' = changed
      BY <1>1, <1>2, <2>2, <3>1, <3>2, <3>5, Zenon DEF LoopInv
    <3> QED BY <3>1, <3>4, <3>5, Zenon
  <2> QED BY <2>1, <2>2, <1>1, Sizes, SMTT(30) DEF LoopInv
<1> QED BY <1>2, <1>3, Zenon DEF PipelineInv, AcceptsExactlyDags
-----------------------------------------------------------------------------
\* PipelineInv is an invariant of finalize, topo and the loop of advance.
THEOREM PipelineInvariance == PipelineSpec => []PipelineInv
<1>1. PipelineInit => PipelineInv
  BY InitPipeline, Zenon
<1>2. PipelineInv /\ [PipelineNext]_pipelineVars => PipelineInv'
  <2> SUFFICES ASSUME PipelineInv, [PipelineNext]_pipelineVars PROVE PipelineInv'
    BY Zenon
  <2>1. CASE finalize
    BY <2>1, FinalizePipeline, Zenon
  <2>2. CASE topo
    BY <2>2, TopoPipeline, Zenon
  <2>3. CASE Called
    BY <2>3, CalledPipeline, Zenon
  <2>4. CASE advance
    BY <2>4, AdvancePipeline
  <2>5. CASE UNCHANGED pipelineVars
    <3>1. /\ name' = name /\ needs' = needs /\ phase' = phase /\ out' = out /\ indeg' = indeg
          /\ ready' = ready /\ st' = st /\ start' = start /\ at' = at /\ changed' = changed
      BY <2>5, Zenon DEF pipelineVars, doc, topoVars, loopVars
    <3>2. /\ (DocInv' <=> DocInv) /\ (Valid' <=> Valid) /\ \A n : byName(n)' = byName(n)
          /\ \A i : NeedsOf(i)' = NeedsOf(i)
      BY <3>1, SameDoc
    <3>3. \A i : Left(i)' = Left(i)
      BY <3>1, <3>2, Zenon DEF Left
    <3>4. TopoInv' <=> TopoInv
      <4>1. /\ [i \in Decl |-> Cardinality(Left(i))]' = [i \in Decl |-> Cardinality(Left(i))]
            /\ {i \in Decl : i \notin Range(out) /\ Left(i) = {}}'
                 = {i \in Decl : i \notin Range(out) /\ Left(i) = {}}
        BY <3>1, <3>3, Zenon
      <4>2. (\A l \in 1..Len(out) : \A n \in NeedsOf(out[l]) : \E k \in 1..Len(out) : k < l /\ out[k] = n)'
              <=> (\A l \in 1..Len(out) : \A n \in NeedsOf(out[l]) : \E k \in 1..Len(out) : k < l /\ out[k] = n)
        BY <3>1, SMTT(30) DEF NeedsOf, byName
      <4> QED BY <3>1, <3>2, <4>1, <4>2, ZenonT(40) DEF TopoInv
    <3>5. LoopInv' <=> LoopInv
      <4>1. Skips' = Skips /\ \A i : Waits(i)' <=> Waits(i)
        BY <3>1, <3>2, Zenon DEF Skips, SkipClosed, Pending, Waits
      <4> QED BY <3>1, <3>2, <4>1, Zenon DEF LoopInv
    <3>6. AcceptsExactlyDags' <=> AcceptsExactlyDags
      <4> DEFINE After == \A i \in Decl : \A n \in NeedsOf(i) :
                            \E k, l \in Decl : k < l /\ out[k] = n /\ out[l] = i
                 Accepts == /\ phase = "refused" => ~(Valid /\ Acyclic)
                            /\ phase = "accepted" => Valid /\ Acyclic /\ Len(out) = NumJobs /\ After
      <4>1. After' <=> After
        BY <3>1, <3>2, SMT DEF Decl
      <4>2. (AcceptsExactlyDags <=> Accepts) /\ (AcceptsExactlyDags <=> Accepts)'
        BY Zenon DEF AcceptsExactlyDags, Valid, Acyclic
      <4>3. Acyclic' <=> Acyclic
        BY <3>1, SameDoc, Zenon
      <4> HIDE DEF After
      <4> QED BY <3>1, <3>2, <4>1, <4>2, <4>3
    <3> QED BY <3>1, <3>2, <3>4, <3>5, <3>6, Zenon DEF PipelineInv
  <2> QED BY <2>1, <2>2, <2>3, <2>4, <2>5, Zenon DEF PipelineNext
<1> QED BY <1>1, <1>2, PTL DEF PipelineSpec

\* finalize and topo accept exactly the documents that are sound and without a cycle,
\* and the order found has every job after its needs.
THEOREM AlwaysAcceptsExactlyDags == PipelineSpec => []AcceptsExactlyDags
<1>1. PipelineInv => AcceptsExactlyDags
  BY Zenon DEF PipelineInv
<1> QED BY <1>1, PipelineInvariance, PTL

\* The loop of advance ends at the least set of skips.
LEMMA SettledIsLeast == ASSUME PipelineInv, phase = "settled" PROVE AdvanceIsLeast
<1> DEFINE S0 == {i \in Pending : st[i] = "skipped"}
<1>1. /\ LoopInv /\ DocInv /\ Valid /\ \A i \in Decl : NeedsOf(i) \subseteq Decl
  BY NeedsAreJobs, Zenon DEF PipelineInv
<1>2. /\ start \in [Decl -> States] /\ st \in [Decl -> States]
      /\ \A i \in Decl :
           \/ st[i] = start[i]
           \/ start[i] = "pending" /\ st[i] = "skipped" /\ i \in Skips
           \/ start[i] = "pending" /\ st[i] = "queued" /\ \A n \in NeedsOf(i) : start[n] = "succeeded"
  BY <1>1, Zenon DEF LoopInv
<1>3. \A i \in Decl : st[i] = "pending" => Waits(i)
  <2>1. \A i \in Decl : i < at
    BY <1>1, Sizes DEF LoopInv, Decl
  <2> QED BY <1>1, <2>1, Zenon DEF LoopInv
<1>4. SkipClosed(S0)
  <2> SUFFICES ASSUME NEW i \in Pending, NEW n \in NeedsOf(i), start[n] \in Dead \/ n \in S0
               PROVE  i \in S0
    BY Zenon DEF SkipClosed
  <2>1. i \in Decl /\ n \in Decl /\ start[i] = "pending"
    BY <1>1, Zenon DEF Pending
  <2>2. st[n] \in Dead /\ start[n] # "succeeded"
    BY <1>2, <2>1, Zenon DEF Dead, Pending
  <2>3. st[i] # "pending"
    BY <1>3, <2>1, <2>2, Zenon DEF Waits
  <2> QED BY <1>2, <2>1, <2>2, <2>3, Zenon
<1>5. Skips = S0
  <2>1. Skips \subseteq S0
    BY <1>4, Zenon DEF Skips
  <2>2. ASSUME NEW i \in S0 PROVE i \in Skips
    BY <1>2, Zenon DEF Pending
  <2> HIDE DEF S0
  <2> QED BY <2>1, <2>2, Zenon
<1> DEFINE Goal(i) == IF i \in Skips THEN "skipped"
                      ELSE IF i \in Pending /\ \A n \in NeedsOf(i) : start[n] = "succeeded" THEN "queued"
                      ELSE start[i]
<1>6. ASSUME NEW i \in Decl PROVE st[i] = Goal(i)
  <2>1. CASE i \in Skips
    BY <1>5, <2>1, Zenon
  <2>2. CASE i \notin Skips /\ i \in Pending /\ \A n \in NeedsOf(i) : start[n] = "succeeded"
    <3>1. \A n \in NeedsOf(i) : st[n] = "succeeded"
      BY <1>1, <1>2, <2>2
    <3>2. st[i] # "pending"
      BY <1>3, <3>1, Zenon DEF Waits
    <3>3. st[i] = "queued"
      BY <1>2, <2>2, <3>2, Zenon DEF Pending
    <3> QED BY <2>2, <3>3, Zenon
  <2>3. CASE i \notin Skips /\ ~(i \in Pending /\ \A n \in NeedsOf(i) : start[n] = "succeeded")
    <3>1. st[i] = start[i]
      BY <1>2, <2>3, Zenon DEF Pending
    <3> QED BY <2>3, <3>1
  <2> QED BY <2>1, <2>2, <2>3, Zenon
<1>7. st = [i \in Decl |-> Goal(i)]
  <2> HIDE DEF Goal
  <2> QED BY <1>2, <1>6, Zenon
<1> QED BY <1>7, Zenon DEF AdvanceIsLeast, Skips, SkipClosed, Pending

\* Wherever the loop of advance ends, the jobs it skipped are the least set there is,
\* and it queued exactly the jobs whose needs had all succeeded.
THEOREM AlwaysAdvanceIsLeast == PipelineSpec => []AdvanceIsLeast
<1>1. PipelineInv => AdvanceIsLeast
  BY SettledIsLeast, Zenon DEF AdvanceIsLeast
<1> QED BY <1>1, PipelineInvariance, PTL
=============================================================================

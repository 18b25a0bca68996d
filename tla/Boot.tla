-------------------------------- MODULE Boot --------------------------------
(***************************************************************************)
(* Server processes on one database file: opening and migrating it,        *)
(* serving, and shutting down.  Two may be under way at once, as when a    *)
(* new version replaces an old one, and their binaries may know different  *)
(* migrations.  A process may die at any time.  When the power fails, all  *)
(* do, and the last commits that no checkpoint has synced are lost (WAL    *)
(* with synchronous = NORMAL).                                             *)
(***************************************************************************)
EXTENDS Naturals, Sequences

CONSTANTS
  Servers,  \* processes
  Known,    \* number of migrations the binary of a process has
  MaxReqs,  \* bound: requests in progress in a process
  None

ASSUME BootAssumption ==
  /\ Known \in [Servers -> Nat]
  /\ MaxReqs \in Nat /\ None \notin Servers

VARIABLES
  commits,  \* migrations applied, in the order of their commits
  synced,   \* how many of them no power failure can undo
  lock,     \* the process in a transaction on the file
  pc,       \* where a process is
  next,     \* the migration it is at
  found,    \* has its transaction found that one recorded
  monitor,  \* "off", "on", "tick"
  reqs,     \* requests in progress
  opened,   \* is its store open
  cut       \* history: requests were not waited for

disk == <<commits, synced, lock>>
bootVars == <<disk, pc, next, found, monitor, reqs, opened, cut>>

Recorded(v) == \E i \in DOMAIN commits : commits[i] = v

BootTypeOK ==
  /\ commits \in Seq(Nat) /\ synced \in 0..Len(commits) /\ lock \in Servers \cup {None}
  /\ pc \in [Servers -> {"down", "migrate", "tx", "artifacts", "listen", "serve", "drain",
                         "monitor", "listener", "store", "closed"}]
  /\ next \in [Servers -> Nat] /\ found \in [Servers -> BOOLEAN]
  /\ monitor \in [Servers -> {"off", "on", "tick"}]
  /\ reqs \in [Servers -> 0..MaxReqs]
  /\ opened \in [Servers -> BOOLEAN] /\ cut \in [Servers -> BOOLEAN]

BootInit ==
  /\ commits = <<>> /\ synced = 0 /\ lock = None
  /\ pc = [s \in Servers |-> "down"]
  /\ next = [s \in Servers |-> 1]
  /\ found = [s \in Servers |-> FALSE]
  /\ monitor = [s \in Servers |-> "off"]
  /\ reqs = [s \in Servers |-> 0]
  /\ opened = [s \in Servers |-> FALSE]
  /\ cut = [s \in Servers |-> FALSE]
-----------------------------------------------------------------------------
(***************************************************************************)
(* Open and migrate.                                                       *)
(***************************************************************************)
OpenStore(s) ==
  /\ pc[s] = "down"
  /\ pc' = [pc EXCEPT ![s] = "migrate"]
  /\ next' = [next EXCEPT ![s] = 1]
  /\ opened' = [opened EXCEPT ![s] = TRUE]
  /\ cut' = [cut EXCEPT ![s] = FALSE]
  /\ UNCHANGED <<disk, found, monitor, reqs>>

\* Wrong form for the mutation runs: a transaction starts without the write lock.
MayBeginDeferred(s) == TRUE

\* BEGIN IMMEDIATE succeeds.
MayBegin(s) == lock = None

\* A migration's transaction begins, and looks whether it is recorded.
migrateBegin(s) ==
  /\ pc[s] = "migrate" /\ next[s] <= Known[s] /\ MayBegin(s)
  /\ lock' = s
  /\ found' = [found EXCEPT ![s] = Recorded(next[s])]
  /\ pc' = [pc EXCEPT ![s] = "tx"]
  /\ UNCHANGED <<commits, synced, next, monitor, reqs, opened, cut>>

\* If it is not, its statements and its row are committed together.
migrateCommit(s) ==
  /\ pc[s] = "tx"
  /\ commits' = IF found[s] THEN commits ELSE Append(commits, next[s])
  /\ lock' = None
  /\ next' = [next EXCEPT ![s] = @ + 1]
  /\ pc' = [pc EXCEPT ![s] = "migrate"]
  /\ UNCHANGED <<synced, found, monitor, reqs, opened, cut>>

migrated(s) ==
  /\ pc[s] = "migrate" /\ next[s] > Known[s]
  /\ pc' = [pc EXCEPT ![s] = "artifacts"]
  /\ UNCHANGED <<disk, next, found, monitor, reqs, opened, cut>>

\* SQLite copies the log into the file and syncs it.
Checkpoint ==
  /\ synced < Len(commits)
  /\ synced' = Len(commits)
  /\ UNCHANGED <<commits, lock, pc, next, found, monitor, reqs, opened, cut>>
-----------------------------------------------------------------------------
(***************************************************************************)
(* run and serve.  One process at a time can listen.                       *)
(***************************************************************************)
openArtifacts(s) ==
  /\ pc[s] = "artifacts"
  /\ pc' = [pc EXCEPT ![s] = "listen"]
  /\ UNCHANGED <<disk, next, found, monitor, reqs, opened, cut>>

Listen(s) ==
  /\ pc[s] = "listen"
  /\ \A t \in Servers : pc[t] # "serve"
  /\ pc' = [pc EXCEPT ![s] = "serve"]
  /\ monitor' = [monitor EXCEPT ![s] = "on"]
  /\ UNCHANGED <<disk, next, found, reqs, opened, cut>>

\* An error on the way (a busy database, an unreachable store, a port in use, or a
\* signal) ends the process; its transaction is rolled back.
StartFails(s) ==
  /\ pc[s] \in {"migrate", "tx", "artifacts", "listen"}
  /\ pc' = [pc EXCEPT ![s] = "down"]
  /\ opened' = [opened EXCEPT ![s] = FALSE]
  /\ lock' = IF lock = s THEN None ELSE lock
  /\ UNCHANGED <<commits, synced, next, found, monitor, reqs, cut>>

Request(s) ==
  /\ \/ /\ pc[s] = "serve" /\ reqs[s] < MaxReqs
        /\ reqs' = [reqs EXCEPT ![s] = @ + 1]
     \/ reqs[s] > 0 /\ reqs' = [reqs EXCEPT ![s] = @ - 1]
  /\ UNCHANGED <<disk, pc, next, found, monitor, opened, cut>>

\* A tick of the monitor starts; it ends.
Tick(s) ==
  /\ \/ monitor[s] = "on" /\ monitor' = [monitor EXCEPT ![s] = "tick"]
     \/ monitor[s] = "tick" /\ monitor' = [monitor EXCEPT ![s] = "on"]
  /\ UNCHANGED <<disk, pc, next, found, reqs, opened, cut>>

\* The context is done: by the signal, or by the deferred stop().
Stopped(s) == pc[s] \in {"drain", "monitor", "listener", "store", "closed"}

RunMonitorReturns(s) ==
  /\ monitor[s] = "on" /\ Stopped(s)
  /\ monitor' = [monitor EXCEPT ![s] = "off"]
  /\ UNCHANGED <<disk, pc, next, found, reqs, opened, cut>>

\* Wrong form for the mutation runs: the store is closed before the monitor has
\* been waited for.
DeferredStoreFirst == <<"store", "monitor", "listener">>

\* What run has deferred, in the order it happens.
Deferred == <<"monitor", "listener", "store">>

NextDeferred(x) ==
  LET i == CHOOSE k \in 1..3 : Deferred[k] = x IN IF i = 3 THEN "closed" ELSE Deferred[i + 1]

Signal(s) ==
  /\ pc[s] = "serve"
  /\ pc' = [pc EXCEPT ![s] = "drain"]
  /\ UNCHANGED <<disk, next, found, monitor, reqs, opened, cut>>

\* Wrong form for the mutation runs: Shutdown has no deadline.
DrainsForEver(s) == reqs[s] = 0

\* May Shutdown return: when the requests are done, or its time is up, that is,
\* at any time.
Drains(s) == TRUE

\* The requests that Shutdown did not wait for are cut off, as they are when Serve
\* itself has failed.
serveReturns(s) ==
  /\ pc[s] = "serve" \/ (pc[s] = "drain" /\ Drains(s))
  /\ pc' = [pc EXCEPT ![s] = Deferred[1]]
  /\ cut' = [cut EXCEPT ![s] = reqs[s] > 0]
  /\ UNCHANGED <<disk, next, found, monitor, reqs, opened>>

\* stop(); <-monDone, then ln.Close(), then st.Close().
runReturns(s) ==
  /\ pc[s] \in {"monitor", "listener", "store"}
  /\ pc[s] = "monitor" => monitor[s] = "off"
  /\ opened' = [opened EXCEPT ![s] = @ /\ pc[s] # "store"]
  /\ pc' = [pc EXCEPT ![s] = NextDeferred(@)]
  /\ UNCHANGED <<disk, next, found, monitor, reqs, cut>>

Down(S) ==
  /\ pc' = [s \in Servers |-> IF s \in S THEN "down" ELSE pc[s]]
  /\ monitor' = [s \in Servers |-> IF s \in S THEN "off" ELSE monitor[s]]
  /\ reqs' = [s \in Servers |-> IF s \in S THEN 0 ELSE reqs[s]]
  /\ opened' = [s \in Servers |-> opened[s] /\ s \notin S]
  /\ lock' = IF lock \in S THEN None ELSE lock
  /\ UNCHANGED <<next, found, cut>>

Exit(s) == pc[s] = "closed" /\ Down({s}) /\ UNCHANGED <<commits, synced>>

Die(s) == pc[s] # "down" /\ Down({s}) /\ UNCHANGED <<commits, synced>>

PowerFails ==
  /\ Down(Servers)
  /\ \E k \in synced..Len(commits) : commits' = SubSeq(commits, 1, k)
  /\ UNCHANGED synced

BootNext ==
  \/ \E s \in Servers :
       \/ OpenStore(s) \/ migrateBegin(s) \/ migrateCommit(s) \/ migrated(s) \/ openArtifacts(s) \/ Listen(s)
       \/ StartFails(s) \/ Request(s) \/ Tick(s) \/ RunMonitorReturns(s) \/ Signal(s) \/ serveReturns(s)
       \/ runReturns(s) \/ Exit(s) \/ Die(s)
  \/ Checkpoint
  \/ PowerFails

\* The shutdown timeout fires, deferred calls run, and a tick ends; a monitor that
\* can return and can tick does not choose the tick for ever.  Requests may hang.
BootFairness ==
  \A s \in Servers :
    /\ WF_bootVars(serveReturns(s) /\ pc[s] = "drain")
    /\ WF_bootVars(runReturns(s)) /\ WF_bootVars(Exit(s)) /\ WF_bootVars(Tick(s))
    /\ SF_bootVars(RunMonitorReturns(s))

BootSpec == BootInit /\ [][BootNext]_bootVars /\ BootFairness
-----------------------------------------------------------------------------
(***************************************************************************)
(* Properties.                                                             *)
(***************************************************************************)
\* The database holds the first migrations, each applied once and in order,
\* whichever processes start at the same time, die, or lose power in the middle;
\* and a process that serves has all it knows.
SchemaWhole ==
  /\ commits = [i \in 1..Len(commits) |-> i]
  /\ \A s \in Servers : pc[s] = "serve" => Known[s] <= Len(commits)

\* The store is closed last: the monitor has returned, and no request is left in
\* progress except those the shutdown timeout (or a failed listener) cut off.
StoreOutlivesUsers ==
  \A s \in Servers :
    ~opened[s] => monitor[s] = "off" /\ (reqs[s] > 0 => cut[s])

\* A signal ends the process, even if a request hangs.
ShutdownEnds == \A s \in Servers : pc[s] = "drain" ~> pc[s] = "down"
-----------------------------------------------------------------------------
(***************************************************************************)
(* The inductive invariant.                                                *)
(***************************************************************************)
\* A transaction holds the lock and has looked at the migrations that are there; a
\* process has seen to all the migrations before the one it is at.
TxInv ==
  \A s \in Servers :
    /\ pc[s] = "tx" => lock = s /\ next[s] \in 1..Known[s] /\ (found[s] <=> next[s] <= Len(commits))
    /\ pc[s] \in {"migrate", "tx"} => next[s] \in 1..Len(commits) + 1
    /\ pc[s] \notin {"down", "migrate", "tx"} => Known[s] <= Len(commits)

\* From when it is opened until it is closed the store is open, and only meanwhile
\* is there a monitor or, before the shutdown gives up on it, a request.
UseInv ==
  \A s \in Servers :
    /\ opened[s] <=> pc[s] \notin {"down", "closed"}
    /\ monitor[s] # "off" => pc[s] \in {"serve", "drain", "monitor"}
    /\ reqs[s] > 0 => \/ pc[s] \in {"serve", "drain"}
                      \/ pc[s] \in {"monitor", "listener", "store", "closed"} /\ cut[s]

BootInv ==
  /\ BootTypeOK /\ TxInv /\ UseInv
  /\ commits = [i \in 1..Len(commits) |-> i]
=============================================================================

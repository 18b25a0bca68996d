# A verification of Quarry in TLA+

Quarry is a small distributed CI system: a control plane (HTTP API, scheduler,
one SQLite file), runners that poll it for jobs and execute them in containers,
and a command line. This directory holds TLA+ models of its parts, TLC
configurations that check them on small instances, and TLAPS proofs that hold
for every instance. Paths below are relative to the repository.

## 1. The system

| part | code | modelled by |
|---|---|---|
| pipeline validation | `internal/pipeline/pipeline.go` | `Pipeline` |
| job graph advancement | `internal/scheduler/scheduler.go` (`advance`) | `Dag`; its loop in `Pipeline` |
| scheduler transactions | `internal/scheduler/scheduler.go`, `monitor.go`, `internal/api/submit.go`, `runner.go` | `Scheduler`, implementing `Lifecycle` |
| runner agent | `internal/agent/agent.go`, `client.go` | `Cluster`, built on `Lifecycle` |
| docker executor and reaper | `internal/executor/docker`, `cmd/runner/main.go` | `Docker` |
| artifact upload | `internal/api/artifacts.go`, `internal/agent` | `Artifacts` |
| artifact stores | `internal/artifact/local`, `remote` | `ObjectStore`, implementing `BlobStore` |
| log shipping and ingestion | `internal/logship`, `internal/scheduler/logs.go` | `LogShip`, implementing `LogTable` |
| log follower | `internal/cli/cli.go` (`logs -f`), `internal/api/logs.go` | `LogFollow`, built on `LogTable` |
| other commands, API reads, submission | `internal/cli/cli.go`, `client.go`, `internal/api/api.go` | `Client` |
| server process, migrations | `cmd/server/main.go`, `internal/store/store.go`, `migrate.go` | `Boot` |

How the parts meet. A submission stores the source bundle, validates the
pipeline and creates a run with its jobs; roots are queued. A runner claims the
oldest queued job its labels allow and gets an attempt number and a lease. It
extends the lease by heartbeats, whose reply may tell it to cancel or abort,
ships logs and artifacts while it executes, and reports a result. Every write of
a runner is fenced: the job must be running and the attempt must be the current
one. A monitor takes back expired leases, asks for the cancellation of overdue
jobs and marks silent runners offline. Whatever ends an attempt also advances
the run's graph in the same transaction. The server keeps nothing in memory but
the end of its start-up grace.

Three abstract specifications hold the models together. `Lifecycle` is what the
scheduler promises about a job's row and all that `Cluster` assumes of it;
`LogTable` is what log ingestion promises and all that `LogFollow` assumes;
`BlobStore` is what `artifact.Store` promises, and `Artifacts` and `Client` assume
no more of an object store: a put is there as a whole or not at all, a put or a
delete that reports an error may have taken effect, and a request of it that was
given up or repeated may take effect later (`late`, `Leave` and `Arrive` in both).

## 2. The modules

**`Pipeline`** runs the two graph algorithms step by step on every small
document: `finalize` and `topo`, one job leaving the ready list per step, and
then the loop of `advance`, one job per step, from every combination of job
states that can occur. It justifies `DagAssumption` and the closed form below.

**`Dag`** (pure). Runs, jobs, `RunOf` and `Needs` are constants, constrained by
`DagAssumption`. `advance(st, r)` maps job states to job states: it skips the
least set of pending jobs closed under "a need failed, was cancelled, skipped or
is in the set", and queues those whose needs succeeded. `finalize` gives the
run's state.

**`Scheduler`** (extends `Dag`). One variable per column that decides anything,
one action per transaction: `submitRun`, `Register`, `Claim`, `ClaimNone`,
`Heartbeat`, `Complete`, `CancelRun`, `Tick`, and `Restart` and `Pass` for the
server and the clock. Each is atomic because the code runs each in one
`BEGIN IMMEDIATE` transaction on a single connection. The environment is the
most general one: any runner may send any legal request at any time. A refused
request changes no row and is a stuttering step. `bootAt` and `contact` are
history variables for the properties.

**`Lifecycle`** is the control plane without time, leases and graph: the moves
open to a job's row. **`SchedulerLifecycle`** states that `Scheduler` implements
it; the mapping forgets clock, leases and queue positions and calls a job whose
run does not exist yet "waiting", like one that waits for its needs.

**`Cluster`** (extends `Lifecycle`) is the runner process: `Register`, the poll
loop (`claim`), the heartbeat loop (`heartbeat`, `apply`), one goroutine per
attempt from `start` over `execReturns`, `uploadFails` and `fixVerdict` to
`completeWithRetry`, and the shutdown sequence of `Agent.Run`. A request is
handled when it is sent and its reply comes later or never; or it is lost; or it
is handled after its sender has given up (`late`, `Deliver`). Crashes, signals,
losses and 5xx replies count against `MaxFaults`.

**`Docker`** is `Executor.Run` as its sequence of daemon calls. A call takes
effect or not and its reply says so or not, and the process may die anywhere. A
deferred function is pushed on a stack and `unwind` runs the stack. The
demultiplexer is a goroutine of its own, the source bundle is spooled with
retries (`fetch`), and `Reap` runs at the start of every process. History
variables record what the environment did: `faulty` (a removal refused, a
creation denied that took place), `orphaned` (the process died), `broken` (the
server's store failed inside a bundle), `overlap` (two live processes of one
name).

**`Artifacts`**. One job, several attempts, each with a runner that sends its
files one after the other and resends what is not answered. The handler on the
server has one step per access to the disk or the database (`Check`, `Put`,
`Record`, `discard`), because those do interleave. `Crash` kills all handlers.
`Put` and `discard` may fail after the store has done what was asked, and may leave
a request under way that `Arrive` lets take effect at any later step. `orphans`
remembers the keys on which the server died or the store failed (a failed `Put` is
answered with 500 and cleans nothing up). `overlaid` remembers the attempts that
sent a file again while the server, or a delete it had given up, was still at work
on the delivery before, which the client's timeout makes possible.

**`BlobStore`** and **`ObjectStore`**. The local store writes a temp file and
renames it; the remote one spools, sends requests with retries, deletes by HEAD
and DELETE and lists page by page. Both are the same module, told apart by the
variable `backend`, chosen in `Init`. A remote request that got no answer may
arrive once more at any later time; `BlobStore` says so (`Escape`, `Arrive`)
instead of pretending that calls are atomic.

**`LogTable`**: the log of an attempt grows at its end and only while the attempt
runs. **`LogShip`** is the shipper of each attempt, a network and `AppendLogs`;
the mapping takes a stored log to the set of its seqs. Output is a sequence of
numbered blocks, 0 being the note about dropped output. The history variable
`whole` keeps what each stored chunk held when it was sent. **`LogFollow`** adds the
follower to `LogTable`, so its properties hold for the logs the shipper writes.

**`Client`** is one command (`run`, `run --wait`, `events -f`,
`artifacts --download`, `cancel`) and the handlers it calls, while the run moves
on (`Evolve`) and the server may die. A GET of a run is two reads; a submission
that got no answer is sent again under a new id. A command may end with an error
wherever it is (`GiveUp`: a call that is not retried, the last retry, an interrupt).
`faulted` remembers the submissions in which the server died, a delete failed or a
put was repeated over one still under way.

**`Boot`** is the life of server processes on one database file: opening,
migrating one transaction per migration, the artifact store, listening, requests
and the monitor, the signal, the drain with its timeout, deferred calls, exit.
`PowerFails` takes back commits after the last checkpoint, which
`synchronous(NORMAL)` in WAL mode allows.

The theorems stand in modules that extend the components they are about:
**`SchedulerProofs`**, **`ClusterProofs`**, **`DockerProofs`**,
**`ObjectStoreProofs`**, **`LogShipProofs`** (on the lemmas of
**`LogShipLemmas`**), **`CliProofs`** (`Client` and `LogFollow`) and
**`ServerProofs`** (`Boot`, `Artifacts` and `Pipeline`); see section 4. The inductive
invariant is called `IInv` and is the last definition of the component's own module.
Where components share a proof module the names say whose they are: `BootInv` and
`BootSpec`, `ShipInv` and `ShipSpec`, `FollowInv` (in `CliProofs`) and `FollowSpec`,
`PipelineInv` (in `ServerProofs`) and `PipelineSpec`.

Wrong forms of a definition, used to see that a property can fail, stand just
before it (`BadNeedsRepeat` before `BadNeeds`, and so on).

### What is abstracted

* Time in `Scheduler` is one clock that never goes back and does not move inside
  a transaction. The code reads `store.Now()` several times in a transaction
  and trusts the wall clock. No other module has a clock: timers may fire at any
  time, and backoffs may be of any length.
* Audit events are left out, except `run.cancel_requested`, which `CancelRun`
  reads, `job.logs_truncated`, and their number in `Client`.
* Error texts, metrics, JSON and HTTP statuses are left out, except where a
  client decides by them.
* In `Cluster` the leases of `Scheduler` become `Lose`: possible at any time,
  certain once nobody renews the lease.
* A batch of logs is refused with a 4xx from some moment on or never
  (`refusing`): the causes are the runner's token or the job's id, not the batch.
* A file in `ObjectStore` is the number of blocks written; in `Client` two blocks
  that tell the attempt, and so does its checksum.
* `Client` follows one command; what others do is in `Evolve`.

## 3. The runs

| run | instance | states | checks |
|---|---|---|---|
| `leases` | 1 job, 2 runners, 2 attempts, clock to 5, TTL 1, downtime to 2 | 211,000 | `TimeoutIsNotCancel`, `CancelledAttemptIsLast`, `FinalIsFinal`, `LostOnlyAfterSilence`, `TickIdempotent` |
| `dag` | a diamond of 4 jobs, 1 runner, 2 attempts, clock to 2 | 324,000 | `RunFollowsJobs`, `NoStrandedRun`, `CancelReachesAll`, `ImplementsLifecycle` |
| `cluster` | 1 runner, 1 job, 2 attempts, 2 faults | 257,000 | `ExecutedOnce`, `ForgottenIsOver`, `VerdictTruthful`, `JobEnds`, `SupersededStops` |
| `docker` | 1 attempt, 3 processes of 2 names, a bundle of 2 blocks, 2 tries | 420,000 | `RemainsExplained`, `ResultIsTheJobs`, `RanWhole`, `CtxEndsRun` |
| `artifacts` | 2 attempts, 2 files, 3 deliveries, 1 late store request | 1,045,000 | `SucceededIsRecorded`, `NoLeakedObject`, `SerialHasBytes`, `RecordFrozen` |
| `blobs` | 3 callers, 1 key, 2 tries | 109,000 | `TempsExplained`, `KeepsPromise` |
| `logship` | 2 attempts, 4 blocks, buffer 1, cap 2, 3 requests | 848,000 | `NoSilentGap`, `NilMeansStored`, `CapNotedOnce`, `ImplementsTable` |
| `logfollow` | 2 attempts, 3 chunks each | 15,600 | `PrintedInOrder`, `FollowedToTheEnd`, `FollowEnds` |
| `client` | 2 submissions, 2 attempts, 5 events, 2 broken downloads, 2 late store requests | 438,000 | `ExitTruthful`, `EventsInFull`, `FileIsListed`, `NoStraySource` |
| `boot` | an old and a new server, 3 migrations, 2 requests | 44,000 | `SchemaWhole`, `StoreOutlivesUsers`, `ShutdownEnds` |
| `pipeline` | all documents of 3 jobs with up to 2 needs, names repeated or empty | 385,000 | `AcceptsExactlyDags`, `AdvanceIsLeast` |

The bounds let the interesting cases happen.

* `leases`: a job can be claimed, lost, claimed again, overtaken by its timeout
  and a user's cancel, across restarts; with a TTL of 1, five clock steps cover
  two expiries and a grace. `dag`: a fork, a join with two needs and a skip two
  levels deep.
* `cluster`: two faults are a lost claim and a crash, or a lost report and its
  late arrival in the next attempt. Once, while the model was developed, safety
  was also checked with two runners, and safety and liveness with a capacity of
  two, with one fault each; the configuration kept is the one with more faults.
* `docker`: a runner dies and is started again, before or after its first
  process has ended, beside a runner of another name.
* `artifacts`: a lost reply, an overlapping resend and a second attempt, and a
  put or a delete of a file that is still under way while a later delivery is
  handled. With one attempt and two requests under way, a put and a delete of one
  file, `NoLeakedObject` and `SerialHasBytes` were checked once during development.
  `blobs`: a late copy of one call meets the calls of two others.
* `logship`: the buffer overflows, drains and overflows again, the cap cuts a
  chunk in the middle and the next one to nothing, and two attempts share the
  requests. `MaxOut` and `MaxSends` are totals
  over the attempts.
* `client`: a submission without an answer is still at work, or its put or delete
  under way, during the second.
  `boot`: both servers migrate at once, and one of them lacks a migration.
* `pipeline`: three jobs have chains, forks, joins and cycles of length 2 and 3.

Symmetry is used for interchangeable runners, callers and run ids, in runs
without liveness properties. `artifacts` has a view (`Seen` in `MCArtifacts`) that
leaves out answered deliveries nobody waits for and the fields of a runner that no
later step reads; no action and no property of the run depends on them, and the
run without it, 3,142,000 states, has the same result. Deadlock is not checked: every model ends when its
bounds are used up, and a job, a log and a command end too; what must not stop
early is stated as liveness.

`Scheduler`, `Cluster`, `Docker`, `Artifacts`, `ObjectStore`, `LogShip`,
`LogFollow`, `Client` and `Boot` have a type invariant (`TypeOK`, `ShipTypeOK`,
`FollowTypeOK`, `BootTypeOK`). TLC finds each to hold on the instance above; they
document the state, are part of what is proved, and are not among the properties of the runs.

### Counterexamples

The run `artifacts_overlap` ends in one: a runner's upload times out and is
resent while the server still handles the first copy; the second copy records
its row and the job succeeds; the first copy then fails its transaction and
discards the object, which is the same one. `docs/protocol.md` says "a job never
succeeds with artifacts missing". `SerialHasBytes` says that without such an
overlap, by a handler or by a delete that it left under way, it is so.

Three more configurations end in a counterexample and are kept for the record:

| configuration | what TLC finds |
|---|---|
| `MCLabels.cfg` (`MCScheduler`) | a job that requires `k: ""` goes to a runner without `k` (`labelsSubset` reads a missing key as ""), though the comment says "present" |
| `MCArtifactsRow.cfg` (`Artifacts`) | a redelivery that loses the fence at its row discards the object whose row the first delivery wrote; `docs/protocol.md` says "The row exists only once the bytes do, never the other way round" |
| `MCLogWrite.cfg` (`LogShip`) | `Write` returns a short count when the buffer is nearly full; its comment says it "always reports p as written" |

Seen while modelling, without a run: `topo` takes the ready job with the lowest
index, which is not quite "Independent jobs keep their declaration order"
(`pipeline.go`): of `a` (needs `c`), `b`, `c` it makes `b`, `c`, `a`. Its list of
stuck jobs holds the jobs behind a cycle too.

Exceptions the properties name, because the code behaves so: a source bundle cut
short by the server's own store looks complete to the runner (`broken` in
`RanWhole`); two live runners of one name reap each other's containers
(`overlap`); an object or a bundle stays behind when the server dies on it, when the
store fails, or when a copy of its put arrives after it was deleted (`orphans` in
`NoLeakedObject`, `faulted` in `NoStraySource`); requests that outlast the shutdown
timeout lose their store (`cut` in `StoreOutlivesUsers`, whose half about requests
follows from how `cut` is set; the half about the monitor is the one that can fail).

### Fairness

* `LogFollow`: the follower's own steps. Its loop has no other wait than a sleep,
  and requests that fail for the moment are repeated. Nothing of the job.
* `Cluster`: the loops and goroutines run, a stopped process ends and is started
  again, the monitor finds overdue jobs and leases nobody renews. Nothing of the
  job, of its own timeout, or of late requests. An execution returns once its
  context has ended: that is `CtxEndsRun`.
* `Docker`: the goroutines of a live process run and the daemon's calls return.
  The container may run for ever, and a kill may fail.
* `Boot`: the shutdown timeout fires, deferred calls run, a tick ends, and the
  monitor's `select`, when both the context and the ticker are ready, does not
  choose the ticker for ever (strong fairness; Go chooses at random). Requests
  may hang.

## 4. The proofs

Every theorem holds for every value of the constants: any graph, any number of
runners, jobs, attempts, files, clients, servers, documents, blocks of output, any
limit. The named properties of a component follow from an inductive invariant that
contains its type invariant, with one lemma per action. TLC found each of these
invariants to hold on the instance of section 3 before it was proved.

| module | proved of every behaviour |
|---|---|
| `SchedulerProofs` | `NeedsRespected`, `AttemptsBounded`, `RunFollowsJobs`, `NoStrandedRun`, `CancelReachesAll`, `TimeoutIsNotCancel`; `FinalIsFinal`, `CancelledAttemptIsLast`, `LostOnlyAfterSilence`, `TickIdempotent`; `ImplementsLifecycle` |
| `ClusterProofs` | `ExecutedOnce`, `ForgottenIsOver`, `VerdictTruthful`; that no runner has more attempts than slots; that the composition drives the rows by `LifecycleSpec` |
| `DockerProofs` | `RemainsExplained`, `ResultIsTheJobs`, `RanWhole` |
| `ObjectStoreProofs` | `TempsExplained`, `KeepsPromise` (both stores implement `BlobStore`) |
| `CliProofs` | of `Client`: `ExitTruthful`, `EventsInFull`, `FileIsListed`, `NoStraySource`; of `LogFollow`: `PrintedInOrder`, `FollowedToTheEnd` |
| `LogShipProofs` | `NoSilentGap`, `NilMeansStored`, `CapNotedOnce`; `ImplementsTable` |
| `ServerProofs` | of `Artifacts`: `SucceededIsRecorded`, `NoLeakedObject`, `SerialHasBytes`, `RecordFrozen`; of `Pipeline`: `AcceptsExactlyDags`, `AdvanceIsLeast`; of `Boot`: `SchemaWhole`, `StoreOutlivesUsers` |

So every safety property of a run that TLC finds to hold is also a theorem.
`NeedsRespected`, `AttemptsBounded` and the inductive invariants are proved and not
part of a run. A leaf without arithmetic names its prover, `Zenon`, which keeps a
check from nothing short.

**Scheduler.** The lemmas first treat `Dag`: `advance` changes only pending
jobs, keeps needs respected and leaves nothing to do; in a settled run some job is
queued or running or all are over; behind every skipped job there is a failed or
cancelled one. Cycles are excluded by choosing, in any set of waiting jobs, one that
needs none of the set. `Settle` ends `Complete`, `CancelRun` and `Tick` alike, so
what it does has lemmas of its own; the lemmas per action follow. `IInv` joins
three groups of facts that need each other:

* `GraphInv`: runs against the states of their jobs, needs met, every run
  settled. Being settled is what makes `NoStrandedRun` follow.
* `JobInv`: the columns of a job against its state, above all that the lease of a
  running job is its last contact plus one TTL, and that a queued job has an
  attempt left and no cancel request. Without the last fact a claim could give
  a cancelled job an attempt.
* `CancelReachesAll` and `graceUntil = bootAt + TTL`.

The refinement of `Lifecycle` needs one more fact, `KindInv`: only a finished job
has a failure kind. Each transaction is shown to do to each job one of five things
(sweep, cancel, grant, ask to stop, end the attempt), and each of those to be a move
of `Lifecycle` under the mapping `Untimed`. That a final state stays and that a
stopped attempt is the last then follow from the moves alone.

**Cluster.** The invariant relates what somebody remembers of an attempt to the
job's row. Its core: every attempt number anyone holds has been issued; a goroutine,
a reply or a directive that belongs to the attempt the row is running belongs to
the runner in the row; an attempt in the reply to a claim has not started anywhere;
a report, also one given up and still under way, says what its goroutine saw; an
abort names an attempt that is over, and stays right because an attempt that is
over never runs again. `DrivesLifecycle` is the other half of the composition: with
`RefinesLifecycle`, the rows `Cluster` assumes are rows the scheduler makes.

**Docker.** Per attempt: the stack of deferred calls is a prefix of volume,
container, attach, and says what has been done (`DeferOK`); what exists is on that
stack, or explained by a history variable (`RemainOK`); the demultiplexer lives from
before the start until it is waited for (`StreamOK`); a started container found the
bundle in it (`JobOK`); a process claims only after it has reaped (`ClaimOK`). Per
pair of processes: without an overlap, live ones have different names, which is why
a reaper cannot end another's container.

**Artifacts.** `UploadInv` ties a waiting runner to the delivery of its current
file, `RecordInv` says that what it was told is recorded is, `ObjectInv` that an
object without a row is an orphan or in the hands of a handler. `SerialInv` is the
strengthening `SerialHasBytes` needs: without an early resend only the last delivery
can be in the server's hands, so no handler is left that could delete the object of
a file the runner has moved past. `LateInv` says the same of requests under way: a
late put can only bring back an orphan, and a late delete of an attempt that never
resent too early is all that is at work on its current file.

**ObjectStore.** `CallInv` says, for each kind of call and each place in it, what
the call has to show; `WholeInv` that only whole objects have a name; `RenameInv`
that a rename takes the temp file with it. The refinement maps a call to "taken
effect or not, with which result". The steps in which the code writes a file, gets
the coordinator's reply or reads a page map to the effect; all others stutter. For
the remote store a request without an answer maps to `Escape` and its arrival to
`Arrive`.

**Client.** What a command has read of a finished run stays true, since a run that
is over never changes (`CommandInv`); the cursor is the last event printed
(`CursorInv`); a run is created once, with its bundle and at the end of its
submission (`SubmitInv`). A request that arrives late is a put of a submission known
as faulted or a delete of one that ended without a run (`LateInv`), so it can neither
make a stray bundle unnoticed nor take the bundle of a run.

**Boot.** A transaction holds the lock and has looked at all that is committed, and a
process has seen to every migration before the one it is at (`TxInv`), also across
commits a power failure takes back; the store is open while it has users (`UseInv`).

**Pipeline.** `TopoInv` says where `topo` is: the order so far has every job once
and after its needs, and the counts and the ready set are about the jobs not in it.
A cycle is a set of jobs each of which needs one of the set. When every job is out,
the first of a set to go out shows that the set is no cycle; when `topo` is stuck,
the jobs that are left are one. `LoopInv` says that the loop of `advance` has skipped
only what every closed set contains, and that as long as a pass has changed nothing
there is nothing to do at the jobs it has come by; at the end of such a pass what was
skipped is closed, hence least. Together the two theorems justify `DagAssumption` and
the closed form of `advance` in `Dag` for documents of every size.

**LogFollow.** Only attempts that were claimed have a log (`TableInv`), the attempts a
follower asks for only go up (`ReadInv`), what is stored up to the cursor is what was
printed of the attempt (`PlaceInv`), and a job seen terminal is over, with the attempt
read after that its last (`EndInv`). The log only grows at its end, so no chunk can
appear behind the cursor.

**LogShip.** Once the buffer, the sealing, the batches, the network and the cap are
put together, the properties are far from inductive. `ShipInv` has four parts.

* `ShipperInv`: the pending chunks have the last numbers given and none is empty; a
  shipper is stale, or about to be told so, only if the turn of its attempt is over;
  a 204 waits for it only if the batch it sent is stored.
* `MeetInv`: what is not stored is pending, and, until the cap has cut something, the
  stored chunks followed by the pending ones and what is not sealed (`Stream`) are
  the output, block after block with one note in each gap (`Seamless`), up to the
  last block that was not dropped (`EndsWith`). `Stream` is what makes the proof go
  through: sealing, sending, resending, storing and acknowledging leave it as it is,
  and only `Write` extends it.
* `RowsInv`: the same of what is stored, with the cap and its one event. A prefix of
  a seamless stream is seamless, so a cut is harmless; once the event is there the
  log is full and every later chunk is stored empty.
* `WireInv`: a request, however late, holds chunks that are stored or still pending,
  and begins no later than just after what is stored. So a resend that has grown
  meanwhile and a copy that comes after its successor store what is missing and
  nothing else, and the rows stay an initial segment: `ImplementsTable`.

`CapNotedOnce` needs `CutsInv` besides, which is proved from `ShipInv`: the event is
there if and only if a stored chunk is shorter than `whole` has it. Over the chunks of
one batch the same equivalence holds between the flag `lost` and the rows the batch
has added (`Cutting`); a chunk that is stored already changes neither.

`Joined`, `append` and `AppendLogs` are recursive functions over a sequence. That such
a function exists and satisfies its equation, and what it computes, is shown by
choosing the least number at which it would not (`LeastNumber`, `UpTo`, `Recursion`).

The assumptions are those named in the modules, which TLC evaluates in the runs.
They say that limits are naturals, positive where the code has a positive default
or check, that `None` is no value of a column, and: that the graph of a run is
finite and acyclic (`DagAssumption`, what validation leaves, see `Pipeline`), that a
cluster has finitely many jobs (its capacity is a count), that a temp file has a name
no key has (`local.go`, `tmpPrefix`), and that a run has at least two events (its
creation and its end).

Only model-checked, and why:

* `JobEnds`, `SupersededStops`, `CtxEndsRun`, `ShutdownEnds`, `FollowEnds`: liveness
  under fairness is out of the prover's reach.
* `SucceededHasBytes` is false of the code (section 3).

The library's induction theorems take an operator as a parameter, which the installed
provers cannot instantiate. Induction is therefore done on sets of numbers, by their
least element, and recursion is written as functions, never as recursive operators.

## 5. Not modelled

* The fake executor: a test double; `Cluster` allows every outcome.
* Tar building, terminal output, flag and configuration parsing, YAML decoding,
  authentication, paging limits: formatting and I/O without state. The order in
  which jobs are shown (`render.go`) is `topo` written a second time.
* The per-job checks of images, steps, timeouts and resources: each looks at one
  value.
* Metrics: counters no decision reads.
* The text of a container's output: that closing the attach connection before
  its reader is waited for can lose the last lines is known and not followed.
* The test harness, benchmark, spike, recorder and example.

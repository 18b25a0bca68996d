------------------------------- MODULE Client -------------------------------
(***************************************************************************)
(* One command of the CLI against a server that lives on: run (with and    *)
(* without --wait), events -f, artifacts --download and cancel, with the   *)
(* handlers they call.  The client repeats a call whose answer does not    *)
(* come, so a call may happen more than once; the handler of a submission  *)
(* is several steps and may outlive its client's patience.  The artifact   *)
(* store keeps no more than its promise: a call that fails may have taken  *)
(* effect, and a request given up or repeated may arrive later.  Runs have *)
(* one job; the scheduler is reduced to what a client can see of it.       *)
(***************************************************************************)
EXTENDS Naturals, Sequences, FiniteSets

CONSTANTS
  Runs,         \* ids of runs; every submission mints a new one
  MaxClaims,    \* bound: claims of the job
  MaxEvents,    \* bound: events of a run
  MaxCuts,      \* bound: downloads that break off
  MaxLate       \* bound: requests to the artifact store under way at a time

ASSUME ClientAssumption ==
  /\ MaxClaims \in Nat \ {0} /\ MaxEvents \in Nat \ {0, 1} /\ MaxCuts \in Nat
  /\ MaxLate \in Nat

VARIABLES
  run,       \* per run: state, number of events, attempt, cancel request
  uploaded,  \* attempts of a run whose artifact is recorded
  source,    \* runs whose source bundle is stored
  post,      \* the handler of each submission
  late,      \* requests to the artifact store given up but still under way
  faulted,   \* history: submissions in which the server died or the store failed
  cli        \* the command

server == <<run, uploaded, source, post, late, faulted>>
vars == <<server, cli>>

Ended == {"succeeded", "failed", "cancelled"}
NoRun == [state |-> "none", events |-> 0, attempt |-> 0, asked |-> FALSE]
Submitted == [NoRun EXCEPT !.state = "running", !.events = 1]

\* The handler of a submission is at work.
Working == {"put", "parse", "create", "discard"}

States == {"none", "running"} \cup Ended
RunRows == [state : States, events : 0..MaxEvents, attempt : 0..MaxClaims, asked : BOOLEAN]
Places == {"submit", "posted", "run", "jobs", "events", "list", "get", "check", "cancel", "exit"}
Commands ==
  [cmd : {"run", "wait", "events", "artifacts", "cancel"}, run : Runs, attempt : 0..MaxClaims,
   at : Places, state : States, jobs : States, printed : Seq(Nat), after : Nat,
   row : Seq(Nat), spool : Seq(Nat), cuts : 0..MaxCuts, file : Seq(Nat), code : {0, 1}]

TypeOK ==
  /\ run \in [Runs -> RunRows]
  /\ uploaded \in [Runs -> SUBSET (1..MaxClaims)]
  /\ source \subseteq Runs /\ faulted \subseteq Runs
  /\ late \subseteq {"put", "delete"} \X Runs
  /\ post \in [Runs -> Working \cup {"none", "created", "refused", "dead"}]
  /\ cli \in Commands

\* A command starts; all but run name a run that is there.
Init ==
  \E cmd \in {"run", "wait", "events", "artifacts", "cancel"}, r \in Runs, attempt \in 0..MaxClaims :
    /\ run = [x \in Runs |-> IF x = r /\ cmd \notin {"run", "wait"} THEN Submitted ELSE NoRun]
    /\ uploaded = [x \in Runs |-> {}]
    /\ source = {x \in Runs : run[x] # NoRun}
    /\ post = [x \in Runs |-> "none"]
    /\ late = {} /\ faulted = {}
    /\ attempt > 0 => cmd = "artifacts"
    /\ cli = [cmd |-> cmd, run |-> r, attempt |-> attempt,
              at |-> CASE cmd \in {"run", "wait"} -> "submit" [] cmd = "events" -> "run"
                       [] cmd = "artifacts" -> "list" [] cmd = "cancel" -> "cancel",
              state |-> "none", jobs |-> "none", printed |-> <<>>, after |-> 0,
              row |-> <<>>, spool |-> <<>>, cuts |-> 0, file |-> <<>>, code |-> 0]

Set(r, x) == run' = [run EXCEPT ![r] = x]
Exit(code) == cli' = [cli EXCEPT !.at = "exit", !.code = code]
-----------------------------------------------------------------------------
(***************************************************************************)
(* The rest of the system: transactions of the scheduler, each with an     *)
(* event (a new attempt, a cancel request of somebody else, the end);      *)
(* run.finished is the last one of a run.  The server may die.             *)
(***************************************************************************)
Evolve(r) ==
  /\ run[r].state = "running"
  /\ \/ /\ run[r].events < MaxEvents - 1
        /\ \/ /\ run[r].attempt < MaxClaims
              /\ Set(r, [run[r] EXCEPT !.events = @ + 1, !.attempt = @ + 1])
           \/ /\ ~run[r].asked
              /\ Set(r, [run[r] EXCEPT !.events = @ + 1, !.asked = TRUE])
        /\ UNCHANGED uploaded
     \/ /\ uploaded' = [uploaded EXCEPT ![r] = @ \cup ({run[r].attempt} \ {0})]
        /\ UNCHANGED run
     \/ /\ \E s \in Ended : /\ s = "cancelled" => run[r].asked
                            /\ Set(r, [run[r] EXCEPT !.events = @ + 1, !.state = s])
        /\ UNCHANGED uploaded
  /\ UNCHANGED <<source, post, late, faulted, cli>>

\* What the handler of a submission asks of the artifact store: the request that a
\* call, given up or repeated, can leave under way.
Asked(r) ==
  CASE post[r] = "put" -> {<<"put", r>>}
    [] post[r] = "discard" -> {<<"delete", r>>}
    [] OTHER -> {}

Leave(stuck) == late' = late \cup stuck /\ Cardinality(late') <= MaxLate

\* A request that was given up takes effect.
Arrive ==
  /\ \E m \in late :
       /\ late' = late \ {m}
       /\ source' = IF m[1] = "put" THEN source \cup {m[2]} ELSE source \ {m[2]}
  /\ UNCHANGED <<run, uploaded, post, faulted, cli>>

Crash ==
  /\ \E r \in Runs : post[r] \in Working
  /\ post' = [r \in Runs |-> IF post[r] \in Working THEN "dead" ELSE post[r]]
  /\ faulted' = faulted \cup {r \in Runs : post'[r] # post[r]}
  /\ \E stuck \in SUBSET UNION {Asked(r) : r \in Runs} : Leave(stuck)
  /\ UNCHANGED <<run, uploaded, source, cli>>
-----------------------------------------------------------------------------
(***************************************************************************)
(* handleSubmitRun: bundle, pipeline, rows; on any failure the bundle is   *)
(* discarded.                                                              *)
(***************************************************************************)
\* Wrong form for the mutation runs: a pipeline that does not parse is answered
\* at once.
RefusalSkips(stage) == IF stage = "parse" THEN "refused" ELSE "discard"

\* Where a failure at a stage leads.
Refusal(stage) == "discard"

Handler(r, from, to) == post[r] = from /\ post' = [post EXCEPT ![r] = to]

\* The part "source" is put; stored is set even when that fails, and a Put that
\* fails may have stored the bundle.
readMultipartSubmit(r) ==
  /\ \/ Handler(r, "put", "parse") /\ source' = source \cup {r}
     \/ Handler(r, "put", Refusal("put")) /\ source' \in {source, source \cup {r}}
  /\ \E stuck \in SUBSET Asked(r) :
       Leave(stuck) /\ faulted' = faulted \cup {m[2] : m \in stuck}
  /\ UNCHANGED <<run, uploaded, cli>>

Parse(r) ==
  /\ Handler(r, "parse", "create") \/ Handler(r, "parse", Refusal("parse"))
  /\ UNCHANGED <<run, uploaded, source, late, faulted, cli>>

submitRun(r) ==
  /\ \/ Handler(r, "create", "created") /\ Set(r, Submitted)
     \/ Handler(r, "create", Refusal("create")) /\ UNCHANGED run
  /\ UNCHANGED <<uploaded, source, late, faulted, cli>>

\* Best effort: the bundle goes, or is not there, or the store fails.
discard(r) ==
  /\ Handler(r, "discard", "refused")
  /\ \/ source' = source \ {r} /\ UNCHANGED faulted
     \/ source' \in {source, source \ {r}} /\ faulted' = faulted \cup {r}
  /\ \E stuck \in SUBSET Asked(r) : Leave(stuck)
  /\ UNCHANGED <<run, uploaded, cli>>

handleSubmitRun(r) == readMultipartSubmit(r) \/ Parse(r) \/ submitRun(r) \/ discard(r)

\* The client sends its bundle, for the first time or once more.
Submit ==
  /\ cli.at = "submit"
  /\ \E r \in Runs :
       /\ Handler(r, "none", "put")
       /\ cli' = [cli EXCEPT !.at = "posted", !.run = r]
  /\ UNCHANGED <<run, uploaded, source, late, faulted>>

\* The answer: the id is printed, or the submission has failed for good.
SubmitAnswer ==
  /\ cli.at = "posted"
  /\ \/ /\ post[cli.run] = "created"
        /\ IF cli.cmd = "run" THEN Exit(0) ELSE cli' = [cli EXCEPT !.at = "run"]
     \/ post[cli.run] = "refused" /\ Exit(1)
  /\ UNCHANGED server

\* No answer: the connection broke, or a gateway gave up.
SubmitLost ==
  /\ cli.at = "posted"
  /\ cli' = [cli EXCEPT !.at = "submit"]
  /\ UNCHANGED server
-----------------------------------------------------------------------------
(***************************************************************************)
(* GET /api/runs/{id}: the run and its jobs are two reads of the database. *)
(* A call that fails for the moment is made again from its beginning.      *)
(***************************************************************************)
GetRun ==
  /\ cli.at = "run"
  /\ cli' = [cli EXCEPT !.at = "jobs", !.state = run[cli.run].state, !.jobs = "none"]
  /\ UNCHANGED server

GetRunLost ==
  /\ cli.at = "jobs"
  /\ cli' = [cli EXCEPT !.at = "run", !.state = "none"]
  /\ UNCHANGED server

\* Wrong form for the mutation runs: only a failed run is no success.
ExitCodeFailed(state) == IF state = "failed" THEN 1 ELSE 0

\* The exit code of watch for a finished run.
ExitCode(state) == IF state = "succeeded" THEN 0 ELSE 1

\* The jobs are read, and the answer is used: watch shows it and goes on until the
\* run is finished, events remembers whether it is.
GetRunAnswer ==
  /\ cli.at = "jobs"
  /\ LET got == [cli EXCEPT !.jobs = run[cli.run].state] IN
     cli' = IF cli.cmd = "events" THEN [got EXCEPT !.at = "events"]
            ELSE IF cli.state \in Ended THEN [got EXCEPT !.at = "exit", !.code = ExitCode(cli.state)]
            ELSE [got EXCEPT !.at = "run"]
  /\ UNCHANGED server

\* Wrong form for the mutation runs: an empty page ends the command.
DrainedAlways(terminal, evs) == evs = <<>>

\* Are there no more events to come.
Drained(terminal, evs) == terminal /\ evs = <<>>

\* GET /api/runs/{id}/events?after=: the events after the cursor are printed and
\* the cursor moves; when a page is lost it is asked for again.
ListEvents ==
  /\ cli.at = "events"
  /\ LET evs == [i \in 1..run[cli.run].events - cli.after |-> cli.after + i] IN
     cli' = [cli EXCEPT !.printed = @ \o evs, !.after = @ + Len(evs), !.state = "none", !.jobs = "none",
                        !.at = IF Drained(cli.state \in Ended, evs) THEN "exit" ELSE "run"]
  /\ UNCHANGED server
-----------------------------------------------------------------------------
(***************************************************************************)
(* artifacts --download: the listing, then the file, each of the attempt   *)
(* asked for or of the one that is current when the server is asked.  The  *)
(* file of an attempt is two blocks that tell the attempt; so does its     *)
(* checksum.                                                               *)
(***************************************************************************)
attemptParam == IF cli.attempt = 0 THEN run[cli.run].attempt ELSE cli.attempt

Content(a) == <<a, a>>

ListArtifacts ==
  /\ cli.at = "list"
  /\ IF attemptParam \in uploaded[cli.run]
       THEN cli' = [cli EXCEPT !.at = "get", !.row = Content(attemptParam)]
       ELSE Exit(0)
  /\ UNCHANGED server

\* GET of the file into the spool, which is emptied first.  The answer has its
\* length, so one that breaks off is known and asked for again; no row is a 404.
DownloadArtifact ==
  /\ cli.at = "get"
  /\ \/ /\ attemptParam \in uploaded[cli.run]
        /\ \/ cli' = [cli EXCEPT !.spool = Content(attemptParam), !.at = "check"]
           \/ /\ cli.cuts < MaxCuts
              /\ cli' = [cli EXCEPT !.spool = SubSeq(Content(attemptParam), 1, 1), !.cuts = @ + 1]
     \/ attemptParam \notin uploaded[cli.run] /\ Exit(1)
  /\ UNCHANGED server

\* Wrong form for the mutation runs: the checksum is not compared.
ChecksNothing(sum, row) == TRUE

\* Is the downloaded file the one of the listing.
Matches(sum, row) == sum = row

\* The checksum is compared, then the temp file is renamed.
downloadArtifact ==
  /\ cli.at = "check"
  /\ cli' = IF Matches(cli.spool, cli.row)
              THEN [cli EXCEPT !.at = "exit", !.file = cli.spool]
              ELSE [cli EXCEPT !.at = "exit", !.code = 1]
  /\ UNCHANGED server
-----------------------------------------------------------------------------
(***************************************************************************)
(* cancel: 409 once the run is finished, even if it was this command whose *)
(* first, unanswered call has finished it.                                 *)
(***************************************************************************)
Cancel ==
  /\ cli.at = "cancel"
  /\ \/ /\ run[cli.run].state \in Ended
        /\ Exit(1) /\ UNCHANGED run
     \/ /\ run[cli.run].state = "running"
        /\ LET first == ~run[cli.run].asked /\ run[cli.run].events < MaxEvents - 1 IN
           Set(cli.run, [run[cli.run] EXCEPT !.asked = TRUE, !.events = IF first THEN @ + 1 ELSE @])
        /\ Exit(0) \/ UNCHANGED cli
  /\ UNCHANGED <<uploaded, source, post, late, faulted>>

\* A call fails for good (an error that is not retried, or the last retry), the
\* local disk does, or the user interrupts: the command ends with an error.  1 stands for all such codes.
GiveUp ==
  /\ cli.at # "exit"
  /\ Exit(1)
  /\ UNCHANGED server

Next ==
  \/ \E r \in Runs : Evolve(r) \/ handleSubmitRun(r)
  \/ Crash \/ Arrive \/ GiveUp
  \/ Submit \/ SubmitAnswer \/ SubmitLost
  \/ GetRun \/ GetRunLost \/ GetRunAnswer
  \/ ListEvents \/ ListArtifacts \/ DownloadArtifact \/ downloadArtifact \/ Cancel

Spec == Init /\ [][Next]_vars
-----------------------------------------------------------------------------
(***************************************************************************)
(* Properties.                                                             *)
(***************************************************************************)
\* An exit code 0 is the truth about the run whose id was printed: it was created
\* (run), it has succeeded (run --wait), its cancellation has been asked for
\* (cancel).  And a run that is shown as finished is shown with finished jobs,
\* though the two are read one after the other.
ExitTruthful ==
  /\ cli.at = "exit" /\ cli.code = 0 =>
       /\ cli.cmd = "run" => run[cli.run].state # "none"
       /\ cli.cmd = "wait" => run[cli.run].state = "succeeded"
       /\ cli.cmd = "cancel" => run[cli.run].asked
  /\ cli.state \in Ended /\ cli.jobs # "none" => cli.jobs \in Ended

\* events -f prints every event once and in order, however it ends, and when it ends
\* well it has printed all the events the run will ever have.
EventsInFull ==
  /\ cli.printed = [i \in 1..Len(cli.printed) |-> i]
  /\ cli.cmd = "events" /\ cli.at = "exit" /\ cli.code = 0 =>
       run[cli.run].state \in Ended /\ Len(cli.printed) = run[cli.run].events

\* A file that artifacts --download leaves is the listed one, whole, even if
\* downloads broke off or the job went on to another attempt in between.
FileIsListed == cli.file # <<>> => cli.file = cli.row

\* Every stored bundle belongs to a run or to a submission at work, unless the
\* server died in its submission, could not delete it or had put it more than once;
\* and every run has its bundle, however often a submission was repeated and
\* whatever requests to the artifact store arrive late.
NoStraySource ==
  /\ \A r \in source : run[r] # NoRun \/ post[r] \in Working \/ r \in faulted
  /\ \A r \in Runs : run[r] # NoRun => r \in source
-----------------------------------------------------------------------------
(***************************************************************************)
(* The inductive invariant behind the properties.                          *)
(***************************************************************************)

\* A run is created once, at the end of its submission and with its bundle;
\* only submissions that run and run --wait have begun are at work.
SubmitInv ==
  \A r \in Runs :
    /\ run[r].state = "none" => run[r] = NoRun
    /\ run[r].state = "running" => run[r].events < MaxEvents
    /\ post[r] \in Working => run[r] = NoRun
    /\ post[r] \in {"parse", "create"} => r \in source
    /\ post[r] = "created" => run[r].state # "none"
    /\ cli.cmd \in {"run", "wait"} /\ post[r] = "none" => run[r] = NoRun

\* A late put is known as a fault; a late delete is of a submission that has ended
\* without a run.
LateInv ==
  \A r \in Runs :
    /\ <<"put", r>> \in late => r \in faulted
    /\ <<"delete", r>> \in late => post[r] \in {"refused", "dead"} /\ run[r] = NoRun

\* Each command keeps to its calls, and what it has read of a finished run
\* stays true.
CommandInv ==
  /\ cli.at \in {"submit", "posted"} => cli.cmd \in {"run", "wait"} /\ cli.state = "none"
  /\ cli.at \in {"run", "jobs"} => cli.cmd \in {"wait", "events"}
  /\ cli.at = "events" => cli.cmd = "events"
  /\ cli.at \in {"list", "get", "check"} => cli.cmd = "artifacts"
  /\ cli.at = "cancel" => cli.cmd = "cancel"
  /\ cli.state \in Ended => run[cli.run].state = cli.state

\* The cursor is the last event printed.
CursorInv ==
  /\ cli.printed = [i \in 1..cli.after |-> i]
  /\ cli.cmd = "events" => cli.after <= run[cli.run].events
  /\ cli.cmd = "events" /\ cli.at = "exit" /\ cli.code = 0 =>
       run[cli.run].state \in Ended /\ cli.after = run[cli.run].events

\* The file appears when the command ends.
FileInv == (cli.at # "exit" => cli.file = <<>>) /\ FileIsListed

IInv ==
  /\ TypeOK
  /\ SubmitInv
  /\ LateInv
  /\ CommandInv
  /\ CursorInv
  /\ FileInv
  /\ ExitTruthful
  /\ NoStraySource
=============================================================================

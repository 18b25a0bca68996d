------------------------------- MODULE Docker -------------------------------
(***************************************************************************)
(* The Docker executor: runner processes that share a daemon, the Run of   *)
(* each attempt (one step per call of the daemon, and the deferred calls   *)
(* that undo them), its context, the fetch of the source bundle, and Reap  *)
(* at the start of a process.  A container and a volume have the name of   *)
(* their attempt and the label of the runner.  The daemon is external: any *)
(* call may fail, and a creation that fails may still have happened.       *)
(***************************************************************************)
EXTENDS Naturals, Sequences

CONSTANTS
  Procs,    \* runner processes, over time
  NameOf,   \* the name a process runs under
  Names,    \* attempts; also names of their containers and volumes
  ProcOf,   \* the process that executes an attempt
  Bundle,   \* blocks of the source bundle, in their order
  MaxTries  \* bound: interrupted fetches of the bundle

ASSUME DockerAssumption ==
  /\ ProcOf \in [Names -> Procs]
  /\ DOMAIN NameOf = Procs
  /\ Bundle \in Seq(Nat) /\ MaxTries \in Nat

VARIABLES
  proc,        \* "new", "reap1", "reap2" before it claims, "on", "dead"
  keepFailed,  \* QUARRY_KEEP_FAILED
  at,          \* the call of Run that comes next
  defers,      \* its deferred calls, the last one first to run
  ctx,         \* has its context ended
  res,         \* what it returns
  box,         \* the container
  vol,         \* does the volume exist
  spool,       \* temp file the bundle is fetched into
  tries,
  demux,       \* the goroutine that copies the output
  attached,    \* the attach connection
  orphaned,    \* history: attempts whose process died, until a reaper has passed
  faulty,      \* history: kept attempts, and those with a failed removal or a lost creation
  broken,      \* history: the server's store failed in the middle of a bundle
  overlap      \* history: a process was started while one of its name lived

world == <<box, vol, orphaned, faulty>>
fetched == <<spool, tries, broken>>
stream == <<demux, attached>>
vars == <<proc, keepFailed, at, defers, ctx, res, world, fetched, stream, overlap>>

Setup == <<"image", "volume", "container", "source", "script", "attach", "start", "wait", "collect">>
After(step) == Setup[(CHOOSE i \in 1..8 : Setup[i] = step) + 1]

InProgress(n) == at[n] \notin {"none", "returned"} /\ proc[ProcOf[n]] = "on"

TypeOK ==
  /\ proc \in [Procs -> {"new", "reap1", "reap2", "on", "dead"}]
  /\ keepFailed \in BOOLEAN /\ overlap \in BOOLEAN
  /\ at \in [Names -> {"none", "unwind", "returned"} \cup {Setup[i] : i \in 1..9}]
  /\ defers \in [Names -> Seq({"volume", "container", "attach"})]
  /\ ctx \in [Names -> BOOLEAN]
  /\ res \in [Names -> [err : {"nil", "error", "ctx"}, exit : {"none", "zero", "nonzero", "killed"}]]
  /\ box \in [Names -> {"absent", "created", "running", "zero", "nonzero", "killed"}]
  /\ vol \in [Names -> BOOLEAN]
  /\ spool \in [Names -> Seq(Nat)] /\ tries \in [Names -> Nat]
  /\ demux \in [Names -> {"off", "on", "done"}]
  /\ attached \in [Names -> BOOLEAN]
  /\ orphaned \subseteq Names /\ faulty \subseteq Names /\ broken \subseteq Names

Init ==
  /\ proc = [p \in Procs |-> "new"]
  /\ keepFailed \in BOOLEAN
  /\ at = [n \in Names |-> "none"]
  /\ defers = [n \in Names |-> <<>>]
  /\ ctx = [n \in Names |-> FALSE]
  /\ res = [n \in Names |-> [err |-> "nil", exit |-> "none"]]
  /\ box = [n \in Names |-> "absent"]
  /\ vol = [n \in Names |-> FALSE]
  /\ spool = [n \in Names |-> <<>>]
  /\ tries = [n \in Names |-> 0]
  /\ demux = [n \in Names |-> "off"]
  /\ attached = [n \in Names |-> FALSE]
  /\ orphaned = {} /\ faulty = {} /\ broken = {} /\ overlap = FALSE
-----------------------------------------------------------------------------
(***************************************************************************)
(* Processes and the reaper.                                               *)
(***************************************************************************)
Alive(p) == proc[p] \in {"reap1", "reap2", "on"}

\* A process starts: it reaps before it claims.
StartProc(p) ==
  /\ proc[p] = "new"
  /\ proc' = [proc EXCEPT ![p] = IF keepFailed THEN "on" ELSE "reap1"]
  /\ overlap' = (overlap \/ \E q \in Procs : Alive(q) /\ NameOf[q] = NameOf[p])
  /\ UNCHANGED <<keepFailed, at, defers, ctx, res, world, fetched, stream>>

\* A process dies; its containers run on.
Kill(p) ==
  /\ Alive(p)
  /\ proc' = [proc EXCEPT ![p] = "dead"]
  /\ orphaned' = orphaned \cup {n \in Names : ProcOf[n] = p /\ InProgress(n)}
  /\ UNCHANGED <<keepFailed, at, defers, ctx, res, box, vol, faulty, fetched, stream, overlap>>

\* Wrong form for the mutation runs: the label is not looked at.
ListedAll(p) == Names

\* What a list filtered by the label of p shows.
Listed(p) == {n \in Names : NameOf[ProcOf[n]] = NameOf[p]}

\* The containers of the list are removed by force, then the volumes that no
\* container uses; a removal may fail.  A list that fails ends the process.
Reap(p) ==
  /\ \/ /\ proc[p] = "reap1" /\ proc' = [proc EXCEPT ![p] = "reap2"]
        /\ LET cs == {n \in Listed(p) : box[n] # "absent"}
           IN  \E stay \in SUBSET cs :
                 /\ box' = [n \in Names |-> IF n \in cs \ stay THEN "absent" ELSE box[n]]
                 /\ faulty' = faulty \cup stay
        /\ UNCHANGED <<vol, orphaned>>
     \/ /\ proc[p] = "reap2" /\ proc' = [proc EXCEPT ![p] = "on"]
        /\ LET vs == {n \in Listed(p) : vol[n] /\ box[n] = "absent"}
           IN  \E stay \in SUBSET vs :
                 /\ vol' = [n \in Names |-> vol[n] /\ n \notin vs \ stay]
                 /\ faulty' = faulty \cup stay
        /\ orphaned' = orphaned \ Listed(p)
        /\ UNCHANGED box
     \/ /\ proc[p] \in {"reap1", "reap2"} /\ proc' = [proc EXCEPT ![p] = "dead"]
        /\ UNCHANGED world
  /\ UNCHANGED <<keepFailed, at, defers, ctx, res, fetched, stream, overlap>>
-----------------------------------------------------------------------------
(***************************************************************************)
(* Run.                                                                    *)
(***************************************************************************)
StartRun(n) ==
  /\ proc[ProcOf[n]] = "on" /\ at[n] = "none"
  /\ at' = [at EXCEPT ![n] = "image"]
  /\ UNCHANGED <<proc, keepFailed, defers, ctx, res, world, fetched, stream, overlap>>

\* The attempt's context ends: timer, cancel, abort or shutdown.
EndCtx(n) ==
  /\ InProgress(n) /\ ~ctx[n]
  /\ ctx' = [ctx EXCEPT ![n] = TRUE]
  /\ UNCHANGED <<proc, keepFailed, at, defers, res, world, fetched, stream, overlap>>

\* Wrong form for the mutation runs: the container's removal is deferred only
\* once it has been started.
UndoLate(s) == CASE s \in {"volume", "attach"} -> <<s>>
                 [] s = "start" -> <<"container">>
                 [] OTHER -> <<>>

\* What Run defers when the call s has succeeded.
Undo(s) == IF s \in {"volume", "container", "attach"} THEN <<s>> ELSE <<>>

ok(n) ==
  /\ at' = [at EXCEPT ![n] = After(@)]
  /\ defers' = [defers EXCEPT ![n] = @ \o Undo(at[n])]
  /\ UNCHANGED res

orCtx(n) == IF ctx[n] THEN "ctx" ELSE "error"

return(n, err, exit) ==
  /\ at' = [at EXCEPT ![n] = "unwind"]
  /\ res' = [res EXCEPT ![n] = [err |-> err, exit |-> exit]]
  /\ UNCHANGED defers

\* What the daemon does for the call that comes next.
Done(n) ==
  /\ at[n] \in {"script", "attach", "start"} => box[n] # "absent"
  /\ vol' = [vol EXCEPT ![n] = @ \/ at[n] \in {"volume", "container"}]
  /\ box' = [box EXCEPT ![n] = CASE at[n] = "container" -> "created"
                                 [] at[n] = "start" -> "running"
                                 [] OTHER -> @]

\* The image is there, or is pulled to the end of the stream, or is not to be had.
ensureImage(n) ==
  /\ InProgress(n) /\ at[n] = "image"
  /\ ok(n) \/ return(n, orCtx(n), "none")
  /\ UNCHANGED <<proc, keepFailed, ctx, world, fetched, stream, overlap>>

\* VolumeCreate, ContainerCreate, the copy of run.sh, ContainerAttach
\* with the copying goroutine, and ContainerStart.
call(n) ==
  /\ InProgress(n)
  /\ at[n] \in {"volume", "container", "script", "attach", "start"}
  /\ \/ /\ ok(n) /\ Done(n)
        /\ demux' = [demux EXCEPT ![n] = IF at[n] = "attach" THEN "on" ELSE @]
        /\ attached' = [attached EXCEPT ![n] = @ \/ at[n] = "attach"]
        /\ UNCHANGED <<orphaned, faulty>>
     \/ /\ return(n, orCtx(n), "none")
        /\ \/ UNCHANGED world
           \/ /\ at[n] \in {"volume", "container", "start"} /\ Done(n)
              /\ faulty' = IF at[n] = "start" THEN faulty ELSE faulty \cup {n}
              /\ UNCHANGED orphaned
        /\ UNCHANGED stream
  /\ UNCHANGED <<proc, keepFailed, ctx, fetched, overlap>>

\* Wrong form for the mutation runs: a restarted download is appended.
SpooledOn(n, k) == spool[n] \o SubSeq(Bundle, 1, k)

\* The temp file after a try that received k blocks.
Spooled(n, k) == SubSeq(Bundle, 1, k)

\* What a GET of the bundle can bring: so many blocks, and an end that looks clean
\* or is a reset.  The reply has no length: when the server's store fails in the
\* middle of the bundle its end looks clean.
handleGetSource ==
  [blocks : {Len(Bundle)}, end : {"clean"}] \cup [blocks : 0..Len(Bundle) - 1, end : {"clean", "reset"}]

\* injectSource: a download that is reset starts again; then its blocks are copied
\* into the container.  (A run without a bundle has the empty one.)
fetch(n) ==
  /\ InProgress(n) /\ at[n] = "source"
  /\ \/ \E reply \in handleGetSource :
          /\ spool' = [spool EXCEPT ![n] = Spooled(n, reply.blocks)]
          /\ \/ /\ reply.end = "reset" /\ tries[n] < MaxTries
                /\ tries' = [tries EXCEPT ![n] = @ + 1]
                /\ UNCHANGED <<at, defers, res, broken>>
             \/ /\ reply.end = "clean" /\ box[n] # "absent" /\ ok(n)
                /\ broken' = IF reply.blocks < Len(Bundle) THEN broken \cup {n} ELSE broken
                /\ UNCHANGED tries
     \/ return(n, orCtx(n), "none") /\ UNCHANGED fetched
  /\ UNCHANGED <<proc, keepFailed, ctx, world, stream, overlap>>

\* The job ends by itself.
Exits(n) ==
  /\ box[n] = "running"
  /\ box' = [box EXCEPT ![n] = "zero"] \/ box' = [box EXCEPT ![n] = "nonzero"]
  /\ UNCHANGED <<proc, keepFailed, at, defers, ctx, res, vol, orphaned, faulty, fetched, stream, overlap>>

ExitOf(n) == IF box[n] \in {"zero", "nonzero"} THEN box[n] ELSE "killed"

\* The select of Run: the exit is reported, the wait fails, or the context is done
\* and the container is killed, unless the kill does not happen within its grace.
await(n) ==
  /\ InProgress(n) /\ at[n] = "wait"
  /\ \/ /\ box[n] # "running"
        /\ \/ /\ ExitOf(n) = "zero" /\ ok(n)
           \/ ExitOf(n) # "zero" /\ return(n, "nil", ExitOf(n))
        /\ UNCHANGED box
     \/ return(n, "error", "none") /\ UNCHANGED box
     \/ /\ ctx[n]
        /\ return(n, "ctx", "none")
        /\ \/ UNCHANGED box
           \/ box[n] = "running" /\ box' = [box EXCEPT ![n] = "killed"]
  /\ UNCHANGED <<proc, keepFailed, ctx, vol, orphaned, faulty, fetched, stream, overlap>>

\* collectArtifacts, out of the exited container.
collect(n) ==
  /\ InProgress(n) /\ at[n] = "collect"
  /\ return(n, "nil", "zero") \/ return(n, orCtx(n), "zero")
  /\ UNCHANGED <<proc, keepFailed, ctx, world, fetched, stream, overlap>>

keep(n) == keepFailed /\ (res[n].err # "nil" \/ res[n].exit # "zero")

Pop(n) == defers' = [defers EXCEPT ![n] = SubSeq(@, 1, Len(@) - 1)]

\* Wrong form for the mutation runs: <-demuxDone; att.Close()
ClosesLast(n) == demux[n] = "done"

\* May att.Close() be called.
Closes(n) == TRUE

\* att.Close(); <-demuxDone
detach(n) ==
  /\ \/ /\ attached[n] /\ Closes(n)
        /\ attached' = [attached EXCEPT ![n] = FALSE]
        /\ UNCHANGED defers
     \/ ~attached[n] /\ demux[n] = "done" /\ Pop(n) /\ UNCHANGED attached
  /\ UNCHANGED <<world, demux>>

\* The deferred removals, on a context of their own.  A volume that a container
\* uses is not removed.
remove(n) ==
  LET d == defers[n][Len(defers[n])] IN
  /\ Pop(n)
  /\ \/ /\ d = "container" /\ ~keep(n)
        /\ box' = [box EXCEPT ![n] = "absent"]
        /\ UNCHANGED <<vol, faulty>>
     \/ /\ d = "volume" /\ ~keep(n)
        /\ vol' = [vol EXCEPT ![n] = box[n] # "absent"]
        /\ UNCHANGED <<box, faulty>>
     \/ faulty' = faulty \cup {n} /\ UNCHANGED <<box, vol>>
  /\ UNCHANGED <<orphaned, stream>>

unwind(n) ==
  /\ InProgress(n) /\ at[n] = "unwind"
  /\ \/ /\ defers[n] = <<>>
        /\ at' = [at EXCEPT ![n] = "returned"]
        /\ UNCHANGED <<defers, world, stream>>
     \/ /\ defers[n] # <<>>
        /\ IF defers[n][Len(defers[n])] = "attach" THEN detach(n) ELSE remove(n)
        /\ UNCHANGED at
  /\ UNCHANGED <<proc, keepFailed, ctx, res, fetched, overlap>>

\* StdCopy returns: the connection is closed, or the container has ended.
DemuxEnds(n) ==
  /\ demux[n] = "on"
  /\ ~attached[n] \/ box[n] \notin {"created", "running"}
  /\ demux' = [demux EXCEPT ![n] = "done"]
  /\ UNCHANGED <<proc, keepFailed, at, defers, ctx, res, world, fetched, attached, overlap>>

Run(n) == ensureImage(n) \/ call(n) \/ fetch(n) \/ await(n) \/ collect(n) \/ unwind(n)

Next ==
  \/ \E p \in Procs : StartProc(p) \/ Kill(p) \/ Reap(p)
  \/ \E n \in Names : StartRun(n) \/ EndCtx(n) \/ Exits(n) \/ Run(n) \/ DemuxEnds(n)

\* The goroutines of a live process run, and every call of the daemon returns.
Fairness == \A n \in Names : WF_vars(Run(n)) /\ WF_vars(DemuxEnds(n))

Spec == Init /\ [][Next]_vars /\ Fairness
-----------------------------------------------------------------------------
(***************************************************************************)
(* Properties.                                                             *)
(***************************************************************************)
\* When Run is over nothing of the attempt is left, neither container nor volume
\* nor a goroutine that writes to its log: unless they are kept on purpose, the
\* daemon refused a removal or created what it said it had not, or the process
\* died; then they last until a process of that name has reaped.
RemainsExplained ==
  \A n \in Names :
    /\ box[n] # "absent" \/ vol[n] =>
         InProgress(n) \/ n \in orphaned \cup faulty \/ overlap
    /\ at[n] = "returned" => demux[n] # "on"

\* A result without an error is the exit of the job itself, never of a container
\* that a reaper (or the runner) killed: runners that share a daemon do not touch
\* each other's attempts, as long as no two live processes have one name.
ResultIsTheJobs ==
  \A n \in Names :
    at[n] = "returned" /\ res[n].err = "nil" => res[n].exit # "killed" \/ overlap

\* A started job sees the whole source bundle and nothing else, however often the
\* download broke off, unless the server's own store failed in the middle of it.
\* Its output is attached first.
RanWhole ==
  \A n \in Names :
    /\ box[n] = "running" /\ InProgress(n) => attached[n] \/ at[n] = "unwind"
    /\ box[n] \in {"running", "zero", "nonzero"} =>
         spool[n] = Bundle \/ n \in broken

\* When its context ends, Run returns, whatever the job and the daemon do: a kill
\* that fails leaves a container that still writes, and the attach connection is
\* closed before its reader is waited for.
CtxEndsRun == \A n \in Names : InProgress(n) /\ ctx[n] ~> ~InProgress(n)
-----------------------------------------------------------------------------
(***************************************************************************)
(* The inductive invariant.                                                *)
(***************************************************************************)
\* The deferred calls after the volume, the container and the attach.
V == <<"volume">>
VC == <<"volume", "container">>
VCA == <<"volume", "container", "attach">>

\* What Run has to undo is what it has done, in that order.
DeferOK(n) ==
  /\ at[n] \in {"none", "image", "volume", "returned"} => defers[n] = <<>>
  /\ at[n] = "container" => defers[n] = V
  /\ at[n] \in {"source", "script", "attach"} => defers[n] = VC
  /\ at[n] \in {"start", "wait", "collect"} => defers[n] = VCA
  /\ defers[n] \in {<<>>, V, VC, VCA}

\* What of an attempt exists is what is still to be undone.  A reaper in its second
\* half has left no container.
RemainOK(n) ==
  /\ at[n] = "none" => box[n] = "absent" /\ ~vol[n]
  /\ n \notin faulty /\ ~overlap =>
       /\ InProgress(n) /\ vol[n] => defers[n] # <<>>
       /\ InProgress(n) /\ box[n] # "absent" => defers[n] \notin {<<>>, V}
       /\ ~InProgress(n) /\ n \notin orphaned => box[n] = "absent" /\ ~vol[n]
       /\ \A p \in Procs : proc[p] = "reap2" /\ n \in Listed(p) => box[n] = "absent"

\* The output is copied from before the start until its reader has been waited for.
StreamOK(n) ==
  /\ demux[n] = "on" => defers[n] = VCA
  /\ at[n] \in {"start", "wait", "collect"} => attached[n]

\* A container that has been started found the bundle in it; as long as Run waits
\* nobody but the job ends it.
JobOK(n) ==
  /\ at[n] \in {"image", "volume", "container", "source", "script", "attach", "start"} =>
       box[n] \in {"absent", "created"}
  /\ box[n] \in {"running", "zero", "nonzero"} \/ at[n] \in {"script", "attach", "start"} =>
       spool[n] = Bundle \/ n \in broken
  /\ InProgress(n) /\ at[n] = "wait" => box[n] \in {"running", "zero", "nonzero"} \/ overlap
  /\ res[n].err = "nil" /\ res[n].exit = "killed" => overlap

\* A process claims when it has reaped.
ClaimOK(n) == proc[ProcOf[n]] \in {"new", "reap1", "reap2"} => at[n] = "none"

NameInv == \A n \in Names : DeferOK(n) /\ RemainOK(n) /\ StreamOK(n) /\ JobOK(n) /\ ClaimOK(n)

\* Unless one overlapped, the live processes have different names.
ProcInv == ~overlap => \A p, q \in Procs : Alive(p) /\ Alive(q) /\ NameOf[p] = NameOf[q] => p = q

IInv == TypeOK /\ NameInv /\ ProcInv
=============================================================================

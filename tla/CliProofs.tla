----------------------------- MODULE CliProofs ------------------------------
(***************************************************************************)
(* The inductive invariants of the two modules of the command line.        *)
(* Client, for any number of runs, events, attempts and interruptions: the *)
(* server only moves runs forward (Later), so what a command has read of a *)
(* finished run stays true.  LogFollow, for any number of attempts and     *)
(* chunks: the log of an attempt only grows at its end, so what is stored  *)
(* up to the cursor is what has been printed.                              *)
(***************************************************************************)
EXTENDS Client, LogFollow, SequenceTheorems, TLAPS

\* The types, one by one.
LEMMA Types ==
  TypeOK <=> /\ run \in [Runs -> RunRows]
             /\ uploaded \in [Runs -> SUBSET (1..MaxClaims)]
             /\ source \subseteq Runs /\ faulted \subseteq Runs
             /\ late \subseteq {"put", "delete"} \X Runs
             /\ post \in [Runs -> Working \cup {"none", "created", "refused", "dead"}]
             /\ cli \in Commands
BY Zenon DEF TypeOK

\* The numbers from a + 1 on.
LEMMA Page ==
  ASSUME NEW a \in Nat, NEW n \in Nat
  PROVE  LET evs == [i \in 1..n |-> a + i]
         IN  /\ evs \in Seq(Nat) /\ Len(evs) = n
             /\ evs = <<>> <=> n = 0
             /\ [i \in 1..a |-> i] \o evs = [i \in 1..(a + n) |-> i]
<1> DEFINE evs == [i \in 1..n |-> a + i]
           old == [i \in 1..a |-> i]
           all == [i \in 1..(a + n) |-> i]
<1>1. evs \in Seq(Nat) /\ Len(evs) = n
  OBVIOUS
<1>2. old \in Seq(Nat) /\ Len(old) = a
  OBVIOUS
<1>3. all \in Seq(Nat) /\ Len(all) = a + n
  OBVIOUS
<1>4. evs = <<>> <=> n = 0
  BY <1>1
<1>5. \A i \in 1..n : evs[i] = a + i
  BY Zenon
<1>6. \A i \in 1..a : old[i] = i
  BY Zenon
<1>7. \A i \in 1..(a + n) : all[i] = i
  BY Zenon
<1> HIDE DEF evs, old, all
<1>8. /\ old \o evs \in Seq(Nat) /\ Len(old \o evs) = a + n
      /\ \A i \in 1..(a + n) : (old \o evs)[i] = IF i <= a THEN old[i] ELSE evs[i - a]
  BY <1>1, <1>2, ConcatProperties, Zenon
<1>9. \A i \in 1..(a + n) : (old \o evs)[i] = i
  <2>1. \A i \in 1..(a + n) : i <= a => i \in 1..a
    OBVIOUS
  <2>2. \A i \in 1..(a + n) : ~(i <= a) => i - a \in 1..n /\ a + (i - a) = i
    OBVIOUS
  <2> QED BY <1>5, <1>6, <1>8, <2>1, <2>2, Zenon
<1>10. old \o evs = all
  BY <1>3, <1>7, <1>8, <1>9, SeqEqual, Zenon
<1> QED
  BY <1>1, <1>4, <1>10, Zenon DEF evs, old, all

\* How a run may look later on.
Later(x, y) ==
  /\ x.state \in Ended => y.state = x.state /\ y.events = x.events
  /\ x.state # "none" => y.state # "none"
  /\ x.asked => y.asked
  /\ x.events <= y.events

\* A step of the server under a command that stands still.
LEMMA ServerIInv ==
  ASSUME IInv, cli' = cli, TypeOK', SubmitInv', LateInv', NoStraySource',
         \A r \in Runs : Later(run[r], run'[r])
  PROVE  IInv'
<1>1. /\ cli.run \in Runs /\ cli.after \in Nat
      /\ run[cli.run] \in RunRows /\ run'[cli.run] \in RunRows
      /\ Later(run[cli.run], run'[cli.run])
  BY Zenon DEF IInv, TypeOK, Commands
<1>2. CommandInv'
  BY <1>1, Zenon DEF IInv, CommandInv, Later
<1>3. CursorInv'
  <2>1. run[cli.run].events \in Nat /\ run'[cli.run].events \in Nat
    BY <1>1 DEF RunRows
  <2> QED
    BY <1>1, <2>1 DEF IInv, CursorInv, Later
<1>4. FileInv'
  BY Zenon DEF IInv, FileInv, FileIsListed
<1>5. ExitTruthful'
  BY <1>1, Zenon DEF IInv, ExitTruthful, Later, Ended
<1> QED
  BY <1>2, <1>3, <1>4, <1>5, Zenon DEF IInv

\* A step of the command that leaves the server alone.
LEMMA ClientIInv ==
  ASSUME IInv, UNCHANGED server, cli' \in Commands, cli'.cmd = cli.cmd,
         CommandInv', CursorInv', FileInv', ExitTruthful'
  PROVE  IInv'
<1>1. /\ run' = run /\ uploaded' = uploaded /\ source' = source /\ post' = post
      /\ late' = late /\ faulted' = faulted
  BY Zenon DEF server
<1>2. TypeOK' /\ SubmitInv' /\ LateInv' /\ NoStraySource'
  BY <1>1, Zenon DEF IInv, TypeOK, SubmitInv, LateInv, NoStraySource
<1> QED
  BY <1>2, Zenon DEF IInv
-----------------------------------------------------------------------------
(***************************************************************************)
(* The server.                                                             *)
(***************************************************************************)

\* The run goes on, as far as a client can see.
LEMMA EvolveIInv == ASSUME IInv, NEW r \in Runs, Evolve(r) PROVE IInv'
<1>1. /\ source' = source /\ post' = post /\ late' = late /\ faulted' = faulted /\ cli' = cli
      /\ run[r].state = "running"
      /\ run \in [Runs -> RunRows] /\ run[r] \in RunRows
  BY Types, Zenon DEF IInv, Evolve
<1>2. /\ run[r].events \in 0..MaxEvents /\ run[r].events < MaxEvents
      /\ run[r].attempt \in 0..MaxClaims /\ MaxEvents \in Nat /\ MaxClaims \in Nat
  BY <1>1, ClientAssumption, Zenon DEF IInv, SubmitInv, RunRows
<1>3. \/ run' = run
      \/ \E x \in RunRows : /\ Set(r, x)
                            /\ x.state \in {"running"} \cup Ended
                            /\ x.state = "running" => x.events < MaxEvents
                            /\ Later(run[r], x)
  <2>1. ASSUME run[r].events < MaxEvents - 1, run[r].attempt < MaxClaims,
               Set(r, [run[r] EXCEPT !.events = @ + 1, !.attempt = @ + 1])
        PROVE  \E x \in RunRows : /\ Set(r, x)
                                  /\ x.state \in {"running"} \cup Ended
                                  /\ x.state = "running" => x.events < MaxEvents
                                  /\ Later(run[r], x)
    <3>1. PICK x : x = [run[r] EXCEPT !.events = @ + 1, !.attempt = @ + 1]
      BY Zenon
    <3>2. Set(r, x)
      BY <1>1, <2>1, <3>1, Zenon
    <3>3. /\ run[r].events + 1 \in 0..MaxEvents /\ run[r].events + 1 < MaxEvents
          /\ run[r].attempt + 1 \in 0..MaxClaims
      BY <1>2, <2>1
    <3>4. x \in RunRows /\ x.events = run[r].events + 1 /\ x.state = "running" /\ x.asked = run[r].asked
      BY <1>1, <3>1, <3>3, Zenon DEF RunRows
    <3> QED
      BY <1>1, <1>2, <3>2, <3>3, <3>4 DEF Later, Ended
  <2>2. ASSUME run[r].events < MaxEvents - 1,
               Set(r, [run[r] EXCEPT !.events = @ + 1, !.asked = TRUE])
        PROVE  \E x \in RunRows : /\ Set(r, x)
                                  /\ x.state \in {"running"} \cup Ended
                                  /\ x.state = "running" => x.events < MaxEvents
                                  /\ Later(run[r], x)
    <3>1. PICK x : x = [run[r] EXCEPT !.events = @ + 1, !.asked = TRUE]
      BY Zenon
    <3>2. Set(r, x)
      BY <1>1, <2>2, <3>1, Zenon
    <3>3. run[r].events + 1 \in 0..MaxEvents /\ run[r].events + 1 < MaxEvents
      BY <1>2, <2>2
    <3>4. x \in RunRows /\ x.events = run[r].events + 1 /\ x.state = "running" /\ x.asked = TRUE
      BY <1>1, <3>1, <3>3, Zenon DEF RunRows
    <3> QED
      BY <1>1, <1>2, <3>2, <3>3, <3>4 DEF Later, Ended
  <2>3. ASSUME NEW s \in Ended, Set(r, [run[r] EXCEPT !.events = @ + 1, !.state = s])
        PROVE  \E x \in RunRows : /\ Set(r, x)
                                  /\ x.state \in {"running"} \cup Ended
                                  /\ x.state = "running" => x.events < MaxEvents
                                  /\ Later(run[r], x)
    <3>1. PICK x : x = [run[r] EXCEPT !.events = @ + 1, !.state = s]
      BY Zenon
    <3>2. Set(r, x)
      BY <1>1, <2>3, <3>1, Zenon
    <3>3. run[r].events + 1 \in 0..MaxEvents
      BY <1>2
    <3>4. x \in RunRows /\ x.events = run[r].events + 1 /\ x.state = s /\ x.asked = run[r].asked
      BY <1>1, <2>3, <3>1, <3>3, Zenon DEF RunRows, States
    <3> QED
      BY <1>1, <1>2, <2>3, <3>2, <3>3, <3>4 DEF Later, Ended
  <2> QED
    BY <2>1, <2>2, <2>3, Zenon DEF Evolve
<1>4. uploaded' \in [Runs -> SUBSET (1..MaxClaims)]
  <2>1. {run[r].attempt} \ {0} \subseteq 1..MaxClaims
    BY <1>2
  <2>2. uploaded \in [Runs -> SUBSET (1..MaxClaims)]
    BY Types, Zenon DEF IInv
  <2>3. uploaded' = uploaded \/ uploaded' = [uploaded EXCEPT ![r] = @ \cup ({run[r].attempt} \ {0})]
    BY Zenon DEF Evolve
  <2> QED
    BY <2>1, <2>2, <2>3, Zenon
<1>5. /\ run' \in [Runs -> RunRows]
      /\ \A q \in Runs : /\ Later(run[q], run'[q])
                         /\ \/ run'[q] = run[q]
                            \/ /\ q = r
                               /\ run'[q].state \in {"running"} \cup Ended
                               /\ run'[q].state = "running" => run'[q].events < MaxEvents
  <2>1. \A x \in RunRows : Later(x, x)
    BY ClientAssumption DEF Later, RunRows
  <2> QED
    BY <1>1, <1>3, <2>1, Zenon DEF Set
<1>6. TypeOK'
  BY <1>1, <1>4, <1>5, Zenon DEF IInv, TypeOK
<1>7. \A q \in Runs : \/ run'[q] = run[q]
                      \/ /\ run[q] # NoRun /\ run'[q] # NoRun /\ run'[q].state # "none"
                         /\ run'[q].state = "running" => run'[q].events < MaxEvents
  BY <1>1, <1>5 DEF NoRun, Ended
<1>8. SubmitInv'
  <2>1. ASSUME NEW q \in Runs PROVE run'[q].state = "none" => run'[q] = NoRun
    BY <1>7, Zenon DEF IInv, SubmitInv
  <2> QED
    BY <1>1, <1>7, <2>1, Zenon DEF IInv, SubmitInv
<1>9. NoStraySource'
  BY <1>1, <1>7, Types, Zenon DEF IInv, NoStraySource
<1>10. LateInv'
  BY <1>1, <1>7, Zenon DEF IInv, LateInv
<1> QED
  BY <1>1, <1>5, <1>6, <1>8, <1>9, <1>10, ServerIInv, Zenon

\* Pairs are equal part by part.
LEMMA Pairs == \A a, b, c, d : <<a, b>> = <<c, d>> => a = c /\ b = d
OBVIOUS

\* Requests to the artifact store.
LEMMA Calls ==
  /\ \A r \in Runs : {<<"put", r>>, <<"delete", r>>} \subseteq {"put", "delete"} \X Runs
  /\ \A m \in {"put", "delete"} \X Runs : \E kind \in {"put", "delete"}, r \in Runs : m = <<kind, r>>
OBVIOUS

\* What a handler leaves under way when it goes on: a put that is known as a fault,
\* a delete only as its last step.
LeftBehind(stuck, r, to) ==
  \A m \in stuck : \/ m = <<"put", r>> /\ r \in faulted'
                   \/ m = <<"delete", r>> /\ to = "refused"

\* What the handler of a submission writes.
LEMMA HandlerIInv ==
  ASSUME IInv, NEW r \in Runs, NEW to \in Working \cup {"created", "refused"},
         post[r] \in Working, post' = [post EXCEPT ![r] = to],
         cli' = cli, uploaded' = uploaded,
         to \in {"parse", "create"} => r \in source',
         to = "created" => r \in source /\ Set(r, Submitted),
         to # "created" => run' = run,
         \A q \in Runs \ {r} : (q \in source' <=> q \in source) /\ (q \in faulted' <=> q \in faulted),
         source' \subseteq Runs, faulted \subseteq faulted', faulted' \subseteq Runs,
         NEW stuck, late' = late \cup stuck, LeftBehind(stuck, r, to),
         to = "created" => source' = source,
         to = "refused" => r \notin source' \/ r \in faulted'
  PROVE  IInv'
<1>1. /\ run \in [Runs -> RunRows] /\ post \in [Runs -> Working \cup {"none", "created", "refused", "dead"}]
      /\ run[r] = NoRun
  BY Types, Zenon DEF IInv, SubmitInv
<1>2. /\ post' \in [Runs -> Working \cup {"none", "created", "refused", "dead"}]
      /\ \A q \in Runs : post'[q] = IF q = r THEN to ELSE post[q]
  BY <1>1, Zenon
<1>3. /\ NoRun.state = "none" /\ NoRun.events = 0 /\ NoRun.asked = FALSE /\ NoRun \in RunRows
      /\ Submitted.state = "running" /\ Submitted.events = 1 /\ Submitted \in RunRows
      /\ 1 < MaxEvents
  <2>1. NoRun.state = "none" /\ NoRun.events = 0 /\ NoRun.asked = FALSE /\ NoRun \in RunRows
    BY ClientAssumption DEF NoRun, RunRows, States
  <2>2. 1 \in 0..MaxEvents /\ 1 < MaxEvents
    BY ClientAssumption
  <2> QED
    BY <2>1, <2>2, Zenon DEF Submitted, RunRows, States
<1>4. /\ run' \in [Runs -> RunRows]
      /\ \A q \in Runs : run'[q] = IF q = r /\ to = "created" THEN Submitted ELSE run[q]
  BY <1>1, <1>3, Zenon DEF Set
<1>5. TypeOK'
  <2>1. stuck \subseteq {"put", "delete"} \X Runs
    BY Calls, Zenon DEF LeftBehind
  <2>2. late' \subseteq {"put", "delete"} \X Runs
    BY <2>1, Types, Zenon DEF IInv
  <2> QED
    BY <1>2, <1>4, <2>2, Zenon DEF IInv, TypeOK
<1>6. \A q \in Runs : Later(run[q], run'[q])
  <2>1. \A x \in RunRows : Later(x, x)
    BY ClientAssumption DEF Later, RunRows
  <2> QED
    BY <1>1, <1>3, <1>4, <2>1 DEF Later, Ended
<1>7. Submitted # NoRun
  BY <1>3, Zenon
<1>8. SubmitInv'
  <2> SUFFICES ASSUME NEW q \in Runs
               PROVE  /\ run'[q].state = "none" => run'[q] = NoRun
                      /\ run'[q].state = "running" => run'[q].events < MaxEvents
                      /\ post'[q] \in Working => run'[q] = NoRun
                      /\ post'[q] \in {"parse", "create"} => q \in source'
                      /\ post'[q] = "created" => run'[q].state # "none"
                      /\ cli.cmd \in {"run", "wait"} /\ post'[q] = "none" => run'[q] = NoRun
    BY Zenon DEF SubmitInv
  <2>1. CASE q = r
    BY <1>1, <1>2, <1>3, <1>4, <2>1 DEF IInv, SubmitInv, Working
  <2>2. CASE q # r
    BY <1>2, <1>4, <2>2, Zenon DEF IInv, SubmitInv
  <2> QED
    BY <2>1, <2>2, Zenon
<1>9. NoStraySource'
  <2>1. ASSUME NEW q \in source'
        PROVE  run'[q] # NoRun \/ post'[q] \in Working \/ q \in faulted'
    <3>1. CASE q = r
      BY <1>2, <1>4, <1>7, <2>1, <3>1, Zenon
    <3>2. CASE q # r
      BY <1>2, <1>4, <2>1, <3>2, Zenon DEF IInv, NoStraySource
    <3> QED
      BY <3>1, <3>2, Zenon
  <2>2. ASSUME NEW q \in Runs, run'[q] # NoRun PROVE q \in source'
    <3>1. CASE q = r
      BY <1>1, <1>4, <2>2, <3>1, Zenon
    <3>2. CASE q # r
      BY <1>4, <2>2, <3>2, Zenon DEF IInv, NoStraySource
    <3> QED
      BY <3>1, <3>2, Zenon
  <2> QED
    BY <2>1, <2>2, Zenon DEF NoStraySource
<1>10. LateInv'
  <2> SUFFICES ASSUME NEW q \in Runs
               PROVE  /\ <<"put", q>> \in late' => q \in faulted'
                      /\ <<"delete", q>> \in late' => post'[q] \in {"refused", "dead"} /\ run'[q] = NoRun
    BY Zenon DEF LateInv
  <2>1. <<"put", q>> \in stuck => q \in faulted'
    BY Pairs, Zenon DEF LeftBehind
  <2>2. <<"delete", q>> \in stuck => q = r /\ to = "refused"
    BY Pairs, Zenon DEF LeftBehind
  <2>3. <<"put", q>> \in late => q \in faulted'
    BY Zenon DEF IInv, LateInv
  <2>4. <<"delete", q>> \in late => q # r /\ post[q] \in {"refused", "dead"} /\ run[q] = NoRun
    BY Zenon DEF IInv, LateInv, Working
  <2> QED
    BY <1>1, <1>2, <1>4, <2>1, <2>2, <2>3, <2>4, Zenon
<1> QED
  BY <1>5, <1>6, <1>8, <1>9, <1>10, ServerIInv, Zenon

\* handleSubmitRun, step by step.
LEMMA SubmitRunIInv == ASSUME IInv, NEW r \in Runs, handleSubmitRun(r) PROVE IInv'
<1>1. source \subseteq Runs /\ faulted \subseteq Runs
  BY Types, Zenon DEF IInv
<1>6. late = late \cup {} /\ \A to : LeftBehind({}, r, to)
  BY Zenon DEF LeftBehind
<1>2. CASE readMultipartSubmit(r)
  <2>1. /\ uploaded' = uploaded /\ run' = run /\ cli' = cli
        /\ post[r] = "put"
        /\ \/ post' = [post EXCEPT ![r] = "parse"] /\ source' = source \cup {r}
           \/ post' = [post EXCEPT ![r] = "discard"] /\ source' \in {source, source \cup {r}}
    BY <1>2, Zenon DEF readMultipartSubmit, Handler, Refusal
  <2>2. "put" \in Working /\ "parse" \in Working /\ "discard" \in Working
    BY Zenon DEF Working
  <2>3. PICK stuck \in SUBSET Asked(r) :
          late' = late \cup stuck /\ faulted' = faulted \cup {m[2] : m \in stuck}
    BY <1>2, Zenon DEF readMultipartSubmit, Leave
  <2>4. \A m \in stuck : m = <<"put", r>>
    BY <2>1, Zenon DEF Asked
  <2>5. <<"put", r>>[2] = r
    OBVIOUS
  <2>6. \A m \in stuck : m[2] = r
    BY <2>4, <2>5, Zenon
  <2>7. /\ faulted \subseteq faulted' /\ faulted' \subseteq Runs
        /\ \A q \in Runs \ {r} : q \in faulted' <=> q \in faulted
        /\ \A m \in stuck : r \in faulted'
    BY <1>1, <2>3, <2>6, Zenon
  <2>8. \A to : LeftBehind(stuck, r, to)
    BY <2>4, <2>7, Zenon DEF LeftBehind
  <2>9. /\ source' \subseteq Runs
        /\ \A q \in Runs \ {r} : q \in source' <=> q \in source
    BY <1>1, <2>1, Zenon
  <2>10. CASE post' = [post EXCEPT ![r] = "parse"] /\ source' = source \cup {r}
    BY <2>1, <2>2, <2>3, <2>7, <2>8, <2>9, <2>10, HandlerIInv, Zenon
  <2>11. CASE post' = [post EXCEPT ![r] = "discard"]
    BY <2>1, <2>2, <2>3, <2>7, <2>8, <2>9, <2>11, HandlerIInv, Zenon
  <2> QED
    BY <2>1, <2>10, <2>11, Zenon
<1>3. CASE Parse(r)
  <2>1. /\ uploaded' = uploaded /\ run' = run /\ faulted' = faulted /\ late' = late
        /\ cli' = cli /\ source' = source
        /\ post[r] \in Working
        /\ post' = [post EXCEPT ![r] = "create"] \/ post' = [post EXCEPT ![r] = "discard"]
        /\ post[r] = "parse"
    BY <1>3, Zenon DEF Parse, Handler, Refusal, Working
  <2>2. "create" \in Working /\ "discard" \in Working
    BY Zenon DEF Working
  <2>3. r \in source
    BY <2>1, Zenon DEF IInv, SubmitInv
  <2>4. CASE post' = [post EXCEPT ![r] = "create"]
    BY <1>1, <1>6, <2>1, <2>2, <2>3, <2>4, HandlerIInv, Zenon
  <2>5. CASE post' = [post EXCEPT ![r] = "discard"]
    BY <1>1, <1>6, <2>1, <2>2, <2>5, HandlerIInv, Zenon
  <2> QED
    BY <2>1, <2>4, <2>5, Zenon
<1>4. CASE submitRun(r)
  <2>1. /\ uploaded' = uploaded /\ faulted' = faulted /\ late' = late
        /\ cli' = cli /\ source' = source
        /\ post[r] \in Working
        /\ \/ post' = [post EXCEPT ![r] = "created"] /\ Set(r, Submitted)
           \/ post' = [post EXCEPT ![r] = "discard"] /\ run' = run
        /\ post[r] = "create"
    BY <1>4, Zenon DEF submitRun, Handler, Refusal, Working
  <2>2. "discard" \in Working /\ "created" \notin Working
    BY Zenon DEF Working
  <2>3. r \in source
    BY <2>1, Zenon DEF IInv, SubmitInv
  <2>4. CASE post' = [post EXCEPT ![r] = "created"] /\ Set(r, Submitted)
    BY <1>1, <1>6, <2>1, <2>2, <2>3, <2>4, HandlerIInv, Zenon
  <2>5. CASE post' = [post EXCEPT ![r] = "discard"] /\ run' = run
    BY <1>1, <1>6, <2>1, <2>2, <2>5, HandlerIInv, Zenon
  <2> QED
    BY <2>1, <2>4, <2>5, Zenon
<1>5. CASE discard(r)
  <2>1. /\ uploaded' = uploaded /\ run' = run /\ cli' = cli
        /\ post[r] = "discard" /\ post' = [post EXCEPT ![r] = "refused"]
        /\ \/ source' = source \ {r} /\ faulted' = faulted
           \/ source' \in {source, source \ {r}} /\ faulted' = faulted \cup {r}
    BY <1>5, Zenon DEF discard, Handler
  <2>2. "refused" \notin Working /\ "discard" \in Working
    BY Zenon DEF Working
  <2>3. PICK stuck \in SUBSET Asked(r) : late' = late \cup stuck
    BY <1>5, Zenon DEF discard, Leave
  <2>4. \A m \in stuck : m = <<"delete", r>>
    BY <2>1, Zenon DEF Asked
  <2>5. LeftBehind(stuck, r, "refused")
    BY <2>4, Zenon DEF LeftBehind
  <2>6. /\ source' \subseteq Runs /\ faulted \subseteq faulted' /\ faulted' \subseteq Runs
        /\ \A q \in Runs \ {r} : (q \in source' <=> q \in source) /\ (q \in faulted' <=> q \in faulted)
        /\ r \notin source' \/ r \in faulted'
    BY <1>1, <2>1, Zenon
  <2> QED
    BY <2>1, <2>2, <2>3, <2>5, <2>6, HandlerIInv, Zenon
<1> QED
  BY <1>2, <1>3, <1>4, <1>5, Zenon DEF handleSubmitRun

\* The server dies, and every handler with it.
LEMMA CrashIInv == ASSUME IInv, Crash PROVE IInv'
<1>1. /\ run' = run /\ uploaded' = uploaded /\ source' = source /\ cli' = cli
      /\ post' = [r \in Runs |-> IF post[r] \in Working THEN "dead" ELSE post[r]]
      /\ faulted' = faulted \cup {r \in Runs : post'[r] # post[r]}
  BY Zenon DEF Crash
<1>2. \A r \in Runs : post'[r] = IF post[r] \in Working THEN "dead" ELSE post[r]
  BY <1>1, Zenon
<1>8. PICK stuck \in SUBSET UNION {Asked(r) : r \in Runs} : late' = late \cup stuck
  BY Zenon DEF Crash, Leave
<1>9. \A m \in stuck : \E r \in Runs : post[r] \in Working /\ m \in {<<"put", r>>, <<"delete", r>>}
  <2>1. \A r \in Runs : \A m \in Asked(r) : /\ post[r] \in {"put", "discard"}
                                            /\ m \in {<<"put", r>>, <<"delete", r>>}
    BY Zenon DEF Asked
  <2> QED
    BY <1>8, <2>1, Zenon DEF Working
<1>3. TypeOK'
  <2>1. late' \subseteq {"put", "delete"} \X Runs
    <3>1. \A m \in stuck : m \in {"put", "delete"} \X Runs
      BY <1>9, Calls, Zenon
    <3> QED BY <1>8, <3>1, Types, Zenon DEF IInv
  <2> QED
    BY <1>1, <1>2, <2>1, Zenon DEF IInv, TypeOK
<1>4. \A r \in Runs : Later(run[r], run'[r])
  BY <1>1, Types, ClientAssumption DEF IInv, Later, RunRows
<1>5. \A r \in Runs : (post[r] \in Working => r \in faulted') /\ post'[r] \notin Working
  BY <1>1, <1>2, Zenon DEF Working
<1>6. SubmitInv'
  <2> SUFFICES ASSUME NEW q \in Runs
               PROVE  /\ run[q].state = "none" => run[q] = NoRun
                      /\ run[q].state = "running" => run[q].events < MaxEvents
                      /\ post'[q] \in Working => run[q] = NoRun
                      /\ post'[q] \in {"parse", "create"} => q \in source
                      /\ post'[q] = "created" => run[q].state # "none"
                      /\ cli.cmd \in {"run", "wait"} /\ post'[q] = "none" => run[q] = NoRun
    BY <1>1, Zenon DEF SubmitInv
  <2> QED
    BY <1>2, <1>5, Zenon DEF IInv, SubmitInv
<1>7. NoStraySource'
  BY <1>1, <1>5, Types, Zenon DEF IInv, NoStraySource
<1>10. LateInv'
  <2> SUFFICES ASSUME NEW q \in Runs
               PROVE  /\ <<"put", q>> \in late' => q \in faulted'
                      /\ <<"delete", q>> \in late' => post'[q] \in {"refused", "dead"} /\ run[q] = NoRun
    BY <1>1, Zenon DEF LateInv
  <2>1. ASSUME <<"put", q>> \in stuck \/ <<"delete", q>> \in stuck PROVE post[q] \in Working
    BY <1>9, <2>1, Pairs, Zenon
  <2>2. post[q] \in Working => q \in faulted' /\ post'[q] = "dead" /\ run[q] = NoRun
    BY <1>2, <1>5, Zenon DEF IInv, SubmitInv
  <2>3. /\ <<"put", q>> \in late => q \in faulted'
        /\ <<"delete", q>> \in late => post[q] \in {"refused", "dead"} /\ run[q] = NoRun
    BY <1>1, Zenon DEF IInv, LateInv
  <2>4. post[q] \in {"refused", "dead"} => post'[q] \in {"refused", "dead"}
    BY <1>2, Zenon
  <2> QED
    BY <1>8, <2>1, <2>2, <2>3, <2>4, Zenon
<1> QED
  BY <1>1, <1>3, <1>4, <1>6, <1>7, <1>10, ServerIInv, Zenon

\* A request that was given up takes effect: a put is known as a fault, and a delete
\* takes no bundle that is needed.
LEMMA ArriveIInv == ASSUME IInv, Arrive PROVE IInv'
<1>1. PICK m \in late :
        /\ late' = late \ {m}
        /\ source' = IF m[1] = "put" THEN source \cup {m[2]} ELSE source \ {m[2]}
  BY Zenon DEF Arrive
<1>2. run' = run /\ uploaded' = uploaded /\ post' = post /\ faulted' = faulted /\ cli' = cli
  BY Zenon DEF Arrive
<1>3. PICK kind \in {"put", "delete"}, r \in Runs : m = <<kind, r>>
  BY Calls, Types, Zenon DEF IInv
<1>4. m[1] = kind /\ m[2] = r
  BY <1>3
<1>5. /\ kind = "put" => source' = source \cup {r} /\ r \in faulted
      /\ kind = "delete" => /\ source' = source \ {r} /\ run[r] = NoRun
                            /\ post[r] \in {"refused", "dead"}
  BY <1>1, <1>3, <1>4, Zenon DEF IInv, LateInv
<1>6. TypeOK'
  <2>1. source' \subseteq Runs /\ late' \subseteq {"put", "delete"} \X Runs
    BY <1>1, <1>3, <1>5, Types, Zenon DEF IInv
  <2> QED
    BY <1>2, <2>1, Zenon DEF IInv, TypeOK
<1>7. \A q \in Runs : Later(run[q], run'[q])
  BY <1>2, Types, ClientAssumption DEF IInv, Later, RunRows
<1>8. SubmitInv'
  <2>1. \A q \in Runs : post[q] \in {"parse", "create"} => q \in source'
    BY <1>3, <1>5, Zenon DEF IInv, SubmitInv
  <2> QED
    BY <1>2, <2>1, Zenon DEF IInv, SubmitInv
<1>9. LateInv'
  BY <1>1, <1>2, Zenon DEF IInv, LateInv
<1>10. NoStraySource'
  <2>1. \A q \in source' : q \in source \/ q \in faulted
    BY <1>3, <1>5, Zenon
  <2>2. \A q \in source' : run[q] # NoRun \/ post[q] \in Working \/ q \in faulted
    BY <2>1, Zenon DEF IInv, NoStraySource
  <2>3. \A q \in Runs : run[q] # NoRun => q \in source'
    BY <1>3, <1>5, Zenon DEF IInv, NoStraySource
  <2> QED
    BY <1>2, <2>2, <2>3, Zenon DEF NoStraySource
<1> QED
  BY <1>2, <1>6, <1>7, <1>8, <1>9, <1>10, ServerIInv, Zenon
-----------------------------------------------------------------------------
(***************************************************************************)
(* The commands.                                                           *)
(***************************************************************************)

\* What a command holds that it does not change when it goes on or ends.
LEMMA CliFacts ==
  ASSUME IInv
  PROVE  /\ cli \in Commands /\ cli.run \in Runs /\ run[cli.run] \in RunRows
         /\ run[cli.run].state \in States /\ run[cli.run].events \in Nat
         /\ run \in [Runs -> RunRows]
  <1>1. cli \in Commands /\ run \in [Runs -> RunRows]
    BY Types, Zenon DEF IInv
  <1>2. cli.run \in Runs
    BY <1>1, Zenon DEF Commands
  <1>3. run[cli.run] \in RunRows
    BY <1>1, <1>2, Zenon
  <1> QED
    BY <1>1, <1>2, <1>3 DEF RunRows

\* The bundle is sent: an id nobody has used.
LEMMA SubmitIInv == ASSUME IInv, Submit PROVE IInv'
<1>1. PICK r \in Runs : Handler(r, "none", "put") /\ cli' = [cli EXCEPT !.at = "posted", !.run = r]
  BY Zenon DEF Submit
<1>2. /\ run' = run /\ uploaded' = uploaded /\ source' = source /\ late' = late /\ faulted' = faulted
      /\ cli.at = "submit" /\ post[r] = "none" /\ post' = [post EXCEPT ![r] = "put"]
  BY <1>1, Zenon DEF Submit, Handler
<1>3. /\ cli' \in Commands /\ cli'.at = "posted" /\ cli'.run = r
      /\ cli'.cmd = cli.cmd /\ cli'.state = cli.state /\ cli'.jobs = cli.jobs
      /\ cli'.printed = cli.printed /\ cli'.after = cli.after
      /\ cli'.row = cli.row /\ cli'.file = cli.file
  BY <1>1, CliFacts, Zenon DEF Commands, Places
<1>4. cli.cmd \in {"run", "wait"} /\ cli.state = "none" /\ run[r] = NoRun
  BY <1>2, Zenon DEF IInv, CommandInv, SubmitInv
<1>5. /\ post' \in [Runs -> Working \cup {"none", "created", "refused", "dead"}]
      /\ \A q \in Runs : post'[q] = IF q = r THEN "put" ELSE post[q]
  BY <1>2, Types, Zenon DEF IInv, Working
<1>6. TypeOK'
  BY <1>2, <1>3, <1>5, Zenon DEF IInv, TypeOK
<1>7. SubmitInv'
  <2> SUFFICES ASSUME NEW q \in Runs
               PROVE  /\ run[q].state = "none" => run[q] = NoRun
                      /\ run[q].state = "running" => run[q].events < MaxEvents
                      /\ post'[q] \in Working => run[q] = NoRun
                      /\ post'[q] \in {"parse", "create"} => q \in source
                      /\ post'[q] = "created" => run[q].state # "none"
                      /\ cli.cmd \in {"run", "wait"} /\ post'[q] = "none" => run[q] = NoRun
    BY <1>2, <1>3, Zenon DEF SubmitInv
  <2> QED
    BY <1>4, <1>5, Zenon DEF IInv, SubmitInv
<1>8. CommandInv'
  BY <1>3, <1>4, Zenon DEF CommandInv, Ended
<1>9. CursorInv'
  BY <1>3, <1>4, Zenon DEF IInv, CursorInv
<1>10. FileInv' /\ ExitTruthful'
  BY <1>2, <1>3, <1>4, Zenon DEF IInv, FileInv, FileIsListed, ExitTruthful, Ended
<1>11. NoStraySource'
  BY <1>2, <1>4, <1>5, Types, Zenon DEF IInv, NoStraySource, Working
<1>12. LateInv'
  BY <1>2, <1>5, Zenon DEF IInv, LateInv
<1> QED
  BY <1>6, <1>7, <1>8, <1>9, <1>10, <1>11, <1>12, Zenon DEF IInv

\* A command that goes to another place without having read anything.
LEMMA GoIInv ==
  ASSUME IInv, UNCHANGED server, NEW to \in Places \ {"exit"}, cli' = [cli EXCEPT !.at = to],
         cli.at = "posted" /\ to \in {"submit", "run"}, to = "run" => cli.cmd = "wait"
  PROVE  IInv'
<1>1. /\ cli' \in Commands /\ cli'.at = to /\ cli'.run = cli.run
      /\ cli'.cmd = cli.cmd /\ cli'.state = cli.state /\ cli'.jobs = cli.jobs
      /\ cli'.printed = cli.printed /\ cli'.after = cli.after
      /\ cli'.row = cli.row /\ cli'.file = cli.file
  BY CliFacts, Zenon DEF Commands
<1>2. run' = run
  BY Zenon DEF server
<1>3. cli.cmd \in {"run", "wait"} /\ cli.state = "none"
  BY Zenon DEF IInv, CommandInv
<1>4. CommandInv'
  BY <1>1, <1>3, Zenon DEF CommandInv, Ended
<1>5. CursorInv'
  BY <1>1, <1>3, Zenon DEF IInv, CursorInv
<1>6. FileInv' /\ ExitTruthful'
  BY <1>1, <1>3, Zenon DEF IInv, FileInv, FileIsListed, ExitTruthful, Ended
<1> QED
  BY <1>1, <1>4, <1>5, <1>6, ClientIInv, Zenon

\* A command ends; events ends here only with an error.
LEMMA ExitIInv ==
  ASSUME IInv, NEW code \in {0, 1}, Exit(code), cli.cmd # "events" \/ code = 1, cli.at # "exit",
         UNCHANGED server,
         code = 0 => /\ cli.cmd = "run" => run[cli.run].state # "none"
                     /\ cli.cmd = "wait" => run[cli.run].state = "succeeded"
                     /\ cli.cmd = "cancel" => run[cli.run].asked
  PROVE  IInv'
<1>1. /\ cli' \in Commands /\ cli'.at = "exit" /\ cli'.code = code /\ cli'.run = cli.run
      /\ cli'.cmd = cli.cmd /\ cli'.state = cli.state /\ cli'.jobs = cli.jobs
      /\ cli'.printed = cli.printed /\ cli'.after = cli.after
      /\ cli'.row = cli.row /\ cli'.file = cli.file
  BY CliFacts, Zenon DEF Exit, Commands, Places
<1>2. run' = run
  BY Zenon DEF server
<1>3. CommandInv'
  BY <1>1, <1>2, Zenon DEF IInv, CommandInv
<1>4. CursorInv'
  <2>1. cli.cmd = "events" => cli'.code # 0
    BY <1>1
  <2> QED
    BY <1>1, <1>2, <2>1, Zenon DEF IInv, CursorInv
<1>5. FileInv'
  BY <1>1, Zenon DEF IInv, FileInv, FileIsListed
<1>6. ExitTruthful'
  BY <1>1, <1>2, Zenon DEF IInv, ExitTruthful
<1> QED
  BY <1>1, <1>3, <1>4, <1>5, <1>6, ClientIInv, Zenon

\* A command that is given up ends with an error.
LEMMA GiveUpIInv == ASSUME IInv, GiveUp PROVE IInv'
<1>1. 1 \in {0, 1} /\ 1 # 0
  OBVIOUS
<1> QED
  BY <1>1, ExitIInv, Zenon DEF GiveUp

\* The answer to a submission, or none.
LEMMA SubmitAnswerIInv == ASSUME IInv, SubmitAnswer \/ SubmitLost PROVE IInv'
<1>1. UNCHANGED server /\ cli.at = "posted"
  BY Zenon DEF SubmitAnswer, SubmitLost
<1>2. cli.cmd \in {"run", "wait"}
  BY <1>1, Zenon DEF IInv, CommandInv
<1>3. CASE SubmitLost
  BY <1>1, <1>3, GoIInv, Zenon DEF SubmitLost, Places
<1>4. CASE SubmitAnswer /\ post[cli.run] = "created" /\ cli.cmd = "run" /\ Exit(0)
  <2>1. run[cli.run].state # "none"
    BY <1>4, CliFacts, Zenon DEF IInv, SubmitInv
  <2> QED
    BY <1>1, <1>4, <2>1, ExitIInv, Zenon
<1>5. CASE SubmitAnswer /\ cli.cmd # "run" /\ cli' = [cli EXCEPT !.at = "run"]
  BY <1>1, <1>2, <1>5, GoIInv, Zenon DEF Places
<1>6. CASE SubmitAnswer /\ Exit(1)
  BY <1>1, <1>2, <1>6, ExitIInv
<1> QED
  BY <1>3, <1>4, <1>5, <1>6, Zenon DEF SubmitAnswer

\* The run is read, and what is read of a finished one stays true.
LEMMA GetRunIInv == ASSUME IInv, GetRun \/ GetRunLost PROVE IInv'
<1>1. UNCHANGED server /\ run' = run /\ cli.at \in {"run", "jobs"}
  BY Zenon DEF GetRun, GetRunLost, server
<1>2. cli.cmd \in {"wait", "events"}
  BY <1>1, Zenon DEF IInv, CommandInv
<1>3. /\ cli' \in Commands /\ cli'.run = cli.run /\ cli'.cmd = cli.cmd
      /\ cli'.printed = cli.printed /\ cli'.after = cli.after
      /\ cli'.row = cli.row /\ cli'.file = cli.file
      /\ \/ cli'.at = "jobs" /\ cli'.state = run[cli.run].state /\ cli'.jobs = "none"
         \/ cli'.at = "run" /\ cli'.state = "none"
  <2>1. CASE GetRun
    BY <2>1, CliFacts, Zenon DEF GetRun, Commands, Places, States
  <2>2. CASE GetRunLost
    BY <2>2, CliFacts, Zenon DEF GetRunLost, Commands, Places, States
  <2> QED
    BY <2>1, <2>2, Zenon
<1>4. CommandInv'
  BY <1>1, <1>2, <1>3, Zenon DEF CommandInv, Ended
<1>5. CursorInv'
  BY <1>1, <1>3, Zenon DEF IInv, CursorInv
<1>6. FileInv'
  BY <1>1, <1>3, Zenon DEF IInv, FileInv, FileIsListed
<1>7. ExitTruthful'
  BY <1>3, Zenon DEF ExitTruthful, Ended
<1> QED
  BY <1>1, <1>3, <1>4, <1>5, <1>6, <1>7, ClientIInv, Zenon

\* The answer is used: a run that was finished at the first read still is at the
\* second.
LEMMA GetRunAnswerIInv == ASSUME IInv, GetRunAnswer PROVE IInv'
<1>1. UNCHANGED server /\ run' = run /\ cli.at = "jobs"
  BY Zenon DEF GetRunAnswer, server
<1>2. cli.cmd \in {"wait", "events"} /\ (cli.state \in Ended => run[cli.run].state = cli.state)
  BY <1>1, Zenon DEF IInv, CommandInv
<1>3. PICK g : g = [cli EXCEPT !.jobs = run[cli.run].state]
  BY Zenon
<1>4. /\ g \in Commands /\ g.run = cli.run /\ g.cmd = cli.cmd
      /\ g.printed = cli.printed /\ g.after = cli.after /\ g.state = cli.state
      /\ g.row = cli.row /\ g.file = cli.file /\ g.jobs = run[cli.run].state
  BY <1>3, CliFacts, Zenon DEF Commands
<1>5. \/ cli.cmd = "events" /\ cli' = [g EXCEPT !.at = "events"]
      \/ cli.cmd # "events" /\ cli.state \in Ended
           /\ cli' = [g EXCEPT !.at = "exit", !.code = ExitCode(cli.state)]
      \/ cli.cmd # "events" /\ cli.state \notin Ended /\ cli' = [g EXCEPT !.at = "run"]
  BY <1>3, Zenon DEF GetRunAnswer
<1>6. /\ cli' \in Commands /\ cli'.run = cli.run /\ cli'.cmd = cli.cmd
      /\ cli'.printed = cli.printed /\ cli'.after = cli.after
      /\ cli'.state = cli.state /\ cli'.jobs = run[cli.run].state
      /\ cli'.row = cli.row /\ cli'.file = cli.file
      /\ \/ cli.cmd = "events" /\ cli'.at = "events"
         \/ cli.cmd = "wait" /\ cli.state \in Ended /\ cli'.at = "exit" /\ cli'.code = ExitCode(cli.state)
         \/ cli.cmd = "wait" /\ cli'.at = "run"
  <2>1. ExitCode(cli.state) \in {0, 1}
    BY Zenon DEF ExitCode
  <2>2. CASE cli.cmd = "events" /\ cli' = [g EXCEPT !.at = "events"]
    BY <1>4, <2>2, Zenon DEF Commands, Places
  <2>3. CASE /\ cli.cmd # "events" /\ cli.state \in Ended
             /\ cli' = [g EXCEPT !.at = "exit", !.code = ExitCode(cli.state)]
    BY <1>2, <1>4, <2>1, <2>3, Zenon DEF Commands, Places
  <2>4. CASE cli.cmd # "events" /\ cli.state \notin Ended /\ cli' = [g EXCEPT !.at = "run"]
    BY <1>2, <1>4, <2>4, Zenon DEF Commands, Places
  <2> QED
    BY <1>5, <2>2, <2>3, <2>4, Zenon
<1>7. CommandInv'
  BY <1>1, <1>2, <1>6, Zenon DEF CommandInv
<1>8. CursorInv'
  BY <1>1, <1>6, Zenon DEF IInv, CursorInv
<1>9. FileInv'
  BY <1>1, <1>6, Zenon DEF IInv, FileInv, FileIsListed
<1>10. ExitTruthful'
  BY <1>1, <1>2, <1>6 DEF ExitTruthful, ExitCode, Ended
<1> QED
  BY <1>1, <1>6, <1>7, <1>8, <1>9, <1>10, ClientIInv, Zenon

\* A page of events: the cursor moves with what is printed, and a finished run
\* with an empty page has no more to come.
LEMMA ListEventsIInv == ASSUME IInv, ListEvents PROVE IInv'
<1>1. UNCHANGED server /\ run' = run /\ cli.at = "events" /\ cli.cmd = "events"
  BY Zenon DEF ListEvents, server, IInv, CommandInv
<1>2. PICK n : n = run[cli.run].events - cli.after
  BY Zenon
<1>3. cli.after \in Nat /\ n \in Nat /\ cli.after + n = run[cli.run].events
  BY <1>1, <1>2, CliFacts DEF IInv, CursorInv, Commands
<1>4. PICK evs : evs = [i \in 1..n |-> cli.after + i]
  BY Zenon
<1>5. /\ evs \in Seq(Nat) /\ Len(evs) = n /\ (evs = <<>> <=> n = 0)
      /\ [i \in 1..cli.after |-> i] \o evs = [i \in 1..(cli.after + n) |-> i]
  BY <1>3, <1>4, Page, Zenon
<1>6. cli.printed = [i \in 1..cli.after |-> i]
  BY Zenon DEF IInv, CursorInv
<1>7. cli' = [cli EXCEPT !.printed = cli.printed \o evs, !.after = cli.after + Len(evs),
                         !.state = "none", !.jobs = "none",
                         !.at = IF Drained(cli.state \in Ended, evs) THEN "exit" ELSE "run"]
  BY <1>2, <1>4, Zenon DEF ListEvents
<1>8. cli.printed \o evs \in Seq(Nat) /\ cli.after + Len(evs) \in Nat
  BY <1>3, <1>5, CliFacts, ConcatProperties, Zenon DEF Commands
<1>9. /\ cli' \in Commands /\ cli'.run = cli.run /\ cli'.cmd = cli.cmd
      /\ cli'.printed = cli.printed \o evs /\ cli'.after = cli.after + Len(evs)
      /\ cli'.state = "none" /\ cli'.row = cli.row /\ cli'.file = cli.file
      /\ cli'.at = IF Drained(cli.state \in Ended, evs) THEN "exit" ELSE "run"
  BY <1>7, <1>8, CliFacts, Zenon DEF Commands, Places, States
<1>10. CommandInv'
  BY <1>1, <1>9, Zenon DEF CommandInv, Ended
<1>11. CursorInv'
  <2>1. cli'.printed = [i \in 1..cli'.after |-> i] /\ cli'.after = run[cli.run].events
    BY <1>3, <1>5, <1>6, <1>9, Zenon
  <2>2. cli'.at = "exit" => run[cli.run].state \in Ended
    BY <1>9, Zenon DEF Drained, IInv, CommandInv
  <2> QED
    BY <1>1, <1>3, <1>9, <2>1, <2>2, CliFacts DEF CursorInv
<1>12. FileInv'
  BY <1>1, <1>9, Zenon DEF IInv, FileInv, FileIsListed
<1>13. ExitTruthful'
  BY <1>1, <1>9, Zenon DEF ExitTruthful, Ended
<1> QED
  BY <1>1, <1>9, <1>10, <1>11, <1>12, <1>13, ClientIInv, Zenon

\* artifacts: only a file that matches the listing is left.
LEMMA ArtifactsIInv ==
  ASSUME IInv, ListArtifacts \/ DownloadArtifact \/ downloadArtifact
  PROVE  IInv'
<1>1. UNCHANGED server /\ run' = run /\ cli.at \in {"list", "get", "check"} /\ cli.cmd = "artifacts"
  BY Zenon DEF ListArtifacts, DownloadArtifact, downloadArtifact, server, IInv, CommandInv
<1>2. ASSUME NEW code \in {0, 1}, Exit(code) PROVE IInv'
  BY <1>1, <1>2, ExitIInv, Zenon
<1>3. cli.file = <<>>
  BY <1>1, Zenon DEF IInv, FileInv
<1>4. \A i \in Nat : Content(i) \in Seq(Nat) /\ SubSeq(Content(i), 1, 1) \in Seq(Nat)
  <2>1. \A i \in Nat : Content(i) \in Seq(Nat) /\ Len(Content(i)) = 2
    BY DEF Content
  <2>2. ASSUME NEW i \in Nat PROVE SubSeq(Content(i), 1, 1) \in Seq(Nat)
    <3>1. 1 \in Int /\ \A j \in 1..1 : j \in 1..2
      OBVIOUS
    <3>2. \A j \in 1..1 : Content(i)[j] \in Nat
      BY <2>1, <3>1, ElementOfSeq, Zenon
    <3> QED BY <3>1, <3>2, SubSeqProperties, Zenon
  <2> QED
    BY <2>1, <2>2, Zenon
<1>5. attemptParam \in Nat
  <2>1. run[cli.run].attempt \in Nat /\ cli.attempt \in Nat
    BY CliFacts, ClientAssumption DEF RunRows, Commands
  <2> QED
    BY <2>1, Zenon DEF attemptParam
<1>6. ASSUME /\ cli' \in Commands /\ cli'.run = cli.run /\ cli'.cmd = cli.cmd
             /\ cli'.printed = cli.printed /\ cli'.after = cli.after
             /\ cli'.state = cli.state /\ cli'.jobs = cli.jobs
             /\ cli'.at \in {"get", "check", "exit"}
             /\ cli'.file # <<>> => cli'.at = "exit" /\ cli'.file = cli'.row
      PROVE  IInv'
  <2>1. CommandInv'
    BY <1>1, <1>6, Zenon DEF IInv, CommandInv
  <2>2. CursorInv'
    BY <1>1, <1>6, Zenon DEF IInv, CursorInv
  <2>3. FileInv'
    BY <1>6, Zenon DEF FileInv, FileIsListed
  <2>4. ExitTruthful'
    BY <1>1, <1>6, Zenon DEF IInv, ExitTruthful
  <2> QED
    BY <1>1, <1>6, <2>1, <2>2, <2>3, <2>4, ClientIInv, Zenon
<1>7. CASE cli' = [cli EXCEPT !.at = "get", !.row = Content(attemptParam)]
  BY <1>3, <1>4, <1>5, <1>6, <1>7, CliFacts, Zenon DEF Commands, Places
<1>8. CASE cli' = [cli EXCEPT !.spool = Content(attemptParam), !.at = "check"]
  BY <1>3, <1>4, <1>5, <1>6, <1>8, CliFacts, Zenon DEF Commands, Places
<1>9. CASE /\ cli.at = "get" /\ cli.cuts < MaxCuts
           /\ cli' = [cli EXCEPT !.spool = SubSeq(Content(attemptParam), 1, 1), !.cuts = @ + 1]
  <2>1. cli.cuts + 1 \in 0..MaxCuts
    BY <1>9, CliFacts, ClientAssumption DEF Commands
  <2>2. PICK d : d = SubSeq(Content(attemptParam), 1, 1)
    BY Zenon
  <2>3. d \in Seq(Nat) /\ cli' = [cli EXCEPT !.spool = d, !.cuts = cli.cuts + 1]
    BY <1>4, <1>5, <1>9, <2>2, Zenon
  <2>4. cli' \in Commands
    BY <2>1, <2>3, CliFacts, Zenon DEF Commands
  <2>5. /\ cli'.run = cli.run /\ cli'.cmd = cli.cmd /\ cli'.printed = cli.printed /\ cli'.after = cli.after
        /\ cli'.state = cli.state /\ cli'.jobs = cli.jobs /\ cli'.at = "get" /\ cli'.file = <<>>
    BY <1>3, <1>9, <2>3, CliFacts, Zenon DEF Commands
  <2> QED
    BY <1>6, <2>4, <2>5, Zenon
<1>10. CASE cli.spool = cli.row /\ cli' = [cli EXCEPT !.at = "exit", !.file = cli.spool]
  BY <1>6, <1>10, CliFacts, Zenon DEF Commands, Places
<1>11. CASE cli' = [cli EXCEPT !.at = "exit", !.code = 1]
  BY <1>2, <1>11, Zenon DEF Exit
<1> QED
  BY <1>2, <1>7, <1>8, <1>9, <1>10, <1>11, Zenon
     DEF ListArtifacts, DownloadArtifact, downloadArtifact, Matches

\* A cancel that is answered with success has been asked for.
LEMMA CancelIInv == ASSUME IInv, Cancel PROVE IInv'
<1>1. /\ uploaded' = uploaded /\ source' = source /\ post' = post
      /\ late' = late /\ faulted' = faulted
      /\ cli.at = "cancel" /\ cli.cmd = "cancel"
  BY Zenon DEF Cancel, IInv, CommandInv
<1>2. PICK r \in Runs : r = cli.run
  BY CliFacts, Zenon
<1>3. CASE Exit(1) /\ run' = run
  BY <1>1, <1>3, ExitIInv DEF server
<1>4. ASSUME run[r].state = "running",
             Set(r, [run[r] EXCEPT !.asked = TRUE,
                                   !.events = IF ~run[r].asked /\ run[r].events < MaxEvents - 1
                                              THEN @ + 1 ELSE @]),
             Exit(0) \/ cli' = cli
      PROVE  IInv'
  <2>1. PICK e : e = IF ~run[r].asked /\ run[r].events < MaxEvents - 1
                     THEN run[r].events + 1 ELSE run[r].events
    BY Zenon
  <2>2. PICK x : x = [run[r] EXCEPT !.asked = TRUE, !.events = e]
    BY Zenon
  <2>3. run[r] \in RunRows /\ run \in [Runs -> RunRows] /\ run[r].events \in 0..MaxEvents
    BY <1>2, CliFacts, Zenon DEF RunRows
  <2>4. run[r].events < MaxEvents
    BY <1>4, Zenon DEF IInv, SubmitInv
  <2>5. e \in 0..MaxEvents /\ e < MaxEvents /\ run[r].events <= e
    BY <2>1, <2>3, <2>4, ClientAssumption
  <2>6. x \in RunRows /\ x.state = "running" /\ x.asked = TRUE /\ x.events = e
    BY <1>4, <2>2, <2>3, <2>5, Zenon DEF RunRows
  <2>7. /\ run' \in [Runs -> RunRows]
        /\ \A q \in Runs : run'[q] = IF q = r THEN x ELSE run[q]
    BY <1>4, <2>1, <2>2, <2>3, <2>6, Zenon DEF Set
  <2>8. run[r] # NoRun /\ x # NoRun
    BY <1>4, <2>6 DEF NoRun
  <2>9. cli' \in Commands /\ cli'.cmd = cli.cmd /\ cli'.run = r /\ cli'.state = cli.state
        /\ cli'.printed = cli.printed /\ cli'.after = cli.after
        /\ cli'.row = cli.row /\ cli'.file = cli.file
        /\ cli'.at \in {"cancel", "exit"} /\ (cli'.at # "exit" => cli' = cli)
    BY <1>1, <1>2, <1>4, CliFacts, Zenon DEF Exit, Commands, Places
  <2>10. TypeOK'
    BY <1>1, <2>7, <2>9, Zenon DEF IInv, TypeOK
  <2>11. SubmitInv'
    <3> SUFFICES ASSUME NEW q \in Runs
                 PROVE  /\ run'[q].state = "none" => run'[q] = NoRun
                        /\ run'[q].state = "running" => run'[q].events < MaxEvents
                        /\ post[q] \in Working => run'[q] = NoRun
                        /\ post[q] \in {"parse", "create"} => q \in source
                        /\ post[q] = "created" => run'[q].state # "none"
                        /\ cli.cmd \in {"run", "wait"} /\ post[q] = "none" => run'[q] = NoRun
      BY <1>1, <2>9, Zenon DEF SubmitInv
    <3> QED
      BY <1>1, <2>5, <2>6, <2>7, <2>8, Zenon DEF IInv, SubmitInv
  <2>12. cli.state \notin Ended
    BY <1>2, <1>4, Zenon DEF IInv, CommandInv, Ended
  <2>13. CommandInv'
    BY <1>1, <2>9, <2>12, Zenon DEF CommandInv
  <2>14. CursorInv'
    BY <1>1, <2>9, Zenon DEF IInv, CursorInv
  <2>15. FileInv'
    BY <1>1, <2>9, Zenon DEF IInv, FileInv, FileIsListed
  <2>16. ExitTruthful'
    BY <1>1, <2>6, <2>7, <2>9, <2>12, Zenon DEF ExitTruthful
  <2>17. NoStraySource'
    BY <1>1, <2>7, <2>8, Types, Zenon DEF IInv, NoStraySource
  <2>18. LateInv'
    BY <1>1, <2>7, <2>8, Zenon DEF IInv, LateInv
  <2> QED
    BY <2>10, <2>11, <2>13, <2>14, <2>15, <2>16, <2>17, <2>18, Zenon DEF IInv
<1> QED
  BY <1>2, <1>3, <1>4, Zenon DEF Cancel
-----------------------------------------------------------------------------
\* The first states: one command, and the run it names if it names one.
LEMMA InitIInv == Init => IInv
<1> SUFFICES ASSUME Init
             PROVE  IInv
  BY Zenon
<1>1. PICK cmd \in {"run", "wait", "events", "artifacts", "cancel"}, r \in Runs, a \in 0..MaxClaims :
        /\ run = [x \in Runs |-> IF x = r /\ cmd \notin {"run", "wait"} THEN Submitted ELSE NoRun]
        /\ uploaded = [x \in Runs |-> {}]
        /\ source = {x \in Runs : run[x] # NoRun}
        /\ post = [x \in Runs |-> "none"]
        /\ late = {} /\ faulted = {}
        /\ cli = [cmd |-> cmd, run |-> r, attempt |-> a,
                  at |-> CASE cmd \in {"run", "wait"} -> "submit" [] cmd = "events" -> "run"
                           [] cmd = "artifacts" -> "list" [] cmd = "cancel" -> "cancel",
                  state |-> "none", jobs |-> "none", printed |-> <<>>, after |-> 0,
                  row |-> <<>>, spool |-> <<>>, cuts |-> 0, file |-> <<>>, code |-> 0]
  BY ZenonT(40) DEF Init
<1>2. /\ NoRun.state = "none" /\ NoRun.events = 0 /\ NoRun \in RunRows
      /\ Submitted.state = "running" /\ Submitted.events = 1 /\ Submitted \in RunRows
      /\ 1 < MaxEvents /\ Submitted # NoRun
  <2>1. NoRun.state = "none" /\ NoRun.events = 0 /\ NoRun \in RunRows
    BY ClientAssumption DEF NoRun, RunRows, States
  <2>2. 1 \in 0..MaxEvents /\ 1 < MaxEvents
    BY ClientAssumption
  <2> QED
    BY <2>1, <2>2, Zenon DEF Submitted, RunRows, States
<1>3. PICK at : at = CASE cmd \in {"run", "wait"} -> "submit" [] cmd = "events" -> "run"
                       [] cmd = "artifacts" -> "list" [] cmd = "cancel" -> "cancel"
  BY Zenon
<1>4. /\ at \in {"submit", "run", "list", "cancel"}
      /\ at = "submit" => cmd \in {"run", "wait"}
      /\ at = "run" => cmd = "events"
      /\ at = "list" => cmd = "artifacts"
      /\ at = "cancel" => cmd = "cancel"
  BY <1>3, Zenon
<1>5. /\ cli.cmd = cmd /\ cli.run = r /\ cli.at = at /\ cli.state = "none" /\ cli.printed = <<>>
      /\ cli.after = 0 /\ cli.file = <<>>
  BY <1>1, <1>3, Zenon
<1>6. cli \in Commands
  <2>1. 0 \in 0..MaxCuts /\ <<>> \in Seq(Nat) /\ at \in Places /\ "none" \in States
    BY <1>4, ClientAssumption DEF Places, States
  <2> QED
    BY <1>1, <1>3, <2>1, Zenon DEF Commands
<1>7. TypeOK
  BY <1>1, <1>2, <1>6, Zenon DEF TypeOK
<1>8. SubmitInv
  BY <1>1, <1>2, <1>5, Zenon DEF SubmitInv, Working
<1>9. CommandInv
  BY <1>4, <1>5, Zenon DEF CommandInv, Ended
<1>10. CursorInv
  <2>1. run[r].events \in Nat
    <3>1. run[r] \in {Submitted, NoRun}
      BY <1>1, Zenon
    <3> QED
      BY <1>2, <3>1
  <2>2. <<>> = [i \in 1..0 |-> i]
    <3>1. \A i \in 1..0 : FALSE
      OBVIOUS
    <3>2. [i \in 1..0 |-> i] \in Seq(Nat) /\ Len([i \in 1..0 |-> i]) = 0
      BY <3>1
    <3> QED
      BY <3>2, EmptySeq, Zenon
  <2> QED
    BY <1>4, <1>5, <2>1, <2>2 DEF CursorInv
<1>11. FileInv /\ ExitTruthful
  BY <1>4, <1>5, Zenon DEF FileInv, FileIsListed, ExitTruthful, Ended
<1>12. NoStraySource /\ LateInv
  BY <1>1, Zenon DEF NoStraySource, LateInv
<1> QED
  BY <1>7, <1>8, <1>9, <1>10, <1>11, <1>12, Zenon DEF IInv

\* Every step keeps the invariant.
LEMMA StepIInv == IInv /\ [Next]_vars => IInv'
<1> SUFFICES ASSUME IInv, [Next]_vars
             PROVE  IInv'
  BY Zenon
<1>1. CASE UNCHANGED vars
  BY <1>1 DEF vars, server, IInv, TypeOK, SubmitInv, LateInv, CommandInv, CursorInv, FileInv, FileIsListed,
     ExitTruthful, NoStraySource
<1>2. ASSUME NEW r \in Runs, Evolve(r) \/ handleSubmitRun(r) PROVE IInv'
  BY <1>2, EvolveIInv, SubmitRunIInv, Zenon
<1>5. CASE Arrive \/ GiveUp
  BY <1>5, ArriveIInv, GiveUpIInv, Zenon
<1>3. CASE Crash \/ Submit \/ SubmitAnswer \/ SubmitLost \/ GetRun \/ GetRunLost \/ GetRunAnswer
  BY <1>3, CrashIInv, SubmitIInv, SubmitAnswerIInv, GetRunIInv, GetRunAnswerIInv, Zenon
<1>4. CASE ListEvents \/ ListArtifacts \/ DownloadArtifact \/ downloadArtifact \/ Cancel
  BY <1>4, ListEventsIInv, ArtifactsIInv, CancelIInv, Zenon
<1> QED
  BY <1>1, <1>2, <1>3, <1>4, <1>5, Zenon DEF Next
-----------------------------------------------------------------------------
\* The invariant holds in every reachable state, with any number of runs,
\* attempts, events and interrupted downloads.
THEOREM Invariance == Spec => []IInv
  BY InitIInv, StepIInv, PTL DEF Spec

\* Exit code 0 tells the truth about the run, and a finished run is shown with
\* finished jobs (runCmd, watch, cancelCmd), though a call may have happened
\* more than once and the run and its jobs are two reads.
THEOREM ExitAlwaysTruthful == Spec => []ExitTruthful
<1>1. IInv => ExitTruthful
  BY Zenon DEF IInv
<1> QED
  BY <1>1, Invariance, PTL

\* events -f prints every event once and in order, however it ends, and ends well
\* only with the last one.
THEOREM EventsAlwaysInFull == Spec => []EventsInFull
<1>1. IInv => EventsInFull
  <2> SUFFICES ASSUME IInv
               PROVE  EventsInFull
    BY Zenon
  <2>1. cli.after \in Nat /\ cli.printed = [i \in 1..cli.after |-> i]
    BY CliFacts, Zenon DEF Commands, IInv, CursorInv
  <2>2. Len(cli.printed) = cli.after
    BY <2>1
  <2> QED
    BY <2>1, <2>2, Zenon DEF IInv, CursorInv, EventsInFull
<1> QED
  BY <1>1, Invariance, PTL

\* A file that artifacts --download leaves is the listed one, whole: the
\* checksum is compared before the rename.
THEOREM FileIsAlwaysListed == Spec => []FileIsListed
<1>1. IInv => FileIsListed
  BY Zenon DEF IInv, FileInv
<1> QED
  BY <1>1, Invariance, PTL

\* Bundles and runs go together, however often a submission is repeated and whatever
\* request to the artifact store arrives late, unless the server died or the store
\* failed: every failure of handleSubmitRun discards the bundle.
THEOREM NeverStraySource == Spec => []NoStraySource
<1>1. IInv => NoStraySource
  BY Zenon DEF IInv
<1> QED
  BY <1>1, Invariance, PTL
-----------------------------------------------------------------------------
\* Only attempts that have been claimed have a log.
TableInv ==
  /\ state = "running" => attempt > 0
  /\ \A a \in 0..MaxAttempts : log[a] # {} => a > 0 /\ a <= attempt

\* The attempts a follower asks for only go up.
ReadInv ==
  /\ want = 0 => readAttempt <= reading /\ reading <= attempt
  /\ want # 0 => {readAttempt, reading} \subseteq {0, want}
  /\ want # 0 /\ pc = "chunks" => reading = want

\* The cursor is at a stored chunk or at the start, and what is stored up to it
\* is what was printed of the attempt.
PlaceInv ==
  /\ after # 0 => after \in log[readAttempt]
  /\ \A s \in log[readAttempt] : s <= after => <<readAttempt, s>> \in Range(printed)
  /\ \A i \in DOMAIN printed :
       /\ printed[i][1] <= readAttempt
       /\ printed[i][2] \in log[printed[i][1]]
       /\ printed[i][1] = readAttempt => printed[i][2] <= after

\* A job seen terminal is over, and the attempt read after that is its last.
EndInv ==
  /\ terminal => state = "over"
  /\ terminal /\ pc = "chunks" /\ want = 0 => reading = attempt
  /\ pc = "done" =>
       /\ terminal /\ readAttempt = reading
       /\ want = 0 => reading = attempt
       /\ \A s \in log[readAttempt] : s <= after

FollowInv == FollowTypeOK /\ TableInv /\ ReadInv /\ PlaceInv /\ EndInv /\ PrintedInOrder

\* The bounds are numbers.
LEMMA Bounds == MaxAttempts \in Nat /\ MaxSeq \in Nat
BY LogTableAssumption, Zenon

\* A follower begins with nothing read and nothing printed.
LEMMA InitFollow == FollowInit => FollowInv
<1> SUFFICES ASSUME FollowInit PROVE FollowInv
  BY Zenon
<1> USE Bounds DEF FollowInit, TableInit
<1>1. FollowTypeOK
  <2>1. printed \in Seq((1..MaxAttempts) \X (1..MaxSeq))
    OBVIOUS
  <2>2. log \in [0..MaxAttempts -> SUBSET (1..MaxSeq)]
    BY Zenon
  <2>3. 0 \in 0..MaxAttempts /\ 0 \in 0..MaxSeq
    OBVIOUS
  <2>4. {attempt, want, reading, readAttempt} \subseteq 0..MaxAttempts /\ after \in 0..MaxSeq
    BY <2>3, Zenon
  <2>5. pc = "GetJob" /\ terminal = FALSE /\ state = "queued"
    BY Zenon
  <2> HIDE Bounds DEF FollowInit, TableInit
  <2> QED BY ONLY <2>1, <2>2, <2>4, <2>5, Zenon DEF FollowTypeOK
<1>2. TableInv /\ ReadInv /\ EndInv
  BY DEF TableInv, ReadInv, EndInv
<1>3. PlaceInv /\ PrintedInOrder
  BY DEF PlaceInv, PrintedInOrder
<1> QED BY <1>1, <1>2, <1>3, Zenon DEF FollowInv

\* Reading the job's state keeps the invariant of LogFollow.
LEMMA GetJobIInv == ASSUME FollowInv, GetJob PROVE FollowInv'
<1> USE DEF GetJob, tableVars
<1>1. FollowTypeOK'
  BY Zenon DEF FollowInv, FollowTypeOK
<1>2. TableInv' /\ ReadInv' /\ EndInv'
  BY Zenon DEF FollowInv, TableInv, ReadInv, EndInv
<1>3. PlaceInv' /\ PrintedInOrder'
  BY Zenon DEF FollowInv, PlaceInv, PrintedInOrder
<1> QED BY <1>1, <1>2, <1>3, Zenon DEF FollowInv

\* The server settles on an attempt, never an earlier one than before.
LEMMA HandleGetLogsIInv == ASSUME FollowInv, handleGetLogs PROVE FollowInv'
<1> USE DEF handleGetLogs, tableVars
<1>1. FollowTypeOK'
  BY Zenon DEF FollowInv, FollowTypeOK
<1>2. TableInv' /\ ReadInv' /\ EndInv'
  BY Bounds DEF FollowInv, FollowTypeOK, TableInv, ReadInv, EndInv
<1>3. PlaceInv' /\ PrintedInOrder'
  BY Zenon DEF FollowInv, PlaceInv, PrintedInOrder
<1> QED BY <1>1, <1>2, <1>3, Zenon DEF FollowInv

\* A command that fails leaves what it printed.
LEMMA FailIInv == ASSUME FollowInv, Fail PROVE FollowInv'
<1> USE DEF Fail, tableVars
<1>1. FollowTypeOK'
  BY Zenon DEF FollowInv, FollowTypeOK
<1>2. TableInv' /\ ReadInv' /\ EndInv'
  BY Zenon DEF FollowInv, TableInv, ReadInv, EndInv
<1>3. PlaceInv' /\ PrintedInOrder'
  BY Zenon DEF FollowInv, PlaceInv, PrintedInOrder
<1> QED BY <1>1, <1>2, <1>3, Zenon DEF FollowInv

\* A reply: the chunks behind the cursor, rising, all of them.
LEMMA ReplyChunks ==
  ASSUME FollowInv, NEW a \in 0..MaxAttempts, NEW q \in InOrder(ListLogChunks(a, after))
  PROVE  /\ q \in Seq(1..MaxSeq) /\ DOMAIN q = 1..Len(q)
         /\ \A i \in DOMAIN q : q[i] \in log[a] /\ after < q[i]
         /\ \A s \in log[a] : after < s => \E i \in DOMAIN q : q[i] = s
         /\ \A i, k \in DOMAIN q : i < k => q[i] < q[k]
<1>1. ListLogChunks(a, after) \subseteq 1..MaxSeq
  BY Zenon DEF FollowInv, FollowTypeOK, ListLogChunks
<1>2. PICK n \in 0..MaxSeq : q \in [1..n -> ListLogChunks(a, after)]
  BY Zenon DEF InOrder
<1>3. n \in Nat /\ DOMAIN q = 1..n
  BY <1>2, Bounds
<1>4. q \in Seq(1..MaxSeq) /\ Len(q) = n
  <2>1. \A i \in 1..n : q[i] \in 1..MaxSeq
    BY <1>1, <1>2, Zenon
  <2>2. q = [i \in 1..n |-> q[i]]
    BY <1>2, Zenon
  <2>3. [i \in 1..n |-> q[i]] \in Seq(1..MaxSeq) /\ Len([i \in 1..n |-> q[i]]) = n
    BY <1>3, <2>1
  <2> QED BY <2>2, <2>3, Zenon
<1>5. \A i \in DOMAIN q : q[i] \in ListLogChunks(a, after)
  BY <1>2, Zenon
<1>6. \A s \in ListLogChunks(a, after) : \E i \in DOMAIN q : q[i] = s
  BY Zenon DEF InOrder, Range
<1>7. \A i, k \in DOMAIN q : i < k => q[i] < q[k]
  BY Zenon DEF InOrder
<1>8. \A s \in log[a] : s \in Nat /\ after \in Nat
  BY Bounds DEF FollowInv, FollowTypeOK
<1> QED BY <1>3, <1>4, <1>5, <1>6, <1>7, <1>8, Zenon DEF ListLogChunks

\* What was printed before a reply and what it adds.
LEMMA Printed ==
  ASSUME FollowTypeOK, NEW a, NEW q \in Seq(1..MaxSeq), DOMAIN q = 1..Len(q), a \in 1..MaxAttempts \/ q = <<>>,
         NEW new, new = printed \o [i \in DOMAIN q |-> <<a, q[i]>>]
  PROVE  /\ new \in Seq((1..MaxAttempts) \X (1..MaxSeq))
         /\ DOMAIN new = 1..(Len(printed) + Len(q))
         /\ \A i \in 1..Len(printed) : i \in DOMAIN printed /\ new[i] = printed[i]
         /\ \A i \in 1..Len(q) : new[Len(printed) + i] = <<a, q[i]>>
<1> DEFINE P == (1..MaxAttempts) \X (1..MaxSeq)
           add == [i \in 1..Len(q) |-> <<a, q[i]>>]
<1>1. printed \in Seq(P) /\ Len(q) \in Nat /\ Len(printed) \in Nat /\ DOMAIN printed = 1..Len(printed)
  BY LenProperties, Zenon DEF FollowTypeOK
<1>2. \A i \in 1..Len(q) : q[i] \in 1..MaxSeq /\ a \in 1..MaxAttempts
  <2>1. \A i \in 1..Len(q) : q[i] \in 1..MaxSeq
    BY ElementOfSeq, Zenon
  <2>2. q = <<>> => Len(q) = 0
    OBVIOUS
  <2>3. \A i \in 1..Len(q) : Len(q) # 0
    BY <1>1
  <2> QED BY <2>1, <2>2, <2>3, Zenon
<1>3. \A i \in 1..Len(q) : <<a, q[i]>> \in P
  BY <1>2, Zenon
<1> HIDE DEF P
<1>4. add \in Seq(P) /\ Len(add) = Len(q)
  BY <1>1, <1>3
<1>5. \A i \in 1..Len(q) : add[i] = <<a, q[i]>>
  BY Zenon
<1>6. new = printed \o add
  BY Zenon
<1> HIDE DEF add
<1>7. /\ new \in Seq(P) /\ Len(new) = Len(printed) + Len(q)
      /\ \A i \in 1..Len(printed) + Len(q) :
           new[i] = IF i <= Len(printed) THEN printed[i] ELSE add[i - Len(printed)]
  <2>1. /\ printed \o add \in Seq(P)
        /\ Len(printed \o add) = Len(printed) + Len(add)
        /\ \A i \in 1..Len(printed) + Len(add) :
             (printed \o add)[i] = IF i <= Len(printed) THEN printed[i] ELSE add[i - Len(printed)]
    BY <1>1, <1>4, ConcatProperties, Zenon
  <2> QED BY ONLY <1>4, <1>6, <2>1, Zenon
<1>8. \A i \in 1..Len(q) : /\ Len(printed) + i \in 1..Len(printed) + Len(q)
                           /\ ~(Len(printed) + i <= Len(printed))
                           /\ (Len(printed) + i) - Len(printed) = i
  BY <1>1
<1>9. \A i \in 1..Len(q) : new[Len(printed) + i] = <<a, q[i]>>
  BY <1>5, <1>7, <1>8, Zenon
<1>10. \A i \in 1..Len(printed) : new[i] = printed[i]
  BY <1>1, <1>7
<1>11. DOMAIN new = 1..(Len(printed) + Len(q))
  BY <1>7, LenProperties, Zenon
<1> QED BY <1>1, <1>7, <1>9, <1>10, <1>11, Zenon DEF P

\* A reply is printed behind what was printed, or sets the cursor back for a new attempt.
LEMMA LogsCmdIInv == ASSUME FollowInv, logsCmd PROVE FollowInv'
<1>1. PICK q \in InOrder(ListLogChunks(reading, after)) :
        IF Switches
        THEN after' = 0 /\ pc' = "GetJob" /\ printed' = printed
        ELSE /\ printed' = printed \o [i \in DOMAIN q |-> <<reading, q[i]>>]
             /\ after' = NextCursor(q)
             /\ pc' = IF Ends(q) THEN "done" ELSE "GetJob"
  BY Zenon DEF logsCmd
<1>2. /\ pc = "chunks" /\ readAttempt' = reading
      /\ UNCHANGED <<state, attempt, log, want, terminal, reading>>
  BY Zenon DEF logsCmd, tableVars
<1>3. /\ {attempt, want, reading, readAttempt} \subseteq 0..MaxAttempts /\ after \in 0..MaxSeq
      /\ log \in [0..MaxAttempts -> SUBSET (1..MaxSeq)]
      /\ printed \in Seq((1..MaxAttempts) \X (1..MaxSeq))
      /\ FollowTypeOK
  BY Zenon DEF FollowInv, FollowTypeOK
<1>4. log[0] = {}
  BY Bounds DEF FollowInv, TableInv
<1>5. TableInv'
  BY <1>2, Zenon DEF FollowInv, TableInv
<1>6. CASE Switches
  <2>1. after' = 0 /\ pc' = "GetJob" /\ printed' = printed
    BY <1>1, <1>6, Zenon
  <2>2. FollowTypeOK'
    BY <1>2, <1>3, <2>1, Bounds DEF FollowTypeOK
  <2>3. want = 0 /\ readAttempt < reading
    BY <1>2, <1>3, <1>6 DEF FollowInv, ReadInv, Switches
  <2>4. ReadInv' /\ EndInv'
    BY <1>2, <1>3, <2>1, <2>3 DEF FollowInv, ReadInv, EndInv
  <2>5. \A i \in DOMAIN printed : printed[i] \in (1..MaxAttempts) \X (1..MaxSeq)
    BY <1>3
  <2>6. PlaceInv'
    <3>1. \A s \in log[reading] : ~(s <= 0)
      BY <1>3
    <3>2. \A i \in DOMAIN printed : printed[i][1] < reading /\ printed[i][2] \in log[printed[i][1]]
      BY <1>3, <2>3, <2>5 DEF FollowInv, PlaceInv
    <3> QED BY <1>2, <1>3, <2>1, <2>5, <3>1, <3>2 DEF PlaceInv
  <2>7. PrintedInOrder'
    BY <1>2, <2>1, Zenon DEF FollowInv, PrintedInOrder
  <2> QED BY <1>5, <2>2, <2>4, <2>6, <2>7, Zenon DEF FollowInv
<1>7. CASE ~Switches
  <2> DEFINE new == printed \o [i \in DOMAIN q |-> <<reading, q[i]>>]
             p == Len(printed)
  <2>1. /\ printed' = new
        /\ after' = NextCursor(q)
        /\ pc' = IF Ends(q) THEN "done" ELSE "GetJob"
    BY <1>1, <1>7, Zenon
  <2>2. /\ q \in Seq(1..MaxSeq) /\ DOMAIN q = 1..Len(q)
        /\ \A i \in DOMAIN q : q[i] \in log[reading] /\ after < q[i]
        /\ \A s \in log[reading] : after < s => \E i \in DOMAIN q : q[i] = s
        /\ \A i, k \in DOMAIN q : i < k => q[i] < q[k]
    BY <1>3, ReplyChunks, Zenon
  <2>3. reading \in 1..MaxAttempts \/ q = <<>>
    BY <1>3, <1>4, <2>2
  <2>4. /\ new \in Seq((1..MaxAttempts) \X (1..MaxSeq))
        /\ DOMAIN new = 1..(p + Len(q)) /\ p \in Nat /\ Len(q) \in Nat /\ DOMAIN printed = 1..p
        /\ \A i \in 1..p : new[i] = printed[i]
        /\ \A i \in 1..Len(q) : new[p + i] = <<reading, q[i]>>
    BY <1>3, <2>2, <2>3, Printed
  <2> HIDE DEF new, p
  <2>5. \A i \in 1..p : /\ printed[i] \in (1..MaxAttempts) \X (1..MaxSeq)
                        /\ printed[i][1] \in Nat /\ printed[i][1] >= 1 /\ printed[i][2] \in Nat
    <3>1. \A i \in 1..p : printed[i] \in (1..MaxAttempts) \X (1..MaxSeq)
      BY <1>3, ElementOfSeq, Zenon DEF p
    <3> QED BY <3>1, Bounds
  <2>6. readAttempt = reading \/ (readAttempt = 0 /\ after = 0 /\ p = 0)
    <3>1. readAttempt = 0 => after = 0
      BY <1>4, Zenon DEF FollowInv, PlaceInv
    <3>2. \A i \in 1..p : printed[i][1] <= readAttempt /\ printed[i][1] >= 1
      BY <2>4, <2>5, Zenon DEF FollowInv, PlaceInv
    <3>3. readAttempt = 0 => p = 0
      BY <2>4, <3>2, p > 0 => 1 \in 1..p
    <3> QED BY <1>7, <3>1, <3>3, Zenon DEF Switches
  <2>7. /\ after # 0 => after \in log[reading]
        /\ \A s \in log[reading] : s <= after => \E i \in 1..p : printed[i] = <<reading, s>>
        /\ \A i \in 1..p :
             /\ printed[i][1] <= reading
             /\ printed[i][2] \in log[printed[i][1]]
             /\ printed[i][1] = reading => printed[i][2] <= after
    <3>1. PlaceInv /\ (p = 0 => \A i \in 1..p : FALSE)
      BY DEF FollowInv
    <3>2. CASE readAttempt = reading
      BY <2>4, <3>1, <3>2, Zenon DEF PlaceInv, Range
    <3>3. CASE after = 0 /\ p = 0
      BY <1>3, <3>1, <3>3
    <3> QED BY <2>6, <3>2, <3>3, Zenon
  <2>8. /\ after' \in 0..MaxSeq /\ after <= after'
        /\ after' # 0 => after' \in log[reading]
        /\ \A i \in 1..Len(q) : q[i] <= after'
        /\ \A s \in log[reading] : s <= after' /\ after < s => \E i \in 1..Len(q) : q[i] = s
    <3>1. CASE q = <<>>
      BY <1>3, <2>1, <2>2, <2>7, <3>1 DEF NextCursor
    <3>2. CASE q # <<>>
      <4>1. Len(q) \in DOMAIN q /\ after' = q[Len(q)]
        BY <2>1, <2>2, <2>4, <3>2 DEF NextCursor
      <4>2. \A i \in 1..Len(q) : i = Len(q) \/ i < Len(q)
        BY <2>4
      <4>3. \A i \in DOMAIN q : q[i] \in 1..MaxSeq
        BY <2>2, ElementOfSeq, Zenon
      <4>4. \A i \in 1..Len(q) : q[i] <= after'
        <5> SUFFICES ASSUME NEW i \in DOMAIN q PROVE q[i] <= q[Len(q)]
          BY <2>2, <4>1, Zenon
        <5>1. i < Len(q) => q[i] < q[Len(q)]
          BY <2>2, <4>1, Zenon
        <5>2. i = Len(q) \/ i < Len(q)
          BY <2>2, <4>2, Zenon
        <5>3. q[i] \in Nat /\ q[Len(q)] \in Nat
          BY <4>1, <4>3, Bounds
        <5> QED BY <5>1, <5>2, <5>3
      <4>5. after' \in 0..MaxSeq /\ after < after' /\ after' \in log[reading]
        BY <2>2, <4>1, <4>3
      <4> QED BY <1>3, <2>2, <4>4, <4>5, Bounds
    <3> QED BY <3>1, <3>2, Zenon
  <2>9. \A i \in DOMAIN new : i \in 1..p \/ \E k \in 1..Len(q) : i = p + k
    <3> SUFFICES ASSUME NEW i \in 1..(p + Len(q)), ~(i \in 1..p) PROVE \E k \in 1..Len(q) : i = p + k
      BY <2>4, Zenon
    <3> QED BY <2>4, i - p \in 1..Len(q)
  <2>10. FollowTypeOK'
    BY <1>2, <1>3, <2>1, <2>4, <2>8, Zenon DEF FollowTypeOK
  <2>11. ReadInv'
    BY <1>2, <1>3, <2>1 DEF FollowInv, ReadInv
  <2>12. \A s \in log[reading] : s <= after' => \E i \in DOMAIN new : new[i] = <<reading, s>>
    <3> SUFFICES ASSUME NEW s \in log[reading], s <= after' PROVE \E i \in DOMAIN new : new[i] = <<reading, s>>
      BY Zenon
    <3>1. s \in Nat /\ after \in Nat
      BY <1>3, Bounds
    <3>2. CASE s <= after
      <4>1. PICK i \in 1..p : printed[i] = <<reading, s>>
        BY <2>7, <3>2, Zenon
      <4> QED BY <2>4, <4>1, i \in 1..(p + Len(q)), Zenon
    <3>3. CASE after < s
      <4>1. PICK k \in 1..Len(q) : q[k] = s
        BY <2>8, <3>3, Zenon
      <4> QED BY <2>4, <4>1, p + k \in 1..(p + Len(q)), Zenon
    <3> QED BY <3>1, <3>2, <3>3
  <2>13. \A i \in DOMAIN new :
           /\ new[i][1] <= reading
           /\ new[i][2] \in log[new[i][1]]
           /\ new[i][1] = reading => new[i][2] <= after'
    <3> SUFFICES ASSUME NEW i \in DOMAIN new
                 PROVE  /\ new[i][1] <= reading
                        /\ new[i][2] \in log[new[i][1]]
                        /\ new[i][1] = reading => new[i][2] <= after'
      BY Zenon
    <3>1. CASE i \in 1..p
      <4>1. new[i] = printed[i]
        BY <2>4, <3>1, Zenon
      <4>2. /\ printed[i][1] <= reading
            /\ printed[i][2] \in log[printed[i][1]]
            /\ printed[i][1] = reading => printed[i][2] <= after
        BY <2>7, <3>1, Zenon
      <4>3. printed[i][2] \in Nat /\ after \in Nat /\ after' \in Nat /\ after <= after'
        BY <1>3, <2>5, <2>8, <3>1, Bounds
      <4> QED BY <4>1, <4>2, <4>3
    <3>2. ASSUME NEW k \in 1..Len(q), i = p + k PROVE new[i] = <<reading, q[k]>> /\ q[k] \in log[reading] /\ q[k] <= after'
      BY <2>2, <2>4, <2>8, <3>2, Zenon
    <3>3. ASSUME NEW k \in 1..Len(q), i = p + k
          PROVE  /\ new[i][1] <= reading
                 /\ new[i][2] \in log[new[i][1]]
                 /\ new[i][1] = reading => new[i][2] <= after'
      <4>1. new[i] = <<reading, q[k]>> /\ q[k] \in log[reading] /\ q[k] <= after'
        BY <3>2, <3>3, Zenon
      <4>2. new[i][1] = reading /\ new[i][2] = q[k] /\ reading \in Nat
        BY <1>3, <4>1, Bounds
      <4> QED BY <4>1, <4>2
    <3> QED BY <2>9, <3>1, <3>3, Zenon
  <2>14. PlaceInv'
    BY <1>2, <2>1, <2>8, <2>12, <2>13, Zenon DEF PlaceInv, Range
  <2>15. EndInv'
    <3>1. pc' = "done" => terminal /\ q = <<>> /\ after' = after
      BY <2>1, Zenon DEF Ends, NextCursor
    <3>2. q = <<>> => \A s \in log[reading] : s <= after
      BY <1>3, <2>2, Bounds
    <3> QED BY <1>2, <2>1, <3>1, <3>2, Zenon DEF FollowInv, EndInv
  <2>16. \A i, k \in DOMAIN new : i < k =>
           \/ new[i][1] < new[k][1]
           \/ new[i][1] = new[k][1] /\ new[i][2] < new[k][2]
    <3> SUFFICES ASSUME NEW i \in DOMAIN new, NEW k \in DOMAIN new, i < k
                 PROVE  \/ new[i][1] < new[k][1]
                        \/ new[i][1] = new[k][1] /\ new[i][2] < new[k][2]
      BY Zenon
    <3>1. CASE i \in 1..p /\ k \in 1..p
      <4>1. new[i] = printed[i] /\ new[k] = printed[k]
        BY <2>4, <3>1, Zenon
      <4>2. \/ printed[i][1] < printed[k][1]
            \/ printed[i][1] = printed[k][1] /\ printed[i][2] < printed[k][2]
        BY <2>4, <3>1, Zenon DEF FollowInv, PrintedInOrder
      <4> QED BY <4>1, <4>2, Zenon
    <3>2. CASE i \in 1..p /\ k \notin 1..p
      <4>1. PICK m \in 1..Len(q) : k = p + m
        BY <2>9, <3>2, Zenon
      <4>2. new[i] = printed[i] /\ new[k] = <<reading, q[m]>>
        BY <2>4, <3>2, <4>1, Zenon
      <4>3. /\ printed[i][1] <= reading /\ printed[i][1] \in Nat /\ reading \in Nat
            /\ printed[i][1] = reading => printed[i][2] <= after
        BY <1>3, <2>5, <2>7, <3>2, Bounds
      <4>4. after < q[m] /\ q[m] \in 1..MaxSeq
        BY <2>2, ElementOfSeq, Zenon
      <4>5. printed[i][2] \in Nat /\ after \in Nat /\ q[m] \in Nat
        <5>1. \A x \in Nat : 0..x \subseteq Nat /\ 1..x \subseteq Nat
          OBVIOUS
        <5> QED BY <1>3, <2>5, <3>2, <4>4, <5>1, Bounds, Zenon
      <4> QED BY <4>2, <4>3, <4>4, <4>5
    <3>3. CASE i \notin 1..p /\ k \notin 1..p
      <4>1. PICK l \in 1..Len(q), m \in 1..Len(q) : i = p + l /\ k = p + m
        BY <2>9, <3>3, Zenon
      <4>2. new[i] = <<reading, q[l]>> /\ new[k] = <<reading, q[m]>>
        BY <2>4, <4>1, Zenon
      <4>3. l < m
        BY <2>4, <4>1
      <4>4. q[l] < q[m]
        BY <2>2, <4>3, Zenon
      <4>5. new[i][1] = new[k][1] /\ new[i][2] = q[l] /\ new[k][2] = q[m]
        BY <4>2
      <4> QED BY <4>4, <4>5, Zenon
    <3>4. i \notin 1..p => k \notin 1..p
      BY <2>4
    <3> QED BY <3>1, <3>2, <3>3, <3>4, Zenon
  <2>17. \A i \in DOMAIN new : \A s \in log[new[i][1]] :
           s <= new[i][2] => \E k \in DOMAIN new : new[k] = <<new[i][1], s>>
    <3> SUFFICES ASSUME NEW i \in DOMAIN new, NEW s \in log[new[i][1]], s <= new[i][2]
                 PROVE  \E k \in DOMAIN new : new[k] = <<new[i][1], s>>
      BY Zenon
    <3>1. CASE new[i][1] = reading
      <4>1. new[i][2] <= after' /\ new[i][2] \in log[reading]
        BY <2>13, <3>1, Zenon
      <4>2. s \in Nat /\ new[i][2] \in Nat /\ after' \in Nat
        BY <1>3, <2>8, <3>1, <4>1, Bounds
      <4>3. s <= after'
        BY <4>1, <4>2
      <4> QED BY <2>12, <3>1, <4>3, Zenon
    <3>2. CASE i \in 1..p
      <4>1. new[i] = printed[i] /\ i \in DOMAIN printed
        BY <2>4, <3>2, Zenon
      <4>2. <<printed[i][1], s>> \in Range(printed)
        BY <4>1, Zenon DEF FollowInv, PrintedInOrder
      <4>3. PICK k \in 1..p : printed[k] = <<printed[i][1], s>>
        BY <2>4, <4>2, Zenon DEF Range
      <4> QED BY <2>4, <4>1, <4>3, k \in 1..(p + Len(q)), Zenon
    <3>3. CASE i \notin 1..p
      <4>1. PICK k \in 1..Len(q) : i = p + k
        BY <2>9, <3>3, Zenon
      <4>2. new[i][1] = reading
        BY <2>4, <4>1
      <4> QED BY <3>1, <4>2, Zenon
    <3> QED BY <3>2, <3>3, Zenon
  <2>18. PrintedInOrder'
    BY <1>2, <2>1, <2>16, <2>17 DEF PrintedInOrder, Range
  <2> QED BY <1>5, <2>10, <2>11, <2>14, <2>15, <2>18, Zenon DEF FollowInv
<1> QED BY <1>6, <1>7, Zenon

\* A step of the job and its log: the follower is where it was.
LEMMA TableIInv == ASSUME FollowInv, TableNext, UNCHANGED followVars PROVE FollowInv'
<1>1. /\ {attempt, want, reading, readAttempt} \subseteq 0..MaxAttempts /\ after \in 0..MaxSeq
      /\ log \in [0..MaxAttempts -> SUBSET (1..MaxSeq)]
      /\ \A i \in DOMAIN printed : printed[i] \in (1..MaxAttempts) \X (1..MaxSeq)
  BY DEF FollowInv, FollowTypeOK
<1>2. UNCHANGED <<want, pc, terminal, reading, readAttempt, after, printed>>
  BY Zenon DEF followVars
<1>3. CASE Claim
  <2>1. /\ state = "queued" /\ state' = "running" /\ attempt < MaxAttempts
        /\ attempt' = attempt + 1 /\ log' = log
    BY <1>3, Zenon DEF Claim
  <2>2. FollowTypeOK'
    BY <1>1, <1>2, <2>1, Bounds DEF FollowInv, FollowTypeOK
  <2>3. TableInv' /\ ReadInv' /\ EndInv'
    BY <1>1, <1>2, <2>1, Bounds DEF FollowInv, TableInv, ReadInv, EndInv
  <2>4. PlaceInv' /\ PrintedInOrder'
    BY <1>2, <2>1, Zenon DEF FollowInv, PlaceInv, PrintedInOrder
  <2> QED BY <2>2, <2>3, <2>4, Zenon DEF FollowInv
<1>4. CASE End
  <2>1. /\ state \in {"queued", "running"} /\ state' \in {"queued", "over"}
        /\ attempt' = attempt /\ log' = log
    BY <1>4, Zenon DEF End
  <2>2. FollowTypeOK'
    BY <1>2, <2>1, Zenon DEF FollowInv, FollowTypeOK
  <2>3. TableInv' /\ ReadInv' /\ EndInv'
    BY <1>2, <2>1, Zenon DEF FollowInv, TableInv, ReadInv, EndInv
  <2>4. PlaceInv' /\ PrintedInOrder'
    BY <1>2, <2>1, Zenon DEF FollowInv, PlaceInv, PrintedInOrder
  <2> QED BY <2>2, <2>3, <2>4, Zenon DEF FollowInv
<1>5. ASSUME NEW S \in SUBSET (1..MaxSeq), AppendLogs(S) PROVE FollowInv'
  <2>1. /\ state = "running" /\ state' = state /\ attempt' = attempt
        /\ log' = [log EXCEPT ![attempt] = @ \cup S]
        /\ \A s \in S, t \in log[attempt] : t < s
    BY <1>5, Zenon DEF AppendLogs
  <2>2. log' \in [0..MaxAttempts -> SUBSET (1..MaxSeq)]
    BY <1>1, <2>1, Zenon
  <2>3. FollowTypeOK'
    BY <1>2, <2>1, <2>2, Zenon DEF FollowInv, FollowTypeOK
  <2>4. TableInv'
    BY <1>1, <2>1, Bounds DEF FollowInv, TableInv
  <2>5. ReadInv' /\ EndInv'
    BY <1>2, <2>1, Zenon DEF FollowInv, ReadInv, EndInv
  <2>6. \A a \in 0..MaxAttempts : \A s \in log'[a] : \A t \in log[a] : s <= t => s \in log[a]
    BY <1>1, <2>1, Bounds
  <2>7. \A a \in 0..MaxAttempts : log[a] \subseteq log'[a]
    BY <1>1, <2>1, Zenon
  <2>8. \A i \in DOMAIN printed : printed[i][1] \in 0..MaxAttempts /\ printed[i][2] \in log[printed[i][1]]
    BY <1>1 DEF FollowInv, PlaceInv
  <2>9. PlaceInv'
    <3>1. \A s \in log'[readAttempt] : s <= after => s \in log[readAttempt]
      BY <1>1, <2>2, <2>6, Bounds DEF FollowInv, PlaceInv
    <3> QED BY <1>1, <1>2, <2>7, <2>8, <3>1, Zenon DEF FollowInv, PlaceInv
  <2>10. PrintedInOrder'
    BY <1>2, <2>6, <2>8, Zenon DEF FollowInv, PrintedInOrder
  <2> QED BY <2>3, <2>4, <2>5, <2>9, <2>10, Zenon DEF FollowInv
<1>6. \A lo \in 1..MaxSeq : \A hi \in lo..MaxSeq : lo..hi \in SUBSET (1..MaxSeq)
  BY Bounds
<1> QED BY <1>3, <1>4, <1>5, <1>6, Zenon DEF TableNext

\* The invariant holds in every state the follower and the job can reach.
THEOREM FollowInvariance == FollowSpec => []FollowInv
<1>1. FollowInv /\ [FollowNext]_logsVars => FollowInv'
  <2> SUFFICES ASSUME FollowInv, [FollowNext]_logsVars PROVE FollowInv'
    BY Zenon
  <2>1. CASE UNCHANGED logsVars
    BY <2>1 DEF logsVars, tableVars, followVars, FollowInv, FollowTypeOK, TableInv, ReadInv, PlaceInv, EndInv, PrintedInOrder
  <2>2. CASE TableNext /\ UNCHANGED followVars
    BY <2>2, TableIInv, Zenon
  <2> QED BY <2>1, <2>2, GetJobIInv, HandleGetLogsIInv, LogsCmdIInv, FailIInv, Zenon DEF FollowNext
<1> QED BY <1>1, InitFollow, PTL DEF FollowSpec

\* quarry logs -f prints every chunk once, in the order of attempts and seqs, and
\* never passes one over, however many attempts and chunks there are.
THEOREM AlwaysPrintedInOrder == FollowSpec => []PrintedInOrder
<1>1. FollowInv => PrintedInOrder
  BY Zenon DEF FollowInv
<1> QED BY <1>1, FollowInvariance, PTL

\* A follower that ends by itself has printed the whole log of the last attempt.
THEOREM AlwaysFollowedToTheEnd == FollowSpec => []FollowedToTheEnd
<1>1. FollowInv => FollowedToTheEnd
  BY Zenon DEF FollowInv, EndInv, PlaceInv, FollowedToTheEnd
<1> QED BY <1>1, FollowInvariance, PTL
=============================================================================

---------------------------- MODULE DockerProofs ----------------------------
(***************************************************************************)
(* Proofs about the Docker executor, for any processes, names, attempts    *)
(* and bundle.                                                             *)
(***************************************************************************)
EXTENDS Docker, SequenceTheorems, TLAPS

\* The calls of Run, by name and in their order.
LEMMA Steps ==
  /\ {Setup[i] : i \in 1..9} =
       {"image", "volume", "container", "source", "script", "attach", "start", "wait", "collect"}
  /\ After("image") = "volume" /\ After("volume") = "container"
  /\ After("container") = "source" /\ After("source") = "script"
  /\ After("script") = "attach" /\ After("attach") = "start"
  /\ After("start") = "wait" /\ After("wait") = "collect"
<1>1. \A j \in 1..9 : j = 1 \/ j = 2 \/ j = 3 \/ j = 4 \/ j = 5 \/ j = 6 \/ j = 7 \/ j = 8 \/ j = 9
  OBVIOUS
<1>2. /\ Setup[1] = "image" /\ Setup[2] = "volume" /\ Setup[3] = "container"
      /\ Setup[4] = "source" /\ Setup[5] = "script" /\ Setup[6] = "attach"
      /\ Setup[7] = "start" /\ Setup[8] = "wait" /\ Setup[9] = "collect"
  BY Zenon DEF Setup
<1>3. \A j, k \in 1..9 : Setup[j] = Setup[k] => j = k
  BY <1>1, <1>2
<1>4. \A j \in 1..8 : After(Setup[j]) = Setup[j + 1]
  <2>1. TAKE j \in 1..8
  <2>2. (CHOOSE i \in 1..8 : Setup[i] = Setup[j]) = j
    BY <1>3
  <2> QED BY <2>2, Zenon DEF After
<1>5. {Setup[i] : i \in 1..9} =
        {"image", "volume", "container", "source", "script", "attach", "start", "wait", "collect"}
  BY <1>1, <1>2
<1>6. /\ After(Setup[1]) = Setup[2] /\ After(Setup[2]) = Setup[3] /\ After(Setup[3]) = Setup[4]
      /\ After(Setup[4]) = Setup[5] /\ After(Setup[5]) = Setup[6] /\ After(Setup[6]) = Setup[7]
      /\ After(Setup[7]) = Setup[8] /\ After(Setup[8]) = Setup[9]
  BY <1>4
<1> QED BY <1>2, <1>5, <1>6, Zenon

\* Deferring adds at the end, and unwinding takes it away again.
LEMMA Stacks ==
  /\ <<>> \o <<"volume">> = V /\ V \o <<"container">> = VC /\ VC \o <<"attach">> = VCA
  /\ VC \o <<>> = VC /\ VCA \o <<>> = VCA /\ <<>> \o <<>> = <<>>
  /\ SubSeq(V, 1, Len(V) - 1) = <<>> /\ SubSeq(VC, 1, Len(VC) - 1) = V
  /\ SubSeq(VCA, 1, Len(VCA) - 1) = VC
  /\ V[Len(V)] = "volume" /\ VC[Len(VC)] = "container" /\ VCA[Len(VCA)] = "attach"
  /\ V # <<>> /\ VC # <<>> /\ VCA # <<>> /\ V # VC /\ V # VCA /\ VC # VCA
  /\ {<<>>, V, VC, VCA} \subseteq Seq({"volume", "container", "attach"})
<1> DEFINE S == {"volume", "container", "attach"}
<1>1. /\ <<>> \in Seq(S) /\ <<"volume">> \in Seq(S) /\ <<"container">> \in Seq(S)
      /\ <<"attach">> \in Seq(S) /\ V \in Seq(S) /\ VC \in Seq(S) /\ VCA \in Seq(S)
  BY DEF V, VC, VCA
<1>2. /\ Len(V) = 1 /\ V[1] = "volume"
      /\ Len(VC) = 2 /\ VC[1] = "volume" /\ VC[2] = "container"
      /\ Len(VCA) = 3 /\ VCA[1] = "volume" /\ VCA[2] = "container" /\ VCA[3] = "attach"
      /\ Len(<<"container">>) = 1 /\ Len(<<"attach">>) = 1
      /\ <<"container">>[1] = "container" /\ <<"attach">>[1] = "attach"
  BY Zenon DEF V, VC, VCA
<1>3. V \o <<"container">> = VC
  <2> DEFINE s == V \o <<"container">>
  <2>0. /\ s \in Seq(S) /\ Len(s) = Len(V) + Len(<<"container">>)
        /\ \A i \in 1..Len(V) + Len(<<"container">>) :
             s[i] = IF i <= Len(V) THEN V[i] ELSE <<"container">>[i - Len(V)]
    BY <1>1, ConcatProperties
  <2>1. /\ s \in Seq(S) /\ Len(s) = 2
        /\ \A i \in 1..2 : s[i] = IF i <= 1 THEN V[i] ELSE <<"container">>[i - 1]
    BY <1>2, <2>0
  <2>2. s[1] = "volume" /\ s[2] = "container"
    BY <1>2, <2>1
  <2>3. \A i \in 1..2 : s[i] = VC[i]
    BY <1>2, <2>2
  <2> HIDE DEF s
  <2>4. s = VC
    BY <1>1, <1>2, <2>1, <2>3, SeqEqual
  <2> QED BY <2>4, Zenon DEF s
<1>4. VC \o <<"attach">> = VCA
  <2> DEFINE s == VC \o <<"attach">>
  <2>0. /\ s \in Seq(S) /\ Len(s) = Len(VC) + Len(<<"attach">>)
        /\ \A i \in 1..Len(VC) + Len(<<"attach">>) :
             s[i] = IF i <= Len(VC) THEN VC[i] ELSE <<"attach">>[i - Len(VC)]
    BY <1>1, ConcatProperties
  <2>1. /\ s \in Seq(S) /\ Len(s) = 3
        /\ \A i \in 1..3 : s[i] = IF i <= 2 THEN VC[i] ELSE <<"attach">>[i - 2]
    BY <1>2, <2>0
  <2>2. s[1] = "volume" /\ s[2] = "container" /\ s[3] = "attach"
    BY <1>2, <2>1
  <2>3. \A i \in 1..3 : s[i] = VCA[i]
    BY <1>2, <2>2
  <2> HIDE DEF s
  <2>4. s = VCA
    BY <1>1, <1>2, <2>1, <2>3, SeqEqual
  <2> QED BY <2>4, Zenon DEF s
<1>5. <<>> \o <<"volume">> = V
  BY <1>1 DEF V
<1>6. VC \o <<>> = VC /\ VCA \o <<>> = VCA /\ <<>> \o <<>> = <<>>
  BY <1>1
<1>7. SubSeq(V, 1, 0) = <<>>
  BY <1>1
<1>8. SubSeq(VC, 1, 1) = V
  <2> DEFINE s == SubSeq(VC, 1, 1)
  <2>1. s \in Seq(S) /\ Len(s) = 1 /\ \A i \in 1..1 : s[i] = VC[1 + i - 1]
    BY <1>1, <1>2, SubSeqProperties
  <2>2. \A i \in 1..1 : s[i] = V[i]
    BY <1>2, <2>1
  <2> HIDE DEF s
  <2>3. s = V
    BY <1>1, <1>2, <2>1, <2>2, SeqEqual
  <2> QED BY <2>3, Zenon DEF s
<1>9. SubSeq(VCA, 1, 2) = VC
  <2> DEFINE s == SubSeq(VCA, 1, 2)
  <2>1. s \in Seq(S) /\ Len(s) = 2 /\ \A i \in 1..2 : s[i] = VCA[1 + i - 1]
    BY <1>1, <1>2, SubSeqProperties
  <2>2. \A i \in 1..2 : s[i] = VC[i]
    BY <1>2, <2>1
  <2> HIDE DEF s
  <2>3. s = VC
    BY <1>1, <1>2, <2>1, <2>2, SeqEqual
  <2> QED BY <2>3, Zenon DEF s
<1>10. V # <<>> /\ VC # <<>> /\ VCA # <<>> /\ V # VC /\ V # VCA /\ VC # VCA
  <2>1. Len(<<>>) = 0
    BY Zenon
  <2>2. Len(V) # Len(<<>>) /\ Len(VC) # Len(<<>>) /\ Len(VCA) # Len(<<>>)
    BY <1>2, <2>1
  <2>3. Len(V) # Len(VC) /\ Len(V) # Len(VCA) /\ Len(VC) # Len(VCA)
    BY <1>2, Zenon
  <2> QED BY <2>2, <2>3, Zenon
<1> QED BY <1>1, <1>2, <1>3, <1>4, <1>5, <1>6, <1>7, <1>8, <1>9, <1>10

\* They are different.
LEMMA Distinct == V # <<>> /\ VC # <<>> /\ VCA # <<>> /\ V # VC /\ V # VCA /\ VC # VCA
BY Stacks, Zenon

\* The type invariant with the calls of Run spelled out.
LEMMA Types ==
  TypeOK =>
    /\ at \in [Names -> {"none", "unwind", "returned", "image", "volume", "container", "source",
                         "script", "attach", "start", "wait", "collect"}]
    /\ DOMAIN at = Names /\ DOMAIN defers = Names /\ DOMAIN box = Names /\ DOMAIN vol = Names
    /\ DOMAIN spool = Names /\ DOMAIN demux = Names /\ DOMAIN attached = Names
    /\ DOMAIN res = Names /\ DOMAIN proc = Procs
BY Steps DEF TypeOK

\* A step of one attempt's Run leaves the others and the processes alone: what is
\* left to show is about that attempt.
LEMMA LocalIInv ==
  ASSUME IInv, TypeOK', NEW n \in Names,
         UNCHANGED <<proc, overlap, orphaned>>,
         \A m \in Names \ {n} :
           /\ at'[m] = at[m] /\ defers'[m] = defers[m] /\ res'[m] = res[m] /\ box'[m] = box[m]
           /\ vol'[m] = vol[m] /\ spool'[m] = spool[m] /\ demux'[m] = demux[m]
           /\ attached'[m] = attached[m]
           /\ m \in faulty' <=> m \in faulty
           /\ m \in broken' <=> m \in broken,
         DeferOK(n)', RemainOK(n)', StreamOK(n)', JobOK(n)', ClaimOK(n)'
  PROVE  IInv'
<1>1. ASSUME NEW m \in Names \ {n}
      PROVE  DeferOK(m)' /\ RemainOK(m)' /\ StreamOK(m)' /\ JobOK(m)' /\ ClaimOK(m)'
  <2>1. DeferOK(m) /\ RemainOK(m) /\ StreamOK(m) /\ JobOK(m) /\ ClaimOK(m)
    BY Zenon DEF IInv, NameInv
  <2>2. DeferOK(m)' /\ StreamOK(m)' /\ ClaimOK(m)'
    BY <1>1, <2>1, Zenon DEF DeferOK, StreamOK, ClaimOK
  <2>3. RemainOK(m)'
    BY <1>1, <2>1, Zenon DEF RemainOK, InProgress, Listed
  <2>4. JobOK(m)'
    BY <1>1, <2>1, Zenon DEF JobOK, InProgress
  <2> QED BY <2>2, <2>3, <2>4, Zenon
<1>2. NameInv'
  BY <1>1, Zenon DEF NameInv
<1>3. ProcInv'
  BY Zenon DEF IInv, ProcInv, Alive
<1> QED BY <1>2, <1>3, Zenon DEF IInv

\* What is known of an attempt whose Run is in progress.
LEMMA Known ==
  ASSUME IInv, NEW n \in Names
  PROVE  /\ TypeOK /\ ProcOf[n] \in Procs
         /\ DeferOK(n) /\ RemainOK(n) /\ StreamOK(n) /\ JobOK(n) /\ ClaimOK(n)
BY DockerAssumption, Zenon DEF IInv, NameInv

\* Run goes on to its next call: at[n] and defers[n] afterwards.
LEMMA OkMoves ==
  ASSUME IInv, NEW n \in Names, ok(n),
         at[n] \in {"image", "volume", "container", "source", "script", "attach", "start", "wait"}
  PROVE  /\ at' \in [Names -> {"none", "unwind", "returned"} \cup {Setup[i] : i \in 1..9}]
         /\ defers' \in [Names -> Seq({"volume", "container", "attach"})]
         /\ res' = res
         /\ \A m \in Names \ {n} : at'[m] = at[m] /\ defers'[m] = defers[m]
         /\ at[n] = "image" => at'[n] = "volume" /\ defers'[n] = <<>>
         /\ at[n] = "volume" => at'[n] = "container" /\ defers'[n] = V
         /\ at[n] = "container" => at'[n] = "source" /\ defers'[n] = VC
         /\ at[n] = "source" => at'[n] = "script" /\ defers'[n] = VC
         /\ at[n] = "script" => at'[n] = "attach" /\ defers'[n] = VC
         /\ at[n] = "attach" => at'[n] = "start" /\ defers'[n] = VCA
         /\ at[n] = "start" => at'[n] = "wait" /\ defers'[n] = VCA
         /\ at[n] = "wait" => at'[n] = "collect" /\ defers'[n] = VCA
<1>0. TypeOK /\ DeferOK(n)
  BY Known, Zenon
<1>1. at'[n] = After(at[n]) /\ \A m \in Names \ {n} : at'[m] = at[m]
  BY <1>0, Types, Zenon DEF ok
<1>2. defers'[n] = defers[n] \o Undo(at[n]) /\ \A m \in Names \ {n} : defers'[m] = defers[m]
  BY <1>0, Types, Zenon DEF ok
<1>3. /\ at[n] = "image" => at'[n] = "volume" /\ defers'[n] = <<>>
      /\ at[n] = "volume" => at'[n] = "container" /\ defers'[n] = V
      /\ at[n] = "container" => at'[n] = "source" /\ defers'[n] = VC
      /\ at[n] = "source" => at'[n] = "script" /\ defers'[n] = VC
      /\ at[n] = "script" => at'[n] = "attach" /\ defers'[n] = VC
      /\ at[n] = "attach" => at'[n] = "start" /\ defers'[n] = VCA
      /\ at[n] = "start" => at'[n] = "wait" /\ defers'[n] = VCA
      /\ at[n] = "wait" => at'[n] = "collect" /\ defers'[n] = VCA
  <2>1. /\ Undo("image") = <<>> /\ Undo("volume") = <<"volume">> /\ Undo("container") = <<"container">>
        /\ Undo("source") = <<>> /\ Undo("script") = <<>> /\ Undo("attach") = <<"attach">>
        /\ Undo("start") = <<>> /\ Undo("wait") = <<>>
    BY Zenon DEF Undo
  <2>2. /\ at[n] \in {"image", "volume"} => defers[n] = <<>>
        /\ at[n] = "container" => defers[n] = V
        /\ at[n] \in {"source", "script", "attach"} => defers[n] = VC
        /\ at[n] \in {"start", "wait"} => defers[n] = VCA
    BY <1>0, Zenon DEF DeferOK
  <2>3. at[n] = "image" => at'[n] = "volume" /\ defers'[n] = <<>>
    <3>1. at[n] = "image" => defers[n] = <<>>
      BY <2>2, Zenon
    <3>2. After("image") = "volume" /\ Undo("image") = <<>> /\ <<>> \o <<>> = <<>>
      BY <2>1, Steps, Stacks, Zenon
    <3> QED BY <1>1, <1>2, <3>1, <3>2, Zenon
  <2>4. at[n] = "volume" => at'[n] = "container" /\ defers'[n] = V
    <3>1. at[n] = "volume" => defers[n] = <<>>
      BY <2>2, Zenon
    <3>2. After("volume") = "container" /\ Undo("volume") = <<"volume">> /\ <<>> \o <<"volume">> = V
      BY <2>1, Steps, Stacks, Zenon
    <3> QED BY <1>1, <1>2, <3>1, <3>2, Zenon
  <2>5. at[n] = "container" => at'[n] = "source" /\ defers'[n] = VC
    <3>1. at[n] = "container" => defers[n] = V
      BY <2>2, Zenon
    <3>2. After("container") = "source" /\ Undo("container") = <<"container">> /\ V \o <<"container">> = VC
      BY <2>1, Steps, Stacks, Zenon
    <3> QED BY <1>1, <1>2, <3>1, <3>2, Zenon
  <2>6. at[n] = "source" => at'[n] = "script" /\ defers'[n] = VC
    <3>1. at[n] = "source" => defers[n] = VC
      BY <2>2, Zenon
    <3>2. After("source") = "script" /\ Undo("source") = <<>> /\ VC \o <<>> = VC
      BY <2>1, Steps, Stacks, Zenon
    <3> QED BY <1>1, <1>2, <3>1, <3>2, Zenon
  <2>7. at[n] = "script" => at'[n] = "attach" /\ defers'[n] = VC
    <3>1. at[n] = "script" => defers[n] = VC
      BY <2>2, Zenon
    <3>2. After("script") = "attach" /\ Undo("script") = <<>> /\ VC \o <<>> = VC
      BY <2>1, Steps, Stacks, Zenon
    <3> QED BY <1>1, <1>2, <3>1, <3>2, Zenon
  <2>8. at[n] = "attach" => at'[n] = "start" /\ defers'[n] = VCA
    <3>1. at[n] = "attach" => defers[n] = VC
      BY <2>2, Zenon
    <3>2. After("attach") = "start" /\ Undo("attach") = <<"attach">> /\ VC \o <<"attach">> = VCA
      BY <2>1, Steps, Stacks, Zenon
    <3> QED BY <1>1, <1>2, <3>1, <3>2, Zenon
  <2>9. at[n] = "start" => at'[n] = "wait" /\ defers'[n] = VCA
    <3>1. at[n] = "start" => defers[n] = VCA
      BY <2>2, Zenon
    <3>2. After("start") = "wait" /\ Undo("start") = <<>> /\ VCA \o <<>> = VCA
      BY <2>1, Steps, Stacks, Zenon
    <3> QED BY <1>1, <1>2, <3>1, <3>2, Zenon
  <2>10. at[n] = "wait" => at'[n] = "collect" /\ defers'[n] = VCA
    <3>1. at[n] = "wait" => defers[n] = VCA
      BY <2>2, Zenon
    <3>2. After("wait") = "collect" /\ Undo("wait") = <<>> /\ VCA \o <<>> = VCA
      BY <2>1, Steps, Stacks, Zenon
    <3> QED BY <1>1, <1>2, <3>1, <3>2, Zenon
  <2> QED BY <2>3, <2>4, <2>5, <2>6, <2>7, <2>8, <2>9, <2>10, Zenon
<1>4. at' \in [Names -> {"none", "unwind", "returned"} \cup {Setup[i] : i \in 1..9}]
  <2>1. at'[n] \in {Setup[i] : i \in 1..9}
    BY <1>3, Steps, Zenon
  <2> QED BY <1>0, <2>1, Zenon DEF TypeOK, ok
<1>5. defers' \in [Names -> Seq({"volume", "container", "attach"})]
  <2>1. defers'[n] \in {<<>>, V, VC, VCA}
    BY <1>3, Zenon
  <2>2. defers'[n] \in Seq({"volume", "container", "attach"})
    BY <2>1, Stacks, Zenon
  <2> QED BY <1>0, <2>2, Zenon DEF TypeOK, ok
<1> QED BY <1>1, <1>2, <1>3, <1>4, <1>5, Zenon DEF ok

\* Run returns: what it has deferred is yet to run.
LEMMA ReturnMoves ==
  ASSUME IInv, NEW n \in Names, NEW e \in {"nil", "error", "ctx"},
         NEW x \in {"none", "zero", "nonzero", "killed"}, return(n, e, x)
  PROVE  /\ at' \in [Names -> {"none", "unwind", "returned"} \cup {Setup[i] : i \in 1..9}]
         /\ res' \in [Names -> [err : {"nil", "error", "ctx"}, exit : {"none", "zero", "nonzero", "killed"}]]
         /\ defers' = defers
         /\ \A m \in Names \ {n} : at'[m] = at[m] /\ res'[m] = res[m]
         /\ at'[n] = "unwind" /\ res'[n].err = e /\ res'[n].exit = x
BY Known, Types, Zenon DEF return, TypeOK

\* A return that leaves the daemon alone.
LEMMA ReturnIInv ==
  ASSUME IInv, NEW n \in Names, NEW e \in {"nil", "error", "ctx"},
         NEW x \in {"none", "zero", "nonzero", "killed"}, return(n, e, x),
         InProgress(n), e = "nil" /\ x = "killed" => overlap,
         UNCHANGED <<proc, keepFailed, ctx, world, fetched, stream, overlap>>
  PROVE  IInv'
<1> USE Known, Types
<1>1. at'[n] = "unwind" /\ defers' = defers /\ res'[n].err = e /\ res'[n].exit = x
  BY ReturnMoves
<1>2. TypeOK'
  <2>1. at' \in [Names -> {"none", "unwind", "returned"} \cup {Setup[i] : i \in 1..9}]
    BY ReturnMoves
  <2>2. res' \in [Names -> [err : {"nil", "error", "ctx"}, exit : {"none", "zero", "nonzero", "killed"}]]
    BY ReturnMoves
  <2>3. /\ proc' = proc /\ keepFailed' = keepFailed /\ ctx' = ctx /\ overlap' = overlap /\ box' = box
        /\ vol' = vol /\ orphaned' = orphaned /\ faulty' = faulty /\ spool' = spool
        /\ tries' = tries /\ broken' = broken /\ demux' = demux /\ attached' = attached
    BY DEF world, fetched, stream
  <2> QED
    BY <1>1, <2>1, <2>2, <2>3 DEF TypeOK
<1>3. DeferOK(n)' /\ StreamOK(n)' /\ ClaimOK(n)'
  BY <1>1, Zenon DEF DeferOK, StreamOK, ClaimOK, InProgress, stream
<1>4. RemainOK(n)'
  BY <1>1, Zenon DEF RemainOK, InProgress, Listed, world
<1>5. JobOK(n)'
  BY <1>1, Zenon DEF JobOK, InProgress, world, fetched
<1>6. QED
  BY <1>1, <1>2, <1>3, <1>4, <1>5, ReturnMoves, LocalIInv DEF world, fetched, stream

\* The image is there, or pulled, or the pull fails.
LEMMA EnsureImageIInv ==
  ASSUME IInv, NEW n \in Names, ensureImage(n)
  PROVE  IInv'
<1> USE Known, Types
<1>1. InProgress(n) /\ at[n] = "image"
  BY Zenon DEF ensureImage
<1>2. UNCHANGED <<proc, keepFailed, ctx, world, fetched, stream, overlap>>
  BY Zenon DEF ensureImage
<1>3. CASE ok(n)
  <2>1. TypeOK'
    BY <1>1, <1>2, <1>3, OkMoves, Zenon DEF TypeOK, world, fetched, stream
  <2>2. at'[n] = "volume" /\ defers'[n] = <<>> /\ res' = res
    BY <1>1, <1>3, OkMoves, Zenon
  <2>3. DeferOK(n)' /\ StreamOK(n)' /\ ClaimOK(n)'
    BY <1>1, <1>2, <2>2, Zenon DEF DeferOK, StreamOK, ClaimOK, InProgress, stream
  <2>4. RemainOK(n)'
    BY <1>1, <1>2, <2>2, Zenon DEF RemainOK, DeferOK, InProgress, Listed, world
  <2>5. JobOK(n)'
    BY <1>1, <1>2, <2>2, Zenon DEF JobOK, InProgress, world, fetched
  <2> QED BY <1>1, <1>2, <1>3, <2>1, <2>3, <2>4, <2>5, OkMoves, LocalIInv, Zenon DEF world, fetched, stream
<1>4. CASE return(n, orCtx(n), "none")
  BY <1>1, <1>2, <1>4, ReturnIInv, Zenon DEF orCtx
<1> QED BY <1>3, <1>4, Zenon DEF ensureImage

\* The daemon's part of a call: what exists afterwards.
LEMMA DoneMoves ==
  ASSUME IInv, NEW n \in Names, Done(n)
  PROVE  /\ box' \in [Names -> {"absent", "created", "running", "zero", "nonzero", "killed"}]
         /\ vol' \in [Names -> BOOLEAN]
         /\ \A m \in Names \ {n} : box'[m] = box[m] /\ vol'[m] = vol[m]
         /\ box'[n] = IF at[n] = "container" THEN "created"
                      ELSE IF at[n] = "start" THEN "running" ELSE box[n]
         /\ vol'[n] = (vol[n] \/ at[n] \in {"volume", "container"})
BY Known, Types, Zenon DEF Done, TypeOK

\* One call to the daemon during set-up.
LEMMA CallIInv ==
  ASSUME IInv, NEW n \in Names, call(n)
  PROVE  IInv'
<1> USE Known, Types
<1>1. InProgress(n) /\ at[n] \in {"volume", "container", "script", "attach", "start"}
  BY Zenon DEF call
<1>2. UNCHANGED <<proc, keepFailed, ctx, fetched, overlap>>
  BY Zenon DEF call
<1>3. CASE /\ ok(n) /\ Done(n)
           /\ demux' = [demux EXCEPT ![n] = IF at[n] = "attach" THEN "on" ELSE @]
           /\ attached' = [attached EXCEPT ![n] = @ \/ at[n] = "attach"]
           /\ UNCHANGED <<orphaned, faulty>>
  <2>1. /\ demux' \in [Names -> {"off", "on", "done"}] /\ attached' \in [Names -> BOOLEAN]
        /\ \A m \in Names \ {n} : demux'[m] = demux[m] /\ attached'[m] = attached[m]
        /\ demux'[n] = IF at[n] = "attach" THEN "on" ELSE demux[n]
        /\ attached'[n] = (attached[n] \/ at[n] = "attach")
    BY <1>3, Zenon DEF TypeOK
  <2>2. TypeOK'
    BY <1>1, <1>2, <1>3, <2>1, OkMoves, DoneMoves, SMTT(30) DEF TypeOK, fetched
  <2>3. DeferOK(n)' /\ StreamOK(n)'
    <3>1. DeferOK(n)'
      BY <1>1, <1>3, OkMoves, Zenon DEF DeferOK
    <3>2. at[n] \in {"volume", "container", "script"} => demux[n] # "on"
      BY Distinct, Zenon DEF StreamOK, DeferOK
    <3>3. StreamOK(n)'
      BY <1>1, <1>3, <2>1, <3>2, OkMoves, Zenon DEF StreamOK
    <3> QED BY <3>1, <3>3, Zenon
  <2>4. ClaimOK(n)'
    BY <1>1, <1>2, Zenon DEF ClaimOK, InProgress
  <2>5. RemainOK(n)'
    <3>1. at'[n] # "none" /\ InProgress(n)'
      BY <1>1, <1>2, <1>3, OkMoves, Zenon DEF InProgress
    <3>2. vol'[n] => defers'[n] # <<>> \/ n \in faulty \/ overlap
      BY <1>1, <1>2, <1>3, OkMoves, DoneMoves, Distinct, Zenon DEF RemainOK
    <3>3. box'[n] # "absent" => defers'[n] \notin {<<>>, V} \/ n \in faulty \/ overlap
      BY <1>1, <1>2, <1>3, OkMoves, DoneMoves, Distinct, Zenon DEF RemainOK, DeferOK
    <3>4. ~overlap /\ n \notin faulty => \A p \in Procs : proc[p] = "reap2" => n \notin Listed(p)
      BY <1>1, DockerAssumption, Zenon DEF IInv, ProcInv, Alive, Listed, InProgress
    <3> QED BY <1>2, <1>3, <3>1, <3>2, <3>3, <3>4, Zenon DEF RemainOK, Listed
  <2>6. JobOK(n)'
    BY <1>1, <1>2, <1>3, OkMoves, DoneMoves DEF JobOK, fetched, InProgress, Done
  <2> QED BY <1>1, <1>2, <1>3, <2>1, <2>2, <2>3, <2>4, <2>5, <2>6, OkMoves, DoneMoves, LocalIInv DEF fetched
<1>4. CASE return(n, orCtx(n), "none") /\ UNCHANGED world /\ UNCHANGED stream
  BY <1>1, <1>2, <1>4, ReturnIInv, Zenon DEF orCtx
<1>5. CASE /\ return(n, orCtx(n), "none")
           /\ at[n] \in {"volume", "container", "start"} /\ Done(n)
           /\ faulty' = IF at[n] = "start" THEN faulty ELSE faulty \cup {n}
           /\ UNCHANGED orphaned /\ UNCHANGED stream
  <2>0. orCtx(n) \in {"error", "ctx"}
    BY Zenon DEF orCtx
  <2>1. at'[n] = "unwind" /\ defers' = defers /\ res'[n].exit = "none"
    BY <1>5, <2>0, ReturnMoves, Zenon
  <2>2. TypeOK'
    BY <1>1, <1>2, <1>5, <2>0, ReturnMoves, DoneMoves DEF TypeOK, fetched, stream
  <2>3. DeferOK(n)' /\ StreamOK(n)' /\ ClaimOK(n)'
    BY <1>1, <1>2, <1>5, <2>1, Zenon DEF DeferOK, StreamOK, ClaimOK, InProgress, stream
  <2>4. RemainOK(n)'
    <3>1. at[n] # "start" => n \in faulty'
      BY <1>5, Zenon
    <3>2. ~overlap => \A p \in Procs : proc[p] = "reap2" => n \notin Listed(p)
      BY <1>1, DockerAssumption, Zenon DEF IInv, ProcInv, Alive, Listed, InProgress
    <3>3. at[n] = "start" => defers[n] = VCA
      BY Zenon DEF DeferOK
    <3> QED BY <1>1, <1>2, <2>1, <3>1, <3>2, <3>3, Distinct, Zenon DEF RemainOK, InProgress, Listed
  <2>5. JobOK(n)'
    BY <1>1, <1>2, <1>5, <2>1, DoneMoves, Zenon DEF JobOK, InProgress, fetched
  <2>6. \A m \in Names \ {n} :
           /\ at'[m] = at[m] /\ defers'[m] = defers[m] /\ res'[m] = res[m] /\ box'[m] = box[m]
           /\ vol'[m] = vol[m] /\ spool'[m] = spool[m] /\ demux'[m] = demux[m]
           /\ attached'[m] = attached[m]
           /\ m \in faulty' <=> m \in faulty
           /\ m \in broken' <=> m \in broken
    <3>1. \A m \in Names \ {n} : at'[m] = at[m] /\ defers'[m] = defers[m] /\ res'[m] = res[m]
      BY <1>5, <2>0, <2>1, ReturnMoves, Zenon
    <3>2. \A m \in Names \ {n} : box'[m] = box[m] /\ vol'[m] = vol[m]
      BY <1>5, DoneMoves, Zenon
    <3>3. spool' = spool /\ broken' = broken /\ demux' = demux /\ attached' = attached
      BY <1>2, <1>5, Zenon DEF fetched, stream
    <3>4. \A m \in Names \ {n} : m \in faulty' <=> m \in faulty
      BY <1>5, Zenon
    <3> QED BY <3>1, <3>2, <3>3, <3>4, Zenon
  <2>7. UNCHANGED <<proc, overlap, orphaned>>
    BY <1>2, <1>5, Zenon
  <2> QED BY <2>2, <2>3, <2>4, <2>5, <2>6, <2>7, LocalIInv, Zenon
<1> QED BY <1>1, <1>3, <1>4, <1>5, Zenon DEF call

\* An attempt to fetch the source bundle.
LEMMA FetchIInv ==
  ASSUME IInv, NEW n \in Names, fetch(n)
  PROVE  IInv'
<1> USE Known, Types
<1>1. InProgress(n) /\ at[n] = "source"
  BY Zenon DEF fetch
<1>2. UNCHANGED <<proc, keepFailed, ctx, world, stream, overlap>>
  BY Zenon DEF fetch
<1>3. CASE return(n, orCtx(n), "none") /\ UNCHANGED fetched
  BY <1>1, <1>2, <1>3, ReturnIInv, Zenon DEF orCtx
<1>4. ASSUME NEW reply \in handleGetSource,
             spool' = [spool EXCEPT ![n] = Spooled(n, reply.blocks)],
             \/ /\ reply.end = "reset" /\ tries[n] < MaxTries
                /\ tries' = [tries EXCEPT ![n] = @ + 1]
                /\ UNCHANGED <<at, defers, res, broken>>
             \/ /\ reply.end = "clean" /\ box[n] # "absent" /\ ok(n)
                /\ broken' = IF reply.blocks < Len(Bundle) THEN broken \cup {n} ELSE broken
                /\ UNCHANGED tries
      PROVE  IInv'
  <2>1. reply.blocks \in 0..Len(Bundle)
    BY <1>4, DockerAssumption DEF handleGetSource
  <2>2. Spooled(n, reply.blocks) \in Seq(Nat)
    BY <2>1, DockerAssumption DEF Spooled
  <2>3. reply.blocks = Len(Bundle) => Spooled(n, reply.blocks) = Bundle
    BY <2>1, DockerAssumption DEF Spooled
  <2>4. /\ spool' \in [Names -> Seq(Nat)] /\ spool'[n] = Spooled(n, reply.blocks)
        /\ \A m \in Names \ {n} : spool'[m] = spool[m]
    BY <1>4, <2>2, Zenon DEF TypeOK
  <2>5. box[n] \in {"absent", "created"}
    BY <1>1, Zenon DEF JobOK
  <2>6. CASE reply.end = "reset" /\ tries' = [tries EXCEPT ![n] = @ + 1] /\ UNCHANGED <<at, defers, res, broken>>
    <3>0. tries' \in [Names -> Nat]
      BY <2>6 DEF TypeOK
    <3>1. TypeOK'
      BY <1>2, <2>4, <2>6, <3>0, Zenon DEF TypeOK, world, stream
    <3>2. DeferOK(n)' /\ StreamOK(n)' /\ ClaimOK(n)'
      BY <1>2, <2>6, Zenon DEF DeferOK, StreamOK, ClaimOK, stream
    <3>3. RemainOK(n)'
      BY <1>2, <2>6, Zenon DEF RemainOK, InProgress, Listed, world
    <3>4. JobOK(n)'
      BY <1>1, <1>2, <2>5, <2>6, Zenon DEF JobOK, world
    <3> QED BY <1>1, <1>2, <2>4, <2>6, <3>1, <3>2, <3>3, <3>4, LocalIInv, Zenon DEF world, stream
  <2>7. CASE /\ ok(n) /\ box[n] # "absent" /\ UNCHANGED tries
             /\ broken' = IF reply.blocks < Len(Bundle) THEN broken \cup {n} ELSE broken
    <3>1. TypeOK'
      BY <1>1, <1>2, <2>4, <2>7, OkMoves, Zenon DEF TypeOK, world, stream
    <3>2. at'[n] = "script" /\ defers'[n] = VC /\ defers[n] = VC /\ res' = res
      BY <1>1, <2>7, OkMoves, Zenon DEF DeferOK
    <3>3. DeferOK(n)' /\ StreamOK(n)' /\ ClaimOK(n)'
      BY <1>1, <1>2, <3>2, Zenon DEF DeferOK, StreamOK, ClaimOK, InProgress, stream
    <3>4. RemainOK(n)'
      BY <1>1, <1>2, <3>2, Zenon DEF RemainOK, InProgress, Listed, world
    <3>5. spool'[n] = Bundle \/ n \in broken'
      BY <2>1, <2>3, <2>4, <2>7, DockerAssumption
    <3>6. JobOK(n)'
      BY <1>1, <1>2, <2>5, <3>2, <3>5, Zenon DEF JobOK, InProgress, world
    <3> QED BY <1>1, <1>2, <2>4, <2>7, <3>1, <3>3, <3>4, <3>6, OkMoves, LocalIInv, Zenon DEF world, stream
  <2> QED BY <1>4, <2>6, <2>7, Zenon
<1> QED BY <1>3, <1>4, Zenon DEF fetch

\* Run waits for the container.
LEMMA AwaitIInv ==
  ASSUME IInv, NEW n \in Names, await(n)
  PROVE  IInv'
<1> USE Known, Types
<1>1. InProgress(n) /\ at[n] = "wait" /\ defers[n] = VCA
  BY Zenon DEF await, DeferOK
<1>2. UNCHANGED <<proc, keepFailed, ctx, vol, orphaned, faulty, fetched, stream, overlap>>
  BY Zenon DEF await
<1>3. CASE ok(n) /\ UNCHANGED box
  <2>1. TypeOK'
    BY <1>1, <1>2, <1>3, OkMoves, Zenon DEF TypeOK, fetched, stream
  <2>2. at'[n] = "collect" /\ defers'[n] = VCA /\ res' = res
    BY <1>1, <1>3, OkMoves, Zenon
  <2>3. DeferOK(n)' /\ StreamOK(n)' /\ ClaimOK(n)'
    BY <1>1, <1>2, <2>2, Zenon DEF DeferOK, StreamOK, ClaimOK, InProgress, stream
  <2>4. RemainOK(n)'
    BY <1>1, <1>2, <1>3, <2>2, Zenon DEF RemainOK, InProgress, Listed
  <2>5. JobOK(n)'
    BY <1>1, <1>2, <1>3, <2>2, Zenon DEF JobOK, InProgress, fetched
  <2> QED BY <1>1, <1>2, <1>3, <2>1, <2>3, <2>4, <2>5, OkMoves, LocalIInv, Zenon DEF fetched, stream
<1>4. CASE box[n] # "running" /\ ExitOf(n) # "zero" /\ return(n, "nil", ExitOf(n)) /\ UNCHANGED box
  <2>1. ExitOf(n) \in {"nonzero", "killed"}
    BY <1>4, Zenon DEF ExitOf
  <2>2. ExitOf(n) = "killed" => overlap
    BY <1>1, <1>4, Zenon DEF JobOK, ExitOf
  <2> QED BY <1>1, <1>2, <1>4, <2>1, <2>2, ReturnIInv, Zenon DEF world
<1>5. CASE return(n, "error", "none") /\ UNCHANGED box
  BY <1>1, <1>2, <1>5, ReturnIInv, Zenon DEF world
<1>6. CASE return(n, "ctx", "none") /\ UNCHANGED box
  BY <1>1, <1>2, <1>6, ReturnIInv, Zenon DEF world
<1>7. CASE return(n, "ctx", "none") /\ box[n] = "running" /\ box' = [box EXCEPT ![n] = "killed"]
  <2>1. at'[n] = "unwind" /\ defers' = defers /\ res'[n].exit = "none"
    BY <1>7, ReturnMoves, Zenon
  <2>2. box'[n] = "killed" /\ \A m \in Names \ {n} : box'[m] = box[m]
    BY <1>7, Zenon
  <2>3. TypeOK'
    BY <1>2, <1>7, ReturnMoves DEF TypeOK, fetched, stream
  <2>4. DeferOK(n)' /\ StreamOK(n)' /\ ClaimOK(n)'
    BY <1>1, <1>2, <2>1, Zenon DEF DeferOK, StreamOK, ClaimOK, InProgress, stream
  <2>5. RemainOK(n)'
    BY <1>1, <1>2, <1>7, <2>1, <2>2 DEF RemainOK, InProgress, Listed
  <2>6. JobOK(n)'
    BY <1>1, <1>2, <2>1, <2>2, Zenon DEF JobOK, InProgress
  <2> QED BY <1>1, <1>2, <1>7, <2>1, <2>2, <2>3, <2>4, <2>5, <2>6, ReturnMoves, LocalIInv DEF fetched, stream
<1> QED BY <1>3, <1>4, <1>5, <1>6, <1>7, Zenon DEF await

\* The artifacts are collected.
LEMMA CollectIInv ==
  ASSUME IInv, NEW n \in Names, collect(n)
  PROVE  IInv'
<1>1. InProgress(n) /\ UNCHANGED <<proc, keepFailed, ctx, world, fetched, stream, overlap>>
  BY Zenon DEF collect
<1>2. CASE return(n, "nil", "zero")
  BY <1>1, <1>2, ReturnIInv, Zenon
<1>3. CASE return(n, orCtx(n), "zero")
  BY <1>1, <1>3, ReturnIInv, Zenon DEF orCtx
<1> QED BY <1>2, <1>3, Zenon DEF collect

\* The deferred call that comes next.
LEMMA Tops ==
  ASSUME IInv, NEW n \in Names, defers[n] # <<>>
  PROVE  \/ defers[n] = V /\ defers[n][Len(defers[n])] = "volume"
         \/ defers[n] = VC /\ defers[n][Len(defers[n])] = "container"
         \/ defers[n] = VCA /\ defers[n][Len(defers[n])] = "attach"
<1>0. defers[n] = V \/ defers[n] = VC \/ defers[n] = VCA
  BY Known, Zenon DEF DeferOK
<1>1. V[Len(V)] = "volume" /\ VC[Len(VC)] = "container" /\ VCA[Len(VCA)] = "attach"
  BY Stacks, Zenon
<1> QED BY <1>0, <1>1, Zenon

\* A deferred call has been made: the stack is one shorter.
LEMMA PopMoves ==
  ASSUME IInv, NEW n \in Names, defers[n] # <<>>, Pop(n)
  PROVE  /\ defers' \in [Names -> Seq({"volume", "container", "attach"})]
         /\ \A m \in Names \ {n} : defers'[m] = defers[m]
         /\ defers[n] = V => defers'[n] = <<>>
         /\ defers[n] = VC => defers'[n] = V
         /\ defers[n] = VCA => defers'[n] = VC
<1>0. TypeOK
  BY Known, Zenon
<1>1. /\ defers'[n] = SubSeq(defers[n], 1, Len(defers[n]) - 1)
      /\ \A m \in Names \ {n} : defers'[m] = defers[m]
  BY <1>0, Types, Zenon DEF Pop
<1>2. /\ defers[n] = V => defers'[n] = <<>>
      /\ defers[n] = VC => defers'[n] = V
      /\ defers[n] = VCA => defers'[n] = VC
  <2>1. /\ SubSeq(V, 1, Len(V) - 1) = <<>>
        /\ SubSeq(VC, 1, Len(VC) - 1) = V
        /\ SubSeq(VCA, 1, Len(VCA) - 1) = VC
    BY Stacks, Zenon
  <2> QED BY <1>1, <2>1, Zenon
<1>3. defers' \in [Names -> Seq({"volume", "container", "attach"})]
  <2>1. defers'[n] \in {<<>>, V, VC}
    BY <1>2, Tops, Zenon
  <2>2. defers'[n] \in Seq({"volume", "container", "attach"})
    BY <2>1, Stacks, Zenon
  <2> QED BY <1>0, <2>2, Zenon DEF TypeOK, Pop
<1> QED BY <1>1, <1>2, <1>3, Zenon

\* One deferred call runs.
LEMMA UnwindIInv ==
  ASSUME IInv, NEW n \in Names, unwind(n)
  PROVE  IInv'
<1> USE Known, Types
<1>1. InProgress(n) /\ at[n] = "unwind"
  BY Zenon DEF unwind
<1>2. UNCHANGED <<proc, keepFailed, ctx, res, fetched, overlap>>
  BY Zenon DEF unwind
<1>3. CASE /\ defers[n] = <<>>
           /\ at' = [at EXCEPT ![n] = "returned"]
           /\ UNCHANGED <<defers, world, stream>>
  <2>1. TypeOK'
    BY <1>2, <1>3, Zenon DEF TypeOK, world, fetched, stream
  <2>2. at'[n] = "returned" /\ \A m \in Names \ {n} : at'[m] = at[m]
    BY <1>3, Zenon
  <2>3. DeferOK(n)' /\ StreamOK(n)' /\ ClaimOK(n)'
    BY <1>1, <1>2, <1>3, <2>2, Zenon DEF DeferOK, StreamOK, ClaimOK, InProgress, stream
  <2>4. RemainOK(n)'
    BY <1>1, <1>2, <1>3, <2>2, Zenon DEF RemainOK, InProgress, Listed, world
  <2>5. JobOK(n)'
    BY <1>1, <1>2, <1>3, <2>2, Zenon DEF JobOK, InProgress, fetched, world
  <2> QED BY <1>1, <1>2, <1>3, <2>1, <2>2, <2>3, <2>4, <2>5, LocalIInv, Zenon DEF world, fetched, stream
<1>4. CASE defers[n] = VCA /\ detach(n) /\ UNCHANGED at
  <2>0. defers[n] # <<>> /\ UNCHANGED <<world, demux>>
    BY <1>4, Distinct, Zenon DEF detach
  <2>1. CASE attached' = [attached EXCEPT ![n] = FALSE] /\ UNCHANGED defers
    <3>1. TypeOK'
      BY <1>2, <1>4, <2>0, <2>1, Zenon DEF TypeOK, world, fetched
    <3>2. DeferOK(n)' /\ StreamOK(n)' /\ ClaimOK(n)'
      BY <1>1, <1>2, <1>4, <2>0, <2>1, Zenon DEF DeferOK, StreamOK, ClaimOK
    <3>3. RemainOK(n)'
      BY <1>2, <1>4, <2>0, <2>1, Zenon DEF RemainOK, InProgress, Listed, world
    <3>4. JobOK(n)'
      BY <1>2, <1>4, <2>0, <2>1, Zenon DEF JobOK, InProgress, fetched, world
    <3> QED BY <1>1, <1>2, <1>4, <2>0, <2>1, <3>1, <3>2, <3>3, <3>4, LocalIInv, Zenon DEF world, fetched
  <2>2. CASE demux[n] = "done" /\ Pop(n) /\ UNCHANGED attached
    <3>1. TypeOK'
      BY <1>2, <1>4, <2>0, <2>2, PopMoves, Zenon DEF TypeOK, world, fetched
    <3>2. defers'[n] = VC
      BY <1>4, <2>0, <2>2, PopMoves, Distinct, Zenon
    <3>3. DeferOK(n)' /\ StreamOK(n)' /\ ClaimOK(n)'
      BY <1>1, <1>2, <1>4, <2>0, <2>2, <3>2, Zenon DEF DeferOK, StreamOK, ClaimOK
    <3>4. RemainOK(n)'
      BY <1>2, <1>4, <2>0, <2>2, <3>2, Distinct, Zenon DEF RemainOK, InProgress, Listed, world
    <3>5. JobOK(n)'
      BY <1>2, <1>4, <2>0, <2>2, Zenon DEF JobOK, InProgress, fetched, world
    <3> QED BY <1>1, <1>2, <1>4, <2>0, <2>2, <3>1, <3>3, <3>4, <3>5, PopMoves, LocalIInv, Zenon DEF world, fetched
  <2>3. QED
    BY <1>4, <2>1, <2>2, Zenon DEF detach
<1>5. CASE defers[n] \in {V, VC} /\ remove(n) /\ UNCHANGED at
  <2>0. defers[n] # <<>> /\ Pop(n) /\ UNCHANGED <<orphaned, demux, attached>>
    BY <1>5, Distinct, Zenon DEF remove, stream
  <2>1. \/ /\ defers[n] = VC /\ box' = [box EXCEPT ![n] = "absent"]
           /\ UNCHANGED <<vol, faulty>>
        \/ /\ defers[n] = V /\ vol' = [vol EXCEPT ![n] = box[n] # "absent"]
           /\ UNCHANGED <<box, faulty>>
        \/ faulty' = faulty \cup {n} /\ UNCHANGED <<box, vol>>
    BY <1>5, <2>0, Tops, Zenon DEF remove
  <2>2. /\ box' \in [Names -> {"absent", "created", "running", "zero", "nonzero", "killed"}]
        /\ vol' \in [Names -> BOOLEAN] /\ faulty' \subseteq Names
        /\ \A m \in Names \ {n} : box'[m] = box[m] /\ vol'[m] = vol[m] /\ (m \in faulty' <=> m \in faulty)
        /\ \/ defers[n] = VC /\ box'[n] = "absent" /\ vol'[n] = vol[n] /\ faulty' = faulty
           \/ defers[n] = V /\ box'[n] = box[n] /\ vol'[n] = (box[n] # "absent") /\ faulty' = faulty
           \/ n \in faulty' /\ box'[n] = box[n]
    BY <2>1 DEF TypeOK
  <2>3. TypeOK'
    BY <1>2, <1>5, <2>0, <2>2, PopMoves, Zenon DEF TypeOK, fetched
  <2>4. /\ defers[n] = V => defers'[n] = <<>>
        /\ defers[n] = VC => defers'[n] = V
        /\ \A m \in Names \ {n} : defers'[m] = defers[m]
    BY <2>0, PopMoves, Zenon
  <2>5. DeferOK(n)' /\ StreamOK(n)' /\ ClaimOK(n)'
    BY <1>1, <1>2, <1>5, <2>0, <2>4, Distinct, Zenon DEF DeferOK, StreamOK, ClaimOK
  <2>6. RemainOK(n)'
    <3>1. InProgress(n)' /\ at'[n] # "none"
      BY <1>1, <1>2, <1>5, Zenon DEF InProgress
    <3>2. n \notin faulty' /\ ~overlap =>
            /\ vol'[n] => defers'[n] # <<>>
            /\ box'[n] = "absent"
      BY <1>1, <1>5, <2>2, <2>4, Distinct, Zenon DEF RemainOK
    <3> QED BY <1>2, <3>1, <3>2, Zenon DEF RemainOK, Listed
  <2>7. JobOK(n)'
    BY <1>1, <1>2, <1>5, <2>2, Zenon DEF JobOK, InProgress, fetched
  <2> QED BY <1>1, <1>2, <1>5, <2>0, <2>2, <2>3, <2>4, <2>5, <2>6, <2>7, LocalIInv, Zenon DEF fetched
<1> QED BY <1>3, <1>4, <1>5, Tops, Zenon DEF unwind

\* An attempt begins.
LEMMA StartRunIInv ==
  ASSUME IInv, NEW n \in Names, StartRun(n)
  PROVE  IInv'
<1> USE Known, Types
<1>1. /\ proc[ProcOf[n]] = "on" /\ at[n] = "none"
      /\ at'[n] = "image" /\ \A m \in Names \ {n} : at'[m] = at[m]
      /\ UNCHANGED <<proc, keepFailed, defers, ctx, res, world, fetched, stream, overlap>>
  BY Zenon DEF StartRun
<1>2. TypeOK'
  <2>1. "image" \in {Setup[i] : i \in 1..9}
    BY Steps, Zenon
  <2>2. at' = [at EXCEPT ![n] = "image"]
    BY Zenon DEF StartRun
  <2>3. TypeOK
    BY Zenon DEF IInv
  <2>4. at' \in [Names -> {"none", "unwind", "returned"} \cup {Setup[i] : i \in 1..9}]
    BY <2>1, <2>2, <2>3, Zenon DEF TypeOK
  <2> QED BY <1>1, <2>3, <2>4, Zenon DEF TypeOK, world, fetched, stream
<1>3. DeferOK(n)' /\ StreamOK(n)' /\ ClaimOK(n)'
  BY <1>1, Zenon DEF DeferOK, StreamOK, ClaimOK, stream
<1>4. RemainOK(n)'
  BY <1>1, Zenon DEF RemainOK, InProgress, Listed, world
<1>5. JobOK(n)'
  BY <1>1, Zenon DEF JobOK, RemainOK, InProgress, fetched, world
<1> QED BY <1>1, <1>2, <1>3, <1>4, <1>5, LocalIInv, Zenon DEF world, fetched, stream

\* The context of an attempt ends.
LEMMA EndCtxIInv ==
  ASSUME IInv, NEW n \in Names, EndCtx(n)
  PROVE  IInv'
<1> USE Known, Types
<1>1. UNCHANGED <<proc, keepFailed, at, defers, res, world, fetched, stream, overlap>>
  BY Zenon DEF EndCtx
<1>2. TypeOK'
  BY <1>1, Zenon DEF TypeOK, EndCtx, world, fetched, stream
<1>3. DeferOK(n)' /\ StreamOK(n)' /\ ClaimOK(n)'
  BY <1>1, Zenon DEF DeferOK, StreamOK, ClaimOK, stream
<1>4. RemainOK(n)'
  BY <1>1, Zenon DEF RemainOK, InProgress, Listed, world
<1>5. JobOK(n)'
  BY <1>1, Zenon DEF JobOK, InProgress, fetched, world
<1> QED BY <1>1, <1>2, <1>3, <1>4, <1>5, LocalIInv, Zenon DEF world, fetched, stream

\* A container exits by itself.
LEMMA ExitsIInv ==
  ASSUME IInv, NEW n \in Names, Exits(n)
  PROVE  IInv'
<1> USE Known, Types
<1>1. /\ box[n] = "running" /\ box'[n] \in {"zero", "nonzero"}
      /\ \A m \in Names \ {n} : box'[m] = box[m]
      /\ UNCHANGED <<proc, keepFailed, at, defers, ctx, res, vol, orphaned, faulty, fetched, stream, overlap>>
  BY Zenon DEF Exits
<1>2. TypeOK'
  <2>1. PICK x \in {"zero", "nonzero"} : box' = [box EXCEPT ![n] = x]
    BY Zenon DEF Exits
  <2> QED BY <1>1, <2>1, Zenon DEF TypeOK, fetched, stream
<1>3. DeferOK(n)' /\ StreamOK(n)' /\ ClaimOK(n)'
  BY <1>1, Zenon DEF DeferOK, StreamOK, ClaimOK, stream
<1>4. RemainOK(n)'
  BY <1>1, Zenon DEF RemainOK, InProgress, Listed
<1>5. JobOK(n)'
  BY <1>1, Zenon DEF JobOK, InProgress, fetched
<1> QED BY <1>1, <1>2, <1>3, <1>4, <1>5, LocalIInv, Zenon DEF fetched, stream

\* The log stream ends.
LEMMA DemuxEndsIInv ==
  ASSUME IInv, NEW n \in Names, DemuxEnds(n)
  PROVE  IInv'
<1> USE Known, Types
<1>1. /\ demux'[n] = "done" /\ \A m \in Names \ {n} : demux'[m] = demux[m]
      /\ UNCHANGED <<proc, keepFailed, at, defers, ctx, res, world, fetched, attached, overlap>>
  BY Zenon DEF DemuxEnds
<1>2. TypeOK'
  BY <1>1 DEF TypeOK, DemuxEnds, fetched, world
<1>3. DeferOK(n)' /\ StreamOK(n)' /\ ClaimOK(n)'
  BY <1>1, Zenon DEF DeferOK, StreamOK, ClaimOK
<1>4. RemainOK(n)'
  BY <1>1, Zenon DEF RemainOK, InProgress, Listed, world
<1>5. JobOK(n)'
  BY <1>1, Zenon DEF JobOK, InProgress, fetched, world
<1> QED BY <1>1, <1>2, <1>3, <1>4, <1>5, LocalIInv, Zenon DEF fetched, world

\* A runner process starts.
LEMMA StartProcIInv ==
  ASSUME IInv, NEW p \in Procs, StartProc(p)
  PROVE  IInv'
<1> USE Types
<1>0. TypeOK /\ proc[p] = "new"
  BY Zenon DEF IInv, StartProc
<1>1. /\ proc'[p] \in {"on", "reap1"} /\ \A q \in Procs \ {p} : proc'[q] = proc[q]
      /\ overlap' = (overlap \/ \E q \in Procs : Alive(q) /\ NameOf[q] = NameOf[p])
      /\ UNCHANGED <<keepFailed, at, defers, ctx, res, world, fetched, stream>>
  BY <1>0, Zenon DEF StartProc
<1>2. TypeOK'
  BY <1>0, <1>1 DEF TypeOK, StartProc, world, fetched, stream
<1>3. ASSUME NEW n \in Names
      PROVE  DeferOK(n)' /\ RemainOK(n)' /\ StreamOK(n)' /\ JobOK(n)' /\ ClaimOK(n)'
  <2> USE Known
  <2>1. InProgress(n)' = InProgress(n)
    BY <1>0, <1>1, Zenon DEF InProgress, ClaimOK
  <2>2. DeferOK(n)' /\ StreamOK(n)' /\ ClaimOK(n)'
    BY <1>0, <1>1 DEF DeferOK, StreamOK, ClaimOK, stream
  <2>3. RemainOK(n)'
    BY <1>0, <1>1, <2>1, Zenon DEF RemainOK, Listed, world
  <2>4. JobOK(n)'
    BY <1>1, <2>1, Zenon DEF JobOK, world, fetched
  <2> QED BY <2>2, <2>3, <2>4, Zenon
<1>4. ProcInv'
  BY <1>0, <1>1, Zenon DEF IInv, ProcInv, Alive
<1> QED BY <1>2, <1>3, <1>4, Zenon DEF IInv, NameInv

\* A runner process is killed with everything it was doing.
LEMMA KillIInv ==
  ASSUME IInv, NEW p \in Procs, Kill(p)
  PROVE  IInv'
<1> USE Types
<1>0. TypeOK
  BY Zenon DEF IInv
<1>1. /\ proc'[p] = "dead" /\ \A q \in Procs \ {p} : proc'[q] = proc[q]
      /\ orphaned' = orphaned \cup {n \in Names : ProcOf[n] = p /\ InProgress(n)}
      /\ UNCHANGED <<keepFailed, at, defers, ctx, res, box, vol, faulty, fetched, stream, overlap>>
  BY <1>0, Zenon DEF Kill
<1>2. TypeOK'
  BY <1>0, <1>1 DEF TypeOK, Kill, fetched, stream
<1>3. ASSUME NEW n \in Names
      PROVE  DeferOK(n)' /\ RemainOK(n)' /\ StreamOK(n)' /\ JobOK(n)' /\ ClaimOK(n)'
  <2> USE Known
  <2>1. DeferOK(n)' /\ StreamOK(n)' /\ ClaimOK(n)'
    BY <1>0, <1>1, Zenon DEF DeferOK, StreamOK, ClaimOK, stream
  <2>2. RemainOK(n)'
    BY <1>0, <1>1, Zenon DEF RemainOK, InProgress, Listed
  <2>3. JobOK(n)'
    BY <1>1, Zenon DEF JobOK, InProgress, fetched
  <2> QED BY <2>1, <2>2, <2>3, Zenon
<1>4. ProcInv'
  BY <1>0, <1>1, Zenon DEF IInv, ProcInv, Alive
<1> QED BY <1>2, <1>3, <1>4, Zenon DEF IInv, NameInv

\* A reaper lists no attempt in progress, unless a process overlapped another.
LEMMA ReapsNoLive ==
  ASSUME IInv, NEW p \in Procs, proc[p] \in {"reap1", "reap2"}, NEW n \in Listed(p)
  PROVE  ~InProgress(n) \/ overlap
BY DockerAssumption, Zenon DEF IInv, ProcInv, Alive, Listed, InProgress

\* A starting runner removes what an earlier one left.
LEMMA ReapIInv ==
  ASSUME IInv, NEW p \in Procs, Reap(p)
  PROVE  IInv'
<1> USE Types
<1>0. TypeOK /\ proc[p] \in {"reap1", "reap2"}
  BY Zenon DEF IInv, Reap
<1>1. /\ UNCHANGED <<keepFailed, at, defers, ctx, res, fetched, stream, overlap>>
      /\ proc'[p] \in {"reap2", "on", "dead"} /\ \A q \in Procs \ {p} : proc'[q] = proc[q]
      /\ proc' \in [Procs -> {"new", "reap1", "reap2", "on", "dead"}]
  <2>1. PICK x \in {"reap2", "on", "dead"} : proc' = [proc EXCEPT ![p] = x]
    BY Zenon DEF Reap
  <2> QED BY <1>0, <2>1, Zenon DEF Reap, TypeOK
<1>2. ProcInv'
  BY <1>0, <1>1, SMTT(30) DEF IInv, ProcInv, Alive
<1>3. \A n \in Names : InProgress(n)' = InProgress(n)
  <2> TAKE n \in Names
  <2> QED BY <1>0, <1>1, Known, Zenon DEF InProgress, ClaimOK
<1>4. ASSUME NEW n \in Names
      PROVE  DeferOK(n)' /\ StreamOK(n)' /\ ClaimOK(n)'
  BY <1>0, <1>1, Known DEF DeferOK, StreamOK, ClaimOK, stream
<1>5. CASE /\ proc[p] = "reap1" /\ proc' = [proc EXCEPT ![p] = "reap2"]
           /\ LET cs == {n \in Listed(p) : box[n] # "absent"}
              IN  \E stay \in SUBSET cs :
                    /\ box' = [n \in Names |-> IF n \in cs \ stay THEN "absent" ELSE box[n]]
                    /\ faulty' = faulty \cup stay
           /\ UNCHANGED <<vol, orphaned>>
  <2>1. PICK stay \in SUBSET {n \in Listed(p) : box[n] # "absent"} :
          /\ box' = [n \in Names |->
                       IF n \in {m \in Listed(p) : box[m] # "absent"} \ stay THEN "absent" ELSE box[n]]
          /\ faulty' = faulty \cup stay
    BY <1>5, Zenon
  <2>2. \A n \in Names :
          /\ box'[n] = IF n \in Listed(p) /\ n \notin stay THEN "absent" ELSE box[n]
          /\ n \in faulty' <=> n \in faulty \/ n \in stay
          /\ n \in stay => n \in Listed(p)
    BY <2>1, Zenon
  <2>3. TypeOK'
    <3>1. box' \in [Names -> {"absent", "created", "running", "zero", "nonzero", "killed"}]
      BY <1>0, <2>1, Zenon DEF TypeOK
    <3>2. faulty' \subseteq Names
      BY <1>0, <2>1, Zenon DEF TypeOK, Listed
    <3> QED BY <1>0, <1>1, <1>5, <3>1, <3>2, Zenon DEF TypeOK, fetched, stream
  <2>4. ASSUME NEW n \in Names
        PROVE  RemainOK(n)' /\ JobOK(n)'
    <3> USE Known
    <3>1. RemainOK(n)'
      <4>1. at'[n] = "none" => box'[n] = "absent" /\ ~vol'[n]
        BY <1>1, <1>5, <2>2 DEF RemainOK
      <4>2. ASSUME n \notin faulty', ~overlap'
            PROVE  /\ InProgress(n)' /\ vol'[n] => defers'[n] # <<>>
                   /\ InProgress(n)' /\ box'[n] # "absent" => defers'[n] \notin {<<>>, V}
                   /\ ~InProgress(n)' /\ n \notin orphaned' => box'[n] = "absent" /\ ~vol'[n]
        BY <1>1, <1>3, <1>5, <2>2, <4>2, Zenon DEF RemainOK
      <4>3. ASSUME n \notin faulty', ~overlap', NEW q \in Procs, proc'[q] = "reap2", n \in Listed(q)
            PROVE  box'[n] = "absent"
        BY <1>1, <1>5, <2>2, <4>3 DEF RemainOK
      <4> QED BY <4>1, <4>2, <4>3, Zenon DEF RemainOK, Listed
    <3>2. JobOK(n)'
      <4>1. InProgress(n) => box'[n] = box[n] \/ overlap
        BY <1>0, <2>2, ReapsNoLive, Zenon
      <4> QED BY <1>1, <1>3, <2>2, <4>1, Zenon DEF JobOK, fetched
    <3> QED BY <3>1, <3>2, Zenon
  <2> QED BY <1>2, <1>4, <2>3, <2>4, Zenon DEF IInv, NameInv
<1>6. CASE /\ proc[p] = "reap2" /\ proc' = [proc EXCEPT ![p] = "on"]
           /\ LET vs == {n \in Listed(p) : vol[n] /\ box[n] = "absent"}
              IN  \E stay \in SUBSET vs :
                    /\ vol' = [n \in Names |-> vol[n] /\ n \notin vs \ stay]
                    /\ faulty' = faulty \cup stay
           /\ orphaned' = orphaned \ Listed(p)
           /\ UNCHANGED box
  <2>1. PICK stay \in SUBSET {n \in Listed(p) : vol[n] /\ box[n] = "absent"} :
          /\ vol' = [n \in Names |->
                       vol[n] /\ n \notin {m \in Listed(p) : vol[m] /\ box[m] = "absent"} \ stay]
          /\ faulty' = faulty \cup stay
    BY <1>6, Zenon
  <2>2. \A n \in Names :
          /\ vol'[n] = (vol[n] /\ ~(n \in Listed(p) /\ box[n] = "absent" /\ n \notin stay))
          /\ n \in faulty' <=> n \in faulty \/ n \in stay
    BY <1>0, <2>1, Zenon DEF TypeOK
  <2>3. TypeOK'
    <3>1. vol' \in [Names -> BOOLEAN]
      BY <1>0, <2>1, Zenon DEF TypeOK
    <3>2. faulty' \subseteq Names /\ orphaned' \subseteq Names
      BY <1>0, <1>6, <2>1, Zenon DEF TypeOK, Listed
    <3> QED BY <1>0, <1>1, <1>6, <3>1, <3>2, Zenon DEF TypeOK, fetched, stream
  <2>4. ASSUME NEW n \in Names
        PROVE  RemainOK(n)' /\ JobOK(n)'
    <3> USE Known
    <3>1. RemainOK(n)'
      <4>1. at'[n] = "none" => box'[n] = "absent" /\ ~vol'[n]
        BY <1>1, <1>6, <2>2, Zenon DEF RemainOK
      <4>2. ASSUME n \notin faulty', ~overlap'
            PROVE  /\ InProgress(n)' /\ vol'[n] => defers'[n] # <<>>
                   /\ InProgress(n)' /\ box'[n] # "absent" => defers'[n] \notin {<<>>, V}
        BY <1>1, <1>3, <1>6, <2>2, <4>2, Zenon DEF RemainOK
      <4>3. ASSUME n \notin faulty', ~overlap', ~InProgress(n)', n \notin orphaned'
            PROVE  box'[n] = "absent" /\ ~vol'[n]
        BY <1>1, <1>3, <1>6, <2>2, <4>3, Zenon DEF RemainOK
      <4>4. ASSUME n \notin faulty', ~overlap', NEW q \in Procs, proc'[q] = "reap2", n \in Listed(q)
            PROVE  box'[n] = "absent"
        BY <1>1, <1>6, <2>2, <4>4 DEF RemainOK
      <4> QED BY <4>1, <4>2, <4>3, <4>4, Zenon DEF RemainOK, Listed
    <3>2. JobOK(n)'
      BY <1>1, <1>3, <1>6, Zenon DEF JobOK, fetched
    <3> QED BY <3>1, <3>2, Zenon
  <2> QED BY <1>2, <1>4, <2>3, <2>4, Zenon DEF IInv, NameInv
<1>7. CASE proc' = [proc EXCEPT ![p] = "dead"] /\ UNCHANGED world
  <2>1. TypeOK'
    BY <1>0, <1>1, <1>7, Zenon DEF TypeOK, world, fetched, stream
  <2>2. ASSUME NEW n \in Names
        PROVE  RemainOK(n)' /\ JobOK(n)'
    <3>1. RemainOK(n)'
      BY <1>0, <1>1, <1>3, <1>7, Known DEF RemainOK, Listed, world
    <3>2. JobOK(n)'
      BY <1>1, <1>3, <1>7, Known, Zenon DEF JobOK, fetched, world
    <3> QED BY <3>1, <3>2, Zenon
  <2> QED BY <1>2, <1>4, <2>1, <2>2, Zenon DEF IInv, NameInv
<1> QED BY <1>5, <1>6, <1>7, Zenon DEF Reap

\* Every step keeps the invariant.
LEMMA StepIInv ==
  ASSUME IInv, [Next]_vars
  PROVE  IInv'
<1>1. ASSUME NEW p \in Procs, StartProc(p) \/ Kill(p) \/ Reap(p)
      PROVE  IInv'
  BY <1>1, StartProcIInv, KillIInv, ReapIInv, Zenon
<1>2. ASSUME NEW n \in Names, StartRun(n) \/ EndCtx(n) \/ Exits(n) \/ Run(n) \/ DemuxEnds(n)
      PROVE  IInv'
  <2>1. CASE Run(n)
    BY <2>1, EnsureImageIInv, CallIInv, FetchIInv, AwaitIInv, CollectIInv, UnwindIInv, Zenon DEF Run
  <2> QED BY <1>2, <2>1, StartRunIInv, EndCtxIInv, ExitsIInv, DemuxEndsIInv, Zenon
<1>3. CASE UNCHANGED vars
  <2>1. TypeOK' /\ ProcInv'
    BY <1>3, Zenon DEF IInv, TypeOK, ProcInv, Alive, vars, world, fetched, stream
  <2>2. ASSUME NEW n \in Names
        PROVE  DeferOK(n)' /\ RemainOK(n)' /\ StreamOK(n)' /\ JobOK(n)' /\ ClaimOK(n)'
    <3>1. DeferOK(n)' /\ StreamOK(n)' /\ ClaimOK(n)'
      BY <1>3, Known, Zenon DEF DeferOK, StreamOK, ClaimOK, vars, stream
    <3>2. RemainOK(n)'
      BY <1>3, Known, Zenon DEF RemainOK, InProgress, Listed, vars, world
    <3>3. JobOK(n)'
      BY <1>3, Known, Zenon DEF JobOK, InProgress, vars, world, fetched
    <3> QED BY <3>1, <3>2, <3>3, Zenon
  <2> QED BY <2>1, <2>2, Zenon DEF IInv, NameInv
<1> QED BY <1>1, <1>2, <1>3, Zenon DEF Next

\* No runner, no container, no volume.
LEMMA InitIInv ==
  ASSUME Init
  PROVE  IInv
<1>1. TypeOK
  <2>1. defers \in [Names -> Seq({"volume", "container", "attach"})] /\ spool \in [Names -> Seq(Nat)]
    BY DEF Init
  <2>2. /\ at \in [Names -> {"none", "unwind", "returned"} \cup {Setup[i] : i \in 1..9}]
        /\ proc \in [Procs -> {"new", "reap1", "reap2", "on", "dead"}]
        /\ res \in [Names -> [err : {"nil", "error", "ctx"}, exit : {"none", "zero", "nonzero", "killed"}]]
    BY Zenon DEF Init
  <2> QED BY <2>1, <2>2, Zenon DEF Init, TypeOK
<1>2. ASSUME NEW n \in Names
      PROVE  DeferOK(n) /\ RemainOK(n) /\ StreamOK(n) /\ JobOK(n) /\ ClaimOK(n)
  BY Zenon DEF Init, DeferOK, RemainOK, StreamOK, JobOK, ClaimOK, InProgress
<1>3. ProcInv
  BY Zenon DEF Init, ProcInv, Alive
<1> QED BY <1>1, <1>2, <1>3, Zenon DEF IInv, NameInv

\* The inductive invariant holds in every state: what Run has deferred is what it
\* has done, what exists of an attempt is still to be undone, and a started
\* container found the bundle in it.
THEOREM Invariance == Spec => []IInv
BY InitIInv, StepIInv, PTL DEF Spec

\* Whatever calls fail, whenever processes die and reap: after Run nothing of the
\* attempt is left but what was kept, what the daemon refused to remove or created
\* behind an error, and what a dead process left for the next reaper.
THEOREM RemainsAlwaysExplained == Spec => []RemainsExplained
<1>1. IInv => RemainsExplained
  <2> SUFFICES ASSUME IInv, NEW n \in Names
               PROVE  /\ box[n] # "absent" \/ vol[n] => InProgress(n) \/ n \in orphaned \cup faulty \/ overlap
                      /\ at[n] = "returned" => demux[n] # "on"
    BY Zenon DEF RemainsExplained
  <2>1. box[n] # "absent" \/ vol[n] => InProgress(n) \/ n \in orphaned \cup faulty \/ overlap
    BY Known, Zenon DEF RemainOK
  <2>2. at[n] = "returned" => demux[n] # "on"
    BY Known, Distinct, Zenon DEF DeferOK, StreamOK
  <2> QED BY <2>1, <2>2, Zenon
<1> QED BY <1>1, Invariance, PTL

\* For any number of runners on one daemon: the result that Run (and with it the
\* verdict of the attempt) reports is the exit of the job, never of a container that
\* a reaper or a kill ended, as long as no two live processes have one name.
THEOREM ResultIsAlwaysTheJobs == Spec => []ResultIsTheJobs
<1>1. IInv => ResultIsTheJobs
  BY Known, Zenon DEF ResultIsTheJobs, JobOK
<1> QED BY <1>1, Invariance, PTL

\* For a bundle of any size and any number of broken downloads: a started container
\* holds the whole bundle (injectSource starts over), or the server's store had
\* failed in the middle of it; and its output is attached before it runs.
THEOREM AlwaysRanWhole == Spec => []RanWhole
<1>1. IInv => RanWhole
  <2> SUFFICES ASSUME IInv, NEW n \in Names
               PROVE  /\ box[n] = "running" /\ InProgress(n) => attached[n] \/ at[n] = "unwind"
                      /\ box[n] \in {"running", "zero", "nonzero"} => spool[n] = Bundle \/ n \in broken
    BY Zenon DEF RanWhole
  <2> QED BY Known, Types, Zenon DEF JobOK, StreamOK, InProgress
<1> QED BY <1>1, Invariance, PTL
=============================================================================

-------------------------- MODULE ObjectStoreProofs --------------------------
(***************************************************************************)
(* Both artifact stores implement BlobStore, and their temp files are      *)
(* accounted for: for any keys, clients, object size and number of tries.  *)
(***************************************************************************)
EXTENDS ObjectStore, TLAPS

\* The promise's state, as this module's state.
Objects == [k \in Keys |-> Object(k)]
OpenCalls == [c \in Clients |-> Promised(op[c])]
promiseVars == <<backend = "remote", Objects, OpenCalls, out, net>>

\* What the constants are known not to be.
LEMMA Constants ==
  /\ Size \in Nat /\ Size > 0 /\ Attempts \in Nat /\ MaxOps \in Nat
  /\ None \notin Keys /\ None \notin Values /\ None \notin [val : Values, n : {Size}]
  /\ \A k \in Keys : k \notin Values
BY ObjectStoreAssumption

\* The fields of the call that is none.
LEMMA IdleFacts ==
  /\ Idle \in Calls
  /\ Idle.kind = "idle" /\ Idle.at = "idle" /\ Idle.key = None /\ Idle.val = None
  /\ Idle.took = "no" /\ Idle.seen = {} /\ Idle.todo = {} /\ Idle.n = 0 /\ Idle.tries = 0
  /\ Idle.res = "none"
BY Constants DEF Idle, Calls

\* What is known of a client's call.
LEMMA Known ==
  ASSUME IInv, NEW c \in Clients
  PROVE  /\ TypeOK /\ op[c] \in Calls /\ CallOK(op[c], c, backend)
         /\ DOMAIN op = Clients /\ DOMAIN file = Keys
BY Zenon DEF IInv, TypeOK, CallInv

\* The calls that are open put objects of their own.
LEMMA OwnValues ==
  ASSUME IInv, NEW c \in Clients, NEW d \in Clients \ {c}, op[c].val # None
  PROVE  op[c].val # op[d].val
<1>1. CallOK(op[c], c, backend) /\ CallOK(op[d], d, backend)
  BY Known, Zenon
<1>2. PICK i \in 1..MaxOps : op[c].val = <<c, i>>
  BY <1>1 DEF CallOK
<1>3. op[d].val = None \/ \E j \in 1..MaxOps : op[d].val = <<d, j>>
  BY <1>1 DEF CallOK
<1> QED BY <1>2, <1>3

\* What is under a key is the whole object, or nothing.
LEMMA WholeObject ==
  ASSUME IInv, NEW k \in Keys
  PROVE  /\ file[k] = None => Object(k) = None
         /\ file[k] # None => Object(k) = file[k].val /\ Object(k) \in Values /\ Object(k) # None
<1>1. TypeOK /\ WholeInv
  BY Zenon DEF IInv
<1>2. file[k] = None \/ file[k] \in [val : Values, n : 0..Size]
  BY <1>1, Zenon DEF TypeOK
<1> QED BY <1>1, <1>2, Constants, Zenon DEF Object, WholeInv

\* A step of one client: what is left to show is about its call and its temp file.
LEMMA LocalIInv ==
  ASSUME IInv, NEW c \in Clients, TypeOK', UNCHANGED <<backend, crashed>>,
         \A d \in Clients \ {c} : op'[d] = op[d],
         CallOK(op'[c], c, backend), WholeInv',
         temps' \subseteq temps \cup {op[c].val},
         op[c].val \in temps' => op'[c].val = op[c].val,
         backend = "local" /\ op'[c].at = "end" /\ op'[c].res = "ok" => op'[c].val \notin temps'
  PROVE  IInv'
<1>1. CallInv'
  BY Zenon DEF IInv, CallInv
<1>2. RenameInv'
  <2> SUFFICES ASSUME NEW d \in Clients, backend = "local", op'[d].at = "end", op'[d].res = "ok",
                      d # c, op[d].val \in temps'
               PROVE  FALSE
    BY Zenon DEF RenameInv
  <2>1. op[d].val \notin temps
    BY Zenon DEF IInv, RenameInv
  <2>2. op[d].val = op[c].val
    BY <2>1, Zenon
  <2>3. op[d].val # None
    BY Constants, Zenon DEF TypeOK
  <2> QED BY <2>2, <2>3, OwnValues, Zenon
<1>3. TempsExplained'
  <2> SUFFICES ASSUME NEW t \in temps', t \notin crashed
               PROVE  \E d \in Clients : t = op'[d].val
    BY Zenon DEF TempsExplained
  <2>1. PICK d \in Clients : t = op[d].val
    BY Zenon DEF IInv, TempsExplained
  <2> QED BY <2>1, Zenon
<1> QED BY <1>1, <1>2, <1>3, Zenon DEF IInv
-----------------------------------------------------------------------------
(***************************************************************************)
(* Steps of the promise, by what they do to the state of this module.      *)
(***************************************************************************)
Same == UNCHANGED <<backend, out, net>>
SameObjects == \A k \in Keys : Object(k)' = Object(k)
SameCalls == \A d \in Clients : Promised(op'[d]) = Promised(op[d])
OtherCalls(c) == \A d \in Clients \ {c} : Promised(op'[d]) = Promised(op[d])

\* A step that no caller could notice is none of the promise.
LEMMA Stutters ==
  ASSUME Same, SameObjects, SameCalls
  PROVE  UNCHANGED promiseVars
BY Zenon DEF Same, SameObjects, SameCalls, promiseVars, Objects, OpenCalls

\* A put or a delete takes effect.
LEMMA Writes ==
  ASSUME NEW c \in Clients, NEW k \in Keys, Same, OtherCalls(c), op[c].key = k,
         op[c].kind \in {"put", "delete"}, backend = "remote" \/ op[c].took = "no",
         Object(k)' = op[c].val, \A j \in Keys \ {k} : Object(j)' = Object(j),
         Promised(op'[c]) = [Promised(op[c]) EXCEPT !.took =
           IF op[c].took = "yes" \/ op[c].kind = "put" THEN "yes"
           ELSE IF Object(k) = None THEN "absent" ELSE "yes"]
  PROVE  Promise!Write(c)
<1>1. OpenCalls[c] = Promised(op[c])
  BY Zenon DEF OpenCalls
<1>2. /\ OpenCalls[c].kind = op[c].kind /\ OpenCalls[c].key = k
      /\ OpenCalls[c].val = op[c].val /\ OpenCalls[c].took = op[c].took
  BY <1>1 DEF Promised
<1>3. Objects' = [Objects EXCEPT ![k] = op[c].val]
  BY Zenon DEF Objects
<1>4. OpenCalls' = [OpenCalls EXCEPT ![c].took =
        IF op[c].took = "yes" \/ op[c].kind = "put" THEN "yes"
        ELSE IF Objects[k] = None THEN "absent" ELSE "yes"]
  BY Zenon DEF OpenCalls, Objects, OtherCalls
<1>5. Promise!Found(k) = IF Objects[k] = None THEN "absent" ELSE "yes"
  BY Zenon DEF Promise!Found, Objects
<1> QED BY <1>2, <1>3, <1>4, <1>5, Zenon DEF Promise!Write, Same, Objects, OpenCalls

\* A call p that has read its object.
Got(p, t, s) == [p EXCEPT !.took = t, !.seen = s]

\* A get looks at its object.
LEMMA Gets ==
  ASSUME NEW c \in Clients, NEW k \in Keys, Same, SameObjects, OtherCalls(c), op[c].key = k,
         op[c].kind = "get",
         Promised(op'[c]) = Got(Promised(op[c]), IF Object(k) = None THEN "absent" ELSE "yes",
                                {Object(k)} \ {None})
  PROVE  Promise!Read(c)
<1>1. OpenCalls[c] = Promised(op[c])
  BY Zenon DEF OpenCalls
<1>2. OpenCalls[c].kind = "get" /\ OpenCalls[c].key = k
  BY <1>1 DEF Promised
<1>3. Objects' = Objects
  BY Zenon DEF Objects, SameObjects
<1>4. OpenCalls' = [OpenCalls EXCEPT ![c].took = IF Objects[k] = None THEN "absent" ELSE "yes",
                                     ![c].seen = {Objects[k]} \ {None}]
  BY Zenon DEF OpenCalls, Objects, OtherCalls, Got
<1>5. Promise!Found(k) = IF Objects[k] = None THEN "absent" ELSE "yes"
  BY Zenon DEF Promise!Found, Objects
<1> QED BY <1>2, <1>3, <1>4, <1>5 DEF Promise!Read, Same, Objects, OpenCalls

\* A listing p that has come by one more key.
Shown(p, todo, seen) == [p EXCEPT !.todo = todo, !.seen = seen, !.took = "yes"]

\* A list looks at one more object.
LEMMA Lists ==
  ASSUME NEW c \in Clients, NEW k \in Keys, Same, SameObjects, OtherCalls(c),
         op[c].kind = "list", k \in op[c].todo,
         Promised(op'[c]) = Shown(Promised(op[c]), op[c].todo \ {k},
                                  op[c].seen \cup {x \in {k} : Object(k) # None})
  PROVE  Promise!Read(c)
<1>1. OpenCalls[c] = Promised(op[c])
  BY Zenon DEF OpenCalls
<1>2. OpenCalls[c].kind = "list" /\ OpenCalls[c].todo = op[c].todo /\ OpenCalls[c].seen = op[c].seen
  BY <1>1 DEF Promised
<1>3. Objects' = Objects
  BY Zenon DEF Objects, SameObjects
<1>4. OpenCalls' = [OpenCalls EXCEPT ![c].todo = @ \ {k},
                                     ![c].seen = @ \cup {x \in {k} : Objects[k] # None},
                                     ![c].took = "yes"]
  <2> DEFINE T == op[c].todo \ {k}
             S == op[c].seen \cup {x \in {k} : Object(k) # None}
  <2>1. /\ OpenCalls[c].todo \ {k} = T
        /\ OpenCalls[c].seen \cup {x \in {k} : Objects[k] # None} = S
    BY <1>2, Zenon DEF Objects
  <2>2. Promised(op'[c]) = [Promised(op[c]) EXCEPT !.todo = T, !.seen = S, !.took = "yes"]
    BY Zenon DEF Shown
  <2> HIDE DEF T, S
  <2>3. OpenCalls' = [OpenCalls EXCEPT ![c].todo = T, ![c].seen = S, ![c].took = "yes"]
    BY <2>2, Zenon DEF OpenCalls, OtherCalls
  <2> QED BY <2>1, <2>3, Zenon
<1>5. \E j \in OpenCalls[c].todo :
        OpenCalls' = [OpenCalls EXCEPT ![c].todo = @ \ {j},
                                       ![c].seen = @ \cup {x \in {j} : Objects[j] # None},
                                       ![c].took = "yes"]
  BY <1>2, <1>4, Zenon
<1>6. UNCHANGED <<backend = "remote", Objects, out, net>>
  BY <1>3, Zenon DEF Same
<1> QED BY <1>2, <1>5, <1>6, Zenon DEF Promise!Read, Objects, OpenCalls

\* A call ends with a result it may have.
LEMMA Ends ==
  ASSUME NEW c \in Clients, UNCHANGED <<backend, net>>, SameObjects, OtherCalls(c),
         Promised(op[c]) # Promise!Idle, Promised(op'[c]) = Promise!Idle,
         NEW r \in {"ok", "notfound", "error"},
         r = "ok" => op[c].took # "no" /\ op[c].todo = {} /\ (op[c].kind = "get" => op[c].took = "yes"),
         r = "notfound" => op[c].took = "absent" /\ op[c].kind \in {"get", "delete"},
         out' = [out EXCEPT ![c] = [call |-> Promised(op[c]), res |-> r]]
  PROVE  Promise!End(c)
<1>1. OpenCalls[c] = Promised(op[c])
  BY Zenon DEF OpenCalls
<1>2. OpenCalls[c].kind = op[c].kind /\ OpenCalls[c].took = op[c].took /\ OpenCalls[c].todo = op[c].todo
  BY <1>1 DEF Promised
<1>3. Objects' = Objects /\ OpenCalls' = [OpenCalls EXCEPT ![c] = Promise!Idle]
  BY Zenon DEF Objects, SameObjects, OpenCalls, OtherCalls
<1>4. \E res \in {"ok", "notfound", "error"} :
        /\ res = "ok" => OpenCalls[c].took # "no" /\ OpenCalls[c].todo = {} /\ (OpenCalls[c].kind = "get" => OpenCalls[c].took = "yes")
        /\ res = "notfound" => OpenCalls[c].took = "absent" /\ OpenCalls[c].kind \in {"get", "delete"}
        /\ out' = [out EXCEPT ![c] = [call |-> OpenCalls[c], res |-> res]]
  BY <1>1, <1>2, Zenon
<1>5. OpenCalls[c] # Promise!Idle
  BY <1>1, Zenon
<1>6. UNCHANGED <<backend = "remote", Objects, net>>
  BY <1>3, Zenon
<1> QED BY <1>3, <1>4, <1>5, <1>6, Zenon DEF Promise!End, Objects, OpenCalls

\* A request is left on the way, to arrive later or never.
LEMMA Escapes ==
  ASSUME NEW c \in Clients, UNCHANGED <<backend, out>>, SameObjects, SameCalls,
         backend = "remote", op[c].kind \in {"put", "delete"},
         net' = net \cup {[key |-> op[c].key, val |-> op[c].val]}
  PROVE  Promise!Escape(c)
<1>1. OpenCalls[c] = Promised(op[c])
  BY Zenon DEF OpenCalls
<1>2. OpenCalls[c].kind = op[c].kind /\ OpenCalls[c].key = op[c].key /\ OpenCalls[c].val = op[c].val
  BY <1>1 DEF Promised
<1>3. UNCHANGED <<backend = "remote", Objects, OpenCalls, out>>
  BY Zenon DEF Objects, SameObjects, OpenCalls, SameCalls
<1> QED BY <1>2, <1>3, Zenon DEF Promise!Escape, Objects, OpenCalls

\* A client begins a call.
LEMMA Begins ==
  ASSUME NEW c \in Clients, UNCHANGED <<backend, net>>, SameObjects, OtherCalls(c),
         Promised(op[c]) = Promise!Idle,
         NEW kind \in {"put", "get", "delete", "list"}, NEW k \in Keys, NEW v \in Values,
         Promised(op'[c]) = Promise!Call(kind, k, v),
         out' = [out EXCEPT ![c] = None]
  PROVE  Promise!Begin(c)
<1>1. OpenCalls[c] = Promise!Idle
  BY Zenon DEF OpenCalls
<1>2. UNCHANGED <<backend = "remote", Objects, net>>
  BY Zenon DEF Objects, SameObjects
<1>3. OpenCalls' = [OpenCalls EXCEPT ![c] = Promise!Call(kind, k, v)]
  BY Zenon DEF OpenCalls, OtherCalls
<1>4. \E kd \in {"put", "get", "delete", "list"}, j \in Keys, w \in Values :
        OpenCalls' = [OpenCalls EXCEPT ![c] = Promise!Call(kd, j, w)]
  BY <1>3, Zenon
<1> QED BY <1>1, <1>2, <1>4, Zenon DEF Promise!Begin, Objects, OpenCalls
-----------------------------------------------------------------------------
(***************************************************************************)
(* The steps of a client.                                                  *)
(***************************************************************************)
\* What a step of this module is to the promise.
Keeps == Promise!BlobNext \/ UNCHANGED promiseVars

\* Fields the promise does not see make no difference.
LEMMA SamePromise ==
  ASSUME NEW x, NEW y, y.kind = x.kind, y.key = x.key, y.val = x.val, y.took = x.took,
         y.seen = x.seen, y.todo = x.todo
  PROVE  Promised(y) = Promised(x)
BY Zenon DEF Promised

\* A call that has taken effect.
LEMMA TookPromise ==
  ASSUME NEW x, NEW y, NEW t, y.kind = x.kind, y.key = x.key, y.val = x.val, y.took = t,
         y.seen = x.seen, y.todo = x.todo
  PROVE  Promised(y) = [Promised(x) EXCEPT !.took = t]
BY DEF Promised

\* An open call is open in the promise too.
LEMMA NotIdle ==
  ASSUME NEW x \in Calls, x.kind # "idle"
  PROVE  Promised(x) # Promise!Idle
<1>1. Promised(x).kind = x.kind /\ Promise!Idle.kind = "idle"
  BY Zenon DEF Promised, Promise!Idle
<1> QED BY <1>1, Zenon

\* The call is over, but for its deferred part.
LEMMA EndedMoves ==
  ASSUME IInv, NEW c \in Clients, NEW r \in {"ok", "notfound", "error"}, Ended(c, r)
  PROVE  /\ op' \in [Clients -> Calls]
         /\ \A d \in Clients \ {c} : op'[d] = op[d]
         /\ op'[c].at = "end" /\ op'[c].res = r /\ op'[c].kind = op[c].kind
         /\ op'[c].key = op[c].key /\ op'[c].val = op[c].val /\ op'[c].took = op[c].took
         /\ op'[c].todo = op[c].todo
         /\ SameCalls
<1>1. op \in [Clients -> Calls] /\ op[c] \in Calls
  BY Known, Zenon DEF TypeOK
<1>2. op' = [op EXCEPT ![c] = [op[c] EXCEPT !.at = "end", !.res = r]]
  BY <1>1, Zenon DEF Ended
<1>3. [op[c] EXCEPT !.at = "end", !.res = r] \in Calls
  BY <1>1, ZenonT(40) DEF Calls
<1>4. op'[c] = [op[c] EXCEPT !.at = "end", !.res = r] /\ \A d \in Clients \ {c} : op'[d] = op[d]
  BY <1>1, <1>2, Zenon
<1>5. /\ op'[c].at = "end" /\ op'[c].res = r /\ op'[c].kind = op[c].kind
      /\ op'[c].key = op[c].key /\ op'[c].val = op[c].val /\ op'[c].took = op[c].took
      /\ op'[c].todo = op[c].todo /\ op'[c].seen = op[c].seen
  BY <1>1, <1>4, Zenon DEF Calls
<1>6. SameCalls
  <2>1. Promised(op'[c]) = Promised(op[c])
    BY <1>5, SamePromise, Zenon
  <2> QED BY <1>4, <2>1, Zenon DEF SameCalls
<1>7. op' \in [Clients -> Calls]
  BY <1>1, <1>2, <1>3, Zenon
<1> QED BY <1>4, <1>5, <1>6, <1>7, Zenon

\* A step that leaves the files and writes no temp file.
LEMMA Quiet ==
  ASSUME IInv, UNCHANGED file
  PROVE  SameObjects /\ WholeInv'
<1>1. WholeInv'
  BY Zenon DEF IInv, WholeInv
<1>2. SameObjects
  BY Zenon DEF SameObjects, Object
<1> QED BY <1>1, <1>2, Zenon

\* A call that ends in an error keeps its temp file for Return to remove.
LEMMA Fails ==
  ASSUME IInv, NEW c \in Clients, op[c] # Idle, Ended(c, "error"),
         UNCHANGED <<backend, file, temps, out, net, ops, crashed>>
  PROVE  IInv' /\ Keeps
<1>1. TypeOK'
  BY Known, EndedMoves, Zenon DEF TypeOK
<1>2. CallOK(op'[c], c, backend)
  <2>1. CallOK(op[c], c, backend) /\ op[c] \in Calls
    BY Known, Zenon
  <2>2. op'[c] # Idle
    BY EndedMoves, IdleFacts, Zenon
  <2>3. op[c].kind # "idle" /\ op[c].key \in Keys
    BY <2>1, Zenon DEF CallOK
  <2> QED BY <2>1, <2>2, <2>3, EndedMoves, Zenon DEF CallOK
<1>3. IInv'
  <2>1. temps' \subseteq temps \cup {op[c].val}
    BY Zenon
  <2>2. op'[c].val = op[c].val /\ op'[c].res = "error" /\ \A d \in Clients \ {c} : op'[d] = op[d]
    BY EndedMoves, Zenon
  <2>3. WholeInv'
    BY Quiet, Zenon
  <2> QED BY <1>1, <1>2, <2>1, <2>2, <2>3, LocalIInv, Zenon
<1>4. Keeps
  <2>1. Same /\ SameObjects /\ SameCalls
    BY Quiet, EndedMoves, Zenon DEF Same
  <2> QED BY <2>1, Stutters, Zenon DEF Keeps
<1> QED BY <1>3, <1>4, Zenon

\* A call that is somewhere has a kind and a key.
LEMMA IdleCall ==
  ASSUME NEW c \in Clients, IInv, op[c].at # "idle"
  PROVE  op[c] # Idle /\ op[c].kind # "idle" /\ op[c].key \in Keys
BY Known, Zenon DEF CallOK

\* Put creates its temporary file, or fails to.
LEMMA createTempStep ==
  ASSUME IInv, NEW c \in Clients, createTemp(c)
  PROVE  IInv' /\ Keeps
<1>1. CASE Ended(c, "error") /\ UNCHANGED temps
  <2>1. op[c].at = "temp" /\ op[c] # Idle
    BY IdleCall, Zenon DEF createTemp
  <2> QED BY <1>1, <2>1, Fails, Zenon DEF createTemp
<1>2. CASE temps' = temps \cup {op[c].val} /\ op' = [op EXCEPT ![c].at = "copy"]
  <2>1. op[c] \in Calls /\ CallOK(op[c], c, backend) /\ op \in [Clients -> Calls] /\ op[c].at = "temp"
    BY Known, Zenon DEF createTemp, TypeOK
  <2>2. op[c] # Idle /\ op[c].kind = "put" /\ op[c].took = "no" /\ op[c].key \in Keys /\ op[c].val \in Values
    BY <2>1, IdleCall, Zenon DEF CallOK, Calls
  <2>3. op' = [op EXCEPT ![c] = [op[c] EXCEPT !.at = "copy"]]
    BY <1>2, <2>1, Zenon
  <2>4. [op[c] EXCEPT !.at = "copy"] \in Calls
    BY <2>1, Zenon DEF Calls
  <2>5. op' \in [Clients -> Calls] /\ op'[c] = [op[c] EXCEPT !.at = "copy"] /\ \A d \in Clients \ {c} : op'[d] = op[d]
    BY <2>1, <2>3, <2>4, Zenon
  <2>6. /\ op'[c].at = "copy" /\ op'[c].res = op[c].res /\ op'[c].kind = op[c].kind
        /\ op'[c].key = op[c].key /\ op'[c].val = op[c].val /\ op'[c].took = op[c].took
        /\ op'[c].todo = op[c].todo /\ op'[c].seen = op[c].seen
    BY <2>1, <2>5, Zenon DEF Calls
  <2>7. op'[c] # Idle
    BY <2>6, IdleFacts, Zenon
  <2>8. CallOK(op'[c], c, backend)
    BY <2>1, <2>2, <2>6, <2>7, Zenon DEF CallOK
  <2>9. TypeOK'
    BY <1>2, <2>2, <2>5, Known, Zenon DEF TypeOK, createTemp
  <2>10. WholeInv' /\ SameObjects /\ UNCHANGED <<backend, out, net, crashed>>
    BY Quiet, Zenon DEF createTemp
  <2>11. IInv'
    BY <1>2, <2>5, <2>6, <2>8, <2>9, <2>10, LocalIInv, Zenon
  <2>12. SameCalls
    <3>1. Promised(op'[c]) = Promised(op[c])
      BY <2>6, SamePromise, Zenon
    <3> QED BY <2>5, <3>1, Zenon DEF SameCalls
  <2> QED BY <2>10, <2>11, <2>12, Stutters, Zenon DEF Keeps, Same
<1> QED BY <1>1, <1>2, Zenon DEF createTemp

\* A step of a client after its temp file is there: y is its call after the step.
LEMMA Moves ==
  ASSUME IInv, NEW c \in Clients, NEW y \in Calls, op' = [op EXCEPT ![c] = y],
         CallOK(y, c, backend), y.val = op[c].val,
         file' \in [Keys -> [val : Values, n : 0..Size] \cup {None}], WholeInv',
         net' \subseteq Requests, temps' \subseteq temps,
         backend = "local" /\ y.at = "end" /\ y.res = "ok" => y.val \notin temps',
         UNCHANGED <<backend, out, ops, crashed>>
  PROVE  IInv' /\ OtherCalls(c) /\ op'[c] = y
<1>1. op \in [Clients -> Calls]
  BY Known, Zenon DEF TypeOK
<1>2. op' \in [Clients -> Calls] /\ op'[c] = y /\ \A d \in Clients \ {c} : op'[d] = op[d]
  BY <1>1, Zenon
<1>3. TypeOK'
  BY <1>2, Known, Zenon DEF TypeOK
<1>4. temps' \subseteq temps \cup {op[c].val} /\ (op[c].val \in temps' => op'[c].val = op[c].val)
  BY <1>2, Zenon
<1>5. IInv'
  BY <1>2, <1>3, <1>4, LocalIInv, Zenon
<1>6. OtherCalls(c)
  BY <1>2, Zenon DEF OtherCalls
<1> QED BY <1>2, <1>5, <1>6, Zenon

\* The same, when the step leaves the files, the temp files and the network.
LEMMA MovesQuietly ==
  ASSUME IInv, NEW c \in Clients, NEW y \in Calls, op' = [op EXCEPT ![c] = y],
         CallOK(y, c, backend), y.val = op[c].val,
         backend = "local" /\ y.at = "end" /\ y.res = "ok" => y.val \notin temps,
         UNCHANGED <<backend, file, temps, out, net, ops, crashed>>
  PROVE  IInv' /\ OtherCalls(c) /\ op'[c] = y /\ SameObjects /\ Same
<1>1. file' \in [Keys -> [val : Values, n : 0..Size] \cup {None}] /\ net' \subseteq Requests /\ temps' \subseteq temps
  BY Known, Zenon DEF TypeOK
<1>2. WholeInv' /\ SameObjects
  BY Quiet, Zenon
<1>3. IInv' /\ OtherCalls(c) /\ op'[c] = y
  BY <1>1, <1>2, Moves, Zenon
<1> QED BY <1>2, <1>3, Zenon DEF Same

\* A call that is no Put has no temp file.
LEMMA NoTemp ==
  ASSUME IInv, NEW c \in Clients, op[c].kind # "put"
  PROVE  op[c].val \notin temps
<1>1. op[c].val = None
  BY Known, Zenon DEF CallOK
<1> QED BY <1>1, Known, Constants, Zenon DEF TypeOK

\* A piece of the content is copied, or the copy fails.
LEMMA copyStep ==
  ASSUME IInv, NEW c \in Clients, copy(c)
  PROVE  IInv' /\ Keeps
<1>1. op[c] \in Calls /\ CallOK(op[c], c, backend) /\ op \in [Clients -> Calls] /\ op[c].at = "copy"
  BY Known, Zenon DEF copy, TypeOK
<1>2. op[c] # Idle /\ op[c].kind = "put" /\ op[c].took = "no" /\ op[c].key \in Keys
  BY <1>1, IdleCall, Zenon DEF CallOK
<1>3. UNCHANGED <<backend, file, temps, out, net, ops, crashed>>
  BY Zenon DEF copy
<1>4. CASE Ended(c, "error")
  BY <1>2, <1>3, <1>4, Fails, Zenon
<1>5. ASSUME NEW n \in 0..Size + 1, Fits(n),
             op' = [op EXCEPT ![c].n = n, ![c].at = IF backend = "local" THEN "rename" ELSE "put"]
      PROVE  IInv' /\ Keeps
  <2>1. PICK a \in {"rename", "put"} : a = IF backend = "local" THEN "rename" ELSE "put"
    BY Zenon
  <2>2. n = Size /\ n \in 0..Size
    BY <1>5, Constants DEF Fits
  <2> DEFINE y == [op[c] EXCEPT !.n = n, !.at = a]
  <2>3. op' = [op EXCEPT ![c] = y]
    BY <1>1, <1>5, <2>1, Zenon
  <2>4. y \in Calls
    BY <1>1, <2>2, Zenon DEF Calls
  <2>5. /\ y.at = a /\ y.n = Size /\ y.res = op[c].res /\ y.kind = "put" /\ y.key = op[c].key /\ y.val = op[c].val
        /\ y.took = "no" /\ y.todo = op[c].todo /\ y.seen = op[c].seen
    BY <1>1, <1>2, <2>2, Zenon DEF Calls
  <2>6. y # Idle
    BY <2>5, IdleFacts, Zenon
  <2> HIDE DEF y
  <2>7. CallOK(y, c, backend)
    <3>1. backend \in {"local", "remote"}
      BY Known, Zenon DEF TypeOK
    <3> QED BY <1>1, <1>2, <2>1, <2>5, <2>6, <3>1, Zenon DEF CallOK
  <2>8. IInv' /\ OtherCalls(c) /\ op'[c] = y /\ SameObjects /\ Same
    BY <1>3, <2>3, <2>4, <2>5, <2>7, <2>1, MovesQuietly, Zenon
  <2>9. Promised(y) = Promised(op[c])
    BY <1>2, <2>5, SamePromise, Zenon
  <2>10. SameCalls
    BY <2>8, <2>9, Zenon DEF SameCalls, OtherCalls
  <2> QED BY <2>8, <2>10, Stutters, Zenon DEF Keeps
<1> QED BY <1>4, <1>5, Zenon DEF copy

\* What is put under a key is whole, and nothing else changes.
LEMMA PutsObject ==
  ASSUME IInv, NEW k \in Keys, NEW v \in Values,
         file' = [file EXCEPT ![k] = [val |-> v, n |-> Size]]
  PROVE  /\ file' \in [Keys -> [val : Values, n : 0..Size] \cup {None}]
         /\ WholeInv' /\ Object(k)' = v /\ \A j \in Keys \ {k} : Object(j)' = Object(j)
<1> DEFINE f == [val |-> v, n |-> Size]
<1>1. f \in [val : Values, n : 0..Size] /\ f \in [val : Values, n : {Size}] /\ f.n = Size /\ f.val = v
  BY Constants
<1>2. f # None
  BY <1>1, Constants, Zenon
<1>3. file' = [file EXCEPT ![k] = f] /\ file \in [Keys -> [val : Values, n : 0..Size] \cup {None}]
  BY Known, Zenon DEF TypeOK, IInv
<1> HIDE DEF f
<1>4. file' \in [Keys -> [val : Values, n : 0..Size] \cup {None}] /\ file'[k] = f /\ \A j \in Keys \ {k} : file'[j] = file[j]
  BY <1>1, <1>3, Zenon
<1>5. WholeInv'
  BY <1>1, <1>4, Zenon DEF IInv, WholeInv
<1> QED BY <1>1, <1>2, <1>4, <1>5, Zenon DEF Object

\* An object is gone and the others stand.
LEMMA RemovesObject ==
  ASSUME IInv, NEW k \in Keys, file' = [file EXCEPT ![k] = None]
  PROVE  /\ file' \in [Keys -> [val : Values, n : 0..Size] \cup {None}]
         /\ WholeInv' /\ Object(k)' = None /\ \A j \in Keys \ {k} : Object(j)' = Object(j)
<1>1. file \in [Keys -> [val : Values, n : 0..Size] \cup {None}]
  BY Zenon DEF TypeOK, IInv
<1>2. file' \in [Keys -> [val : Values, n : 0..Size] \cup {None}] /\ file'[k] = None /\ \A j \in Keys \ {k} : file'[j] = file[j]
  BY <1>1, Zenon
<1>3. WholeInv'
  BY <1>2, Zenon DEF IInv, WholeInv
<1> QED BY <1>2, <1>3, Zenon DEF Object

\* The temporary file takes the place of the object: the moment a local put takes effect.
LEMMA renameStep ==
  ASSUME IInv, NEW c \in Clients, rename(c)
  PROVE  IInv' /\ Keeps
<1>1. op[c] \in Calls /\ CallOK(op[c], c, backend) /\ op \in [Clients -> Calls] /\ op[c].at = "rename"
  BY Known, Zenon DEF rename, TypeOK
<1>2. /\ op[c] # Idle /\ op[c].kind = "put" /\ op[c].took = "no" /\ op[c].key \in Keys
      /\ op[c].n = Size /\ op[c].val \in Values
  BY <1>1, IdleCall, Zenon DEF CallOK, Calls
<1>3. UNCHANGED <<backend, out, net, ops, crashed>>
  BY Zenon DEF rename
<1>4. CASE Ended(c, "error") /\ UNCHANGED <<file, temps>>
  BY <1>2, <1>3, <1>4, Fails, Zenon
<1>5. CASE /\ file' = [file EXCEPT ![op[c].key] = [val |-> op[c].val, n |-> op[c].n]]
           /\ temps' = temps \ {op[c].val}
           /\ op' = [op EXCEPT ![c].took = "yes", ![c].at = "end", ![c].res = "ok"]
  <2> DEFINE y == [op[c] EXCEPT !.took = "yes", !.at = "end", !.res = "ok"]
  <2>1. op' = [op EXCEPT ![c] = y]
    BY <1>1, <1>5, Zenon
  <2>2. y \in Calls
    BY <1>1, Zenon DEF Calls
  <2>3. /\ y.at = "end" /\ y.res = "ok" /\ y.kind = "put" /\ y.key = op[c].key /\ y.val = op[c].val
        /\ y.took = "yes" /\ y.todo = op[c].todo /\ y.seen = op[c].seen
    BY <1>1, <1>2, Zenon DEF Calls
  <2>4. y # Idle
    BY <2>3, IdleFacts, Zenon
  <2> HIDE DEF y
  <2>5. CallOK(y, c, backend)
    BY <1>1, <1>2, <2>3, <2>4, Zenon DEF CallOK
  <2>6. PICK k \in Keys : k = op[c].key
    BY <1>2, Zenon
  <2>7. PICK v \in Values : v = op[c].val
    BY <1>2, Zenon
  <2>8. file' = [file EXCEPT ![k] = [val |-> v, n |-> Size]]
    BY <1>2, <1>5, <2>6, <2>7, Zenon
  <2>9. /\ file' \in [Keys -> [val : Values, n : 0..Size] \cup {None}]
        /\ WholeInv' /\ Object(k)' = v /\ \A j \in Keys \ {k} : Object(j)' = Object(j)
    BY <2>8, PutsObject, Zenon
  <2>10. net' \subseteq Requests /\ temps' \subseteq temps /\ y.val \notin temps'
    BY <1>3, <1>5, <2>3, Known, Zenon DEF TypeOK
  <2>11. IInv' /\ OtherCalls(c) /\ op'[c] = y
    BY <1>3, <2>1, <2>2, <2>3, <2>5, <2>9, <2>10, Moves, Zenon
  <2>12. Promised(op'[c]) = [Promised(op[c]) EXCEPT !.took = "yes"]
    BY <1>2, <2>3, <2>11, TookPromise
  <2>13. Promise!Write(c)
    BY <1>2, <1>3, <2>6, <2>7, <2>9, <2>11, <2>12, Writes, Zenon DEF Same
  <2> QED BY <2>11, <2>13, Zenon DEF Keeps, Promise!BlobNext
<1> QED BY <1>4, <1>5, Zenon DEF rename

\* The result of a Get: the object of one moment.
LEMMA GetPromise ==
  ASSUME NEW x, NEW y, NEW t, NEW s, y.kind = x.kind, y.key = x.key, y.val = x.val, y.took = t,
         y.seen = s, y.todo = x.todo
  PROVE  Promised(y) = Got(Promised(x), t, s)
<1>1. [Promised(x) EXCEPT !.took = t, !.seen = s] = [[Promised(x) EXCEPT !.took = t] EXCEPT !.seen = s]
  BY Zenon
<1>2. [Promised(x) EXCEPT !.took = t] = [kind |-> x.kind, key |-> x.key, val |-> x.val, took |-> t, seen |-> x.seen, todo |-> x.todo]
  BY DEF Promised
<1>3. [[kind |-> x.kind, key |-> x.key, val |-> x.val, took |-> t, seen |-> x.seen, todo |-> x.todo] EXCEPT !.seen = s]
        = [kind |-> x.kind, key |-> x.key, val |-> x.val, took |-> t, seen |-> s, todo |-> x.todo]
  OBVIOUS
<1> QED BY <1>1, <1>2, <1>3, Zenon DEF Promised, Got

\* What a Get finds.
LEMMA FoundObject ==
  ASSUME IInv, NEW k \in Keys
  PROVE  /\ Found(k) = IF Object(k) = None THEN "absent" ELSE "yes"
         /\ {Object(k)} \ {None} \in SUBSET (Values \cup Keys)
BY WholeObject, Zenon DEF Found

\* Get opens its object, or does not find it.
LEMMA openStep ==
  ASSUME IInv, NEW c \in Clients, open(c)
  PROVE  IInv' /\ Keeps
<1>1. op[c] \in Calls /\ CallOK(op[c], c, backend) /\ op \in [Clients -> Calls] /\ op[c].at = "get"
  BY Known, Zenon DEF open, TypeOK
<1>2. op[c] # Idle /\ op[c].kind = "get" /\ op[c].key \in Keys
  BY <1>1, IdleCall, Zenon DEF CallOK
<1>3. UNCHANGED <<backend, file, temps, out, net, ops, crashed>>
  BY Zenon DEF open
<1>4. CASE Ended(c, "error")
  BY <1>2, <1>3, <1>4, Fails, Zenon
<1>5. CASE op' = [op EXCEPT ![c].took = Found(op[c].key), ![c].seen = {Object(op[c].key)} \ {None},
                         ![c].at = "end", ![c].res = IF file[op[c].key] = None THEN "notfound" ELSE "ok"]
  <2>1. PICK k \in Keys : k = op[c].key
    BY <1>2, Zenon
  <2>2. PICK t \in {"absent", "yes"} : t = Found(k)
    BY Zenon DEF Found
  <2>3. PICK s \in SUBSET (Values \cup Keys) : s = {Object(k)} \ {None}
    BY FoundObject, Zenon
  <2>4. PICK r \in {"notfound", "ok"} : r = IF file[k] = None THEN "notfound" ELSE "ok"
    BY Zenon
  <2>5. r = "ok" <=> t = "yes"
    BY <2>2, <2>4, Zenon DEF Found
  <2> DEFINE y == [op[c] EXCEPT !.took = t, !.seen = s, !.at = "end", !.res = r]
  <2>6. op' = [op EXCEPT ![c] = y]
    BY <1>1, <1>5, <2>1, <2>2, <2>3, <2>4, Zenon
  <2>7. y \in Calls
    BY <1>1, Zenon DEF Calls
  <2>8. /\ y.at = "end" /\ y.res = r /\ y.kind = "get" /\ y.key = op[c].key /\ y.val = op[c].val
        /\ y.took = t /\ y.todo = op[c].todo /\ y.seen = s
    BY <1>1, <1>2, Zenon DEF Calls
  <2>9. y # Idle
    BY <2>8, IdleFacts, Zenon
  <2> HIDE DEF y
  <2>10. CallOK(y, c, backend)
    BY <1>1, <1>2, <2>5, <2>8, <2>9, Zenon DEF CallOK
  <2>11. y.val \notin temps
    BY <1>2, <2>8, NoTemp, Zenon
  <2>12. IInv' /\ OtherCalls(c) /\ op'[c] = y /\ SameObjects /\ Same
    BY <1>3, <2>6, <2>7, <2>8, <2>10, <2>11, MovesQuietly, Zenon
  <2>13. Promised(op'[c]) = Got(Promised(op[c]), t, s)
    <3>1. op'[c] = y /\ y.kind = op[c].kind
      BY <1>2, <2>8, <2>12, Zenon
    <3> QED BY <2>8, <3>1, GetPromise
  <2>14. Promise!Read(c)
    BY <1>2, <2>1, <2>2, <2>3, <2>12, <2>13, FoundObject, Gets, Zenon
  <2> QED BY <2>12, <2>14, Zenon DEF Keeps, Promise!BlobNext
<1> QED BY <1>4, <1>5, Zenon DEF open

\* Delete removes its object, or does not find it.
LEMMA osRemoveStep ==
  ASSUME IInv, NEW c \in Clients, osRemove(c)
  PROVE  IInv' /\ Keeps
<1>1. op[c] \in Calls /\ CallOK(op[c], c, backend) /\ op \in [Clients -> Calls] /\ op[c].at = "remove"
  BY Known, Zenon DEF osRemove, TypeOK
<1>2. op[c] # Idle /\ op[c].kind = "delete" /\ op[c].took = "no" /\ op[c].key \in Keys /\ op[c].val = None
  BY <1>1, IdleCall, Zenon DEF CallOK
<1>3. UNCHANGED <<backend, temps, out, net, ops, crashed>>
  BY Zenon DEF osRemove
<1>4. CASE Ended(c, "error") /\ UNCHANGED file
  BY <1>2, <1>3, <1>4, Fails, Zenon
<1>5. CASE /\ file' = [file EXCEPT ![op[c].key] = None]
           /\ op' = [op EXCEPT ![c].took = Found(op[c].key), ![c].at = "end",
                            ![c].res = IF file[op[c].key] = None THEN "notfound" ELSE "ok"]
  <2>1. PICK k \in Keys : k = op[c].key
    BY <1>2, Zenon
  <2>2. PICK t \in {"absent", "yes"} : t = Found(k)
    BY Zenon DEF Found
  <2>4. PICK r \in {"notfound", "ok"} : r = IF file[k] = None THEN "notfound" ELSE "ok"
    BY Zenon
  <2>5. r = "ok" <=> t = "yes"
    BY <2>2, <2>4, Zenon DEF Found
  <2> DEFINE y == [op[c] EXCEPT !.took = t, !.at = "end", !.res = r]
  <2>6. op' = [op EXCEPT ![c] = y]
    BY <1>1, <1>5, <2>1, <2>2, <2>4, Zenon
  <2>7. y \in Calls
    BY <1>1, Zenon DEF Calls
  <2>8. /\ y.at = "end" /\ y.res = r /\ y.kind = "delete" /\ y.key = op[c].key /\ y.val = op[c].val
        /\ y.took = t /\ y.todo = op[c].todo /\ y.seen = op[c].seen
    BY <1>1, <1>2, Zenon DEF Calls
  <2>9. y # Idle
    BY <2>8, IdleFacts, Zenon
  <2> HIDE DEF y
  <2>10. CallOK(y, c, backend)
    BY <1>1, <1>2, <2>5, <2>8, <2>9, Zenon DEF CallOK
  <2>11. y.val \notin temps' /\ temps' \subseteq temps /\ net' \subseteq Requests
    BY <1>2, <1>3, <2>8, NoTemp, Known, Zenon DEF TypeOK
  <2>12. /\ file' \in [Keys -> [val : Values, n : 0..Size] \cup {None}]
         /\ WholeInv' /\ Object(k)' = None /\ \A j \in Keys \ {k} : Object(j)' = Object(j)
    BY <1>5, <2>1, RemovesObject, Zenon
  <2>13. IInv' /\ OtherCalls(c) /\ op'[c] = y
    BY <1>3, <2>6, <2>7, <2>8, <2>10, <2>11, <2>12, Moves, Zenon
  <2>14. Promised(op'[c]) = [Promised(op[c]) EXCEPT !.took = t]
    BY <1>2, <2>8, <2>13, TookPromise
  <2>15. Promise!Write(c)
    BY <1>2, <1>3, <2>1, <2>2, <2>12, <2>13, <2>14, FoundObject, Writes, Zenon DEF Same
  <2> QED BY <2>13, <2>15, Zenon DEF Keeps, Promise!BlobNext
<1> QED BY <1>4, <1>5, Zenon DEF osRemove

\* A call that has looked at part of a list.
LEMMA ListPromise ==
  ASSUME NEW x, NEW y, NEW t, NEW s, y.kind = x.kind, y.key = x.key, y.val = x.val, y.took = "yes",
         y.seen = s, y.todo = t
  PROVE  Promised(y) = Shown(Promised(x), t, s)
<1> DEFINE A == [kind |-> x.kind, key |-> x.key, val |-> x.val, took |-> x.took, seen |-> x.seen, todo |-> t]
           B == [kind |-> x.kind, key |-> x.key, val |-> x.val, took |-> x.took, seen |-> s, todo |-> t]
           C == [kind |-> x.kind, key |-> x.key, val |-> x.val, took |-> "yes", seen |-> s, todo |-> t]
<1>1. [Promised(x) EXCEPT !.todo = t] = A
  BY DEF Promised
<1>2. [A EXCEPT !.seen = s] = B
  OBVIOUS
<1>3. [B EXCEPT !.took = "yes"] = C
  OBVIOUS
<1>4. Promised(y) = C
  BY Zenon DEF Promised
<1> HIDE DEF A, B, C
<1>5. Shown(Promised(x), t, s) = [[[Promised(x) EXCEPT !.todo = t] EXCEPT !.seen = s] EXCEPT !.took = "yes"]
  BY Zenon DEF Shown
<1> QED BY <1>1, <1>2, <1>3, <1>4, <1>5, Zenon

\* The walk passes a key: its listing shows the key if there is an object, and no
\* temp file.
LEMMA walkShows ==
  ASSUME IInv, NEW k \in Keys, NEW T, T = {} \/ T = temps
  PROVE  Shows({x \in {k} : file[k] # None} \cup T) = {x \in {k} : Object(k) # None}
<1>1. \A x \in T : x \notin Keys
  BY Constants, Zenon DEF IInv, TypeOK
<1>2. file[k] # None <=> Object(k) # None
  BY WholeObject, Zenon
<1> QED BY <1>1, <1>2, Zenon DEF Shows

\* List comes by one more entry.
LEMMA walkStep ==
  ASSUME IInv, NEW c \in Clients, walk(c)
  PROVE  IInv' /\ Keeps
<1>1. op[c] \in Calls /\ CallOK(op[c], c, backend) /\ op \in [Clients -> Calls] /\ op[c].at = "walk"
  BY Known, Zenon DEF walk, TypeOK
<1>2. /\ op[c] # Idle /\ op[c].kind = "list" /\ op[c].key \in Keys
      /\ op[c].todo \in SUBSET Keys /\ op[c].seen \in SUBSET (Values \cup Keys)
  BY <1>1, IdleCall, Zenon DEF CallOK, Calls
<1>3. UNCHANGED <<backend, file, temps, out, net, ops, crashed>>
  BY Zenon DEF walk
<1>4. CASE Ended(c, "error")
  BY <1>2, <1>3, <1>4, Fails, Zenon
<1>5. CASE op[c].todo = {} /\ Ended(c, "ok")
  <2> DEFINE y == [op[c] EXCEPT !.at = "end", !.res = "ok"]
  <2>1. op' = [op EXCEPT ![c] = y]
    BY <1>1, <1>5, Zenon DEF Ended
  <2>2. y \in Calls
    BY <1>1, Zenon DEF Calls
  <2>3. /\ y.at = "end" /\ y.res = "ok" /\ y.kind = "list" /\ y.key = op[c].key /\ y.val = op[c].val
        /\ y.took = op[c].took /\ y.todo = {} /\ y.seen = op[c].seen
    BY <1>1, <1>2, <1>5, Zenon DEF Calls
  <2>4. y # Idle
    BY <2>3, IdleFacts, Zenon
  <2> HIDE DEF y
  <2>5. op[c].took # "no"
    BY <1>1, <1>2, <1>5, Zenon DEF CallOK
  <2>6. CallOK(y, c, backend)
    BY <1>1, <1>2, <2>3, <2>4, <2>5, Zenon DEF CallOK
  <2>7. y.val \notin temps
    BY <1>2, <2>3, NoTemp, Zenon
  <2>8. IInv' /\ OtherCalls(c) /\ op'[c] = y /\ SameObjects /\ Same
    BY <1>3, <2>1, <2>2, <2>3, <2>6, <2>7, MovesQuietly, Zenon
  <2>9. Promised(y) = Promised(op[c])
    BY <1>2, <1>5, <2>3, SamePromise, Zenon
  <2>10. SameCalls
    BY <2>8, <2>9, Zenon DEF SameCalls, OtherCalls
  <2> QED BY <2>8, <2>10, Stutters, Zenon DEF Keeps
<1>6. ASSUME NEW k \in op[c].todo, NEW T, T = IF backend = "local" THEN temps ELSE {},
             op' = [op EXCEPT ![c].todo = @ \ {k},
                              ![c].seen = @ \cup Shows({x \in {k} : file[k] # None} \cup T), ![c].took = "yes"]
      PROVE  IInv' /\ Keeps
  <2>1. k \in Keys
    BY <1>2, Zenon
  <2>2. PICK t \in SUBSET Keys : t = op[c].todo \ {k}
    BY <1>2, Zenon
  <2>3. PICK s \in SUBSET (Values \cup Keys) : s = op[c].seen \cup {x \in {k} : Object(k) # None}
    BY <1>2, <2>1, Zenon
  <2>4. s = op[c].seen \cup Shows({x \in {k} : file[k] # None} \cup T)
    BY <1>6, <2>1, <2>3, walkShows, Zenon
  <2> DEFINE y == [op[c] EXCEPT !.todo = t, !.seen = s, !.took = "yes"]
  <2>5. op' = [op EXCEPT ![c] = y]
    BY <1>1, <1>6, <2>2, <2>4, Zenon
  <2>6. y \in Calls
    BY <1>1, Zenon DEF Calls
  <2>7. /\ y.at = "walk" /\ y.res = op[c].res /\ y.kind = "list" /\ y.key = op[c].key /\ y.val = op[c].val
        /\ y.took = "yes" /\ y.todo = t /\ y.seen = s
    BY <1>1, <1>2, Zenon DEF Calls
  <2>8. y # Idle
    BY <2>7, IdleFacts, Zenon
  <2> HIDE DEF y
  <2>9. CallOK(y, c, backend)
    BY <1>1, <1>2, <2>7, <2>8, Zenon DEF CallOK
  <2>10. IInv' /\ OtherCalls(c) /\ op'[c] = y /\ SameObjects /\ Same
    BY <1>3, <2>5, <2>6, <2>7, <2>9, MovesQuietly, Zenon
  <2>11. Promised(op'[c]) = Shown(Promised(op[c]), t, s)
    <3>1. op'[c] = y /\ y.kind = op[c].kind
      BY <1>2, <2>7, <2>10, Zenon
    <3> QED BY <2>7, <3>1, ListPromise
  <2>12. Promise!Read(c)
    BY <1>2, <2>1, <2>2, <2>3, <2>10, <2>11, Lists, Zenon
  <2> QED BY <2>10, <2>12, Zenon DEF Keeps, Promise!BlobNext
<1> QED BY <1>4, <1>5, <1>6, Zenon DEF walk

\* No call here is no call in the promise.
LEMMA IdlePromise == Promised(Idle) = Promise!Idle
BY IdleFacts, Zenon DEF Promised, Promise!Idle

\* A call returns to its client.
LEMMA ReturnStep ==
  ASSUME IInv, NEW c \in Clients, Return(c)
  PROVE  IInv' /\ Keeps
<1>1. op[c] \in Calls /\ CallOK(op[c], c, backend) /\ op \in [Clients -> Calls] /\ op[c].at = "end"
  BY Known, Zenon DEF Return, TypeOK
<1>2. op[c] # Idle /\ op[c].kind # "idle" /\ op[c].res \in {"none", "ok", "notfound", "error"}
  BY <1>1, IdleCall, Zenon DEF Calls
<1>3. UNCHANGED <<backend, file, net, ops, crashed>> /\ op' = [op EXCEPT ![c] = Idle]
  BY Zenon DEF Return
<1>4. op' \in [Clients -> Calls] /\ op'[c] = Idle /\ \A d \in Clients \ {c} : op'[d] = op[d]
  BY <1>1, <1>3, IdleFacts, Zenon
<1>5. temps' \subseteq temps /\ op[c].val \notin temps'
  <2>1. temps' = IF RemovesTemp(c, op[c].res) THEN temps \ {op[c].val} ELSE temps
    BY Zenon DEF Return
  <2>2. CASE RemovesTemp(c, op[c].res)
    BY <2>1, <2>2, Zenon
  <2>3. CASE ~RemovesTemp(c, op[c].res)
    <3>1. op[c].res = "ok" /\ backend = "local"
      BY <2>3, Known, Zenon DEF RemovesTemp, TypeOK
    <3>2. op[c].val \notin temps
      BY <1>1, <3>1, Zenon DEF IInv, RenameInv
    <3> QED BY <2>1, <2>3, <3>2, Zenon
  <2> QED BY <2>2, <2>3, Zenon
<1>6. TypeOK'
  <2>1. DOMAIN out' = Clients
    BY Known, Zenon DEF TypeOK, Return
  <2> QED BY <1>3, <1>4, <1>5, <2>1, Known, Zenon DEF TypeOK
<1>7. CallOK(Idle, c, backend)
  BY IdleFacts, Zenon DEF CallOK
<1>8. IInv'
  BY <1>3, <1>4, <1>5, <1>6, <1>7, Quiet, IdleFacts, LocalIInv, Zenon
<1>9. Promise!End(c)
  <2>1. OtherCalls(c)
    BY <1>4, Zenon DEF OtherCalls
  <2>2. Promised(op'[c]) = Promise!Idle /\ Promised(op[c]) # Promise!Idle
    BY <1>1, <1>2, <1>4, IdlePromise, NotIdle, Zenon
  <2>3. SameObjects
    BY <1>3, Quiet, Zenon
  <2>4. op[c].res \in {"ok", "notfound", "error"}
    BY <1>1, <1>2, Zenon DEF CallOK
  <2>5. PICK r \in {"ok", "notfound", "error"} : r = op[c].res
    BY <2>4, Zenon
  <2>6. /\ r = "ok" => op[c].took # "no" /\ op[c].todo = {} /\ (op[c].kind = "get" => op[c].took = "yes")
        /\ r = "notfound" => op[c].took = "absent" /\ op[c].kind \in {"get", "delete"}
    BY <1>1, <2>5, Zenon DEF CallOK
  <2>7. out' = [out EXCEPT ![c] = [call |-> Promised(op[c]), res |-> r]]
    BY <2>5, Zenon DEF Return
  <2> QED BY <1>3, <2>1, <2>2, <2>3, <2>6, <2>7, Ends, Zenon
<1> QED BY <1>8, <1>9, Zenon DEF Keeps, Promise!BlobNext

\* A client calls the store.
LEMMA BeginStep ==
  ASSUME IInv, NEW c \in Clients, Begin(c)
  PROVE  IInv' /\ Keeps
<1>1. /\ op \in [Clients -> Calls] /\ ops \in [Clients -> 0..MaxOps] /\ op[c] = Idle
      /\ backend \in {"local", "remote"} /\ temps \subseteq Values
  BY Known, Zenon DEF Begin, TypeOK
<1>2. UNCHANGED <<backend, file, temps, net, crashed>>
  BY Zenon DEF Begin
<1>3. ops' \in [Clients -> 0..MaxOps] /\ ops'[c] \in 1..MaxOps
  BY <1>1, Constants DEF Begin
<1>4. PICK v \in {c} \X (1..MaxOps) : v = <<c, ops'[c]>>
  BY <1>3, Zenon
<1>5. v \in Values /\ v # None
  BY Constants, Zenon DEF Values
<1>6. PICK kind \in {"put", "get", "delete", "list"}, k \in Keys :
        op' = [op EXCEPT ![c] =
               [Idle EXCEPT !.kind = kind, !.key = k, !.at = First(kind),
                            !.val = IF kind = "put" THEN v ELSE None,
                            !.todo = IF kind = "list" THEN Keys ELSE {}]]
  BY <1>4 DEF Begin
<1>7. PICK a \in {"temp", "get", "remove", "head", "walk"} : a = First(kind)
  BY Zenon DEF First
<1>8. PICK w \in Values \cup {None} : w = IF kind = "put" THEN v ELSE None
  BY <1>5, Zenon
<1>9. PICK t \in SUBSET Keys : t = IF kind = "list" THEN Keys ELSE {}
  BY Zenon
<1> DEFINE y == [Idle EXCEPT !.kind = kind, !.key = k, !.at = a, !.val = w, !.todo = t]
<1>10. op' = [op EXCEPT ![c] = y]
  BY <1>6, <1>7, <1>8, <1>9, Zenon
<1>11. y \in Calls
  BY IdleFacts, Zenon DEF Calls
<1>12. /\ y.kind = kind /\ y.key = k /\ y.at = a /\ y.val = w /\ y.todo = t
       /\ y.took = "no" /\ y.seen = {} /\ y.n = 0 /\ y.res = "none"
  BY IdleFacts, Zenon DEF Calls
<1> HIDE DEF y
<1>13. y # Idle
  BY <1>12, IdleFacts, Zenon
<1>14. CallOK(y, c, backend)
  <2>1. /\ kind = "put" => a = "temp"
        /\ kind = "get" => a = "get"
        /\ kind = "delete" => a = IF backend = "local" THEN "remove" ELSE "head"
        /\ kind = "list" => a = "walk"
    BY <1>7, Zenon DEF First
  <2>2. w # None => kind = "put" /\ w \in {c} \X (1..MaxOps)
    BY <1>8, Zenon
  <2>3. kind = "put" => w # None
    BY <1>5, <1>8, Zenon
  <2>4. kind # "list" => t = {}
    BY <1>9, Zenon
  <2>5. kind = "list" => t = Keys
    BY <1>9, Zenon
  <2> QED BY <1>1, <1>12, <1>13, <2>1, <2>2, <2>3, <2>4, <2>5, Zenon DEF CallOK
<1>15. op' \in [Clients -> Calls] /\ op'[c] = y /\ \A d \in Clients \ {c} : op'[d] = op[d]
  BY <1>1, <1>10, <1>11, Zenon
<1>16. TypeOK'
  <2>1. DOMAIN out' = Clients
    BY Known, Zenon DEF TypeOK, Begin
  <2> QED BY <1>2, <1>3, <1>15, <2>1, Known, Zenon DEF TypeOK
<1>17. op[c].val \notin temps'
  BY <1>1, <1>2, IdleFacts, Constants, Zenon
<1>18. IInv'
  <2>1. temps' \subseteq temps \cup {op[c].val} /\ op'[c].at # "end"
    BY <1>2, <1>12, <1>15, Zenon
  <2>2. WholeInv'
    BY <1>2, Quiet, Zenon
  <2> QED BY <1>2, <1>14, <1>15, <1>16, <1>17, <2>1, <2>2, LocalIInv, Zenon
<1>19. Promise!Begin(c)
  <2>1. Promise!Call(kind, k, v)
          = [kind |-> kind, key |-> k, val |-> w, took |-> "no", seen |-> {}, todo |-> t]
    <3> DEFINE A == [kind |-> kind, key |-> None, val |-> None, took |-> "no", seen |-> {}, todo |-> {}]
               B == [kind |-> kind, key |-> k, val |-> None, took |-> "no", seen |-> {}, todo |-> {}]
               C == [kind |-> kind, key |-> k, val |-> w, took |-> "no", seen |-> {}, todo |-> {}]
    <3>1. [Promise!Idle EXCEPT !.kind = kind] = A
      BY DEF Promise!Idle
    <3>2. [A EXCEPT !.key = k] = B /\ [B EXCEPT !.val = w] = C
      OBVIOUS
    <3>3. [C EXCEPT !.todo = t] = [kind |-> kind, key |-> k, val |-> w, took |-> "no", seen |-> {}, todo |-> t]
      OBVIOUS
    <3> HIDE DEF A, B, C
    <3>4. Promise!Call(kind, k, v)
            = [[[[Promise!Idle EXCEPT !.kind = kind] EXCEPT !.key = k] EXCEPT !.val = w] EXCEPT !.todo = t]
      BY <1>8, <1>9, Zenon DEF Promise!Call
    <3> QED BY <3>1, <3>2, <3>3, <3>4, Zenon
  <2>2. Promised(op'[c]) = Promise!Call(kind, k, v)
    BY <1>12, <1>15, <2>1, Zenon DEF Promised
  <2>3. OtherCalls(c) /\ SameObjects /\ Promised(op[c]) = Promise!Idle
    BY <1>1, <1>2, <1>15, Quiet, IdlePromise, Zenon DEF OtherCalls
  <2>4. out' = [out EXCEPT ![c] = None]
    BY Zenon DEF Begin
  <2> QED BY <1>2, <1>5, <2>2, <2>3, <2>4, Begins, Zenon
<1> QED BY <1>18, <1>19, Zenon DEF Keeps, Promise!BlobNext
-----------------------------------------------------------------------------
(***************************************************************************)
(* A try of the remote store.                                              *)
(***************************************************************************)
Tried == {"put", "get", "head", "delete"}

\* A request without an answer is tried again or given up.
LEMMA UnansweredMoves ==
  ASSUME NEW c, NEW x \in Calls, CallOK(x, c, "remote"), x.at \in Tried
  PROVE  /\ Unanswered(x) \in Calls /\ CallOK(Unanswered(x), c, "remote")
         /\ Promised(Unanswered(x)) = Promised(x) /\ Unanswered(x).val = x.val
<1>1. x # Idle /\ x.kind # "idle" /\ x.key \in Keys /\ x.tries \in Nat
  BY Zenon DEF CallOK, Tried, Calls
<1>2. CASE x.tries + 1 < Attempts
  <2>1. PICK n \in Nat : n = x.tries + 1
    BY <1>1
  <2> DEFINE y == [x EXCEPT !.tries = n]
  <2>2. Unanswered(x) = y
    BY <1>2, <2>1, Zenon DEF Unanswered
  <2>3. y \in Calls
    BY Zenon DEF Calls
  <2>4. /\ y.kind = x.kind /\ y.key = x.key /\ y.val = x.val /\ y.took = x.took /\ y.seen = x.seen
        /\ y.todo = x.todo /\ y.at = x.at /\ y.n = x.n /\ y.res = x.res
    BY Zenon DEF Calls
  <2> HIDE DEF y
  <2>5. y # Idle
    BY <1>1, <2>4, IdleFacts, Zenon
  <2>6. CallOK(y, c, "remote")
    BY <1>1, <2>4, <2>5, Zenon DEF CallOK, Tried
  <2>7. Promised(y) = Promised(x)
    BY <2>4, SamePromise, Zenon
  <2> QED BY <2>2, <2>3, <2>4, <2>6, <2>7, Zenon
<1>3. CASE ~(x.tries + 1 < Attempts)
  <2> DEFINE y == [x EXCEPT !.at = "end", !.res = "error"]
  <2>2. Unanswered(x) = y
    BY <1>3, Zenon DEF Unanswered
  <2>3. y \in Calls
    BY ZenonT(40) DEF Calls
  <2>4. /\ y.kind = x.kind /\ y.key = x.key /\ y.val = x.val /\ y.took = x.took /\ y.seen = x.seen
        /\ y.todo = x.todo /\ y.at = "end" /\ y.res = "error"
    BY Zenon DEF Calls
  <2> HIDE DEF y
  <2>5. y # Idle
    BY <1>1, <2>4, IdleFacts, Zenon
  <2>6. CallOK(y, c, "remote")
    BY <1>1, <2>4, <2>5, Zenon DEF CallOK
  <2>7. Promised(y) = Promised(x)
    BY <2>4, SamePromise, Zenon
  <2> QED BY <2>2, <2>3, <2>4, <2>6, <2>7, Zenon
<1> QED BY <1>2, <1>3, Zenon

\* The call as the coordinator left it has what the answer says.
LEMMA AnsweredMoves ==
  ASSUME NEW c, NEW x \in Calls, CallOK(x, c, "remote"), x.at \in Tried,
         x.at \in {"put", "delete"} => x.took # "no",
         x.at = "get" => x.took = Found(x.key),
         x.at = "head" /\ file[x.key] = None => x.took = "absent"
  PROVE  /\ Answered(x) \in Calls /\ CallOK(Answered(x), c, "remote")
         /\ Promised(Answered(x)) = Promised(x) /\ Answered(x).val = x.val
<1>1. x # Idle /\ x.kind # "idle" /\ x.key \in Keys
  BY Zenon DEF CallOK, Tried
<1>2. CASE x.at = "head" /\ file[x.key] # None
  <2> DEFINE y == [x EXCEPT !.at = "delete", !.tries = 0]
  <2>2. Answered(x) = y
    BY <1>2, Zenon DEF Answered
  <2>3. y \in Calls
    BY Zenon DEF Calls
  <2>4. /\ y.kind = x.kind /\ y.key = x.key /\ y.val = x.val /\ y.took = x.took /\ y.seen = x.seen
        /\ y.todo = x.todo /\ y.at = "delete" /\ y.n = x.n /\ y.res = x.res
    BY Zenon DEF Calls
  <2> HIDE DEF y
  <2>5. y # Idle
    BY <1>1, <2>4, IdleFacts, Zenon
  <2>6. CallOK(y, c, "remote")
    BY <1>1, <1>2, <2>4, <2>5, Zenon DEF CallOK
  <2>7. Promised(y) = Promised(x)
    BY <2>4, SamePromise, Zenon
  <2> QED BY <2>2, <2>3, <2>4, <2>6, <2>7, Zenon
<1>3. ASSUME NEW r \in {"ok", "notfound"}, Answered(x) = [x EXCEPT !.at = "end", !.res = r],
             r = "ok" => x.took # "no" /\ (x.kind = "get" => x.took = "yes"),
             r = "notfound" => x.took = "absent" /\ x.kind \in {"get", "delete"}
      PROVE  /\ Answered(x) \in Calls /\ CallOK(Answered(x), c, "remote")
             /\ Promised(Answered(x)) = Promised(x) /\ Answered(x).val = x.val
  <2> DEFINE y == [x EXCEPT !.at = "end", !.res = r]
  <2>3. y \in Calls
    BY ZenonT(40) DEF Calls
  <2>4. /\ y.kind = x.kind /\ y.key = x.key /\ y.val = x.val /\ y.took = x.took /\ y.seen = x.seen
        /\ y.todo = x.todo /\ y.at = "end" /\ y.res = r
    BY Zenon DEF Calls
  <2> HIDE DEF y
  <2>5. y # Idle /\ x.todo = {}
    BY <1>1, <2>4, IdleFacts, Zenon DEF CallOK, Tried
  <2>6. CallOK(y, c, "remote")
    BY <1>1, <1>3, <2>4, <2>5, Zenon DEF CallOK
  <2>7. Promised(y) = Promised(x)
    BY <2>4, SamePromise, Zenon
  <2> QED BY <1>3, <2>3, <2>4, <2>6, <2>7, Zenon DEF y
<1>4. CASE x.at \in {"head", "get"} /\ file[x.key] = None
  <2>1. Answered(x) = [x EXCEPT !.at = "end", !.res = "notfound"]
    BY <1>4, Zenon DEF Answered
  <2>2. x.took = "absent" /\ x.kind \in {"get", "delete"}
    BY <1>4, Zenon DEF CallOK, Found
  <2> QED BY <2>1, <2>2, <1>3, Zenon
<1>5. CASE x.at \in {"put", "delete"} \/ (x.at = "get" /\ file[x.key] # None)
  <2>1. Answered(x) = [x EXCEPT !.at = "end", !.res = "ok"]
    BY <1>5, Zenon DEF Answered
  <2>2. x.took # "no" /\ (x.kind = "get" => x.took = "yes")
    BY <1>5, Zenon DEF CallOK, Found
  <2> QED BY <2>1, <2>2, <1>3, Zenon
<1> QED BY <1>2, <1>4, <1>5, Zenon DEF Tried

\* The coordinator handles the try; x is the call as it leaves it, and y as the
\* client goes on from there, answered or not.
LEMMA HandledMoves ==
  ASSUME IInv, NEW c \in Clients, backend = "remote", op[c].at \in Tried,
         NEW x \in Calls, CallOK(x, c, "remote"), x.at = op[c].at, x.val = op[c].val,
         x.at \in {"put", "delete"} => x.took # "no",
         x.at = "get" => x.took = Found(x.key),
         x.at = "head" /\ file[x.key] = None => x.took = "absent",
         NEW y, y = Answered(x) \/ y = Unanswered(x),
         op' = [op EXCEPT ![c] = y],
         file' \in [Keys -> [val : Values, n : 0..Size] \cup {None}], WholeInv',
         UNCHANGED <<backend, temps, out, net, ops, crashed>>
  PROVE  IInv' /\ OtherCalls(c) /\ Promised(op'[c]) = Promised(x) /\ Same
<1>1. y \in Calls /\ CallOK(y, c, backend) /\ Promised(y) = Promised(x) /\ y.val = op[c].val
  BY AnsweredMoves, UnansweredMoves
<1>2. net' \subseteq Requests /\ temps' \subseteq temps /\ backend # "local"
  BY Known, Zenon DEF TypeOK
<1>3. IInv' /\ OtherCalls(c) /\ op'[c] = y
  BY <1>1, <1>2, Moves, Zenon
<1> QED BY <1>1, <1>3, Zenon DEF Same

\* The remote store handles a request, and the answer arrives or is lost.
LEMMA HandledStep ==
  ASSUME IInv, NEW c \in Clients, backend = "remote", op[c].at \in Tried,
         NEW y, y = Answered(Handled(c).op) \/ y = Unanswered(Handled(c).op),
         op' = [op EXCEPT ![c] = y], file' = Handled(c).file,
         UNCHANGED <<backend, temps, out, net, ops, crashed>>
  PROVE  IInv' /\ Keeps
<1>1. op[c] \in Calls /\ CallOK(op[c], c, "remote")
  BY Known, Zenon
<1>2. op[c] # Idle /\ op[c].kind # "idle" /\ op[c].key \in Keys
  BY IdleCall, Zenon DEF Tried
<1>3. PICK k \in Keys : k = op[c].key
  BY <1>2, Zenon
<1>4. file \in [Keys -> [val : Values, n : 0..Size] \cup {None}] /\ WholeInv
  BY Zenon DEF IInv, TypeOK
<1>5. ASSUME NEW t \in {"no", "yes", "absent"}, op[c].at # "get",
             Handled(c).op = [op[c] EXCEPT !.took = t],
             op[c].at = "head" => t # "yes",
             op[c].at \in {"put", "delete"} => t # "no",
             op[c].at = "head" /\ file[k] = None => t = "absent",
             file' \in [Keys -> [val : Values, n : 0..Size] \cup {None}], WholeInv'
      PROVE  IInv' /\ OtherCalls(c) /\ Promised(op'[c]) = [Promised(op[c]) EXCEPT !.took = t] /\ Same
  <2> DEFINE x == [op[c] EXCEPT !.took = t]
  <2>1. x \in Calls
    BY <1>1, Zenon DEF Calls
  <2>2. /\ x.kind = op[c].kind /\ x.key = op[c].key /\ x.val = op[c].val /\ x.took = t /\ x.seen = op[c].seen
        /\ x.todo = op[c].todo /\ x.at = op[c].at /\ x.n = op[c].n /\ x.res = op[c].res
    BY <1>1, Zenon DEF Calls
  <2>3. x = Handled(c).op
    BY <1>5, Zenon
  <2> HIDE DEF x
  <2>4. x # Idle
    BY <1>2, <2>2, IdleFacts, Zenon
  <2>5. CallOK(x, c, "remote")
    BY <1>1, <1>2, <1>5, <2>2, <2>4, Zenon DEF CallOK, Tried
  <2>6. IInv' /\ OtherCalls(c) /\ Promised(op'[c]) = Promised(x) /\ Same
    <3>1. y = Answered(x) \/ y = Unanswered(x)
      BY <2>3, Zenon
    <3> QED BY <1>3, <1>5, <2>1, <2>2, <2>5, <3>1, HandledMoves, ZenonT(40)
  <2>7. Promised(x) = [Promised(op[c]) EXCEPT !.took = t]
    BY <2>2, TookPromise
  <2> QED BY <2>6, <2>7, Zenon
<1>6. CASE op[c].at = "put"
  <2>1. op[c].kind = "put" /\ op[c].n = Size /\ op[c].val \in Values
    BY <1>1, <1>6, Zenon DEF CallOK, Calls
  <2>2. PICK v \in Values : v = op[c].val
    BY <2>1, Zenon
  <2>3. Handled(c).op = [op[c] EXCEPT !.took = "yes"] /\ file' = [file EXCEPT ![k] = [val |-> v, n |-> Size]]
    BY <1>3, <1>6, <2>1, <2>2, Zenon DEF Handled
  <2>4. /\ file' \in [Keys -> [val : Values, n : 0..Size] \cup {None}]
        /\ WholeInv' /\ Object(k)' = v /\ \A j \in Keys \ {k} : Object(j)' = Object(j)
    BY <2>3, PutsObject, Zenon
  <2>5. IInv' /\ OtherCalls(c) /\ Promised(op'[c]) = [Promised(op[c]) EXCEPT !.took = "yes"] /\ Same
    BY <1>5, <1>6, <2>3, <2>4, Zenon
  <2>6. Promise!Write(c)
    BY <1>3, <2>1, <2>2, <2>4, <2>5, Writes, Zenon
  <2> QED BY <2>5, <2>6, Zenon DEF Keeps, Promise!BlobNext
<1>7. CASE op[c].at = "delete"
  <2>1. op[c].kind = "delete" /\ op[c].val = None
    BY <1>1, <1>7, Zenon DEF CallOK
  <2>2. PICK t \in {"yes", "absent"} : t = IF op[c].took = "yes" THEN "yes" ELSE Found(k)
    BY Zenon DEF Found
  <2>3. Handled(c).op = [op[c] EXCEPT !.took = t] /\ file' = [file EXCEPT ![k] = None]
    BY <1>3, <1>7, <2>2, Zenon DEF Handled
  <2>4. /\ file' \in [Keys -> [val : Values, n : 0..Size] \cup {None}]
        /\ WholeInv' /\ Object(k)' = None /\ \A j \in Keys \ {k} : Object(j)' = Object(j)
    BY <2>3, RemovesObject, Zenon
  <2>5. IInv' /\ OtherCalls(c) /\ Promised(op'[c]) = [Promised(op[c]) EXCEPT !.took = t] /\ Same
    BY <1>5, <1>7, <2>3, <2>4, Zenon
  <2>6. Promise!Write(c)
    BY <1>3, <2>1, <2>2, <2>4, <2>5, FoundObject, Writes, Zenon
  <2> QED BY <2>5, <2>6, Zenon DEF Keeps, Promise!BlobNext
<1>8. CASE op[c].at = "head"
  <2>1. op[c].kind = "delete" /\ op[c].val = None /\ op[c].took # "yes"
    BY <1>1, <1>8, Zenon DEF CallOK
  <2>2. PICK t \in {"no", "absent"} : t = IF file[k] = None THEN "absent" ELSE op[c].took
    BY <1>1, <2>1, Zenon DEF Calls
  <2>3. Handled(c).op = [op[c] EXCEPT !.took = t] /\ file' = file
    BY <1>3, <1>8, <2>2, Zenon DEF Handled
  <2>4. file' \in [Keys -> [val : Values, n : 0..Size] \cup {None}] /\ WholeInv' /\ SameObjects
    BY <1>4, <2>3, Quiet, Zenon
  <2>5. IInv' /\ OtherCalls(c) /\ Promised(op'[c]) = [Promised(op[c]) EXCEPT !.took = t] /\ Same
    BY <1>5, <1>8, <2>2, <2>3, <2>4, Zenon
  <2>6. CASE file[k] = None
    <3>1. Object(k) = None /\ Object(k)' = None /\ t = "absent" /\ \A j \in Keys \ {k} : Object(j)' = Object(j)
      BY <2>2, <2>4, <2>6, WholeObject, Zenon DEF SameObjects
    <3>2. Promise!Write(c)
      BY <1>3, <2>1, <2>5, <3>1, Writes, Zenon
    <3> QED BY <2>5, <3>2, Zenon DEF Keeps, Promise!BlobNext
  <2>7. CASE file[k] # None
    <3>1. t = op[c].took
      BY <2>2, <2>7, Zenon
    <3>2. Promised(op[c]) = [Promised(op[c]) EXCEPT !.took = t]
      BY <3>1, TookPromise, Zenon
    <3>3. SameCalls
      BY <2>5, <3>2, Zenon DEF SameCalls, OtherCalls
    <3> QED BY <2>4, <2>5, <3>3, Stutters, Zenon DEF Keeps
  <2> QED BY <2>6, <2>7, Zenon
<1>9. CASE op[c].at = "get"
  <2>1. op[c].kind = "get"
    BY <1>1, <1>9, Zenon DEF CallOK
  <2>2. PICK t \in {"yes", "absent"} : t = Found(k)
    BY Zenon DEF Found
  <2>3. PICK s \in SUBSET (Values \cup Keys) : s = {Object(k)} \ {None}
    BY FoundObject, Zenon
  <2> DEFINE x == [op[c] EXCEPT !.took = t, !.seen = s]
  <2>4. Handled(c).op = x /\ file' = file
    BY <1>3, <1>9, <2>2, <2>3, Zenon DEF Handled
  <2>5. x \in Calls
    BY <1>1, Zenon DEF Calls
  <2>6. /\ x.kind = op[c].kind /\ x.key = op[c].key /\ x.val = op[c].val /\ x.took = t /\ x.seen = s
        /\ x.todo = op[c].todo /\ x.at = op[c].at /\ x.n = op[c].n /\ x.res = op[c].res
    BY <1>1, Zenon DEF Calls
  <2> HIDE DEF x
  <2>7. x # Idle
    BY <1>2, <2>6, IdleFacts, Zenon
  <2>8. CallOK(x, c, "remote")
    BY <1>1, <1>2, <1>9, <2>6, <2>7, Zenon DEF CallOK
  <2>9. file' \in [Keys -> [val : Values, n : 0..Size] \cup {None}] /\ WholeInv' /\ SameObjects
    BY <1>4, <2>4, Quiet, Zenon
  <2>10. IInv' /\ OtherCalls(c) /\ Promised(op'[c]) = Promised(x) /\ Same
    <3>1. x.took = Found(x.key) /\ x.at = "get"
      BY <1>3, <1>9, <2>2, <2>6, Zenon
    <3>2. y = Answered(x) \/ y = Unanswered(x)
      BY <2>4, Zenon
    <3> QED BY <2>5, <2>6, <2>8, <2>9, <3>1, <3>2, HandledMoves, Zenon
  <2>11. Promised(x) = Got(Promised(op[c]), t, s)
    BY <2>6, GetPromise
  <2>12. Promise!Read(c)
    BY <1>3, <2>1, <2>2, <2>3, <2>9, <2>10, <2>11, FoundObject, Gets, Zenon
  <2> QED BY <2>10, <2>12, Zenon DEF Keeps, Promise!BlobNext
<1> QED BY <1>6, <1>7, <1>8, <1>9, Zenon DEF Tried

\* One attempt of a request to the remote store.
LEMMA requestStep ==
  ASSUME IInv, NEW c \in Clients, request(c)
  PROVE  IInv' /\ Keeps
<1>1. backend = "remote" /\ op[c].at \in Tried /\ op[c] \in Calls /\ CallOK(op[c], c, "remote")
  BY Known, Zenon DEF request, Tried
<1>2. UNCHANGED <<backend, temps, out, ops, crashed>> /\ op[c] # Idle /\ op[c].key \in Keys
  BY <1>1, IdleCall, Zenon DEF request, Tried
<1>3. CASE /\ op' = [op EXCEPT ![c] = Answered(Handled(c).op)] /\ file' = Handled(c).file
           /\ UNCHANGED net
  BY <1>1, <1>2, <1>3, HandledStep, Zenon
<1>4. CASE /\ op' = [op EXCEPT ![c] = Unanswered(Handled(c).op)] /\ file' = Handled(c).file
           /\ UNCHANGED net
  BY <1>1, <1>2, <1>4, HandledStep, Zenon
<1>5. CASE Ended(c, "error") /\ UNCHANGED <<file, net>>
  BY <1>2, <1>5, Fails, Zenon
<1>6. ASSUME op' = [op EXCEPT ![c] = Unanswered(@)], UNCHANGED file, net' \subseteq Requests
      PROVE  IInv' /\ SameCalls /\ SameObjects
  <2> DEFINE y == Unanswered(op[c])
  <2>1. y \in Calls /\ CallOK(y, c, backend) /\ Promised(y) = Promised(op[c]) /\ y.val = op[c].val
    BY <1>1, UnansweredMoves, Zenon
  <2>2. op' = [op EXCEPT ![c] = y]
    BY <1>6, Zenon
  <2> HIDE DEF y
  <2>3. /\ file' \in [Keys -> [val : Values, n : 0..Size] \cup {None}] /\ WholeInv' /\ SameObjects
        /\ temps' \subseteq temps /\ backend # "local"
    BY <1>1, <1>2, <1>6, Quiet, Known, Zenon DEF TypeOK
  <2>4. IInv' /\ OtherCalls(c) /\ op'[c] = y
    BY <1>2, <1>6, <2>1, <2>2, <2>3, Moves, Zenon
  <2> QED BY <2>1, <2>3, <2>4, Zenon DEF OtherCalls, SameCalls
<1>7. CASE op' = [op EXCEPT ![c] = Unanswered(@)] /\ UNCHANGED <<file, net>>
  <2>1. net' \subseteq Requests
    BY <1>7, Known, Zenon DEF TypeOK
  <2> QED BY <1>2, <1>6, <1>7, <2>1, Stutters, Zenon DEF Keeps, Same
<1>8. CASE /\ op[c].at \in {"put", "delete"}
           /\ op' = [op EXCEPT ![c] = Unanswered(@)]
           /\ net' = net \cup {[key |-> op[c].key, val |-> op[c].val]}
           /\ UNCHANGED file
  <2>1. net' \subseteq Requests
    BY <1>1, <1>2, <1>8, Known DEF TypeOK, Requests, Calls
  <2>2. op[c].kind \in {"put", "delete"}
    BY <1>1, <1>8, Zenon DEF CallOK
  <2>3. Promise!Escape(c)
    BY <1>1, <1>2, <1>6, <1>8, <2>1, <2>2, Escapes, Zenon
  <2> QED BY <1>6, <1>8, <2>1, <2>3, Zenon DEF Keeps, Promise!BlobNext
<1> QED BY <1>3, <1>4, <1>5, <1>7, <1>8, Zenon DEF request
-----------------------------------------------------------------------------
(***************************************************************************)
(* Steps of no client.                                                     *)
(***************************************************************************)
LEMMA ArriveStep ==
  ASSUME IInv, Arrive
  PROVE  IInv' /\ Keeps
<1>1. UNCHANGED <<backend, temps, op, out, ops, crashed>>
  BY Zenon DEF Arrive
<1>2. PICK m \in net :
        /\ file' = [file EXCEPT ![m.key] = IF m.val = None THEN None ELSE [val |-> m.val, n |-> Size]]
        /\ net' = net \ {m}
  BY Zenon DEF Arrive
<1>3. TypeOK /\ m \in Requests
  BY Zenon DEF IInv, TypeOK
<1>4. PICK k \in Keys : k = m.key
  BY <1>3, Zenon DEF Requests
<1>5. /\ file' \in [Keys -> [val : Values, n : 0..Size] \cup {None}]
      /\ WholeInv' /\ Object(k)' = m.val /\ \A j \in Keys \ {k} : Object(j)' = Object(j)
  <2>1. CASE m.val = None
    BY <1>2, <1>4, <2>1, RemovesObject, Zenon
  <2>2. CASE m.val # None
    <3>1. m.val \in Values
      BY <1>3, <2>2, Zenon DEF Requests
    <3> QED BY <1>2, <1>4, <2>2, <3>1, PutsObject, Zenon
  <2> QED BY <2>1, <2>2, Zenon
<1>6. IInv'
  <2>1. TypeOK'
    BY <1>1, <1>2, <1>3, <1>5, Zenon DEF TypeOK
  <2> QED BY <1>1, <1>5, <2>1, Zenon DEF IInv, CallInv, RenameInv, TempsExplained
<1>7. Promise!Arrive
  <2>1. Objects' = [Objects EXCEPT ![k] = m.val]
    BY <1>5, Zenon DEF Objects
  <2>2. OpenCalls' = OpenCalls
    BY <1>1, Zenon DEF OpenCalls
  <2>3. \E r \in net : /\ Objects' = [Objects EXCEPT ![r.key] = r.val]
                       /\ net' = net \ {r}
                       /\ UNCHANGED <<backend = "remote", OpenCalls, out>>
    BY <1>1, <1>2, <1>4, <2>1, <2>2, Zenon
  <2> QED BY <2>3, Zenon DEF Promise!Arrive, Objects, OpenCalls
<1> QED BY <1>6, <1>7, Zenon DEF Keeps, Promise!BlobNext

\* A crash drops the calls and keeps the files.
LEMMA CrashStep ==
  ASSUME IInv, Crash
  PROVE  IInv' /\ Keeps
<1>1. /\ UNCHANGED <<backend, file, temps, out, net, ops>> /\ crashed' = crashed \cup temps
      /\ op' = [c \in Clients |-> Idle]
  BY Zenon DEF Crash
<1>2. TypeOK'
  BY <1>1, IdleFacts, Zenon DEF IInv, TypeOK
<1>3. CallInv'
  BY <1>1, IdleFacts, Zenon DEF CallInv, CallOK
<1>4. RenameInv' /\ TempsExplained'
  BY <1>1, IdleFacts, Zenon DEF RenameInv, TempsExplained
<1>5. WholeInv' /\ SameObjects
  BY <1>1, Quiet, Zenon
<1>6. Promise!Die
  <2>1. OpenCalls' = [c \in Clients |-> Promise!Idle]
    BY <1>1, IdlePromise, Zenon DEF OpenCalls
  <2>2. UNCHANGED <<backend = "remote", Objects, out, net>>
    BY <1>1, <1>5, Zenon DEF SameObjects, Objects
  <2> QED BY <2>1, <2>2, Zenon DEF Promise!Die, Objects, OpenCalls
<1> QED BY <1>2, <1>3, <1>4, <1>5, <1>6, Zenon DEF IInv, Keeps, Promise!BlobNext
-----------------------------------------------------------------------------
\* The store begins empty, as the promise does.
LEMMA InitFacts == Init => IInv /\ Promise!BlobInit
<1> SUFFICES ASSUME Init
             PROVE  IInv /\ Promise!BlobInit
  BY Zenon
<1>1. TypeOK
  BY IdleFacts, Constants DEF Init, TypeOK
<1>2. CallInv /\ WholeInv /\ RenameInv /\ TempsExplained
  BY IdleFacts, Zenon DEF Init, CallInv, CallOK, WholeInv, RenameInv, TempsExplained
<1>3. Objects = [k \in Keys |-> None]
  BY Zenon DEF Init, Objects, Object
<1>4. OpenCalls = [c \in Clients |-> Promise!Idle]
  BY IdlePromise, Zenon DEF Init, OpenCalls
<1>5. (backend = "remote") \in BOOLEAN
  BY Zenon
<1>6. Promise!BlobInit
  BY <1>3, <1>4, <1>5, Zenon DEF Init, Promise!BlobInit, Objects, OpenCalls
<1> QED BY <1>1, <1>2, <1>6, Zenon DEF IInv

\* Every step keeps the invariant and is a step of the promise or none.
LEMMA NextStep ==
  ASSUME IInv, [Next]_vars
  PROVE  IInv' /\ (Promise!BlobNext \/ UNCHANGED promiseVars)
<1>1. ASSUME NEW c \in Clients,
             Begin(c) \/ Put(c) \/ open(c) \/ osRemove(c) \/ request(c) \/ walk(c) \/ Return(c)
      PROVE  IInv' /\ Keeps
  BY <1>1, BeginStep, createTempStep, copyStep, renameStep, openStep, osRemoveStep, requestStep, walkStep,
     ReturnStep, Zenon DEF Put
<1>2. CASE UNCHANGED vars
  <2>1. IInv'
    BY <1>2, Zenon DEF vars, IInv, TypeOK, CallInv, WholeInv, RenameInv, TempsExplained
  <2>2. Same /\ SameObjects /\ SameCalls
    BY <1>2, Zenon DEF vars, Same, SameObjects, SameCalls, Object
  <2> QED BY <2>1, <2>2, Stutters, Zenon
<1> QED BY <1>1, <1>2, ArriveStep, CrashStep, Zenon DEF Next, Keeps

\* Every state of the two stores satisfies the inductive invariant.
THEOREM Invariance == Spec => []IInv
<1>1. Init => IInv
  BY InitFacts, Zenon
<1>2. IInv /\ [Next]_vars => IInv'
  BY NextStep, Zenon
<1> QED BY <1>1, <1>2, PTL DEF Spec

\* No error path of Put leaves its temp file: each one there belongs to a Put in
\* progress or to a server that died in one (local.go and remote.go, the deferred
\* removals).
THEOREM TempsAlwaysExplained == Spec => []TempsExplained
<1>1. IInv => TempsExplained
  BY Zenon DEF IInv
<1> QED BY <1>1, Invariance, PTL

\* Both stores implement artifact.Store's promise: whole objects, one effect of a
\* call between its start and its end, no success without the effect; behind the
\* network only, effects that repeat or come late.
THEOREM StoresKeepPromise == Spec => KeepsPromise
<1>1. Init => Promise!BlobInit
  BY InitFacts, Zenon
<1>2. IInv /\ [Next]_vars => [Promise!BlobNext]_promiseVars
  BY NextStep, Zenon
<1> QED BY <1>1, <1>2, Invariance, PTL DEF Spec, KeepsPromise, Promise!BlobSpec, promiseVars, Objects, OpenCalls
=============================================================================

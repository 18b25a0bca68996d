---------------------------- MODULE ObjectStore ----------------------------
(***************************************************************************)
(* The two artifact stores.  The local one writes a temp file in the       *)
(* directory of the key and renames it.  The remote one spools into a temp *)
(* file and sends it to a coordinator (external) over a network, trying    *)
(* again when no answer comes.  Callers are handlers of one server, which  *)
(* may die at any time.                                                    *)
(***************************************************************************)
EXTENDS Naturals

CONSTANTS
  Keys, Clients, None,
  Size,      \* blocks of an object
  Attempts,  \* tries of one request
  MaxOps     \* bound: calls of each client

\* What can be put: each Put of a client is an object of its own.
Values == Clients \X (1..MaxOps)

ASSUME ObjectStoreAssumption ==
  /\ Size \in Nat \ {0} /\ Attempts \in Nat \ {0} /\ MaxOps \in Nat
  /\ None \notin Keys \cup Values \cup [val : Values, n : {Size}]
  /\ Keys \cap Values = {}  \* a temp file has a name no key has

VARIABLES
  backend,
  file,     \* the file, or the coordinator's object, under each key
  temps,    \* temp files, each named by the object that is being put
  op,       \* the call each client is in
  out,      \* how its last call ended
  net,      \* PUTs (and DELETEs, without an object) stuck on the way
  ops,      \* calls made so far
  crashed   \* history: temp files whose server died

vars == <<backend, file, temps, op, out, net, ops, crashed>>

Idle == [kind |-> "idle", key |-> None, val |-> None, took |-> "no", seen |-> {}, todo |-> {},
         at |-> "idle", n |-> 0, tries |-> 0, res |-> "none"]

Object(k) == CASE file[k] = None -> None
               [] file[k] # None /\ file[k].n = Size -> file[k].val
               [] OTHER -> <<None, 0>>  \* torn
Found(k) == IF file[k] = None THEN "absent" ELSE "yes"

Calls ==
  [kind : {"idle", "put", "get", "delete", "list"}, key : Keys \cup {None}, val : Values \cup {None},
   took : {"no", "yes", "absent"}, seen : SUBSET (Values \cup Keys), todo : SUBSET Keys,
   at : {"idle", "temp", "copy", "rename", "put", "get", "remove", "head", "delete", "walk", "end"},
   n : 0..Size, tries : Nat, res : {"none", "ok", "notfound", "error"}]

Requests == [key : Keys, val : Values \cup {None}]

TypeOK ==
  /\ backend \in {"local", "remote"}
  /\ file \in [Keys -> [val : Values, n : 0..Size] \cup {None}]
  /\ temps \subseteq Values /\ crashed \subseteq Values
  /\ op \in [Clients -> Calls]
  /\ DOMAIN out = Clients
  /\ net \subseteq Requests
  /\ ops \in [Clients -> 0..MaxOps]

Init ==
  /\ backend \in {"local", "remote"}
  /\ file = [k \in Keys |-> None]
  /\ temps = {} /\ net = {} /\ crashed = {}
  /\ op = [c \in Clients |-> Idle]
  /\ out = [c \in Clients |-> None]
  /\ ops = [c \in Clients |-> 0]

First(kind) ==
  CASE kind = "put" -> "temp"
    [] kind = "get" -> "get"
    [] kind = "delete" -> IF backend = "local" THEN "remove" ELSE "head"
    [] kind = "list" -> "walk"

Begin(c) ==
  /\ op[c] = Idle /\ ops[c] < MaxOps
  /\ ops' = [ops EXCEPT ![c] = @ + 1]
  /\ \E kind \in {"put", "get", "delete", "list"}, k \in Keys :
       op' = [op EXCEPT ![c] =
               [Idle EXCEPT !.kind = kind, !.key = k, !.at = First(kind),
                            !.val = IF kind = "put" THEN <<c, ops'[c]>> ELSE None,
                            !.todo = IF kind = "list" THEN Keys ELSE {}]]
  /\ out' = [out EXCEPT ![c] = None]
  /\ UNCHANGED <<backend, file, temps, net, crashed>>

\* Wrong form for the mutation runs: a failed Put leaves its temp file.
KeepTemp(c, res) == FALSE

\* Is the temp file removed when the call ends so.  A rename has taken it away;
\* the remote store always removes its spool.
RemovesTemp(c, res) == res # "ok" \/ backend = "remote"

\* What of a call its caller and the promise know.
Promised(x) == [kind |-> x.kind, key |-> x.key, val |-> x.val, took |-> x.took, seen |-> x.seen, todo |-> x.todo]

Ended(c, res) == op' = [op EXCEPT ![c].at = "end", ![c].res = res]

Return(c) ==
  /\ op[c].at = "end"
  /\ temps' = IF RemovesTemp(c, op[c].res) THEN temps \ {op[c].val} ELSE temps
  /\ out' = [out EXCEPT ![c] = [call |-> Promised(op[c]), res |-> op[c].res]]
  /\ op' = [op EXCEPT ![c] = Idle]
  /\ UNCHANGED <<backend, file, net, ops, crashed>>

createTemp(c) ==
  /\ op[c].at = "temp"
  /\ \/ /\ temps' = temps \cup {op[c].val}
        /\ op' = [op EXCEPT ![c].at = "copy"]
     \/ Ended(c, "error") /\ UNCHANGED temps
  /\ UNCHANGED <<backend, file, out, net, ops, crashed>>

\* Wrong form for the mutation runs: a reader that ends early goes unnoticed.
FitsShort(n) == n <= Size

\* n # size is an error; one block more than the size is read to see a long reader.
Fits(n) == n = Size

\* The reader fails (or the request goes away), or ends after n blocks.
copy(c) ==
  /\ op[c].at = "copy"
  /\ \/ Ended(c, "error")
     \/ \E n \in 0..Size + 1 :
          IF Fits(n) THEN op' = [op EXCEPT ![c].n = n, ![c].at = IF backend = "local" THEN "rename" ELSE "put"]
                     ELSE Ended(c, "error")
  /\ UNCHANGED <<backend, file, temps, out, net, ops, crashed>>

\* Sync, Close and Rename.
rename(c) ==
  /\ op[c].at = "rename"
  /\ \/ /\ file' = [file EXCEPT ![op[c].key] = [val |-> op[c].val, n |-> op[c].n]]
        /\ temps' = temps \ {op[c].val}
        /\ op' = [op EXCEPT ![c].took = "yes", ![c].at = "end", ![c].res = "ok"]
     \/ Ended(c, "error") /\ UNCHANGED <<file, temps>>
  /\ UNCHANGED <<backend, out, net, ops, crashed>>

\* Local Get opens the file, which a later rename or removal does not touch.
open(c) ==
  /\ backend = "local" /\ op[c].at = "get"
  /\ \/ op' = [op EXCEPT ![c].took = Found(op[c].key), ![c].seen = {Object(op[c].key)} \ {None},
                         ![c].at = "end", ![c].res = IF file[op[c].key] = None THEN "notfound" ELSE "ok"]
     \/ Ended(c, "error")
  /\ UNCHANGED <<backend, file, temps, out, net, ops, crashed>>

\* Local Delete.
osRemove(c) ==
  /\ op[c].at = "remove"
  /\ \/ /\ file' = [file EXCEPT ![op[c].key] = None]
        /\ op' = [op EXCEPT ![c].took = Found(op[c].key), ![c].at = "end",
                            ![c].res = IF file[op[c].key] = None THEN "notfound" ELSE "ok"]
     \/ Ended(c, "error") /\ UNCHANGED file
  /\ UNCHANGED <<backend, temps, out, net, ops, crashed>>
-----------------------------------------------------------------------------
\* The coordinator handles the request a client is at.  [op' and file']
Handled(c) ==
  LET k == op[c].key IN
  CASE op[c].at = "put" ->
         [file |-> [file EXCEPT ![k] = [val |-> op[c].val, n |-> op[c].n]],
          op |-> [op[c] EXCEPT !.took = "yes"]]
    [] op[c].at = "delete" ->
         [file |-> [file EXCEPT ![k] = None],
          op |-> [op[c] EXCEPT !.took = IF @ = "yes" THEN @ ELSE Found(k)]]
    [] op[c].at = "head" ->
         [file |-> file,
          op |-> [op[c] EXCEPT !.took = IF file[k] = None THEN "absent" ELSE @]]
    [] op[c].at = "get" ->
         [file |-> file,
          op |-> [op[c] EXCEPT !.took = Found(k), !.seen = {Object(k)} \ {None}]]

\* What the client does with a 2xx or a 404.
Answered(x) ==
  CASE x.at \in {"head", "get"} /\ file[x.key] = None -> [x EXCEPT !.at = "end", !.res = "notfound"]
    [] x.at = "head" /\ file[x.key] # None -> [x EXCEPT !.at = "delete", !.tries = 0]
    [] OTHER -> [x EXCEPT !.at = "end", !.res = "ok"]

\* What it does without an answer, or with a 5xx: another try, if one is left.
Unanswered(x) ==
  IF x.tries + 1 < Attempts THEN [x EXCEPT !.tries = @ + 1] ELSE [x EXCEPT !.at = "end", !.res = "error"]

\* One try: it is answered; its answer is lost; it is lost; it is stuck on the way;
\* it is refused (4xx) or the caller's time is up.
request(c) ==
  /\ backend = "remote" /\ op[c].at \in {"put", "get", "head", "delete"}
  /\ \/ /\ op' = [op EXCEPT ![c] = Answered(Handled(c).op)] /\ file' = Handled(c).file
        /\ UNCHANGED net
     \/ /\ op' = [op EXCEPT ![c] = Unanswered(Handled(c).op)] /\ file' = Handled(c).file
        /\ UNCHANGED net
     \/ op' = [op EXCEPT ![c] = Unanswered(@)] /\ UNCHANGED <<file, net>>
     \/ /\ op[c].at \in {"put", "delete"}
        /\ op' = [op EXCEPT ![c] = Unanswered(@)]
        /\ net' = net \cup {[key |-> op[c].key, val |-> op[c].val]}
        /\ UNCHANGED file
     \/ Ended(c, "error") /\ UNCHANGED <<file, net>>
  /\ UNCHANGED <<backend, temps, out, ops, crashed>>

\* A request that was stuck reaches the coordinator.
Arrive ==
  /\ \E m \in net :
       /\ file' = [file EXCEPT ![m.key] = IF m.val = None THEN None ELSE [val |-> m.val, n |-> Size]]
       /\ net' = net \ {m}
  /\ UNCHANGED <<backend, temps, op, out, ops, crashed>>
-----------------------------------------------------------------------------
\* The names a listing shows.
Shows(names) == names \cap Keys

\* The walk over the directory, or over the pages of the coordinator, comes to a
\* key; the walk comes across temp files as well.
walk(c) ==
  /\ op[c].at = "walk"
  /\ \/ \E k \in op[c].todo :
          LET names == {x \in {k} : file[k] # None} \cup (IF backend = "local" THEN temps ELSE {})
          IN  op' = [op EXCEPT ![c].todo = @ \ {k}, ![c].seen = @ \cup Shows(names), ![c].took = "yes"]
     \/ op[c].todo = {} /\ Ended(c, "ok")
     \/ Ended(c, "error")
  /\ UNCHANGED <<backend, file, temps, out, net, ops, crashed>>

\* The server dies: temp files stay, and nothing ever removes them.
Crash ==
  /\ \E c \in Clients : op[c] # Idle
  /\ crashed' = crashed \cup temps
  /\ op' = [c \in Clients |-> Idle]
  /\ UNCHANGED <<backend, file, temps, out, net, ops>>

Put(c) == createTemp(c) \/ copy(c) \/ rename(c)

Next ==
  \/ \E c \in Clients : Begin(c) \/ Put(c) \/ open(c) \/ osRemove(c) \/ request(c) \/ walk(c) \/ Return(c)
  \/ Arrive
  \/ Crash

Spec == Init /\ [][Next]_vars
-----------------------------------------------------------------------------
\* The temp files there are belong to a Put in progress, or to a server that died
\* in one: no error path of Put leaves its file behind.
TempsExplained ==
  temps \subseteq crashed \cup {op[c].val : c \in Clients}

Promise == INSTANCE BlobStore WITH
  lossy <- backend = "remote",
  obj <- [k \in Keys |-> Object(k)],
  op <- [c \in Clients |-> Promised(op[c])],
  loose <- net

\* Both stores keep the promise of artifact.Store: whole objects only, whatever
\* fails or dies; a call that reports success has taken effect, a Get sees what is
\* there, a listing shows keys and no temp file; and only behind the network may
\* an effect repeat or come late.
KeepsPromise == Promise!BlobSpec
-----------------------------------------------------------------------------
(***************************************************************************)
(* The inductive invariant.                                                *)
(***************************************************************************)
\* A call x of client c on backend b is where calls of its kind come by, with what
\* it has to show for it.
CallOK(x, c, b) ==
  /\ x.at = "idle" <=> x = Idle
  /\ x.kind = "idle" <=> x = Idle
  /\ x # Idle => x.key \in Keys
  /\ x.val # None => x.kind = "put" /\ x.val \in {c} \X (1..MaxOps)
  /\ x.kind = "put" => x.val # None
  /\ x.kind # "list" => x.todo = {}
  /\ x.at \in {"temp", "copy"} => x.kind = "put" /\ x.took = "no"
  /\ x.at = "rename" => x.kind = "put" /\ x.took = "no" /\ x.n = Size /\ b = "local"
  /\ x.at = "put" => x.kind = "put" /\ x.n = Size /\ b = "remote"
  /\ x.at = "get" => x.kind = "get"
  /\ x.at = "remove" => x.kind = "delete" /\ x.took = "no" /\ b = "local"
  /\ x.at = "head" => x.kind = "delete" /\ x.took # "yes" /\ b = "remote"
  /\ x.at = "delete" => x.kind = "delete" /\ b = "remote"
  /\ x.at = "walk" => x.kind = "list" /\ (x.took = "no" => x.todo = Keys)
  /\ x.at = "end" => x.res # "none"
  /\ x.at = "end" /\ x.res = "ok" => x.took # "no" /\ x.todo = {} /\ (x.kind = "get" => x.took = "yes")
  /\ x.at = "end" /\ x.res = "notfound" => x.took = "absent" /\ x.kind \in {"get", "delete"}

CallInv == \A c \in Clients : CallOK(op[c], c, backend)

\* Only whole objects get a name.
WholeInv == \A k \in Keys : file[k] # None => file[k].n = Size

\* A rename takes the temp file with it.
RenameInv ==
  \A c \in Clients : backend = "local" /\ op[c].at = "end" /\ op[c].res = "ok" => op[c].val \notin temps

IInv == TypeOK /\ CallInv /\ WholeInv /\ RenameInv /\ TempsExplained
=============================================================================

------------------------------ MODULE BlobStore ------------------------------
(***************************************************************************)
(* What an artifact.Store promises its callers.  An object is there as a   *)
(* whole or not at all.  A call takes effect at one moment between its     *)
(* start and its end, and one that says it succeeded has taken effect.     *)
(* Behind a network (lossy) a call may take effect more than once, and a   *)
(* copy of it that got stuck on the way even after its end.                *)
(***************************************************************************)
CONSTANTS Keys, Clients, Values, None

VARIABLES
  lossy,  \* is there a network between the caller and the objects
  obj,    \* the object under each key
  op,     \* the call each client is in
  out,    \* how its last call ended
  loose   \* effects that are still under way: an object, or None for a deletion

Idle == [kind |-> "idle", key |-> None, val |-> None, took |-> "no", seen |-> {}, todo |-> {}]

BlobInit ==
  /\ lossy \in BOOLEAN
  /\ obj = [k \in Keys |-> None]
  /\ op = [c \in Clients |-> Idle]
  /\ out = [c \in Clients |-> None]
  /\ loose = {}

Call(kind, k, v) ==
  [Idle EXCEPT !.kind = kind, !.key = k,
               !.val = IF kind = "put" THEN v ELSE None,
               !.todo = IF kind = "list" THEN Keys ELSE {}]

Begin(c) ==
  /\ op[c] = Idle
  /\ \E kind \in {"put", "get", "delete", "list"}, k \in Keys, v \in Values :
       op' = [op EXCEPT ![c] = Call(kind, k, v)]
  /\ out' = [out EXCEPT ![c] = None]
  /\ UNCHANGED <<lossy, obj, loose>>

Found(k) == IF obj[k] = None THEN "absent" ELSE "yes"

\* The effect of a Put or a Delete.
Write(c) ==
  /\ op[c].kind \in {"put", "delete"}
  /\ lossy \/ op[c].took = "no"
  /\ obj' = [obj EXCEPT ![op[c].key] = op[c].val]
  /\ op' = [op EXCEPT ![c].took = IF @ = "yes" \/ op[c].kind = "put" THEN "yes" ELSE Found(op[c].key)]
  /\ UNCHANGED <<lossy, out, loose>>

\* Get sees the object of one moment; List sees each key at a moment of its own.
Read(c) ==
  /\ \/ /\ op[c].kind = "get"
        /\ op' = [op EXCEPT ![c].took = Found(op[c].key), ![c].seen = {obj[op[c].key]} \ {None}]
     \/ /\ op[c].kind = "list"
        /\ \E k \in op[c].todo :
             op' = [op EXCEPT ![c].todo = @ \ {k},
                              ![c].seen = @ \cup {x \in {k} : obj[k] # None},
                              ![c].took = "yes"]
  /\ UNCHANGED <<lossy, obj, out, loose>>

\* The call ends; it need not say that it took effect, but may not pretend to.
End(c) ==
  /\ op[c] # Idle
  /\ \E res \in {"ok", "notfound", "error"} :
       /\ res = "ok" => op[c].took # "no" /\ op[c].todo = {} /\ (op[c].kind = "get" => op[c].took = "yes")
       /\ res = "notfound" => op[c].took = "absent" /\ op[c].kind \in {"get", "delete"}
       /\ out' = [out EXCEPT ![c] = [call |-> op[c], res |-> res]]
  /\ op' = [op EXCEPT ![c] = Idle]
  /\ UNCHANGED <<lossy, obj, loose>>

\* A request of a call gets stuck, and arrives at any later time.
Escape(c) ==
  /\ lossy /\ op[c].kind \in {"put", "delete"}
  /\ loose' = loose \cup {[key |-> op[c].key, val |-> op[c].val]}
  /\ UNCHANGED <<lossy, obj, op, out>>

Arrive ==
  \E m \in loose :
    /\ obj' = [obj EXCEPT ![m.key] = m.val]
    /\ loose' = loose \ {m}
    /\ UNCHANGED <<lossy, op, out>>

\* The callers die in the middle of their calls.
Die ==
  /\ op' = [c \in Clients |-> Idle]
  /\ UNCHANGED <<lossy, obj, out, loose>>

BlobNext == (\E c \in Clients : Begin(c) \/ Write(c) \/ Read(c) \/ End(c) \/ Escape(c)) \/ Arrive \/ Die

BlobSpec == BlobInit /\ [][BlobNext]_<<lossy, obj, op, out, loose>>
=============================================================================

------------------------------ MODULE Artifacts ------------------------------
(***************************************************************************)
(* Uploading the artifacts of a job: the runner of an attempt sends its    *)
(* files one by one and resends what it gets no answer to; the server      *)
(* handles each delivery in steps (fence, object, row, and on failure the  *)
(* removal of the object) that interleave with other deliveries, with the  *)
(* job's own life and with a crash of the server.  The artifact store may  *)
(* be behind a network: a call that fails may have taken effect, and a     *)
(* request of it may still be under way.  An object and a row are named by *)
(* attempt and path; every delivery of a file carries the same bytes, so a *)
(* rewrite is the identity.                                                *)
(***************************************************************************)
EXTENDS Naturals, FiniteSets

CONSTANTS
  MaxAttempts,      \* attempts the job may have
  Files,            \* files an attempt collects, sent in the order 1..Files
  CompleteRetries,  \* 5xx replies to one file before the runner gives up
  MaxSends,         \* bound: deliveries in all
  MaxLate           \* bound: requests under way to the artifact store at a time

ASSUME ArtifactsAssumption ==
  {MaxAttempts, Files, CompleteRetries, MaxSends} \subseteq Nat \ {0} /\ MaxLate \in Nat

VARIABLES
  state,    \* jobs.state
  attempt,  \* jobs.attempt
  up,       \* the uploading runner of each attempt
  sent,     \* deliveries so far
  hd,       \* the handler of each delivery
  objects,  \* keys in the artifact store
  rows,     \* keys in the artifacts table
  late,     \* requests to the artifact store that are still under way
  orphans,  \* history: keys on which the server died or the artifact store failed
  overlaid  \* history: attempts that sent while an earlier delivery was at work

job == <<state, attempt>>
stored == <<objects, rows, late, orphans>>
vars == <<job, stored, up, sent, hd, overlaid>>

Attempts == 1..MaxAttempts
Key == Attempts \X (1..Files)
Replies == {"201", "409", "500"}
Busy == {"check", "put", "row", "drop409", "drop500"}
StoreCall == [kind : {"put", "delete"}, key : Key]
key(n) == <<hd[n].attempt, hd[n].path>>

TypeOK ==
  /\ state \in {"queued", "running", "succeeded", "failed"}
  /\ attempt \in 0..MaxAttempts
  /\ up \in [Attempts -> [at : {"off", "ready", "waiting", "uploaded", "failed", "stopped", "gone"},
                          path : 1..Files, errors : 0..CompleteRetries, conn : 0..MaxSends]]
  /\ sent \in 0..MaxSends
  /\ hd \in [1..MaxSends -> [pc : {"none", "dead"} \cup Busy \cup Replies,
                             attempt : Attempts, path : 1..Files]]
  /\ {objects, rows, orphans} \subseteq SUBSET Key
  /\ late \subseteq StoreCall
  /\ overlaid \subseteq Attempts

Init ==
  /\ state = "queued" /\ attempt = 0
  /\ up = [a \in Attempts |-> [at |-> "off", path |-> 1, errors |-> 0, conn |-> 0]]
  /\ sent = 0
  /\ hd = [n \in 1..MaxSends |-> [pc |-> "none", attempt |-> 1, path |-> 1]]
  /\ objects = {} /\ rows = {} /\ late = {} /\ orphans = {} /\ overlaid = {}
-----------------------------------------------------------------------------
(***************************************************************************)
(* The job and its runners.                                                *)
(***************************************************************************)
Fence(a) == state = "running" /\ attempt = a

\* A runner claims the job; its container has run and exited with zero when
\* the attempt starts to upload.
Claim ==
  /\ state = "queued" /\ attempt < MaxAttempts
  /\ state' = "running"
  /\ attempt' = attempt + 1
  /\ up' = [up EXCEPT ![attempt + 1].at = "ready"]
  /\ UNCHANGED <<stored, sent, hd, overlaid>>

\* The attempt is lost: requeued, or failed when it was the last.  Its runner
\* may be alive and go on.
Lose ==
  /\ state = "running"
  /\ state' = IF attempt < MaxAttempts THEN "queued" ELSE "failed"
  /\ UNCHANGED <<attempt, stored, up, sent, hd, overlaid>>

\* The server, or a delete it has given up, still works on a delivery of attempt a.
Deletes(a) == {m \in late : m.kind = "delete" /\ m.key[1] = a}

AtWork(a) ==
  \/ \E n \in 1..MaxSends : hd[n].attempt = a /\ hd[n].pc \in Busy
  \/ Deletes(a) # {}

\* The runner of attempt a sends its current file, for the first time or again.
uploadArtifact(a) ==
  /\ up[a].at = "ready"
  /\ sent < MaxSends
  /\ sent' = sent + 1
  /\ hd' = [hd EXCEPT ![sent + 1] = [pc |-> "check", attempt |-> a, path |-> up[a].path]]
  /\ up' = [up EXCEPT ![a].at = "waiting", ![a].conn = sent + 1]
  /\ overlaid' = IF AtWork(a) THEN overlaid \cup {a} ELSE overlaid
  /\ UNCHANGED <<job, stored>>

\* The connection breaks or times out before the reply: reconnect resends, and
\* the server may still be handling the first delivery.
reconnect(a) ==
  /\ up[a].at = "waiting"
  /\ up' = [up EXCEPT ![a].at = "ready"]
  /\ UNCHANGED <<job, stored, sent, hd, overlaid>>

\* The upload ends on the runner's side: a local error (the attempt fails as
\* infra), or its context ends (timeout or cancel).
Stop(a) ==
  /\ up[a].at \in {"ready", "waiting"}
  /\ \E how \in {"failed", "stopped"} : up' = [up EXCEPT ![a].at = how]
  /\ UNCHANGED <<job, stored, sent, hd, overlaid>>

\* Wrong form for the mutation runs: the last error of a file is let pass.
NextUpSkips(u, reply) ==
  CASE reply = "201" \/ (reply = "500" /\ u.errors + 1 = CompleteRetries) ->
         IF u.path = Files THEN [u EXCEPT !.at = "uploaded"]
         ELSE [u EXCEPT !.at = "ready", !.path = @ + 1, !.errors = 0]
    [] reply = "409" -> [u EXCEPT !.at = "gone"]
    [] OTHER -> [u EXCEPT !.at = "ready", !.errors = @ + 1]

\* What the runner does with a reply: next file or done, abort without a
\* report, try again or fail the attempt.
NextUp(u, reply) ==
  CASE reply = "201" /\ u.path = Files -> [u EXCEPT !.at = "uploaded"]
    [] reply = "201" /\ u.path < Files -> [u EXCEPT !.at = "ready", !.path = @ + 1, !.errors = 0]
    [] reply = "409" -> [u EXCEPT !.at = "gone"]
    [] reply = "500" -> [u EXCEPT !.at = IF u.errors + 1 < CompleteRetries THEN "ready" ELSE "failed",
                                  !.errors = @ + 1]

uploadArtifacts(a) ==
  /\ up[a].at = "waiting"
  /\ hd[up[a].conn].pc \in Replies
  /\ up' = [up EXCEPT ![a] = NextUp(@, hd[up[a].conn].pc)]
  /\ UNCHANGED <<job, stored, sent, hd, overlaid>>

\* The runner reports: success after the last file, infra when a file failed,
\* timeout or cancelled when its context ended.
report(a) ==
  /\ up[a].at \in {"uploaded", "failed", "stopped"}
  /\ up' = [up EXCEPT ![a].at = "gone"]
  /\ state' = IF ~Fence(a) THEN state
              ELSE IF up[a].at = "uploaded" THEN "succeeded"
              ELSE IF up[a].at = "failed" /\ a < MaxAttempts THEN "queued"
              ELSE "failed"
  /\ UNCHANGED <<attempt, stored, sent, hd, overlaid>>
-----------------------------------------------------------------------------
(***************************************************************************)
(* handleUploadArtifact, one step per access to the store or the disk.     *)
(***************************************************************************)
Goto(n, pc) == hd' = [hd EXCEPT ![n].pc = pc]

\* The fence, read outside a transaction.
Check(n) ==
  /\ hd[n].pc = "check"
  /\ Goto(n, IF Fence(hd[n].attempt) THEN "put" ELSE "409")
  /\ UNCHANGED <<job, stored, up, sent, overlaid>>

\* What the handler at n asks of the artifact store: the request that a call,
\* given up or repeated, can leave under way.
Asked(n) ==
  CASE hd[n].pc = "put" -> {[kind |-> "put", key |-> key(n)]}
    [] hd[n].pc \in {"drop409", "drop500"} -> {[kind |-> "delete", key |-> key(n)]}
    [] OTHER -> {}

Leave(stuck) == late' = late \cup stuck /\ Cardinality(late') <= MaxLate

\* Wrong form: a failed write is taken for a write.
PutUnchecked(n) ==
  /\ hd[n].pc = "put"
  /\ objects' \in {objects, objects \cup {key(n)}} /\ Goto(n, "row")
  /\ UNCHANGED <<job, rows, late, orphans, up, sent, overlaid>>

\* The body goes to the artifact store, as a whole or not at all.  A Put that
\* fails may have stored it, and is answered without a clean-up.
Put(n) ==
  /\ hd[n].pc = "put"
  /\ \E stuck \in SUBSET Asked(n) :
       /\ Leave(stuck)
       /\ \/ /\ objects' = objects \cup {key(n)} /\ Goto(n, "row")
             /\ orphans' = orphans \cup {m.key : m \in stuck}
          \/ /\ objects' \in {objects, objects \cup {key(n)}} /\ Goto(n, "500")
             /\ orphans' = orphans \cup {key(n)}
  /\ UNCHANGED <<job, rows, up, sent, overlaid>>

\* Wrong forms: the fence is not checked again; a fenced delivery leaves its
\* object behind.
RecordUnfenced(n) ==
  /\ hd[n].pc = "row"
  /\ rows' = rows \cup {key(n)} /\ Goto(n, "201")
  /\ UNCHANGED <<job, objects, late, orphans, up, sent, overlaid>>

RecordKeepsObject(n) ==
  /\ hd[n].pc = "row"
  /\ \/ Fence(hd[n].attempt) /\ rows' = rows \cup {key(n)} /\ Goto(n, "201")
     \/ ~Fence(hd[n].attempt) /\ rows' = rows /\ Goto(n, "409")
  /\ UNCHANGED <<job, objects, late, orphans, up, sent, overlaid>>

\* The transaction that checks the fence again and records the row; it fails
\* when the database does or when the request's context has ended.
Record(n) ==
  /\ hd[n].pc = "row"
  /\ \/ Fence(hd[n].attempt) /\ rows' = rows \cup {key(n)} /\ Goto(n, "201")
     \/ ~Fence(hd[n].attempt) /\ rows' = rows /\ Goto(n, "drop409")
     \/ rows' = rows /\ Goto(n, "drop500")
  /\ UNCHANGED <<job, objects, late, orphans, up, sent, overlaid>>

\* The object goes (or was not there), unless the store fails, and the error is
\* the reply.
discard(n) ==
  /\ hd[n].pc \in {"drop409", "drop500"}
  /\ Goto(n, IF hd[n].pc = "drop409" THEN "409" ELSE "500")
  /\ \E stuck \in SUBSET Asked(n) : Leave(stuck)
  /\ \/ objects' = objects \ {key(n)} /\ orphans' = orphans
     \/ objects' \in {objects, objects \ {key(n)}} /\ orphans' = orphans \cup {key(n)}
  /\ UNCHANGED <<job, rows, up, sent, overlaid>>

\* A request that was given up takes effect.
Arrive ==
  /\ \E m \in late :
       /\ late' = late \ {m}
       /\ objects' = IF m.kind = "put" THEN objects \cup {m.key} ELSE objects \ {m.key}
  /\ UNCHANGED <<job, rows, orphans, up, sent, hd, overlaid>>

\* The server dies, and every handler with it.
Crash ==
  /\ \E n \in 1..MaxSends : hd[n].pc \in Busy
  /\ hd' = [n \in 1..MaxSends |-> IF hd[n].pc \in Busy THEN [hd[n] EXCEPT !.pc = "dead"] ELSE hd[n]]
  /\ \E stuck \in SUBSET UNION {Asked(n) : n \in 1..MaxSends} : Leave(stuck)
  /\ orphans' = orphans \cup {key(n) : n \in {m \in 1..MaxSends : hd[m].pc \in Busy}}
  /\ UNCHANGED <<job, objects, rows, up, sent, overlaid>>

Next ==
  \/ Claim \/ Lose \/ Crash \/ Arrive
  \/ \E a \in Attempts :
       \/ uploadArtifact(a) \/ reconnect(a) \/ Stop(a)
       \/ uploadArtifacts(a) \/ report(a)
  \/ \E n \in 1..MaxSends : Check(n) \/ Put(n) \/ Record(n) \/ discard(n)

Spec == Init /\ [][Next]_vars
-----------------------------------------------------------------------------
(***************************************************************************)
(* Properties.                                                             *)
(***************************************************************************)

\* A job succeeds only with a row for every file of the attempt that
\* succeeded, however its deliveries were lost, repeated or refused.
SucceededIsRecorded ==
  state = "succeeded" => \A p \in 1..Files : <<attempt, p>> \in rows

\* Once every delivery has been handled, the store holds no object without a
\* row, except under a key on which the server died or the artifact store itself
\* failed (an error, or a Put repeated over a request still under way): a fence
\* lost while the body was streamed and a failing database leave nothing behind,
\* whatever the other deliveries of the same file did.
NoLeakedObject ==
  (\A n \in 1..MaxSends : hd[n].pc \notin Busy) => objects \subseteq rows \cup orphans

\* The record of an attempt is frozen when the attempt ends: no delivery that
\* passed the first fence in time adds to it later.
RecordFrozen ==
  [][\A k \in Key : ~Fence(k[1]) => (k \in rows' <=> k \in rows)]_vars

\* A job never succeeds with artifacts missing: every file of the attempt that
\* succeeded is in the store.
SucceededHasBytes ==
  state = "succeeded" => \A p \in 1..Files : <<attempt, p>> \in objects

\* It holds of an attempt whose runner never sent a file while the server, or a
\* delete the server had given up, was still at work on the delivery before.
SerialHasBytes ==
  state = "succeeded" /\ attempt \notin overlaid =>
    \A p \in 1..Files : <<attempt, p>> \in objects

\* The row exists only once the bytes do, never the other way round.
RowsHaveObjects == rows \subseteq objects
-----------------------------------------------------------------------------
(***************************************************************************)
(* The inductive invariant behind the properties.                          *)
(***************************************************************************)

\* The upload of attempt a has not ended.
Open(a) == up[a].at \in {"off", "ready", "waiting"}

\* A runner that waits waits for the delivery of its current file; handlers
\* not yet used and attempts not yet claimed are as at first; the attempt that
\* succeeded has reported.
UploadInv ==
  /\ \A n \in 1..MaxSends : n > sent => hd[n].pc = "none"
  /\ \A a \in Attempts :
       /\ a > attempt => up[a].at = "off"
       /\ up[a].at = "off" => up[a].path = 1
       /\ Open(a) => up[a].errors < CompleteRetries
       /\ up[a].at = "waiting" => /\ up[a].conn \in 1..sent
                                  /\ key(up[a].conn) = <<a, up[a].path>>
       /\ state = "succeeded" /\ attempt = a => up[a].at = "gone"

\* What the runner was told is recorded is recorded.
RecordInv ==
  /\ \A n \in 1..MaxSends : hd[n].pc = "201" => key(n) \in rows
  /\ \A a \in Attempts :
       /\ Open(a) => \A p \in 1..(up[a].path - 1) : <<a, p>> \in rows
       /\ up[a].at = "uploaded" => \A p \in 1..Files : <<a, p>> \in rows
  /\ SucceededIsRecorded

\* An object without a row is an orphan, or a handler has yet to decide on it.
Holding == {"row", "drop409", "drop500"}
ObjectInv ==
  \A k \in objects \ (rows \cup orphans) :
    \E n \in 1..MaxSends : hd[n].pc \in Holding /\ key(n) = k

\* A put under way can only bring back an orphan.  A delete under way for an
\* attempt that never sent too early is all that is at work for it, on its current
\* file, which the runner has not been told is recorded.
LateInv ==
  /\ \A m \in late : m.kind = "put" => m.key \in orphans
  /\ \A a \in Attempts \ overlaid : \A m \in Deletes(a) :
       /\ m.key = <<a, up[a].path>>
       /\ up[a].at \notin {"off", "uploaded"}
       /\ state = "succeeded" => attempt # a
       /\ up[a].at = "waiting" => hd[up[a].conn].pc # "201"
       /\ \A n \in 1..MaxSends : hd[n].attempt = a => hd[n].pc \notin Busy

\* An attempt that never sent too early has at most one delivery in the hands
\* of the server, the last, and none that could still delete the object of a
\* file it has moved past.
SerialInv ==
  \A a \in Attempts \ overlaid :
    /\ \A n \in 1..MaxSends : hd[n].attempt = a /\ hd[n].pc \in Busy =>
         /\ n = up[a].conn /\ hd[n].path = up[a].path
         /\ up[a].at \notin {"off", "uploaded"}
         /\ state = "succeeded" => attempt # a
         /\ hd[n].pc = "row" => key(n) \in objects
    /\ Open(a) => \A p \in 1..(up[a].path - 1) : <<a, p>> \in objects
    /\ up[a].at = "waiting" /\ hd[up[a].conn].pc = "201" => key(up[a].conn) \in objects
    /\ up[a].at = "uploaded" => \A p \in 1..Files : <<a, p>> \in objects

IInv ==
  /\ TypeOK
  /\ UploadInv
  /\ RecordInv
  /\ ObjectInv
  /\ LateInv
  /\ SerialInv
  /\ SerialHasBytes
=============================================================================

------------------------------ MODULE LogTable ------------------------------
(***************************************************************************)
(* What the log table promises its readers: the log of an attempt only     *)
(* grows, at its end, and only while the attempt is the running one.  Both *)
(* the shipping of logs (LogShip, which implements this module) and the    *)
(* follower of the command line (LogFollow, which builds on it) are        *)
(* written against it.  A chunk is known by its seq.                       *)
(***************************************************************************)
EXTENDS Naturals

CONSTANTS
  MaxAttempts,  \* attempts the job may have
  MaxSeq        \* bound: chunks of one attempt

ASSUME LogTableAssumption == {MaxAttempts, MaxSeq} \subseteq Nat

VARIABLES
  state,    \* jobs.state: "over" is any terminal state
  attempt,  \* jobs.attempt
  log       \* log_chunks: the seqs stored for each attempt

tableVars == <<state, attempt, log>>

TableInit ==
  /\ state = "queued"
  /\ attempt = 0
  /\ log = [a \in 0..MaxAttempts |-> {}]

Claim ==
  /\ state = "queued" /\ attempt < MaxAttempts
  /\ state' = "running"
  /\ attempt' = attempt + 1
  /\ UNCHANGED log

\* One batch: its new chunks are consecutive and come after every chunk stored before.
AppendLogs(S) ==
  /\ state = "running"
  /\ \A s \in S, t \in log[attempt] : t < s
  /\ log' = [log EXCEPT ![attempt] = @ \cup S]
  /\ UNCHANGED <<state, attempt>>

\* The attempt ends or is lost, or the job is cancelled in the queue.
End ==
  /\ state \in {"queued", "running"}
  /\ state' = "over" \/ (state = "running" /\ attempt < MaxAttempts /\ state' = "queued")
  /\ UNCHANGED <<attempt, log>>

TableNext ==
  \/ Claim \/ End
  \/ \E lo \in 1..MaxSeq : \E hi \in lo..MaxSeq : AppendLogs(lo..hi)

TableSpec == TableInit /\ [][TableNext]_tableVars
=============================================================================

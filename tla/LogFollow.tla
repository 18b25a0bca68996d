------------------------------ MODULE LogFollow ------------------------------
(***************************************************************************)
(* quarry logs -f: a reader that polls the server for the job's state and  *)
(* then for the chunks behind its cursor, while attempts come and go.  The *)
(* server answers the second request with two reads of its own: the job's  *)
(* attempt, then the chunks.                                               *)
(***************************************************************************)
EXTENDS LogTable, Sequences, Functions

VARIABLES
  want,         \* --attempt, 0 for the current one
  pc,           \* the next request, or how the command ended
  terminal,     \* the state read first was terminal
  reading,      \* the attempt the server picked for this reply
  readAttempt,  \* the attempt of the previous reply, 0 at first
  after,        \* the cursor
  printed       \* what went to the terminal: <<attempt, seq>>

followVars == <<want, pc, terminal, reading, readAttempt, after, printed>>
logsVars == <<tableVars, followVars>>

FollowTypeOK ==
  /\ state \in {"queued", "running", "over"}
  /\ {attempt, want, reading, readAttempt} \subseteq 0..MaxAttempts
  /\ log \in [0..MaxAttempts -> SUBSET (1..MaxSeq)]
  /\ pc \in {"GetJob", "GetLogs", "chunks", "done", "error"}
  /\ terminal \in BOOLEAN
  /\ after \in 0..MaxSeq
  /\ printed \in Seq((1..MaxAttempts) \X (1..MaxSeq))

FollowInit ==
  /\ TableInit
  /\ want \in 0..MaxAttempts
  /\ pc = "GetJob"
  /\ terminal = FALSE
  /\ reading = 0 /\ readAttempt = 0 /\ after = 0
  /\ printed = <<>>

GetJob ==
  /\ pc = "GetJob"
  /\ terminal' = (state = "over")
  /\ pc' = "GetLogs"
  /\ UNCHANGED <<tableVars, want, reading, readAttempt, after, printed>>

\* The server reads the job's row and settles on an attempt.
handleGetLogs ==
  /\ pc = "GetLogs"
  /\ reading' = IF want = 0 THEN attempt ELSE want
  /\ pc' = "chunks"
  /\ UNCHANGED <<tableVars, want, terminal, readAttempt, after, printed>>

\* The cursor is strictly greater-than.
ListLogChunks(a, n) == {s \in log[a] : s > n}

\* ORDER BY seq: the rows S as a reply holds them.
InOrder(S) ==
  {q \in UNION {[1..n -> S] : n \in 0..MaxSeq} :
     /\ Range(q) = S
     /\ \A i, k \in DOMAIN q : i < k => q[i] < q[k]}

\* Wrong form for the mutation runs: a new attempt is read on from the old cursor.
NeverSwitches == FALSE

\* The reply is about another attempt than the one before.
Switches == readAttempt # 0 /\ reading # readAttempt

\* The cursor a reply leaves: its last seq.
NextCursor(chunks) == IF chunks = <<>> THEN after ELSE chunks[Len(chunks)]

\* Wrong forms: the state is not looked at; the last reply has to hold something.
EndsWhenQuiet(chunks) == chunks = <<>>

EndsOnMore(chunks) == terminal /\ chunks # <<>>

\* An empty reply to a request made after the job was seen terminal.
Ends(chunks) == terminal /\ chunks = <<>>

\* The reply: chunks of a new attempt are thrown away and read again from its
\* start, others are printed.
logsCmd ==
  /\ pc = "chunks"
  /\ \E chunks \in InOrder(ListLogChunks(reading, after)) :
       IF Switches
       THEN /\ after' = 0
            /\ pc' = "GetJob"
            /\ UNCHANGED printed
       ELSE /\ printed' = printed \o [i \in DOMAIN chunks |-> <<reading, chunks[i]>>]
            /\ after' = NextCursor(chunks)
            /\ pc' = IF Ends(chunks) THEN "done" ELSE "GetJob"
  /\ readAttempt' = reading
  /\ UNCHANGED <<tableVars, want, terminal, reading>>

\* A request fails for good and the command with it.  One that fails for the
\* moment is sent again as it was: no step.
Fail ==
  /\ pc \in {"GetJob", "GetLogs", "chunks"}
  /\ pc' = "error"
  /\ UNCHANGED <<tableVars, want, terminal, reading, readAttempt, after, printed>>

FollowNext ==
  \/ GetJob \/ handleGetLogs \/ logsCmd \/ Fail
  \/ TableNext /\ UNCHANGED followVars

\* The command polls for as long as it runs.
FollowSpec == FollowInit /\ [][FollowNext]_logsVars /\ WF_logsVars(GetJob \/ handleGetLogs \/ logsCmd)
-----------------------------------------------------------------------------
\* Nothing is printed twice or out of order, across attempts, and the cursor never
\* jumps over a chunk: what the attempt held before a printed chunk has been
\* printed too, whenever it arrived.
PrintedInOrder ==
  /\ \A i, k \in DOMAIN printed : i < k =>
       \/ printed[i][1] < printed[k][1]
       \/ printed[i][1] = printed[k][1] /\ printed[i][2] < printed[k][2]
  /\ \A i \in DOMAIN printed : \A s \in log[printed[i][1]] :
       s <= printed[i][2] => <<printed[i][1], s>> \in Range(printed)

\* A follower that ends by itself has printed the whole log of the attempt it
\* reads, and none will be added: a terminal state observed first guarantees
\* the following read sees every chunk.
FollowedToTheEnd ==
  pc = "done" =>
    /\ state = "over"
    /\ \A s \in log[readAttempt] : <<readAttempt, s>> \in Range(printed)
    /\ want = 0 => readAttempt = attempt

\* A follower of a finished job ends.
FollowEnds == state = "over" ~> pc \in {"done", "error"}
=============================================================================

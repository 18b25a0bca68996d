------------------------------- MODULE LogShip -------------------------------
(***************************************************************************)
(* Shipping the output of a job: for every attempt a shipper that buffers  *)
(* what the executor writes, seals it into numbered chunks and sends them  *)
(* in batches, one request at a time; a network that loses, delays and     *)
(* (through resends) duplicates requests; and AppendLogs on the server.    *)
(* Output is counted in blocks, the pieces a stream is cut into: block n   *)
(* of an attempt is the number n, the note about dropped output is 0.      *)
(***************************************************************************)
EXTENDS Integers, Sequences

CONSTANTS
  MaxAttempts,  \* attempts the job may have
  MaxOut,       \* bound: blocks the attempts write in all
  MaxWrite,     \* bound: blocks in one Write
  MaxSends,     \* bound: requests in all
  FlushBytes,   \* size of a full chunk
  MaxPostBytes, \* size of a batch
  MaxBuffered,  \* what the shipper holds before it drops
  LogCapBytes   \* what the server keeps of an attempt

ASSUME LogShipAssumption ==
  /\ {MaxAttempts, MaxOut, MaxWrite, MaxSends, FlushBytes, MaxBuffered} \subseteq Nat \ {0}
  /\ LogCapBytes \in Nat
  /\ MaxPostBytes \in Nat /\ MaxPostBytes >= FlushBytes

VARIABLES
  state,     \* jobs.state: "over" is any terminal state
  attempt,   \* jobs.attempt
  rows,      \* log_chunks of each attempt: from seq to data
  events,    \* job.logs_truncated events of each attempt
  whole,     \* history: what the chunk of every stored seq held when it was sent
  refusing,  \* the server answers every request with a 4xx from now on
  sh,        \* the shipper of each attempt
  wire       \* requests the server has not handled

job == <<state, attempt>>
table == <<rows, events, whole>>
shipVars == <<job, table, refusing, sh, wire>>

Attempts == 1..MaxAttempts
Marker == 0
Data == Seq(0..MaxOut)
Chunk == [seq : Nat \ {0}, data : Data]

Least(m, n) == IF m <= n THEN m ELSE n

\* For the bounds: what the attempts have of a number, in all.
Total(f) ==
  LET upto[a \in 0..MaxAttempts] == IF a = 0 THEN 0 ELSE upto[a - 1] + f[a]
  IN  upto[MaxAttempts]

\* Pieces of data in one.
Joined(q) ==
  LET upto[n \in 0..Len(q)] == IF n = 0 THEN <<>> ELSE upto[n - 1] \o q[n]
  IN  upto[Len(q)]

\* The bytes held by a sequence of chunks.
Flat(chunks) == Joined([i \in DOMAIN chunks |-> chunks[i].data])

Buffered(s) == Len(s.cur) + Len(Flat(s.pending))

Fresh == [out |-> 0,         \* blocks the executor has written
          cur |-> <<>>,      \* not yet sealed
          pending |-> <<>>,  \* sealed, not yet acknowledged
          dropped |-> 0,     \* blocks dropped since the last note
          nextSeq |-> 1,
          closed |-> FALSE, stale |-> FALSE, rejected |-> FALSE,
          expired |-> FALSE, \* the context of Close has ended
          pc |-> "off",      \* the flush loop
          batch |-> 0,       \* chunks in the request it waits for
          sends |-> 0,
          reply |-> "none",
          result |-> "none"] \* what Close returned

\* What a shipper is, and a request.
Shipper ==
  [out : Nat, cur : Data, pending : Seq(Chunk), dropped : Nat, nextSeq : Nat \ {0},
   closed : BOOLEAN, stale : BOOLEAN, rejected : BOOLEAN, expired : BOOLEAN,
   pc : {"off", "idle", "send", "done"}, batch : Nat, sends : Nat,
   reply : {"none", "204", "409", "4xx", "500"},
   result : {"none", "ErrStale", "ErrRejected", "unsent", "dropped", "nil"}]

Message == [attempt : Attempts, send : Nat, chunks : Seq(Chunk)]

\* The type invariant.
ShipTypeOK ==
  /\ state \in {"queued", "running", "over"}
  /\ attempt \in 0..MaxAttempts
  /\ rows \in [Attempts -> Seq(Data)]
  /\ events \in [Attempts -> Nat]
  /\ refusing \in BOOLEAN
  /\ sh \in [Attempts -> Shipper]
  /\ wire \subseteq Message

ShipInit ==
  /\ state = "queued" /\ attempt = 0
  /\ rows = [a \in Attempts |-> <<>>]
  /\ events = [a \in Attempts |-> 0]
  /\ whole = [a \in Attempts |-> <<>>]
  /\ refusing = FALSE
  /\ sh = [a \in Attempts |-> Fresh]
  /\ wire = {}
-----------------------------------------------------------------------------
(***************************************************************************)
(* The job: claimed, lost while its runner lives on, reported.             *)
(***************************************************************************)
\* Wrong form: any attempt of a running job may write.
FenceOnState(a) == state = "running"

Fence(a) == state = "running" /\ attempt = a

Claim ==
  /\ state = "queued" /\ attempt < MaxAttempts
  /\ state' = "running"
  /\ attempt' = attempt + 1
  /\ sh' = [sh EXCEPT ![attempt + 1].pc = "idle"]
  /\ UNCHANGED <<table, refusing, wire>>

Lose ==
  /\ state = "running"
  /\ state' = "over" \/ (attempt < MaxAttempts /\ state' = "queued")
  /\ UNCHANGED <<attempt, table, refusing, sh, wire>>

\* The verdict goes out when Close has returned, whatever it returned.
report(a) ==
  /\ Fence(a)
  /\ sh[a].pc = "done"
  /\ state' = "over" \/ (attempt < MaxAttempts /\ state' = "queued")
  /\ UNCHANGED <<attempt, table, refusing, sh, wire>>
-----------------------------------------------------------------------------
(***************************************************************************)
(* The shipper.  Operators on its record first, then its actions.          *)
(***************************************************************************)
seal(s, n) ==
  [s EXCEPT !.cur = SubSeq(@, n + 1, Len(@)),
            !.pending = Append(@, [seq |-> s.nextSeq, data |-> SubSeq(s.cur, 1, n)]),
            !.nextSeq = @ + 1]

\* Full chunks are sealed at once: all that are in what is buffered now.
append(s, p) ==
  LET s1 == [s EXCEPT !.cur = @ \o p]
      sealed[n \in 0..Len(s1.cur)] ==
        IF n = 0 THEN s1
        ELSE IF Len(sealed[n - 1].cur) >= FlushBytes THEN seal(sealed[n - 1], FlushBytes)
        ELSE sealed[n - 1]
  IN  sealed[Len(s1.cur)]

\* Wrong form: the note is forgotten.
NoNote(s) == [s EXCEPT !.dropped = 0]

\* The note about what was dropped, exempt from the cap.
Noted(s) == [append(s, <<Marker>>) EXCEPT !.dropped = 0]

\* The shipper after Write(p).
Written(s, p) ==
  LET room == MaxBuffered - Buffered(s)
      fits == SubSeq(p, 1, Least(Len(p), room))
      s1 == IF s.dropped > 0 THEN Noted(s) ELSE s
  IN  IF s.closed \/ s.stale THEN s
      ELSE IF Buffered(s) >= MaxBuffered THEN [s EXCEPT !.dropped = @ + Len(p)]
      ELSE [append(s1, fits) EXCEPT !.dropped = Len(p) - Len(fits)]

\* The count Write returns for k blocks: p was cut to the room there was.
Reported(s, k) ==
  LET room == MaxBuffered - Buffered(s)
  IN  IF s.closed \/ s.stale \/ room <= 0 THEN k ELSE Least(k, room)

\* The executor writes k blocks.
Write(a, k) ==
  /\ sh[a].pc # "off" /\ ~sh[a].closed
  /\ Total([b \in Attempts |-> sh[b].out]) + k <= MaxOut
  /\ LET p == [i \in 1..k |-> sh[a].out + i]
     IN  sh' = [sh EXCEPT ![a] = [Written(@, p) EXCEPT !.out = sh[a].out + k]]
  /\ UNCHANGED <<job, table, refusing, wire>>

\* The shipper with everything sealed, and the first batch of it: one chunk at
\* least, then as many as fit.
Sealed(s) == IF s.cur = <<>> THEN s ELSE seal(s, Len(s.cur))

Fits(s, n) == n = 1 \/ Len(Flat(SubSeq(s.pending, 1, n))) <= MaxPostBytes

BatchLens(s) ==
  {n \in 1..Len(s.pending) : Fits(s, n) /\ (n < Len(s.pending) => ~Fits(s, n + 1))}

\* The flush loop takes a batch and sends it: on the ticker, on a full chunk,
\* after an acknowledgement, after a backoff, or for the final flush.
drain(a) ==
  /\ sh[a].pc = "idle" /\ ~sh[a].stale /\ ~sh[a].expired
  /\ Buffered(sh[a]) > 0
  /\ Total([b \in Attempts |-> sh[b].sends]) < MaxSends
  /\ LET s == Sealed(sh[a])
     IN  \E n \in BatchLens(s) :
         /\ sh' = [sh EXCEPT ![a] = [s EXCEPT !.pc = "send", !.batch = n, !.reply = "none", !.sends = @ + 1]]
         /\ wire' = wire \cup {[attempt |-> a, send |-> s.sends + 1, chunks |-> SubSeq(s.pending, 1, n)]}
  /\ UNCHANGED <<job, table, refusing>>

ack(s) == [s EXCEPT !.pending = SubSeq(@, s.batch + 1, Len(@)), !.pc = "idle", !.batch = 0]

markStale(s) ==
  [s EXCEPT !.stale = TRUE, !.cur = <<>>, !.pending = <<>>, !.dropped = 0,
            !.pc = "idle", !.batch = 0]

\* Wrong form: a batch is not sent twice.
NoRetry(s) == ack(s)

\* A transient failure: back off, then take again.
retry(s) == [s EXCEPT !.pc = "idle", !.batch = 0]

\* The reply to the batch in flight.
Reply(a) ==
  /\ sh[a].pc = "send" /\ sh[a].reply # "none"
  /\ sh' = [sh EXCEPT ![a] =
       CASE sh[a].reply = "204" -> ack(@)
         [] sh[a].reply = "409" -> markStale(@)
         [] sh[a].reply = "4xx" -> [ack(@) EXCEPT !.rejected = TRUE]
         [] sh[a].reply = "500" -> retry(@)]
  /\ UNCHANGED <<job, table, refusing, wire>>

\* No reply: the connection breaks, times out, or the context ends.  The server
\* may handle the request later.
Timeout(a) ==
  /\ sh[a].pc = "send"
  /\ sh' = [sh EXCEPT ![a] = retry(@)]
  /\ UNCHANGED <<job, table, refusing, wire>>

\* The execution is over, or aborted: Close, with a context that may end.
Close(a) ==
  /\ sh[a].pc \in {"idle", "send"} /\ ~sh[a].closed
  /\ sh' = [sh EXCEPT ![a].closed = TRUE]
  /\ UNCHANGED <<job, table, refusing, wire>>

Expire(a) ==
  /\ sh[a].closed /\ ~sh[a].expired /\ sh[a].pc # "done"
  /\ sh' = [sh EXCEPT ![a].expired = TRUE]
  /\ UNCHANGED <<job, table, refusing, wire>>

CloseResult(s) ==
  IF s.stale THEN "ErrStale"
  ELSE IF s.rejected THEN "ErrRejected"
  ELSE IF Buffered(s) > 0 THEN "unsent"
  ELSE IF s.dropped > 0 THEN "dropped"
  ELSE "nil"

\* The flush loop exits and Close returns.
Closed(a) ==
  /\ sh[a].closed /\ sh[a].pc = "idle"
  /\ sh[a].expired \/ Buffered(sh[a]) = 0
  /\ sh' = [sh EXCEPT ![a].pc = "done", ![a].result = CloseResult(sh[a])]
  /\ UNCHANGED <<job, table, refusing, wire>>
-----------------------------------------------------------------------------
(***************************************************************************)
(* The server.                                                             *)
(***************************************************************************)
\* The rows of an attempt in the order of their seq, none of which is beyond
\* MaxOut: what a reader gets.
ListLogChunks(r) == Joined([n \in 1..MaxOut |-> IF n \in DOMAIN r THEN r[n] ELSE <<>>])

LogBytes(r) == Len(ListLogChunks(r))

\* Wrong form: a chunk of which something fits counts as stored.
InsertCutQuietly(acc, c) ==
  LET bytes == LogBytes(acc.rows)
      room == IF bytes <= LogCapBytes THEN LogCapBytes - bytes ELSE 0
      data == SubSeq(c.data, 1, Least(Len(c.data), room))
  IN  IF c.seq \in DOMAIN acc.rows THEN acc
      ELSE [rows |-> [n \in DOMAIN acc.rows \cup {c.seq} |-> IF n = c.seq THEN data ELSE acc.rows[n]],
            lost |-> acc.lost \/ room = 0]

\* One chunk of a batch: a seq that is stored stands, a new one is cut to what
\* the cap leaves.
InsertLogChunk(acc, c) ==
  LET bytes == LogBytes(acc.rows)
      room == IF bytes <= LogCapBytes THEN LogCapBytes - bytes ELSE 0
      data == SubSeq(c.data, 1, Least(Len(c.data), room))
  IN  IF c.seq \in DOMAIN acc.rows THEN acc
      ELSE [rows |-> [n \in DOMAIN acc.rows \cup {c.seq} |-> IF n = c.seq THEN data ELSE acc.rows[n]],
            lost |-> acc.lost \/ Len(data) < Len(c.data)]

\* The first loss of an attempt is recorded as an event.
NotesLoss(a, lost) == lost /\ events[a] = 0

\* For the history: the rows r as they were sent, those before the batch as w.
SentAs(chunks, n) == chunks[CHOOSE i \in DOMAIN chunks : chunks[i].seq = n].data

Originals(r, w, chunks) ==
  [n \in DOMAIN r |-> IF n \in DOMAIN w THEN w[n] ELSE SentAs(chunks, n)]

\* The transaction of one request under the fence.
AppendLogs(a, chunks) ==
  LET stored[n \in 0..Len(chunks)] ==
        IF n = 0 THEN [rows |-> rows[a], lost |-> FALSE]
        ELSE InsertLogChunk(stored[n - 1], chunks[n])
      acc == stored[Len(chunks)]
  IN  /\ rows' = [rows EXCEPT ![a] = acc.rows]
      /\ events' = [events EXCEPT ![a] = IF NotesLoss(a, acc.lost) THEN @ + 1 ELSE @]
      /\ whole' = [whole EXCEPT ![a] = Originals(acc.rows, @, chunks)]

\* The reply reaches the shipper if it still waits for this request.
Answer(m, code) ==
  sh' = [sh EXCEPT ![m.attempt].reply =
           IF sh[m.attempt].pc = "send" /\ sh[m.attempt].sends = m.send THEN code ELSE @]

handleAppendLogs(m) ==
  /\ wire' = wire \ {m}
  /\ \/ refusing /\ Answer(m, "4xx") /\ UNCHANGED table
     \/ ~refusing /\ ~Fence(m.attempt) /\ Answer(m, "409") /\ UNCHANGED table
     \/ ~refusing /\ Fence(m.attempt) /\ Answer(m, "204") /\ AppendLogs(m.attempt, m.chunks)
     \/ ~refusing /\ Answer(m, "500") /\ UNCHANGED table
  /\ UNCHANGED <<job, refusing>>

\* The server no longer takes this runner's requests (its token, say).
Refuse ==
  /\ ~refusing
  /\ refusing' = TRUE
  /\ UNCHANGED <<job, table, sh, wire>>

\* A request that is lost stays in wire for good.
ShipNext ==
  \/ Claim \/ Lose \/ Refuse
  \/ \E a \in Attempts :
       \/ report(a) \/ drain(a) \/ Reply(a) \/ Timeout(a)
       \/ Close(a) \/ Expire(a) \/ Closed(a)
       \/ \E k \in 1..MaxWrite : Write(a, k)
  \/ \E m \in wire : handleAppendLogs(m)

ShipSpec == ShipInit /\ [][ShipNext]_shipVars
-----------------------------------------------------------------------------
(***************************************************************************)
(* Properties.                                                             *)
(***************************************************************************)

\* The stored log is the output in its order, nothing twice, and the note about
\* dropped output stands exactly where blocks are missing: resends, late and
\* repeated deliveries, a full buffer and the cap never make a gap that cannot
\* be seen.
NoSilentGap ==
  \A a \in Attempts :
    LET text == ListLogChunks(rows[a])
        block(i) == IF i = 0 THEN 0 ELSE text[i]
        isBlock(i) == i = 0 \/ text[i] # Marker
        follows(j, i) == i < j /\ isBlock(i) /\ isBlock(j) /\ \A k \in (i + 1)..(j - 1) : ~isBlock(k)
    IN  \A i, j \in 0..Len(text) : follows(j, i) =>
          /\ block(i) < block(j)
          /\ block(i) + 1 < block(j) <=> i + 1 < j

\* When Close returns nil every chunk is stored, and the log ends with the last
\* block written unless the server noted that it was cut: complete never
\* precedes the last chunk.
NilMeansStored ==
  \A a \in Attempts : sh[a].result = "nil" =>
    /\ DOMAIN rows[a] = 1..(sh[a].nextSeq - 1)
    /\ sh[a].out > 0 /\ events[a] = 0 =>
         LET text == ListLogChunks(rows[a]) IN text[Len(text)] = sh[a].out

\* An attempt never holds more than the cap.  The one event that says it was cut
\* is there exactly when some stored chunk is shorter than it was when it was
\* sent, and then the cap is full.
CapNotedOnce ==
  \A a \in Attempts :
    /\ LogBytes(rows[a]) <= LogCapBytes
    /\ events[a] <= 1
    /\ events[a] = 1 => LogBytes(rows[a]) = LogCapBytes
    /\ events[a] = 1 <=> \E n \in DOMAIN rows[a] : Len(rows[a][n]) < Len(whole[a][n])

\* The table the shipper fills keeps the promise its readers rely on.
Table == INSTANCE LogTable WITH
  log <- [a \in 0..MaxAttempts |-> IF a = 0 THEN {} ELSE DOMAIN rows[a]],
  MaxSeq <- MaxOut

ImplementsTable == Table!TableSpec

\* Write always reports p as written: a job must not fail because its logs
\* cannot be shipped.
WriteReportsAll ==
  \A a \in Attempts, k \in 1..MaxWrite : sh[a].pc # "off" => Reported(sh[a], k) = k
-----------------------------------------------------------------------------
(***************************************************************************)
(* The inductive invariant.                                                *)
(***************************************************************************)
\* The chunks that are no longer pending, by their number.
Base(s) == s.nextSeq - 1 - Len(s.pending)

\* The shipper still stands for all that it took.
Kept(s) == ~s.stale /\ ~s.rejected

\* The turn of the attempt is over.
Gone(a) == a < attempt \/ (a = attempt /\ state # "running")

\* Pending chunks have the last numbers given, in order, and none is empty.
Numbered(s) ==
  /\ Len(s.pending) < s.nextSeq
  /\ \A i \in 1..Len(s.pending) : s.pending[i].seq = Base(s) + i /\ s.pending[i].data # <<>>

\* All that was taken and not dropped: chunk by chunk what is stored, then what is not.
Pieces(s, r) ==
  [n \in 1..(s.nextSeq - 1) |-> IF n <= Len(r) THEN r[n] ELSE s.pending[n - Base(s)].data]

\* ... then what is not sealed.
Stream(s, r) == Joined(Pieces(s, r)) \o s.cur

\* The block at i, or what stands before the first.
At(t, i) == IF i < 1 THEN 0 ELSE t[i]

\* Block after block, or one note and then a block further on.
Seamless(t) ==
  \A i \in 1..Len(t) : t[i] # Marker =>
    IF i = 1 \/ t[i - 1] # Marker THEN t[i] = At(t, i - 1) + 1
    ELSE (i = 2 \/ t[i - 2] # Marker) /\ t[i] > At(t, i - 2) + 1

\* The last block is n, and no note stands at the end.
EndsWith(t, n) == At(t, Len(t)) = n /\ (t # <<>> => n # Marker)

\* The shipper s of an attempt with rows r, whose turn is over if gone, before
\* a server that refuses if ref.
ShipperInv(s, r, gone, ref) ==
  /\ s.out <= MaxOut
  /\ Numbered(s)
  /\ s.nextSeq + Len(s.cur) + s.dropped <= s.out + 1
  /\ s.batch <= Len(s.pending)
  /\ s.stale => gone
  /\ s.rejected => ref
  /\ s.pc = "send" /\ s.reply = "409" => gone
  /\ s.pc = "send" /\ s.reply = "4xx" => ref
  /\ s.pc = "send" /\ s.reply = "204" /\ Kept(s) => Base(s) + s.batch <= Len(r)
  /\ s.result = "nil" =>
       /\ s.closed /\ s.pc = "done" /\ Kept(s)
       /\ s.cur = <<>> /\ s.pending = <<>> /\ s.dropped = 0

\* Where rows and shipper meet: what is not stored is pending, and until the cap
\* cut something the two together are all that was written and not dropped.
MeetInv(s, r, e) ==
  /\ Len(r) < s.nextSeq
  /\ Kept(s) => Base(s) <= Len(r)
  /\ Kept(s) /\ e = 0 => Seamless(Stream(s, r)) /\ EndsWith(Stream(s, r), s.out - s.dropped)

\* The rows r of an attempt with e events.
RowsInv(r, e) ==
  /\ Seamless(ListLogChunks(r))
  /\ LogBytes(r) <= LogCapBytes
  /\ e <= 1
  /\ e = 1 => LogBytes(r) = LogCapBytes
  /\ e = 0 => \A n \in 1..Len(r) : r[n] # <<>>

\* The chunks after lo that s had pending, and the same as it has pending now.
Carries(chunks, lo, s) ==
  \A i \in 1..Len(chunks) :
    /\ chunks[i].seq = lo + i
    /\ lo + i < s.nextSeq
    /\ lo + i > Base(s) => chunks[i] = s.pending[lo + i - Base(s)]

\* A request on its way, however late, holds chunks that have been stored or are
\* pending still, and begins no later than just after what is stored.
WireInv(m, s, r) ==
  /\ m.send <= s.sends /\ s.pc # "off"
  /\ Kept(s) =>
       /\ \E lo \in 0..Len(r) : Carries(m.chunks, lo, s)
       /\ s.pc = "send" /\ m.send = s.sends => m.chunks = SubSeq(s.pending, 1, s.batch)

\* An attempt that was not claimed has no shipper yet.
AttemptInv(a) ==
  /\ ShipperInv(sh[a], rows[a], Gone(a), refusing)
  /\ MeetInv(sh[a], rows[a], events[a])
  /\ RowsInv(rows[a], events[a])
  /\ attempt < a => sh[a].pc = "off"

\* All of it.
ShipInv ==
  /\ ShipTypeOK
  /\ \A a \in Attempts : AttemptInv(a)
  /\ \A m \in wire : WireInv(m, sh[m.attempt], rows[m.attempt])

\* The rows r with e events, sent as w: one event if any is shorter.
CutInv(r, e, w) ==
  /\ Len(w) = Len(r)
  /\ e = 1 <=> \E n \in 1..Len(r) : Len(r[n]) < Len(w[n])

\* What the history adds to it.
CutsInv ==
  /\ whole \in [Attempts -> Seq(Data)]
  /\ \A a \in Attempts : CutInv(rows[a], events[a], whole[a])
=============================================================================

---------------------------- MODULE LogShipProofs ----------------------------
(***************************************************************************)
(* Shipping logs, for any sizes of chunks, batches, buffers and caps, any  *)
(* number of attempts, and any losses, delays and resends: every action    *)
(* keeps ShipInv, the properties follow from it, and the table is one that *)
(* LogTable describes.                                                     *)
(***************************************************************************)
EXTENDS LogShipLemmas

\* Close.
LEMMA CloseKeeps ==
  ASSUME ShipInv, NEW a \in Attempts, Close(a)
  PROVE  ShipInv'
<1> DEFINE s == sh[a]
           t == [s EXCEPT !.closed = TRUE]
<1>1. s \in Shipper /\ rows[a] \in Seq(Data) /\ ShipperInv(s, rows[a], Gone(a), refusing) /\ MeetInv(s, rows[a], events[a])
  BY AttemptFacts, Zenon
<1>2. sh' = [sh EXCEPT ![a] = t] /\ UNCHANGED <<job, table, refusing, wire>> /\ s.pc \in {"idle", "send"} /\ ~s.closed
  BY Zenon DEF Close
<1> HIDE DEF s
<1>3. t \in Shipper
  BY <1>1, Zenon DEF Shipper
<1>4. SameHeld(s, t) /\ t.out = s.out /\ t.dropped = s.dropped /\ t.stale = s.stale /\ t.rejected = s.rejected /\ t.sends = s.sends
  BY <1>1, Zenon DEF Shipper, SameHeld
<1>5. t.pc = s.pc /\ t.batch = s.batch /\ t.reply = s.reply /\ t.result = s.result
  BY <1>1, Zenon DEF Shipper
<1> HIDE DEF t
<1>6. /\ s.pc = "send" /\ s.reply = "409" => Gone(a)
      /\ s.pc = "send" /\ s.reply = "4xx" => refusing
      /\ s.pc = "send" /\ s.reply = "204" /\ Kept(s) => Base(s) + s.batch <= Len(rows[a])
      /\ s.result # "nil"
  BY <1>1, <1>2, Zenon DEF ShipperInv
<1>7. WireKeeps(s, t) /\ ShipperInv(t, rows[a], Gone(a), refusing) /\ MeetInv(t, rows[a], events[a])
  BY <1>1, <1>3, <1>4, <1>5, <1>6, HeldKeeps, Zenon
<1> QED BY <1>2, <1>3, <1>5, <1>7, ShipperStep, Zenon DEF s

\* The context of Close ends.
LEMMA ExpireKeeps ==
  ASSUME ShipInv, NEW a \in Attempts, Expire(a)
  PROVE  ShipInv'
<1> DEFINE s == sh[a]
           t == [s EXCEPT !.expired = TRUE]
<1>1. s \in Shipper /\ rows[a] \in Seq(Data) /\ ShipperInv(s, rows[a], Gone(a), refusing) /\ MeetInv(s, rows[a], events[a])
  BY AttemptFacts, Zenon
<1>2. sh' = [sh EXCEPT ![a] = t] /\ UNCHANGED <<job, table, refusing, wire>> /\ s.pc # "done"
  BY Zenon DEF Expire
<1> HIDE DEF s
<1>3. t \in Shipper
  BY <1>1, Zenon DEF Shipper
<1>4. SameHeld(s, t) /\ t.out = s.out /\ t.dropped = s.dropped /\ t.stale = s.stale /\ t.rejected = s.rejected /\ t.sends = s.sends
  BY <1>1, Zenon DEF Shipper, SameHeld
<1>5. t.pc = s.pc /\ t.batch = s.batch /\ t.reply = s.reply /\ t.result = s.result
  BY <1>1, Zenon DEF Shipper
<1> HIDE DEF t
<1>6. /\ s.pc = "send" /\ s.reply = "409" => Gone(a)
      /\ s.pc = "send" /\ s.reply = "4xx" => refusing
      /\ s.pc = "send" /\ s.reply = "204" /\ Kept(s) => Base(s) + s.batch <= Len(rows[a])
      /\ s.result # "nil"
  BY <1>1, <1>2, Zenon DEF ShipperInv
<1>7. WireKeeps(s, t) /\ ShipperInv(t, rows[a], Gone(a), refusing) /\ MeetInv(t, rows[a], events[a])
  BY <1>1, <1>3, <1>4, <1>5, <1>6, HeldKeeps, Zenon
<1> QED BY <1>2, <1>3, <1>5, <1>7, ShipperStep, Zenon DEF s

\* A transient failure leaves what is held.
LEMMA RetryKeeps ==
  ASSUME NEW s \in Shipper, s.pc = "send", NEW r \in Seq(Data), NEW e, NEW gone, NEW ref,
         ShipperInv(s, r, gone, ref), MeetInv(s, r, e)
  PROVE  LET t == retry(s) IN
         t \in Shipper /\ WireKeeps(s, t) /\ ShipperInv(t, r, gone, ref) /\ MeetInv(t, r, e)
<1> DEFINE t == retry(s)
<1>1. t \in Shipper
  <2>1. 0 \in Nat
    OBVIOUS
  <2> QED BY <2>1, Zenon DEF Shipper, retry
<1>2. SameHeld(s, t) /\ t.out = s.out /\ t.dropped = s.dropped /\ t.stale = s.stale /\ t.rejected = s.rejected /\ t.sends = s.sends
  BY Zenon DEF Shipper, SameHeld, retry
<1>3. t.pc = "idle" /\ t.batch = 0 /\ t.result = s.result /\ t.closed = s.closed
  BY Zenon DEF Shipper, retry
<1> HIDE DEF t
<1>4. t.pc # "send" /\ t.pc # "off" /\ "send" # "done"
  BY <1>3
<1>5. s.result # "nil"
  BY <1>4, Zenon DEF ShipperInv
<1>6. WireKeeps(s, t) /\ ShipperInv(t, r, gone, ref) /\ MeetInv(t, r, e)
  BY <1>1, <1>2, <1>3, <1>4, <1>5, HeldKeeps, Zenon
<1> QED BY <1>1, <1>6, Zenon DEF t

\* No reply in time.
LEMMA TimeoutKeeps ==
  ASSUME ShipInv, NEW a \in Attempts, Timeout(a)
  PROVE  ShipInv'
<1> DEFINE s == sh[a]
           t == retry(s)
<1>1. s \in Shipper /\ rows[a] \in Seq(Data) /\ ShipperInv(s, rows[a], Gone(a), refusing) /\ MeetInv(s, rows[a], events[a])
  BY AttemptFacts, Zenon
<1>2. sh' = [sh EXCEPT ![a] = t] /\ UNCHANGED <<job, table, refusing, wire>> /\ s.pc = "send"
  BY Zenon DEF Timeout
<1> HIDE DEF s
<1>3. WireKeeps(s, t) /\ ShipperInv(t, rows[a], Gone(a), refusing) /\ MeetInv(t, rows[a], events[a]) /\ t \in Shipper
  BY <1>1, <1>2, RetryKeeps, Zenon
<1>4. "send" # "off"
  OBVIOUS
<1> HIDE DEF t
<1> QED BY <1>2, <1>3, <1>4, ShipperStep, Zenon DEF s


\* Close returns.
LEMMA ClosedKeeps ==
  ASSUME ShipInv, NEW a \in Attempts, Closed(a)
  PROVE  ShipInv'
<1> DEFINE s == sh[a]
           t == [s EXCEPT !.pc = "done", !.result = CloseResult(s)]
<1>1. s \in Shipper /\ rows[a] \in Seq(Data) /\ ShipperInv(s, rows[a], Gone(a), refusing) /\ MeetInv(s, rows[a], events[a])
      /\ Numbered(s)
  BY AttemptFacts, Zenon
<1>2. sh' = [sh EXCEPT ![a] = t] /\ UNCHANGED <<job, table, refusing, wire>> /\ s.pc = "idle" /\ s.closed
  BY Zenon DEF Closed
<1> HIDE DEF s
<1>3. CloseResult(s) \in {"ErrStale", "ErrRejected", "unsent", "dropped", "nil"}
  BY Zenon DEF CloseResult
<1>4. t \in Shipper
  BY <1>1, <1>3, Zenon DEF Shipper
<1>5. SameHeld(s, t) /\ t.out = s.out /\ t.dropped = s.dropped /\ t.stale = s.stale /\ t.rejected = s.rejected /\ t.sends = s.sends
  BY <1>1, Zenon DEF Shipper, SameHeld
<1>6. t.pc = "done" /\ t.batch = s.batch /\ t.result = CloseResult(s) /\ t.closed = s.closed
  BY <1>1, Zenon DEF Shipper
<1> HIDE DEF t
<1>7. ASSUME t.result = "nil"
      PROVE  Kept(s) /\ s.cur = <<>> /\ s.pending = <<>> /\ s.dropped = 0
  <2>1. "nil" # "ErrStale" /\ "nil" # "ErrRejected" /\ "nil" # "unsent" /\ "nil" # "dropped"
    OBVIOUS
  <2>2. ~s.stale /\ ~s.rejected /\ ~(Buffered(s) > 0) /\ ~(s.dropped > 0)
    BY <1>6, <1>7, <2>1, Zenon DEF CloseResult
  <2>3. s.cur = <<>> /\ s.pending = <<>>
    BY <1>1, <2>2, BufferedZero, Zenon
  <2>4. s.dropped = 0
    <3>1. s.dropped \in Nat
      BY <1>1, ShipperFacts, Zenon
    <3> QED BY <2>2, <3>1
  <2> QED BY <2>2, <2>3, <2>4, Zenon DEF Kept
<1>8. t.pc # "send" /\ t.pc # "off" /\ "idle" # "off"
  BY <1>6
<1>9. WireKeeps(s, t) /\ ShipperInv(t, rows[a], Gone(a), refusing) /\ MeetInv(t, rows[a], events[a])
  BY <1>1, <1>2, <1>4, <1>5, <1>6, <1>7, <1>8, HeldKeeps, Zenon
<1> QED BY <1>2, <1>4, <1>8, <1>9, ShipperStep, Zenon DEF s

\* The chunks after the first ones.
LEMMA ChunksSub ==
  ASSUME NEW x \in Seq(Chunk), NEW m \in Nat, m # 0, NEW n \in Nat, n <= Len(x), m <= n + 1
  PROVE  /\ SubSeq(x, m, n) \in Seq(Chunk)
         /\ Len(SubSeq(x, m, n)) = n - m + 1
         /\ \A i \in 1..(n - m + 1) : SubSeq(x, m, n)[i] = x[m + i - 1]
<1>1. Len(x) \in Nat /\ \A i \in 1..Len(x) : x[i] \in Chunk
  BY LenProperties, ElementOfSeq, Zenon
<1>2. \A i \in m..n : i \in 1..Len(x)
  BY <1>1
<1>3. m \in Int /\ n \in Int /\ \A i \in m..n : x[i] \in Chunk
  BY <1>1, <1>2
<1>4. /\ SubSeq(x, m, n) \in Seq(Chunk)
      /\ Len(SubSeq(x, m, n)) = IF m <= n THEN n - m + 1 ELSE 0
      /\ \A i \in 1..(n - m + 1) : SubSeq(x, m, n)[i] = x[m + i - 1]
  BY <1>3, SubSeqProperties, SMT
<1>5. ~(m <= n) => n - m + 1 = 0
  OBVIOUS
<1> QED BY <1>4, <1>5, Zenon

\* The shipper after an acknowledgement.
LEMMA AckFields ==
  ASSUME NEW s \in Shipper, Numbered(s), s.batch <= Len(s.pending)
  PROVE  LET t == ack(s) IN
         /\ t \in Shipper /\ Numbered(t) /\ Base(t) = Base(s) + s.batch
         /\ t.nextSeq = s.nextSeq /\ t.cur = s.cur /\ t.out = s.out /\ t.dropped = s.dropped
         /\ t.stale = s.stale /\ t.rejected = s.rejected /\ t.closed = s.closed /\ t.sends = s.sends /\ t.result = s.result
         /\ t.pc = "idle" /\ t.batch = 0
         /\ \A n \in 1..(s.nextSeq - 1) : n > Base(t) => t.pending[n - Base(t)] = s.pending[n - Base(s)]
<1> DEFINE t == ack(s)
           q == SubSeq(s.pending, s.batch + 1, Len(s.pending))
           b == s.batch
           len == Len(s.pending)
<1>1. s.pending \in Seq(Chunk) /\ len \in Nat /\ b \in Nat /\ b <= len /\ s.nextSeq \in Nat /\ len < s.nextSeq
  BY ShipperFacts, Zenon DEF Numbered
<1> HIDE DEF len
<1>2. b + 1 \in Nat /\ b + 1 # 0 /\ len \in Nat /\ len <= len /\ b + 1 <= len + 1 /\ len - (b + 1) + 1 = len - b
      /\ \A i \in 1..(len - b) : (b + 1) + i - 1 = b + i /\ b + i \in 1..len
  BY <1>1
<1>3. /\ q \in Seq(Chunk) /\ Len(q) = len - (b + 1) + 1
      /\ \A i \in 1..(len - (b + 1) + 1) : q[i] = s.pending[(b + 1) + i - 1]
  BY <1>1, <1>2, ChunksSub, Zenon DEF len
<1>4. q \in Seq(Chunk) /\ Len(q) = len - b /\ \A i \in 1..(len - b) : q[i] = s.pending[b + i]
  BY <1>2, <1>3, Zenon
<1>5. t \in Shipper
  <2>1. 0 \in Nat
    OBVIOUS
  <2> QED BY <1>4, <2>1, Zenon DEF Shipper, ack
<1>6. /\ t.nextSeq = s.nextSeq /\ t.cur = s.cur /\ t.out = s.out /\ t.dropped = s.dropped
      /\ t.stale = s.stale /\ t.rejected = s.rejected /\ t.closed = s.closed /\ t.sends = s.sends /\ t.result = s.result
      /\ t.pc = "idle" /\ t.batch = 0 /\ t.pending = q
  BY Zenon DEF Shipper, ack
<1> HIDE DEF t, q, b
<1>7. Base(s) = s.nextSeq - 1 - len
  BY Zenon DEF Base, len
<1>8. Base(t) = s.nextSeq - 1 - (len - b)
  BY <1>4, <1>6, Zenon DEF Base
<1>9. Base(t) = Base(s) + b /\ Base(s) \in Nat /\ Base(s) + len = s.nextSeq - 1
  BY <1>1, <1>7, <1>8
<1>10. Numbered(t)
  <2>1. len - b < s.nextSeq
    BY <1>1
  <2>2. Len(t.pending) < t.nextSeq
    BY <1>4, <1>6, <2>1, Zenon
  <2>3. ASSUME NEW i \in 1..(len - b) PROVE t.pending[i].seq = Base(t) + i /\ t.pending[i].data # <<>>
    <3>1. b + i \in 1..len /\ t.pending[i] = s.pending[b + i]
      BY <1>2, <1>4, <1>6, Zenon
    <3>2. s.pending[b + i].seq = Base(s) + (b + i) /\ s.pending[b + i].data # <<>>
      BY <3>1, Zenon DEF Numbered, len
    <3>3. Base(s) + (b + i) = Base(s) + b + i
      BY <1>1, <1>9
    <3> QED BY <1>9, <3>1, <3>2, <3>3, Zenon
  <2> QED BY <1>4, <1>6, <2>2, <2>3, Zenon DEF Numbered
<1>11. ASSUME NEW n \in 1..(s.nextSeq - 1), n > Base(t) PROVE t.pending[n - Base(t)] = s.pending[n - Base(s)]
  <2>1. n - Base(t) \in 1..(len - b) /\ b + (n - Base(t)) = n - Base(s)
    <3>1. \A x, l, c \in Nat : c <= l =>
             \A i \in 1..(x + l) : i > x + c => i - (x + c) \in 1..(l - c) /\ c + (i - (x + c)) = i - x
      OBVIOUS
    <3>2. n \in 1..(Base(s) + len) /\ n > Base(s) + b
      BY <1>9, <1>11, Zenon
    <3>3. n - (Base(s) + b) \in 1..(len - b) /\ b + (n - (Base(s) + b)) = n - Base(s)
      <4>1. Base(s) \in Nat /\ len \in Nat /\ b \in Nat /\ b <= len
        BY <1>1, <1>9, Zenon
      <4> QED BY <3>1, <3>2, <4>1, Zenon
    <3> QED BY <1>9, <3>3, Zenon
  <2>2. t.pending[n - Base(t)] = s.pending[b + (n - Base(t))]
    BY <1>4, <1>6, <2>1, Zenon
  <2> QED BY <2>1, <2>2, Zenon
<1> QED BY <1>5, <1>6, <1>9, <1>10, <1>11, Zenon DEF t, b


\* Chunks that are stored need not be pending.
LEMMA AckKeeps ==
  ASSUME NEW s \in Shipper, s.pc = "send", s.reply = "204", NEW r \in Seq(Data), NEW e, NEW gone, NEW ref,
         ShipperInv(s, r, gone, ref), MeetInv(s, r, e)
  PROVE  LET t == ack(s) IN
         t \in Shipper /\ WireKeeps(s, t) /\ ShipperInv(t, r, gone, ref) /\ MeetInv(t, r, e)
<1> DEFINE t == ack(s)
<1>1. Numbered(s) /\ s.batch <= Len(s.pending)
  BY Zenon DEF ShipperInv
<1>2. /\ t \in Shipper /\ Numbered(t) /\ Base(t) = Base(s) + s.batch
      /\ t.nextSeq = s.nextSeq /\ t.cur = s.cur /\ t.out = s.out /\ t.dropped = s.dropped
      /\ t.stale = s.stale /\ t.rejected = s.rejected /\ t.sends = s.sends /\ t.result = s.result
      /\ t.pc = "idle" /\ t.batch = 0
      /\ \A n \in 1..(s.nextSeq - 1) : n > Base(t) => t.pending[n - Base(t)] = s.pending[n - Base(s)]
  BY <1>1, AckFields, Zenon
<1> HIDE DEF t
<1>3. Kept(t) <=> Kept(s)
  BY <1>2, Zenon DEF Kept
<1>4. /\ Base(s) \in Nat /\ s.batch \in Nat /\ s.sends \in Nat /\ s.nextSeq \in Nat /\ Base(t) \in Nat
      /\ Len(r) \in Nat /\ Len(t.pending) \in Nat
  BY <1>1, <1>2, BaseNat, ShipperFacts, LenProperties, Zenon
<1>5. t.pc # "send" /\ t.pc # "off" /\ "send" # "done"
  BY <1>2
<1>6. s.result # "nil"
  BY <1>5, Zenon DEF ShipperInv
<1>7. Kept(s) => Base(t) <= Len(r)
  BY <1>2, Zenon DEF ShipperInv
<1>8. WireKeeps(s, t)
  <2>1. s.sends <= s.sends /\ Base(s) <= Base(s) + s.batch /\ s.nextSeq <= s.nextSeq
    BY <1>4
  <2>2. s.sends <= t.sends /\ Base(s) <= Base(t) /\ s.nextSeq <= t.nextSeq
    BY <1>2, <2>1, Zenon
  <2> QED BY <1>2, <1>3, <1>5, <2>2, Zenon DEF WireKeeps
<1>9. ShipperInv(t, r, gone, ref)
  <2>1. t.batch <= Len(t.pending)
    <3>1. 0 <= Len(t.pending)
      BY <1>4
    <3> QED BY <1>2, <3>1, Zenon
  <2>2. t.out <= MaxOut /\ t.nextSeq + Len(t.cur) + t.dropped <= t.out + 1 /\ (t.stale => gone) /\ (t.rejected => ref)
    BY <1>2, Zenon DEF ShipperInv
  <2> QED BY <1>2, <1>5, <1>6, <2>1, <2>2, Zenon DEF ShipperInv
<1>10. ASSUME Kept(s) PROVE Stream(t, r) = Stream(s, r)
  <2>1. \A n \in 1..(s.nextSeq - 1) : ~(n <= Len(r)) => n > Base(t)
    <3>1. Base(t) <= Len(r)
      BY <1>7, <1>10, Zenon
    <3> QED BY <1>4, <3>1
  <2>2. \A n \in 1..(s.nextSeq - 1) :
          (IF n <= Len(r) THEN r[n] ELSE t.pending[n - Base(t)].data)
          = (IF n <= Len(r) THEN r[n] ELSE s.pending[n - Base(s)].data)
    BY <1>2, <2>1, Zenon
  <2>3. Pieces(t, r) = [n \in 1..(s.nextSeq - 1) |-> IF n <= Len(r) THEN r[n] ELSE t.pending[n - Base(t)].data]
    BY <1>2, Zenon DEF Pieces
  <2>4. Pieces(s, r) = [n \in 1..(s.nextSeq - 1) |-> IF n <= Len(r) THEN r[n] ELSE s.pending[n - Base(s)].data]
    BY Zenon DEF Pieces
  <2>5. Pieces(t, r) = Pieces(s, r)
    BY <2>2, <2>3, <2>4, Zenon
  <2> QED BY <1>2, <2>5, Zenon DEF Stream
<1>11. MeetInv(t, r, e)
  BY <1>2, <1>3, <1>7, <1>10, Zenon DEF MeetInv
<1> QED BY <1>2, <1>8, <1>9, <1>11, Zenon DEF t

\* A refused batch is given up.
LEMMA RejectKeeps ==
  ASSUME NEW s \in Shipper, s.pc = "send", s.reply = "4xx", NEW r \in Seq(Data), NEW e, NEW gone, NEW ref,
         ShipperInv(s, r, gone, ref), MeetInv(s, r, e)
  PROVE  LET t == [ack(s) EXCEPT !.rejected = TRUE] IN
         t \in Shipper /\ WireKeeps(s, t) /\ ShipperInv(t, r, gone, ref) /\ MeetInv(t, r, e)
<1> DEFINE u == ack(s)
           t == [u EXCEPT !.rejected = TRUE]
<1>1. Numbered(s) /\ s.batch <= Len(s.pending)
  BY Zenon DEF ShipperInv
<1>2. /\ u \in Shipper /\ Numbered(u)
      /\ u.nextSeq = s.nextSeq /\ u.cur = s.cur /\ u.out = s.out /\ u.dropped = s.dropped
      /\ u.stale = s.stale /\ u.sends = s.sends /\ u.result = s.result
      /\ u.pc = "idle" /\ u.batch = 0
  BY <1>1, AckFields, Zenon
<1> HIDE DEF u
<1>3. t \in Shipper
  BY <1>2, Zenon DEF Shipper
<1>4. SameHeld(u, t)
  BY <1>2, Zenon DEF Shipper, SameHeld
<1>5. /\ t.rejected = TRUE /\ t.nextSeq = s.nextSeq /\ t.cur = s.cur /\ t.out = s.out /\ t.dropped = s.dropped
      /\ t.stale = s.stale /\ t.sends = s.sends /\ t.result = s.result
      /\ t.pc = "idle" /\ t.batch = 0
  BY <1>2, Zenon DEF Shipper
<1> HIDE DEF t
<1>6. Numbered(t) /\ ~Kept(t)
  BY <1>2, <1>4, <1>5, HeldSame, Zenon DEF Kept
<1>7. t.pc # "send" /\ t.pc # "off" /\ "send" # "done"
  BY <1>5
<1>8. s.result # "nil"
  BY <1>7, Zenon DEF ShipperInv
<1>9. WireKeeps(s, t)
  <2>1. s.sends \in Nat
    BY ShipperFacts, Zenon
  <2>2. s.sends <= s.sends
    BY <2>1
  <2> QED BY <1>5, <1>6, <1>7, <2>2, Zenon DEF WireKeeps
<1>10. ShipperInv(t, r, gone, ref)
  <2>1. Len(t.pending) \in Nat
    BY <1>3, ShipperFacts, Zenon
  <2>2. 0 <= Len(t.pending)
    BY <2>1
  <2>3. t.out <= MaxOut /\ t.nextSeq + Len(t.cur) + t.dropped <= t.out + 1 /\ (t.stale => gone) /\ ref
    BY <1>5, Zenon DEF ShipperInv
  <2> QED BY <1>5, <1>6, <1>7, <1>8, <2>2, <2>3, Zenon DEF ShipperInv
<1>11. MeetInv(t, r, e)
  BY <1>5, <1>6, Zenon DEF MeetInv
<1> QED BY <1>3, <1>9, <1>10, <1>11, Zenon DEF t, u

\* A shipper whose attempt is not the job's any more drops all it has.
LEMMA StaleKeeps ==
  ASSUME NEW s \in Shipper, s.pc = "send", s.reply = "409", NEW r \in Seq(Data), NEW e, NEW gone, NEW ref,
         ShipperInv(s, r, gone, ref), MeetInv(s, r, e)
  PROVE  LET t == markStale(s) IN
         t \in Shipper /\ WireKeeps(s, t) /\ ShipperInv(t, r, gone, ref) /\ MeetInv(t, r, e)
<1> DEFINE t == markStale(s)
<1>1. <<>> \in Data /\ <<>> \in Seq(Chunk) /\ Len(<<>>) = 0 /\ 0 \in Nat
  BY EmptySeq DEF Data
<1>2. t \in Shipper
  BY <1>1, Zenon DEF Shipper, markStale
<1>3. /\ t.stale = TRUE /\ t.cur = <<>> /\ t.pending = <<>> /\ t.dropped = 0 /\ t.nextSeq = s.nextSeq
      /\ t.out = s.out /\ t.rejected = s.rejected /\ t.sends = s.sends /\ t.result = s.result
      /\ t.pc = "idle" /\ t.batch = 0
  BY Zenon DEF Shipper, markStale
<1> HIDE DEF t
<1>4. /\ s.nextSeq \in Nat /\ s.nextSeq # 0 /\ Len(s.cur) \in Nat /\ s.dropped \in Nat /\ s.out \in Nat /\ s.sends \in Nat
      /\ s.nextSeq + Len(s.cur) + s.dropped <= s.out + 1
  BY ShipperFacts, Zenon DEF ShipperInv
<1>5. 0 < s.nextSeq /\ s.nextSeq + 0 + 0 <= s.out + 1 /\ s.sends <= s.sends /\ 1..0 = {} /\ 0 <= 0
  <2>1. \A n, k, d, o \in Nat : n # 0 /\ n + k + d <= o + 1 => 0 < n /\ n + 0 + 0 <= o + 1
    OBVIOUS
  <2>2. \A n \in Nat : n <= n /\ 1..0 = {} /\ 0 <= 0
    OBVIOUS
  <2> QED BY <1>4, <2>1, <2>2, Zenon
<1>6. Len(t.pending) = 0 /\ Len(t.cur) = 0
  BY <1>1, <1>3, Zenon
<1>7. Numbered(t) /\ ~Kept(t) /\ t.nextSeq + Len(t.cur) + t.dropped <= t.out + 1 /\ t.batch <= Len(t.pending)
  BY <1>3, <1>5, <1>6, Zenon DEF Numbered, Kept
<1>8. t.pc # "send" /\ t.pc # "off" /\ "send" # "done"
  BY <1>3
<1>9. s.result # "nil" /\ gone /\ (s.rejected => ref) /\ s.out <= MaxOut
  BY <1>8, Zenon DEF ShipperInv
<1>10. WireKeeps(s, t)
  BY <1>3, <1>5, <1>7, <1>8, Zenon DEF WireKeeps
<1>11. ShipperInv(t, r, gone, ref)
  BY <1>3, <1>7, <1>8, <1>9, Zenon DEF ShipperInv
<1>12. MeetInv(t, r, e)
  BY <1>3, <1>7, Zenon DEF MeetInv
<1> QED BY <1>2, <1>10, <1>11, <1>12, Zenon DEF t

\* A reply.
LEMMA ReplyKeeps ==
  ASSUME ShipInv, NEW a \in Attempts, Reply(a)
  PROVE  ShipInv'
<1> DEFINE s == sh[a]
           Good(t) == /\ t \in Shipper /\ WireKeeps(s, t)
                      /\ ShipperInv(t, rows[a], Gone(a), refusing) /\ MeetInv(t, rows[a], events[a])
<1>1. s \in Shipper /\ rows[a] \in Seq(Data) /\ ShipperInv(s, rows[a], Gone(a), refusing) /\ MeetInv(s, rows[a], events[a])
  BY AttemptFacts, Zenon
<1>2. /\ s.pc = "send" /\ s.reply # "none" /\ UNCHANGED <<job, table, refusing, wire>>
      /\ sh' = [sh EXCEPT ![a] = CASE s.reply = "204" -> ack(s)
                                   [] s.reply = "409" -> markStale(s)
                                   [] s.reply = "4xx" -> [ack(s) EXCEPT !.rejected = TRUE]
                                   [] s.reply = "500" -> retry(s)]
  BY Zenon DEF Reply
<1> HIDE DEF s
<1>3. s.reply \in {"204", "409", "4xx", "500"}
  BY <1>1, <1>2, Zenon DEF Shipper
<1>4. PICK t : sh' = [sh EXCEPT ![a] = t] /\ Good(t)
  <2>1. CASE s.reply = "204"
    <3>1. sh' = [sh EXCEPT ![a] = ack(s)]
      BY <1>2, <2>1
    <3>2. Good(ack(s))
      BY <1>1, <1>2, <2>1, AckKeeps, Zenon
    <3> QED BY <3>1, <3>2, Zenon
  <2>2. CASE s.reply = "409"
    <3>1. sh' = [sh EXCEPT ![a] = markStale(s)]
      BY <1>2, <2>2
    <3>2. Good(markStale(s))
      BY <1>1, <1>2, <2>2, StaleKeeps, Zenon
    <3> QED BY <3>1, <3>2, Zenon
  <2>3. CASE s.reply = "4xx"
    <3>1. sh' = [sh EXCEPT ![a] = [ack(s) EXCEPT !.rejected = TRUE]]
      BY <1>2, <2>3
    <3>2. Good([ack(s) EXCEPT !.rejected = TRUE])
      BY <1>1, <1>2, <2>3, RejectKeeps, Zenon
    <3> QED BY <3>1, <3>2, Zenon
  <2>4. CASE s.reply = "500"
    <3>1. sh' = [sh EXCEPT ![a] = retry(s)]
      BY <1>2, <2>4
    <3>2. Good(retry(s))
      BY <1>1, <1>2, <2>4, RetryKeeps, Zenon
    <3> QED BY <3>1, <3>2, Zenon
  <2> QED BY <1>3, <2>1, <2>2, <2>3, <2>4, Zenon
<1>5. "send" # "off"
  OBVIOUS
<1>6. /\ t \in Shipper /\ WireKeeps(s, t)
      /\ ShipperInv(t, rows[a], Gone(a), refusing) /\ MeetInv(t, rows[a], events[a])
  BY <1>4, Zenon
<1> QED BY <1>2, <1>4, <1>5, <1>6, ShipperStep, Zenon DEF s


\* Write.
LEMMA WriteKeeps ==
  ASSUME ShipInv, NEW a \in Attempts, NEW k \in 1..MaxWrite, Write(a, k)
  PROVE  ShipInv'
<1> DEFINE s == sh[a]
           r == rows[a]
           u == Written(s, [i \in 1..k |-> s.out + i])
           t == [u EXCEPT !.out = s.out + k]
           outs == [b \in Attempts |-> sh[b].out]
<1>1. /\ s \in Shipper /\ r \in Seq(Data) /\ Numbered(s) /\ sh \in [Attempts -> Shipper]
      /\ ShipperInv(s, r, Gone(a), refusing) /\ MeetInv(s, r, events[a])
  BY AttemptFacts, Zenon
<1>2. /\ sh' = [sh EXCEPT ![a] = t] /\ UNCHANGED <<job, table, refusing, wire>> /\ ~s.closed
      /\ Total(outs) + k <= MaxOut
  BY Zenon DEF Write
<1>3. k \in Nat /\ k # 0 /\ MaxOut \in Nat
  BY LogShipAssumption
<1>4. s.out \in Nat /\ Len(r) \in Nat /\ s.nextSeq \in Nat /\ s.sends \in Nat
  BY <1>1, ShipperFacts, LenProperties, Zenon
<1>5. s.out + k <= MaxOut
  <2>1. \A b \in Attempts : sh[b].out \in Nat
    BY <1>1, ShipperFacts, Zenon
  <2>2. outs \in [Attempts -> Nat] /\ outs[a] = s.out
    BY <2>1, Zenon
  <2> HIDE DEF outs
  <2>3. Total(outs) \in Nat /\ s.out <= Total(outs)
    BY <2>2, TotalBound, Zenon
  <2> HIDE DEF s
  <2> QED BY <1>2, <1>3, <1>4, <2>3
<1> HIDE DEF s, r, outs
<1>6. s.nextSeq + Len(s.cur) + s.dropped <= s.out + 1 /\ s.batch <= Len(s.pending)
  BY <1>1, Zenon DEF ShipperInv
<1>7. Writing(s, u, k)
  BY <1>1, <1>2, <1>3, <1>5, <1>6, WrittenWriting, Zenon
<1> HIDE DEF u
<1>8. /\ u \in Shipper /\ Numbered(u) /\ SameRest(s, u) /\ Base(u) = Base(s) /\ Begins(s.pending, u.pending)
      /\ s.nextSeq <= u.nextSeq /\ u.nextSeq + Len(u.cur) + u.dropped <= s.out + k + 1
      /\ ~s.stale /\ Base(s) <= Len(r) /\ Len(r) < s.nextSeq
         /\ Seamless(Stream(s, r)) /\ EndsWith(Stream(s, r), s.out - s.dropped)
         => Seamless(Stream(u, r)) /\ EndsWith(Stream(u, r), s.out + k - u.dropped)
  BY <1>1, <1>7, Zenon DEF Writing
<1>9. s.out + k \in Nat
  BY <1>3, <1>4
<1>10. t \in Shipper
  BY <1>8, <1>9, Zenon DEF Shipper
<1>11. SameHeld(u, t) /\ t.out = s.out + k /\ t.dropped = u.dropped
  BY <1>8, Zenon DEF Shipper, SameHeld
<1>12. /\ t.closed = u.closed /\ t.stale = u.stale /\ t.rejected = u.rejected
       /\ t.pc = u.pc /\ t.batch = u.batch /\ t.sends = u.sends /\ t.reply = u.reply /\ t.result = u.result
  BY <1>8, Zenon DEF Shipper
<1> HIDE DEF t
<1>13. /\ t.closed = s.closed /\ t.stale = s.stale /\ t.rejected = s.rejected
       /\ t.pc = s.pc /\ t.batch = s.batch /\ t.sends = s.sends /\ t.reply = s.reply /\ t.result = s.result
  BY <1>8, <1>12, Zenon DEF SameRest
<1>14. Base(t) = Base(s) /\ Numbered(t) /\ Stream(t, r) = Stream(u, r)
  BY <1>8, <1>11, HeldSame, Zenon
<1>15. t.nextSeq = u.nextSeq /\ t.pending = u.pending /\ t.cur = u.cur
  BY <1>11, Zenon DEF SameHeld
<1>16. Begins(s.pending, t.pending) /\ s.nextSeq <= t.nextSeq
  BY <1>8, <1>15, Zenon
<1>17. WireKeeps(s, t)
  BY <1>1, <1>6, <1>10, <1>13, <1>14, <1>16, MoreKeeps, Zenon
<1>18. Kept(t) <=> Kept(s)
  BY <1>13, Zenon DEF Kept
<1>19. ShipperInv(t, r, Gone(a), refusing)
  <2>1. t.batch <= Len(t.pending)
    <3>1. s.batch \in Nat /\ Len(s.pending) \in Nat /\ Len(t.pending) \in Nat /\ Len(s.pending) <= Len(t.pending)
      BY <1>1, <1>10, <1>16, ShipperFacts, Zenon DEF Begins
    <3>2. s.batch <= Len(t.pending)
      BY <1>6, <3>1
    <3> QED BY <1>13, <3>2, Zenon
  <2>2. t.out <= MaxOut /\ t.nextSeq + Len(t.cur) + t.dropped <= t.out + 1
    BY <1>5, <1>8, <1>11, <1>15, Zenon
  <2>3. /\ (t.stale => Gone(a)) /\ (t.rejected => refusing)
        /\ (t.pc = "send" /\ t.reply = "409" => Gone(a)) /\ (t.pc = "send" /\ t.reply = "4xx" => refusing)
        /\ (t.pc = "send" /\ t.reply = "204" /\ Kept(t) => Base(t) + t.batch <= Len(r))
        /\ t.result # "nil"
    BY <1>1, <1>2, <1>13, <1>14, <1>18, Zenon DEF ShipperInv
  <2> QED BY <1>14, <2>1, <2>2, <2>3, Zenon DEF ShipperInv
<1>20. MeetInv(t, r, events[a])
  <2>1. Len(r) < s.nextSeq
    BY <1>1, Zenon DEF MeetInv
  <2>2. Len(r) < t.nextSeq
    <3>1. t.nextSeq \in Nat
      BY <1>10, ShipperFacts, Zenon
    <3> QED BY <1>4, <1>16, <2>1, <3>1
  <2>3. Kept(t) => Base(t) <= Len(r)
    BY <1>1, <1>14, <1>18, Zenon DEF MeetInv
  <2>4. ASSUME Kept(t), events[a] = 0 PROVE Seamless(Stream(t, r)) /\ EndsWith(Stream(t, r), t.out - t.dropped)
    <3>1. ~s.stale /\ Base(s) <= Len(r) /\ Seamless(Stream(s, r)) /\ EndsWith(Stream(s, r), s.out - s.dropped)
      BY <1>1, <1>18, <2>4, Zenon DEF MeetInv, Kept
    <3>2. Seamless(Stream(u, r)) /\ EndsWith(Stream(u, r), s.out + k - u.dropped)
      BY <1>8, <2>1, <3>1, Zenon
    <3>3. t.out - t.dropped = s.out + k - u.dropped
      <4>1. t.out = s.out + k /\ t.dropped = u.dropped /\ s.out \in Nat /\ u.dropped \in Nat
        BY <1>4, <1>8, <1>11, ShipperFacts, Zenon
      <4> QED BY <1>3, <4>1
    <3>4. EndsWith(Stream(u, r), t.out - t.dropped)
      BY <3>2, <3>3, Zenon
    <3> QED BY <1>14, <3>2, <3>4, Zenon
  <2> QED BY <2>2, <2>3, <2>4, Zenon DEF MeetInv
<1> QED BY <1>2, <1>10, <1>13, <1>17, <1>19, <1>20, ShipperStep, Zenon DEF s, r

\* All that is buffered is sealed.
LEMMA SealedSealing ==
  ASSUME NEW s \in Shipper, Numbered(s)
  PROVE  Sealing(s, Sealed(s))
<1>1. CASE s.cur = <<>>
  BY <1>1, SealingRefl, Zenon DEF Sealed
<1>2. CASE s.cur # <<>>
  <2>1. s.cur \in Data
    BY ShipperFacts, Zenon
  <2>2. Len(s.cur) \in Nat \ {0}
    BY <1>2, <2>1, EmptySeq, Zenon DEF Data
  <2>3. Len(s.cur) \in 1..Len(s.cur)
    BY <2>2
  <2> QED BY <1>2, <2>3, SealSealing, Zenon DEF Sealed
<1> QED BY <1>1, <1>2, Zenon

\* A batch is sent.
LEMMA DrainKeeps ==
  ASSUME ShipInv, NEW a \in Attempts, drain(a)
  PROVE  ShipInv'
<1> DEFINE s == sh[a]
           r == rows[a]
           u == Sealed(s)
<1>1. /\ s \in Shipper /\ r \in Seq(Data) /\ Numbered(s) /\ events[a] \in Nat
      /\ ShipperInv(s, r, Gone(a), refusing) /\ MeetInv(s, r, events[a]) /\ RowsInv(r, events[a])
  BY AttemptFacts, Zenon
<1>2. PICK n \in BatchLens(u) :
        /\ sh' = [sh EXCEPT ![a] = [u EXCEPT !.pc = "send", !.batch = n, !.reply = "none", !.sends = @ + 1]]
        /\ wire' = wire \cup {[attempt |-> a, send |-> u.sends + 1, chunks |-> SubSeq(u.pending, 1, n)]}
        /\ s.pc = "idle"
        /\ UNCHANGED <<job, table, refusing>>
  BY Zenon DEF drain
<1> DEFINE m == [attempt |-> a, send |-> u.sends + 1, chunks |-> SubSeq(u.pending, 1, n)]
           t == [u EXCEPT !.pc = "send", !.batch = n, !.reply = "none", !.sends = u.sends + 1]
<1>3. sh' = [sh EXCEPT ![a] = t] /\ wire' = wire \cup {m}
  BY <1>2, Zenon
<1>4. Sealing(s, u)
  BY <1>1, SealedSealing, Zenon
<1>5. n \in 1..Len(u.pending)
  BY <1>2, Zenon DEF BatchLens
<1> HIDE DEF s, r, u
<1>6. /\ u \in Shipper /\ Numbered(u) /\ SameRest(s, u) /\ u.dropped = s.dropped
      /\ Base(u) = Base(s) /\ Begins(s.pending, u.pending) /\ s.nextSeq <= u.nextSeq
      /\ u.nextSeq + Len(u.cur) <= s.nextSeq + Len(s.cur)
      /\ Base(s) <= Len(r) /\ Len(r) < s.nextSeq => Stream(u, r) = Stream(s, r)
  BY <1>1, <1>4, Zenon DEF Sealing
<1>7. /\ u.sends \in Nat /\ Len(u.pending) \in Nat /\ u.nextSeq \in Nat /\ Len(u.cur) \in Nat /\ u.pending \in Seq(Chunk)
      /\ s.nextSeq \in Nat /\ Len(s.cur) \in Nat /\ s.dropped \in Nat /\ s.out \in Nat /\ Len(r) \in Nat
      /\ Base(s) \in Nat /\ Base(u) \in Nat /\ Base(u) + Len(u.pending) = u.nextSeq - 1
  BY <1>1, <1>6, ShipperFacts, BaseNat, LenProperties, Zenon
<1>8. u.sends + 1 \in Nat /\ n \in Nat /\ n <= Len(u.pending)
  BY <1>5, <1>7
<1>9. t \in Shipper
  BY <1>6, <1>8, Zenon DEF Shipper
<1>10. /\ SameHeld(u, t) /\ t.out = u.out /\ t.dropped = u.dropped /\ t.stale = u.stale /\ t.rejected = u.rejected
       /\ t.closed = u.closed
  BY <1>6, Zenon DEF Shipper, SameHeld
<1>11. t.result = u.result /\ t.pc = "send" /\ t.batch = n /\ t.reply = "none" /\ t.sends = u.sends + 1
  BY <1>6, Zenon DEF Shipper
<1> HIDE DEF t
<1>12. t.out = s.out /\ t.dropped = s.dropped /\ t.stale = s.stale /\ t.rejected = s.rejected /\ t.result = s.result /\ t.sends = s.sends + 1
  BY <1>6, <1>10, <1>11, Zenon DEF SameRest
<1>13. t.nextSeq = u.nextSeq /\ t.pending = u.pending /\ t.cur = u.cur
  BY <1>10, Zenon DEF SameHeld
<1>14. Base(t) = Base(s) /\ Numbered(t) /\ Stream(t, r) = Stream(u, r)
  BY <1>6, <1>10, HeldSame, Zenon
<1>15. Begins(s.pending, t.pending) /\ s.nextSeq <= t.nextSeq /\ s.batch <= Len(s.pending)
  BY <1>1, <1>6, <1>13, Zenon DEF ShipperInv
<1>16. WireKeeps(s, t)
  BY <1>1, <1>9, <1>11, <1>12, <1>14, <1>15, MoreKeeps, Zenon
<1>17. Kept(t) <=> Kept(s)
  BY <1>12, Zenon DEF Kept
<1>18. ShipperInv(t, r, Gone(a), refusing)
  <2>1. s.nextSeq + Len(s.cur) + s.dropped <= s.out + 1 /\ s.out <= MaxOut
    BY <1>1, Zenon DEF ShipperInv
  <2>2. /\ u.nextSeq \in Nat /\ Len(u.cur) \in Nat /\ s.nextSeq \in Nat /\ Len(s.cur) \in Nat
        /\ s.dropped \in Nat /\ s.out \in Nat
        /\ u.nextSeq + Len(u.cur) <= s.nextSeq + Len(s.cur) /\ s.nextSeq + Len(s.cur) + s.dropped <= s.out + 1
    BY <1>6, <1>7, <2>1, Zenon
  <2>3. u.nextSeq + Len(u.cur) + s.dropped <= s.out + 1
    <3>1. \A x, y, v, w, d, o \in Nat : v + w <= x + y /\ x + y + d <= o + 1 => v + w + d <= o + 1
      OBVIOUS
    <3> QED BY <2>2, <3>1, Zenon
  <2>4. t.nextSeq + Len(t.cur) + t.dropped <= t.out + 1 /\ t.batch <= Len(t.pending) /\ t.out <= MaxOut
    BY <1>8, <1>11, <1>12, <1>13, <2>1, <2>3, Zenon
  <2>5. "none" # "409" /\ "none" # "4xx" /\ "none" # "204" /\ "idle" # "done"
    OBVIOUS
  <2>6. (t.stale => Gone(a)) /\ (t.rejected => refusing) /\ t.result # "nil"
    BY <1>1, <1>2, <1>12, <2>5, Zenon DEF ShipperInv, s
  <2> QED BY <1>11, <1>14, <2>4, <2>5, <2>6, Zenon DEF ShipperInv
<1>19. MeetInv(t, r, events[a])
  <2>1. Len(r) < s.nextSeq /\ (Kept(s) => Base(s) <= Len(r))
    BY <1>1, Zenon DEF MeetInv
  <2>2. Len(r) < u.nextSeq
    BY <1>6, <1>7, <2>1
  <2>3. Kept(s) => Stream(t, r) = Stream(s, r)
    BY <1>6, <1>14, <2>1, Zenon
  <2> QED BY <1>1, <1>12, <1>13, <1>14, <1>17, <2>1, <2>2, <2>3, Zenon DEF MeetInv
<1>20. m \in Message /\ m.attempt = a /\ m.send = t.sends /\ m.chunks = SubSeq(t.pending, 1, n)
  <2>1. SubSeq(u.pending, 1, n) \in Seq(Chunk)
    <3>1. 1 \in Nat /\ 1 # 0 /\ 1 <= n + 1
      BY <1>8
    <3> QED BY <1>7, <1>8, <3>1, ChunksSub, Zenon
  <2> QED BY <1>8, <1>11, <1>13, <2>1, Zenon DEF Message
<1> HIDE DEF m
<1>21. ASSUME Kept(t) PROVE \E lo \in 0..Len(r) : Carries(m.chunks, lo, t)
  <2>1. Base(t) <= Len(r)
    BY <1>19, <1>21, Zenon DEF MeetInv
  <2>2. Base(t) \in Nat /\ Base(t) + Len(t.pending) = t.nextSeq - 1 /\ t.nextSeq \in Nat /\ t.pending \in Seq(Chunk)
    BY <1>9, <1>14, BaseNat, ShipperFacts, Zenon
  <2>3. Base(t) \in 0..Len(r)
    BY <1>7, <2>1, <2>2
  <2>4. n <= Len(t.pending) /\ Len(t.pending) \in Nat
    BY <1>7, <1>8, <1>13, Zenon
  <2>5. m.chunks \in Seq(Chunk) /\ Len(m.chunks) = n /\ \A i \in 1..n : m.chunks[i] = t.pending[i]
    <3>1. 1 \in Nat /\ 1 # 0 /\ 1 <= n + 1 /\ n - 1 + 1 = n /\ \A i \in 1..n : 1 + i - 1 = i
      BY <1>8
    <3> DEFINE x == SubSeq(t.pending, 1, n)
    <3>2. x \in Seq(Chunk) /\ Len(x) = n - 1 + 1 /\ \A i \in 1..(n - 1 + 1) : x[i] = t.pending[1 + i - 1]
      BY <1>8, <2>2, <2>4, <3>1, ChunksSub, Zenon
    <3>3. m.chunks = x
      BY <1>20, Zenon
    <3> HIDE DEF x
    <3> QED BY <3>1, <3>2, <3>3, Zenon
  <2>6. ASSUME NEW i \in 1..n
        PROVE  /\ m.chunks[i].seq = Base(t) + i
               /\ Base(t) + i < t.nextSeq
               /\ Base(t) + i > Base(t) => m.chunks[i] = t.pending[Base(t) + i - Base(t)]
    <3>1. i \in 1..Len(t.pending) /\ Base(t) + i < t.nextSeq /\ Base(t) + i - Base(t) = i
      BY <1>8, <2>2, <2>4
    <3>2. t.pending[i].seq = Base(t) + i
      BY <1>14, <3>1, Zenon DEF Numbered
    <3> QED BY <2>5, <3>1, <3>2, Zenon
  <2>7. Carries(m.chunks, Base(t), t)
    BY <2>5, <2>6, Zenon DEF Carries
  <2> QED BY <2>3, <2>7, Zenon
<1>22. WireInv(m, t, r)
  <2>1. m.send <= t.sends
    <3>1. u.sends + 1 <= u.sends + 1
      BY <1>8
    <3> QED BY <1>11, <1>20, <3>1, Zenon
  <2>2. "send" # "off"
    OBVIOUS
  <2> QED BY <1>11, <1>20, <1>21, <2>1, <2>2, Zenon DEF WireInv
<1>23. PICK e, w : e = events[a] /\ w = {m}
  BY Zenon
<1>24. \A x \in w : x \in Message /\ x.attempt = a /\ WireInv(x, t, r)
  BY <1>20, <1>22, <1>23, Zenon
<1>25. UNCHANGED <<state, attempt, refusing>> /\ wire' \subseteq wire \cup w
  BY <1>2, <1>3, <1>23, Zenon DEF job
<1>26. rows' = [rows EXCEPT ![a] = r] /\ events' = [events EXCEPT ![a] = e]
  <2>1. rows \in [Attempts -> Seq(Data)] /\ events \in [Attempts -> Nat] /\ rows' = rows /\ events' = events
    BY <1>2, Zenon DEF ShipInv, ShipTypeOK, table
  <2> QED BY <1>23, <2>1, Zenon DEF r
<1>27. Len(rows[a]) <= Len(r)
  BY <1>7 DEF r
<1>28. e \in Nat /\ MeetInv(t, r, e) /\ RowsInv(r, e)
  BY <1>1, <1>19, <1>23, Zenon
<1>29. sh[a].pc # "off" /\ WireKeeps(sh[a], t)
  BY <1>2, <1>16 DEF s
<1> QED BY <1>1, <1>3, <1>9, <1>18, <1>24, <1>25, <1>26, <1>27, <1>28, <1>29, AttemptStep, Zenon


\* A step of the job or of the server's mood leaves what was sent and stored.
LEMMA JobStep ==
  ASSUME ShipInv, state' \in {"queued", "running", "over"}, attempt' \in 0..MaxAttempts, attempt <= attempt',
         refusing' \in BOOLEAN, refusing => refusing', UNCHANGED <<table, sh, wire>>,
         \A a \in Attempts : Gone(a) => Gone(a)'
  PROVE  ShipInv'
<1>1. rows' = rows /\ events' = events /\ sh' = sh /\ wire' = wire
  BY Zenon DEF table
<1>2. ShipTypeOK'
  BY <1>1, Zenon DEF ShipInv, ShipTypeOK
<1>3. ASSUME NEW a \in Attempts PROVE AttemptInv(a)'
  <2> DEFINE s == sh[a]
             r == rows[a]
  <2>1. /\ ShipperInv(s, r, Gone(a), refusing) /\ MeetInv(s, r, events[a])
        /\ RowsInv(r, events[a]) /\ (attempt < a => s.pc = "off")
    BY Zenon DEF ShipInv, AttemptInv
  <2>2. Gone(a) => Gone(a)'
    BY Zenon
  <2>3. attempt' < a => attempt < a
    <3>1. attempt \in Nat /\ attempt' \in Nat /\ a \in Nat
      <4>1. attempt \in 0..MaxAttempts /\ attempt' \in 0..MaxAttempts /\ a \in 1..MaxAttempts /\ MaxAttempts \in Nat
        BY LogShipAssumption DEF ShipInv, ShipTypeOK, Attempts
      <4> QED BY <4>1
    <3> QED BY <3>1
  <2> DEFINE g == Gone(a)
             h == Gone(a)'
  <2>4. ShipperInv(s, r, g, refusing) /\ (g => h)
    BY <2>1, <2>2, Zenon
  <2> HIDE DEF s, r, g, h
  <2>5. ShipperInv(s, r, h, refusing')
    BY <2>4, Zenon DEF ShipperInv
  <2>6. /\ ShipperInv(sh'[a], rows'[a], Gone(a)', refusing') /\ MeetInv(sh'[a], rows'[a], events'[a])
        /\ RowsInv(rows'[a], events'[a]) /\ (attempt' < a => sh'[a].pc = "off")
    BY <1>1, <2>1, <2>3, <2>5, Zenon DEF s, r, h
  <2> QED BY <2>6, Zenon DEF AttemptInv
<1>4. \A m \in wire' : WireInv(m, sh'[m.attempt], rows'[m.attempt])
  BY <1>1, Zenon DEF ShipInv
<1> QED BY <1>2, <1>3, <1>4, Zenon DEF ShipInv

\* The job is lost, or reported: attempts that were over stay so.
LEMMA LoseKeeps ==
  ASSUME ShipInv, state' = "over" \/ state' = "queued", UNCHANGED <<attempt, table, refusing, sh, wire>>
  PROVE  ShipInv'
<1>1. attempt \in 0..MaxAttempts /\ refusing \in BOOLEAN /\ MaxAttempts \in Nat
  BY LogShipAssumption DEF ShipInv, ShipTypeOK
<1>2. attempt' = attempt /\ refusing' = refusing /\ UNCHANGED <<table, sh, wire>>
  BY Zenon
<1>3. attempt <= attempt'
  BY <1>1, <1>2
<1>4. "over" # "running" /\ "queued" # "running"
  OBVIOUS
<1>5. state' \in {"queued", "running", "over"} /\ state' # "running"
  BY <1>4, Zenon
<1>6. \A a \in Attempts : Gone(a) => Gone(a)'
  BY <1>2, <1>5, Zenon DEF Gone
<1>7. attempt' \in 0..MaxAttempts /\ refusing' \in BOOLEAN /\ (refusing => refusing')
  BY <1>1, <1>2
<1> QED BY <1>2, <1>3, <1>5, <1>6, <1>7, JobStep, Zenon

\* The server refuses.
LEMMA RefuseKeeps ==
  ASSUME ShipInv, Refuse
  PROVE  ShipInv'
<1>1. attempt \in 0..MaxAttempts /\ MaxAttempts \in Nat /\ state \in {"queued", "running", "over"}
  BY LogShipAssumption DEF ShipInv, ShipTypeOK
<1>2. attempt' = attempt /\ state' = state /\ refusing' = TRUE /\ UNCHANGED <<table, sh, wire>>
  BY Zenon DEF Refuse, job
<1>3. attempt <= attempt
  BY <1>1
<1>4. \A a \in Attempts : Gone(a) => Gone(a)'
  BY <1>2, Zenon DEF Gone
<1>5. /\ attempt' \in 0..MaxAttempts /\ attempt <= attempt' /\ refusing' \in BOOLEAN /\ (refusing => refusing')
      /\ state' \in {"queued", "running", "over"}
  BY <1>1, <1>2, <1>3, Zenon
<1> QED BY <1>2, <1>4, <1>5, JobStep, Zenon

\* The next attempt begins.
LEMMA ClaimKeeps ==
  ASSUME ShipInv, Claim
  PROVE  ShipInv'
<1> DEFINE a == attempt + 1
           s == sh[a]
           t == [s EXCEPT !.pc = "idle"]
<1>1. /\ attempt \in Nat /\ a \in Attempts /\ attempt < a /\ a \in 0..MaxAttempts /\ attempt <= a
      /\ \A b \in Attempts : b < attempt \/ b = attempt => b < a
      /\ \A b \in Attempts : a < b => attempt < b /\ b # a
      /\ MaxAttempts \in Nat
  <2>1. attempt \in 0..MaxAttempts /\ MaxAttempts \in Nat /\ attempt < MaxAttempts
    BY LogShipAssumption DEF ShipInv, ShipTypeOK, Claim
  <2> QED BY <2>1 DEF Attempts
<1>2. /\ state' = "running" /\ attempt' = a /\ sh' = [sh EXCEPT ![a] = t] /\ rows' = rows /\ events' = events
      /\ refusing' = refusing /\ wire' = wire
  BY Zenon DEF Claim, table
<1> HIDE DEF a
<1>3. /\ s \in Shipper /\ rows[a] \in Seq(Data) /\ Numbered(s) /\ sh \in [Attempts -> Shipper]
      /\ ShipperInv(s, rows[a], Gone(a), refusing) /\ MeetInv(s, rows[a], events[a])
  BY <1>1, AttemptFacts, Zenon
<1>4. s.pc = "off"
  BY <1>1, Zenon DEF ShipInv, AttemptInv
<1> HIDE DEF s
<1>5. t \in Shipper
  BY <1>3, Zenon DEF Shipper
<1>6. SameHeld(s, t) /\ t.out = s.out /\ t.dropped = s.dropped /\ t.stale = s.stale /\ t.rejected = s.rejected /\ t.sends = s.sends
  BY <1>3, Zenon DEF Shipper, SameHeld
<1>7. t.pc = "idle" /\ t.batch = s.batch /\ t.result = s.result
  BY <1>3, Zenon DEF Shipper
<1> HIDE DEF t
<1>8. "idle" # "send" /\ "off" # "done" /\ "idle" # "off"
  OBVIOUS
<1>9. s.result # "nil" /\ t.pc # "send" /\ t.pc # "off"
  BY <1>3, <1>4, <1>7, <1>8, Zenon DEF ShipperInv
<1>10. WireKeeps(s, t) /\ ShipperInv(t, rows[a], Gone(a), refusing) /\ MeetInv(t, rows[a], events[a])
  BY <1>3, <1>5, <1>6, <1>7, <1>9, HeldKeeps, Zenon
<1>11. \A b \in Attempts : Gone(b) => Gone(b)'
  BY <1>1, <1>2, Zenon DEF Gone
<1>12. sh' \in [Attempts -> Shipper] /\ sh'[a] = t /\ \A b \in Attempts : b # a => sh'[b] = sh[b]
  BY <1>1, <1>2, <1>3, <1>5, Zenon
<1>13. ShipTypeOK'
  BY <1>1, <1>2, <1>12, Zenon DEF ShipInv, ShipTypeOK
<1>14. ASSUME NEW b \in Attempts PROVE AttemptInv(b)'
  <2> DEFINE g == Gone(b)
             h == Gone(b)'
             x == sh'[b]
  <2>1. ShipperInv(x, rows[b], g, refusing) /\ MeetInv(x, rows[b], events[b]) /\ RowsInv(rows[b], events[b])
    <3>1. /\ ShipperInv(sh[b], rows[b], Gone(b), refusing) /\ MeetInv(sh[b], rows[b], events[b])
          /\ RowsInv(rows[b], events[b])
      BY AttemptFacts, Zenon
    <3>2. CASE b = a
      BY <1>10, <1>12, <3>1, <3>2, Zenon
    <3>3. CASE b # a
      BY <1>12, <3>1, <3>3, Zenon
    <3> QED BY <3>2, <3>3, Zenon
  <2>2. g => h
    BY <1>11, Zenon
  <2>3. a < b => x.pc = "off"
    <3>1. a < b => attempt < b /\ b # a
      BY <1>1, Zenon
    <3>2. attempt < b => sh[b].pc = "off"
      BY Zenon DEF ShipInv, AttemptInv
    <3> QED BY <1>12, <3>1, <3>2, Zenon
  <2> HIDE DEF g, h, x
  <2>4. ShipperInv(x, rows[b], h, refusing)
    BY <2>1, <2>2, Zenon DEF ShipperInv
  <2> QED BY <1>2, <2>1, <2>3, <2>4, Zenon DEF AttemptInv, h, x
<1>15. ASSUME NEW m \in wire' PROVE WireInv(m, sh'[m.attempt], rows'[m.attempt])
  <2>1. m \in wire /\ m \in Message /\ m.attempt \in Attempts
    BY <1>2, Zenon DEF ShipInv, ShipTypeOK, Message
  <2>2. WireInv(m, sh[m.attempt], rows[m.attempt])
    BY <2>1, Zenon DEF ShipInv
  <2>3. CASE m.attempt = a
    <3>1. WireInv(m, s, rows[a])
      BY <2>2, <2>3, Zenon DEF s
    <3>2. Numbered(t) /\ Len(rows[a]) \in Nat
      BY <1>3, <1>10, LenProperties, Zenon DEF ShipperInv
    <3>3. Len(rows[a]) <= Len(rows[a])
      BY <3>2
    <3>4. WireInv(m, t, rows[a])
      BY <1>3, <1>5, <1>10, <2>1, <3>1, <3>2, <3>3, WireMore, Zenon
    <3> QED BY <1>2, <1>12, <2>3, <3>4, Zenon
  <2>4. CASE m.attempt # a
    BY <1>2, <1>12, <2>1, <2>2, <2>4, Zenon
  <2> QED BY <2>3, <2>4, Zenon
<1> QED BY <1>13, <1>14, <1>15, Zenon DEF ShipInv

-----------------------------------------------------------------------------
\* What the transaction writes once it has handled the chunks.
Commits(a, chunks, x) ==
  /\ rows' = [rows EXCEPT ![a] = x.rows]
  /\ events' = [events EXCEPT ![a] = IF NotesLoss(a, x.lost) THEN @ + 1 ELSE @]
  /\ whole' = [whole EXCEPT ![a] = Originals(x.rows, @, chunks)]

\* The transaction.
LEMMA AppendStores ==
  ASSUME NEW a \in Attempts, NEW s \in Shipper, Numbered(s), rows[a] \in Seq(Data), Base(s) <= Len(rows[a]), Len(rows[a]) < s.nextSeq,
         s.nextSeq <= MaxOut + 1, RowsInv(rows[a], events[a]),
         NEW chunks \in Seq(Chunk), NEW lo \in 0..Len(rows[a]), Carries(chunks, lo, s), AppendLogs(a, chunks)
  PROVE  \E x : /\ Storing(x, Len(chunks), lo, s, rows[a], events[a])
                /\ Commits(a, chunks, x)
<1> DEFINE N == Len(chunks)
           x0 == [rows |-> rows[a], lost |-> FALSE]
           Done(x, n) == Storing(x, n, lo, s, rows[a], events[a])
           Ins(x, n) == InsertLogChunk(x, chunks[n])
           step == [n \in 1..N |-> [x \in Accs |-> IF Ins(x, n) \in Accs THEN Ins(x, n) ELSE x]]
           Rec(f) == f = [n \in 0..N |-> IF n = 0 THEN x0 ELSE Ins(f[n - 1], n)]
           acc == (CHOOSE f : Rec(f))[N]
<1>1. Commits(a, chunks, acc)
  BY Zenon DEF AppendLogs, Commits
<1>2. N \in Nat /\ N \in 0..N /\ 0 \in 0..N
  <2>1. N \in Nat
    BY LenProperties, Zenon
  <2> HIDE DEF N
  <2> QED BY <2>1
<1>3. lo \in Nat
  <2>1. Len(rows[a]) \in Nat
    BY LenProperties, Zenon
  <2> QED BY <2>1
<1>4. Done(x0, 0) /\ x0 \in Accs
  <2>1. Done(x0, 0)
    BY StoringInit, Zenon
  <2> QED BY <2>1, Zenon DEF Storing
<1>5. ASSUME NEW n \in 1..N, NEW x, Done(x, n - 1) PROVE Done(Ins(x, n), n) /\ Ins(x, n) \in Accs /\ x \in Accs
  <2>1. Done(Ins(x, n), n)
    BY <1>3, <1>5, StoringStep, Zenon
  <2> QED BY <1>5, <2>1, Zenon DEF Storing
<1> HIDE DEF N, x0, Done, Ins
<1>6. step \in [1..N -> [Accs -> Accs]]
  BY Zenon
<1>7. PICK g \in [0..N -> Accs] : Follows(g, x0, N, step)
  <2> HIDE DEF step
  <2> QED BY <1>2, <1>4, <1>6, Recursion, Zenon
<1>8. \A n \in 1..N : n - 1 \in 0..N /\ n \in 0..N /\ n # 0
  BY <1>2
<1>9. g[0] = x0 /\ \A n \in 1..N : g[n] = IF Ins(g[n - 1], n) \in Accs THEN Ins(g[n - 1], n) ELSE g[n - 1]
  <2>1. g[0] = x0 /\ \A n \in 1..N : g[n] = step[n][g[n - 1]] /\ g[n - 1] \in Accs
    BY <1>7, <1>8, Zenon DEF Follows
  <2> QED BY <2>1, Zenon
<1> DEFINE T == {n \in 0..N : Done(g[n], n)}
<1>10. 0 \in T
  BY <1>2, <1>4, <1>9, Zenon
<1>11. ASSUME NEW n \in 1..N, n - 1 \in T PROVE n \in T
  <2>1. Done(g[n - 1], n - 1)
    BY <1>11, Zenon
  <2>2. Done(Ins(g[n - 1], n), n) /\ Ins(g[n - 1], n) \in Accs
    BY <1>5, <2>1, Zenon
  <2>3. g[n] = Ins(g[n - 1], n)
    BY <1>9, <2>2, Zenon
  <2> QED BY <1>8, <2>2, <2>3, Zenon
<1>12. \A n \in 0..N : n \in T
  <2> HIDE DEF T
  <2> QED BY <1>2, <1>10, <1>11, UpTo, Zenon
<1>13. \A n \in 1..N : g[n] = Ins(g[n - 1], n)
  <2> SUFFICES ASSUME NEW n \in 1..N PROVE g[n] = Ins(g[n - 1], n)
    BY Zenon
  <2>1. Done(g[n - 1], n - 1)
    BY <1>8, <1>12, Zenon
  <2>2. Ins(g[n - 1], n) \in Accs
    BY <1>5, <2>1, Zenon
  <2> QED BY <1>9, <2>2, Zenon
<1>14. Rec(g)
  <2>1. \A n \in 0..N : n # 0 => n \in 1..N
    BY <1>2
  <2>2. \A n \in 0..N : g[n] = IF n = 0 THEN x0 ELSE Ins(g[n - 1], n)
    BY <1>9, <1>13, <2>1, Zenon
  <2>3. g = [n \in 0..N |-> g[n]]
    BY <1>7, Zenon
  <2> QED BY <2>2, <2>3, Zenon
<1> DEFINE f == CHOOSE h : Rec(h)
<1>15. Rec(f)
  BY <1>14, Zenon
<1> HIDE DEF f
<1>16. \A n \in 0..N : f[n] = IF n = 0 THEN x0 ELSE Ins(f[n - 1], n)
  BY <1>15, Zenon
<1> DEFINE U == {n \in 0..N : f[n] = g[n]}
<1>17. 0 \in U
  BY <1>2, <1>9, <1>16, Zenon
<1>18. ASSUME NEW n \in 1..N, n - 1 \in U PROVE n \in U
  BY <1>8, <1>13, <1>16, <1>18, Zenon
<1>19. N \in U
  <2> HIDE DEF U
  <2> QED BY <1>2, <1>17, <1>18, UpTo, Zenon
<1>20. Done(f[N], N)
  BY <1>2, <1>12, <1>19, Zenon
<1>21. Storing(acc, Len(chunks), lo, s, rows[a], events[a])
  BY <1>20, Zenon DEF f, Done, N
<1> HIDE DEF acc
<1> QED BY <1>1, <1>21, Zenon


\* After the transaction the rows and the shipper meet again.
LEMMA StoredKeeps ==
  ASSUME NEW s \in Shipper, Numbered(s), NEW r \in Seq(Data), NEW e \in Nat, Kept(s), MeetInv(s, r, e), RowsInv(r, e),
         s.nextSeq <= MaxOut + 1, NEW x, NEW n \in Nat, NEW lo \in Nat, Storing(x, n, lo, s, r, e),
         NEW f, f = IF x.lost /\ e = 0 THEN e + 1 ELSE e
  PROVE  /\ x.rows \in Seq(Data) /\ Len(r) <= Len(x.rows) /\ lo + n <= Len(x.rows) /\ f \in Nat
         /\ RowsInv(x.rows, f) /\ MeetInv(s, x.rows, f)
<1> DEFINE q == x.rows
           P == Pieces(s, r)
<1>1. Base(s) <= Len(r) /\ Len(r) < s.nextSeq
  BY Zenon DEF MeetInv
<1>2. /\ q \in Seq(Data) /\ x.lost \in BOOLEAN /\ Len(r) <= Len(q) /\ lo + n <= Len(q) /\ Len(q) < s.nextSeq
      /\ Len(Joined(q)) <= LogCapBytes
      /\ x.lost \/ e = 1 => Len(Joined(q)) = LogCapBytes
      /\ e = 0 => Begins(Joined(q), Joined(P))
      /\ e = 0 /\ ~x.lost => \A i \in 1..Len(q) : q[i] = P[i] /\ q[i] # <<>>
      /\ e = 1 => Joined(q) = Joined(r)
  BY Zenon DEF Storing, Accs
<1>3. Len(q) \in Nat /\ Len(r) \in Nat /\ s.nextSeq \in Nat /\ Base(s) \in Nat /\ MaxOut \in Nat
  <2>1. MaxOut \in Nat
    BY LogShipAssumption
  <2> QED BY <1>2, <2>1, LenProperties, BaseNat, Zenon
<1>4. e = 0 \/ e = 1
  <2>1. e <= 1
    BY Zenon DEF RowsInv
  <2> QED BY <2>1
<1>5. f = IF x.lost /\ e = 0 THEN 1 ELSE e
  <2>1. 0 + 1 = 1
    OBVIOUS
  <2> QED BY <2>1, Zenon
<1>6. f \in Nat /\ f <= 1 /\ (f = 1 => x.lost \/ e = 1) /\ (f = 0 => e = 0 /\ ~x.lost)
  <2>1. 0 \in Nat /\ 1 \in Nat /\ 0 <= 1 /\ 1 <= 1 /\ 1 # 0
    OBVIOUS
  <2> QED BY <1>2, <1>4, <1>5, <2>1, Zenon
<1> HIDE DEF q
<1>7. ListLogChunks(q) = Joined(q) /\ ListLogChunks(r) = Joined(r)
  <2>1. Len(q) <= MaxOut /\ Len(r) <= MaxOut
    BY <1>1, <1>2, <1>3
  <2> QED BY <1>2, <2>1, ListIsJoined, Zenon
<1>8. P \in Seq(Data) /\ Joined(P) \in Data /\ Joined(q) \in Data
  BY <1>1, <1>2, PiecesFacts, JoinedType, Zenon
<1>9. Seamless(Joined(q))
  <2>1. CASE e = 0
    <3>1. Seamless(Stream(s, r)) /\ Stream(s, r) = Joined(P) \o s.cur
      BY <2>1, Zenon DEF MeetInv, Stream
    <3>2. s.cur \in Data
      BY ShipperFacts, Zenon
    <3>3. Begins(Joined(P), Stream(s, r)) /\ Stream(s, r) \in Data
      BY <1>8, <3>1, <3>2, ConcatBegins, DataConcat, Zenon
    <3>4. Begins(Joined(q), Stream(s, r))
      BY <1>2, <1>8, <2>1, <3>3, BeginsTrans, Zenon
    <3> QED BY <1>8, <3>1, <3>3, <3>4, SeamlessBegins, Zenon
  <2>2. CASE e = 1
    BY <1>2, <1>7, <2>2, Zenon DEF RowsInv
  <2> QED BY <1>4, <2>1, <2>2, Zenon
<1>10. RowsInv(q, f)
  <2>1. LogBytes(q) = Len(Joined(q))
    BY <1>7, Zenon DEF LogBytes
  <2>2. f = 0 => \A i \in 1..Len(q) : q[i] # <<>>
    BY <1>2, <1>6, Zenon
  <2>3. LogBytes(q) <= LogCapBytes /\ (f = 1 => LogBytes(q) = LogCapBytes)
    BY <1>2, <1>6, <2>1, Zenon
  <2> QED BY <1>6, <1>7, <1>9, <2>2, <2>3, Zenon DEF RowsInv
<1>11. Base(s) <= Len(q)
  BY <1>1, <1>2, <1>3
<1>12. ASSUME f = 0 PROVE Stream(s, q) = Stream(s, r)
  <2>1. \A i \in 1..Len(q) : q[i] = P[i]
    BY <1>2, <1>6, <1>12, Zenon
  <2>2. \A i \in 1..(s.nextSeq - 1) : (i <= Len(q) => i \in 1..Len(q)) /\ (~(i <= Len(q)) => ~(i <= Len(r)))
    BY <1>2, <1>3
  <2>3. \A i \in 1..(s.nextSeq - 1) : P[i] = IF i <= Len(r) THEN r[i] ELSE s.pending[i - Base(s)].data
    BY Zenon DEF Pieces
  <2>4. P = [i \in 1..(s.nextSeq - 1) |-> P[i]]
    BY Zenon DEF Pieces
  <2> HIDE DEF P
  <2>5. \A i \in 1..(s.nextSeq - 1) : (IF i <= Len(q) THEN q[i] ELSE s.pending[i - Base(s)].data) = P[i]
    BY <2>1, <2>2, <2>3, Zenon
  <2>6. Pieces(s, q) = P
    BY <2>4, <2>5, Zenon DEF Pieces
  <2> QED BY <2>6, Zenon DEF Stream, P
<1>13. MeetInv(s, q, f)
  <2>1. f = 0 => e = 0
    BY <1>6, Zenon
  <2> QED BY <1>2, <1>11, <1>12, <2>1, Zenon DEF MeetInv
<1> QED BY <1>2, <1>6, <1>10, <1>13, Zenon DEF q

\* More rows leave the shipper.
LEMMA MoreRows ==
  ASSUME NEW s \in Shipper, NEW r \in Seq(Data), NEW q \in Seq(Data), Len(r) <= Len(q), NEW gone, NEW ref,
         ShipperInv(s, r, gone, ref)
  PROVE  ShipperInv(s, q, gone, ref)
<1>1. Numbered(s)
  BY Zenon DEF ShipperInv
<1>2. Len(r) \in Nat /\ Len(q) \in Nat /\ Base(s) \in Nat /\ s.batch \in Nat
  BY <1>1, LenProperties, BaseNat, ShipperFacts, Zenon
<1>3. Base(s) + s.batch <= Len(r) => Base(s) + s.batch <= Len(q)
  BY <1>2
<1> QED BY <1>3, Zenon DEF ShipperInv

\* A request is answered.
LEMMA AnswerStep ==
  ASSUME ShipInv, NEW m \in wire, NEW code \in {"204", "409", "4xx", "500"}, Answer(m, code), wire' = wire \ {m},
         UNCHANGED <<state, attempt, refusing>>, NEW a, a = m.attempt,
         NEW q \in Seq(Data), NEW e \in Nat, rows' = [rows EXCEPT ![a] = q], events' = [events EXCEPT ![a] = e],
         Len(rows[a]) <= Len(q), RowsInv(q, e), MeetInv(sh[a], q, e),
         code = "409" => Gone(a), code = "4xx" => refusing,
         code = "204" /\ Kept(sh[a]) /\ sh[a].pc = "send" /\ sh[a].sends = m.send => Base(sh[a]) + sh[a].batch <= Len(q)
  PROVE  ShipInv'
<1> DEFINE s == sh[a]
           c == IF s.pc = "send" /\ s.sends = m.send THEN code ELSE s.reply
           t == [s EXCEPT !.reply = c]
<1>1. a \in Attempts /\ m \in Message
  BY Zenon DEF ShipInv, ShipTypeOK, Message
<1>2. sh' = [sh EXCEPT ![a] = t]
  BY Zenon DEF Answer
<1>3. /\ s \in Shipper /\ rows[a] \in Seq(Data) /\ ShipperInv(s, rows[a], Gone(a), refusing)
  BY <1>1, AttemptFacts, Zenon
<1>4. ShipperInv(s, q, Gone(a), refusing)
  BY <1>3, MoreRows, Zenon
<1> HIDE DEF s
<1>5. s.reply \in {"none", "204", "409", "4xx", "500"}
  BY <1>3, Zenon DEF Shipper
<1>6. c \in {"none", "204", "409", "4xx", "500"}
  BY <1>5, Zenon
<1>7. /\ s.pc = "send" /\ c = "409" => Gone(a)
      /\ s.pc = "send" /\ c = "4xx" => refusing
      /\ s.pc = "send" /\ c = "204" /\ Kept(s) => Base(s) + s.batch <= Len(q)
  <2>1. CASE s.pc = "send" /\ s.sends = m.send
    BY <2>1, Zenon DEF s
  <2>2. CASE ~(s.pc = "send" /\ s.sends = m.send)
    BY <1>4, <2>2, Zenon DEF ShipperInv
  <2> QED BY <2>1, <2>2, Zenon
<1> HIDE DEF c
<1>8. t \in Shipper
  BY <1>3, <1>6, Zenon DEF Shipper
<1>9. SameHeld(s, t) /\ t.out = s.out /\ t.dropped = s.dropped /\ t.stale = s.stale /\ t.rejected = s.rejected /\ t.sends = s.sends
  BY <1>3, Zenon DEF Shipper, SameHeld
<1>10. t.pc = s.pc /\ t.batch = s.batch /\ t.result = s.result /\ t.closed = s.closed /\ t.reply = c
  BY <1>3, Zenon DEF Shipper
<1> HIDE DEF t
<1>11. t.result = "nil" => t.closed /\ t.pc = "done" /\ Kept(s) /\ s.cur = <<>> /\ s.pending = <<>> /\ s.dropped = 0
  BY <1>4, <1>10, Zenon DEF ShipperInv
<1>12. MeetInv(s, q, e)
  BY Zenon DEF s
<1>13. /\ t.pc = "send" /\ t.reply = "409" => Gone(a)
       /\ t.pc = "send" /\ t.reply = "4xx" => refusing
       /\ t.pc = "send" /\ t.reply = "204" /\ Kept(s) => Base(s) + s.batch <= Len(q)
       /\ t.pc # "send" \/ (s.pc = "send" /\ t.batch = s.batch)
       /\ s.pc # "off" => t.pc # "off"
  BY <1>7, <1>10, Zenon
<1>14. WireKeeps(s, t) /\ ShipperInv(t, q, Gone(a), refusing) /\ MeetInv(t, q, e)
  BY <1>3, <1>4, <1>8, <1>9, <1>10, <1>11, <1>12, <1>13, HeldKeeps, Zenon
<1>15. PICK w : w = {}
  BY Zenon
<1>16. wire' \subseteq wire \cup w /\ \A x \in w : x \in Message /\ x.attempt = a /\ WireInv(x, t, q)
  BY <1>15, Zenon
<1>17. t.pc = sh[a].pc /\ WireKeeps(sh[a], t)
  BY <1>10, <1>14, Zenon DEF s
<1> QED BY <1>1, <1>2, <1>8, <1>14, <1>16, <1>17, AttemptStep, Zenon


\* A batch that was stored covers what the shipper sent.
LEMMA BatchStored ==
  ASSUME NEW s \in Shipper, Numbered(s), s.batch <= Len(s.pending), NEW lo \in Nat, NEW k \in Nat,
         NEW chunks, chunks = SubSeq(s.pending, 1, s.batch), Carries(chunks, lo, s),
         lo + Len(chunks) <= k, Base(s) <= k
  PROVE  Base(s) + s.batch <= k
<1> DEFINE b == s.batch
<1>1. b \in Nat /\ s.pending \in Seq(Chunk) /\ Base(s) \in Nat /\ Len(s.pending) \in Nat
  BY ShipperFacts, BaseNat, Zenon
<1>2. 1 \in Nat /\ 1 # 0 /\ 1 <= b + 1 /\ b - 1 + 1 = b /\ 1 + 1 - 1 = 1
  BY <1>1
<1> HIDE DEF b
<1>3. chunks = SubSeq(s.pending, 1, b) /\ b <= Len(s.pending)
  BY Zenon DEF b
<1>4. Len(chunks) = b /\ \A i \in 1..b : chunks[i] = s.pending[1 + i - 1]
  <2>1. LET u == SubSeq(s.pending, 1, b) IN Len(u) = b - 1 + 1 /\ \A i \in 1..(b - 1 + 1) : u[i] = s.pending[1 + i - 1]
    BY <1>1, <1>2, <1>3, ChunksSub, Zenon
  <2> QED BY <1>2, <1>3, <2>1, Zenon
<1>5. Base(s) + b <= k
  <2>1. CASE b = 0
    BY <1>1, <2>1
  <2>2. CASE b # 0
    <3>1. 1 \in 1..b /\ 1 \in 1..Len(s.pending)
      BY <1>1, <1>3, <2>2
    <3>2. chunks[1] = s.pending[1]
      BY <1>2, <1>4, <3>1, Zenon
    <3>3. chunks[1].seq = lo + 1
      BY <1>4, <3>1, Zenon DEF Carries
    <3>4. s.pending[1].seq = Base(s) + 1
      BY <3>1, Zenon DEF Numbered
    <3>5. lo + 1 = Base(s) + 1
      BY <3>2, <3>3, <3>4, Zenon
    <3>6. lo = Base(s) /\ lo + b <= k
      <4>1. lo + b <= k
        BY <1>4, Zenon
      <4> QED BY <1>1, <3>5, <4>1
    <3> QED BY <3>6, Zenon
  <2> QED BY <2>1, <2>2, Zenon
<1> QED BY <1>5, Zenon DEF b

\* The rows of one attempt change.
LEMMA OneCut ==
  ASSUME CutsInv, rows \in [Attempts -> Seq(Data)], events \in [Attempts -> Nat],
         NEW a \in Attempts, NEW q, NEW f, NEW z \in Seq(Data), CutInv(q, f, z),
         rows' = [rows EXCEPT ![a] = q], events' = [events EXCEPT ![a] = f], whole' = [whole EXCEPT ![a] = z]
  PROVE  CutsInv'
<1>1. whole \in [Attempts -> Seq(Data)] /\ whole' \in [Attempts -> Seq(Data)]
  BY Zenon DEF CutsInv
<1>2. ASSUME NEW b \in Attempts PROVE CutInv(rows'[b], events'[b], whole'[b])
  <2>1. CASE b = a
    <3>1. rows'[a] = q /\ events'[a] = f /\ whole'[a] = z
      BY <1>1, Zenon
    <3> QED BY <2>1, <3>1, Zenon
  <2>2. CASE b # a
    <3>1. rows'[b] = rows[b] /\ events'[b] = events[b] /\ whole'[b] = whole[b]
      BY <1>1, <2>2, Zenon
    <3>2. CutInv(rows[b], events[b], whole[b])
      BY Zenon DEF CutsInv
    <3> QED BY <3>1, <3>2, Zenon
  <2> QED BY <2>1, <2>2, Zenon
<1> QED BY <1>1, <1>2, Zenon DEF CutsInv, CutInv

\* What handleAppendLogs does under the fence.
LEMMA StoreKeeps ==
  ASSUME ShipInv, NEW m \in wire, wire' = wire \ {m}, UNCHANGED <<job, refusing>>,
         ~refusing, Fence(m.attempt), Answer(m, "204"), AppendLogs(m.attempt, m.chunks)
  PROVE  /\ ShipInv' /\ (CutsInv => CutsInv')
         /\ LET a == m.attempt IN
            /\ a \in Attempts /\ rows' = [rows EXCEPT ![a] = rows'[a]]
            /\ rows'[a] \in Seq(Data) /\ Len(rows[a]) <= Len(rows'[a])
<1>1. PICK a, s, r, e, chunks : a = m.attempt /\ s = sh[a] /\ r = rows[a] /\ e = events[a] /\ chunks = m.chunks
  BY Zenon
<1>2. a \in Attempts /\ m \in Message /\ chunks \in Seq(Chunk) /\ m.send \in Nat
  BY <1>1, Zenon DEF ShipInv, ShipTypeOK, Message
<1>3. /\ s \in Shipper /\ r \in Seq(Data) /\ e \in Nat /\ Numbered(s)
      /\ ShipperInv(s, r, Gone(a), refusing) /\ MeetInv(s, r, e) /\ RowsInv(r, e)
  BY <1>1, <1>2, AttemptFacts, Zenon
<1>4. Kept(s)
  <2>1. ~Gone(a)
    <3>1. attempt = a /\ state = "running"
      BY <1>1, Zenon DEF Fence
    <3>2. attempt \in 0..MaxAttempts /\ MaxAttempts \in Nat
      BY LogShipAssumption DEF ShipInv, ShipTypeOK
    <3>3. ~(attempt < attempt)
      BY <3>2
    <3> QED BY <3>1, <3>3, Zenon DEF Gone
  <2> QED BY <1>3, <2>1, Zenon DEF Kept, ShipperInv
<1>5. Base(s) <= Len(r) /\ Len(r) < s.nextSeq
  BY <1>3, <1>4, Zenon DEF MeetInv
<1>6. s.nextSeq <= MaxOut + 1 /\ Len(r) \in Nat /\ Base(s) \in Nat /\ s.batch <= Len(s.pending)
  <2>1. /\ s.nextSeq \in Nat /\ Len(s.cur) \in Nat /\ s.dropped \in Nat /\ s.out \in Nat
        /\ s.nextSeq + Len(s.cur) + s.dropped <= s.out + 1 /\ s.out <= MaxOut
    BY <1>3, ShipperFacts, Zenon DEF ShipperInv
  <2>2. MaxOut \in Nat
    BY LogShipAssumption
  <2>3. \A x, y, d, o \in Nat : x + y + d <= o + 1 /\ o <= MaxOut => x <= MaxOut + 1
    BY <2>2
  <2>4. s.nextSeq <= MaxOut + 1
    BY <2>1, <2>3, Zenon
  <2> QED BY <1>3, <2>4, LenProperties, BaseNat, Zenon DEF ShipperInv
<1>7. PICK lo \in 0..Len(r) : Carries(chunks, lo, s)
  BY <1>1, <1>4, Zenon DEF ShipInv, WireInv
<1>8. lo \in Nat /\ Len(chunks) \in Nat
  <2>1. Len(chunks) \in Nat
    BY <1>2, LenProperties, Zenon
  <2> QED BY <1>6, <2>1
<1>9. AppendLogs(a, chunks)
  BY <1>1, Zenon
<1>10. PICK x : /\ Storing(x, Len(chunks), lo, s, rows[a], events[a])
                /\ Commits(a, chunks, x)
  <2>1. /\ rows[a] \in Seq(Data) /\ Base(s) <= Len(rows[a]) /\ Len(rows[a]) < s.nextSeq
        /\ RowsInv(rows[a], events[a]) /\ lo \in 0..Len(rows[a])
    BY <1>1, <1>3, <1>5, <1>7, Zenon
  <2> QED BY <1>2, <1>3, <1>6, <1>7, <1>9, <2>1, AppendStores, Zenon
<1>11. PICK f, q : f = (IF x.lost /\ e = 0 THEN e + 1 ELSE e) /\ q = x.rows
  BY Zenon
<1>12. events' = [events EXCEPT ![a] = f] /\ rows' = [rows EXCEPT ![a] = q]
  BY <1>1, <1>10, <1>11, Zenon DEF NotesLoss, Commits
<1>13. Storing(x, Len(chunks), lo, s, r, e)
  BY <1>1, <1>10, Zenon
<1>14. q \in Seq(Data) /\ Len(r) <= Len(q) /\ lo + Len(chunks) <= Len(q) /\ f \in Nat /\ RowsInv(q, f) /\ MeetInv(s, q, f)
  BY <1>3, <1>4, <1>6, <1>8, <1>11, <1>13, StoredKeeps, Zenon
<1>15. ASSUME s.pc = "send", s.sends = m.send PROVE Base(s) + s.batch <= Len(q)
  <2>1. chunks = SubSeq(s.pending, 1, s.batch)
    BY <1>1, <1>4, <1>15, Zenon DEF ShipInv, WireInv
  <2>2. Base(s) <= Len(q) /\ Len(q) \in Nat
    <3>1. Len(q) \in Nat
      BY <1>14, LenProperties, Zenon
    <3> QED BY <1>5, <1>6, <1>14, <3>1
  <2> QED BY <1>3, <1>6, <1>7, <1>8, <1>14, <2>1, <2>2, BatchStored, Zenon
<1>16. "204" # "409" /\ "204" # "4xx"
  OBVIOUS
<1>17. PICK code \in {"204", "409", "4xx", "500"} : code = "204"
  BY Zenon
<1>18. /\ Len(rows[a]) <= Len(q) /\ MeetInv(sh[a], q, f) /\ Answer(m, code)
       /\ (code = "409" => Gone(a)) /\ (code = "4xx" => refusing)
       /\ (code = "204" /\ Kept(sh[a]) /\ sh[a].pc = "send" /\ sh[a].sends = m.send => Base(sh[a]) + sh[a].batch <= Len(q))
  BY <1>1, <1>14, <1>15, <1>16, <1>17, Zenon
<1>19. UNCHANGED <<state, attempt, refusing>>
  BY Zenon DEF job
<1>20. ShipInv'
  BY <1>1, <1>12, <1>14, <1>18, <1>19, AnswerStep, Zenon
<1>21. rows'[a] = q
  <2>1. rows \in [Attempts -> Seq(Data)]
    BY Zenon DEF ShipInv, ShipTypeOK
  <2> QED BY <1>2, <1>12, <2>1, Zenon
<1>22. ASSUME CutsInv PROVE CutsInv'
  <2>1. rows \in [Attempts -> Seq(Data)] /\ events \in [Attempts -> Nat] /\ whole \in [Attempts -> Seq(Data)]
    BY <1>22, Zenon DEF ShipInv, ShipTypeOK, CutsInv
  <2>2. PICK w, z : w = whole[a] /\ z = Originals(q, w, chunks)
    BY Zenon
  <2>3. w \in Seq(Data) /\ CutInv(r, e, w)
    BY <1>1, <1>2, <1>22, <2>1, <2>2, Zenon DEF CutsInv
  <2>4. e = 0 \/ e = 1
    <3>1. e <= 1
      BY <1>3, Zenon DEF RowsInv
    <3> QED BY <1>3, <3>1
  <2>5. LET y == Originals(x.rows, w, chunks) IN y \in Seq(Data) /\ CutInv(x.rows, f, y)
    BY <1>2, <1>3, <1>5, <1>7, <1>11, <1>13, <2>3, <2>4, StoredCuts, ZenonT(40)
  <2>6. z \in Seq(Data) /\ CutInv(q, f, z)
    BY <1>11, <2>2, <2>5, Zenon
  <2>7. whole' = [whole EXCEPT ![a] = z]
    BY <1>10, <1>11, <2>2, Zenon DEF Commits
  <2> QED BY <1>2, <1>12, <1>22, <2>1, <2>6, <2>7, OneCut, Zenon
<1> QED BY <1>1, <1>2, <1>12, <1>14, <1>18, <1>20, <1>21, <1>22, Zenon

\* What handleAppendLogs does when it stores nothing.
LEMMA DeclineKeeps ==
  ASSUME ShipInv, NEW m \in wire, wire' = wire \ {m}, UNCHANGED <<job, refusing>>, UNCHANGED table,
         NEW code \in {"409", "4xx", "500"}, Answer(m, code),
         code = "409" => Gone(m.attempt), code = "4xx" => refusing
  PROVE  ShipInv'
<1>1. PICK a, q, e : a = m.attempt /\ q = rows[a] /\ e = events[a]
  BY Zenon
<1>2. a \in Attempts
  BY <1>1, Zenon DEF ShipInv, ShipTypeOK, Message
<1>3. q \in Seq(Data) /\ e \in Nat /\ MeetInv(sh[a], q, e) /\ RowsInv(q, e)
  BY <1>1, <1>2, AttemptFacts, Zenon
<1>4. rows' = [rows EXCEPT ![a] = q] /\ events' = [events EXCEPT ![a] = e]
  <2>1. rows \in [Attempts -> Seq(Data)] /\ events \in [Attempts -> Nat] /\ rows' = rows /\ events' = events
    BY Zenon DEF ShipInv, ShipTypeOK, table
  <2> QED BY <1>1, <1>2, <2>1, Zenon
<1>5. Len(rows[a]) <= Len(q)
  <2>1. Len(q) \in Nat
    BY <1>3, LenProperties, Zenon
  <2>2. Len(q) <= Len(q)
    BY <2>1
  <2> QED BY <1>1, <2>2, Zenon
<1>6. "204" # "409" /\ "204" # "4xx" /\ "204" # "500"
  OBVIOUS
<1>7. code # "204" /\ code \in {"204", "409", "4xx", "500"}
  BY <1>6, Zenon
<1>8. UNCHANGED <<state, attempt, refusing>>
  BY Zenon DEF job
<1>9. code = "409" => Gone(a)
  BY <1>1, Zenon
<1> QED BY <1>1, <1>3, <1>4, <1>5, <1>7, <1>8, <1>9, AnswerStep, Zenon

\* A request is handled.
LEMMA HandleKeeps ==
  ASSUME ShipInv, NEW m \in wire, handleAppendLogs(m)
  PROVE  ShipInv'
<1>1. wire' = wire \ {m} /\ UNCHANGED <<job, refusing>>
  BY Zenon DEF handleAppendLogs
<1>2. "4xx" # "409" /\ "500" # "409" /\ "500" # "4xx"
  OBVIOUS
<1>3. CASE refusing /\ Answer(m, "4xx") /\ UNCHANGED table
  BY <1>1, <1>2, <1>3, DeclineKeeps, Zenon
<1>4. CASE ~refusing /\ ~Fence(m.attempt) /\ Answer(m, "409") /\ UNCHANGED table
  <2>1. Gone(m.attempt)
    <3>1. PICK a : a = m.attempt
      BY Zenon
    <3>2. a \in Attempts /\ sh[a].pc # "off" /\ (attempt < a => sh[a].pc = "off")
      BY <3>1, Zenon DEF ShipInv, ShipTypeOK, Message, WireInv, AttemptInv
    <3>3. attempt \in 0..MaxAttempts /\ a \in 1..MaxAttempts /\ MaxAttempts \in Nat
      BY <3>2, LogShipAssumption DEF ShipInv, ShipTypeOK, Attempts
    <3>4. ~(attempt < a)
      BY <3>2, Zenon
    <3>5. a < attempt \/ a = attempt
      BY <3>3, <3>4
    <3> QED BY <1>4, <3>1, <3>5, Zenon DEF Gone, Fence
  <2> QED BY <1>1, <1>2, <1>4, <2>1, DeclineKeeps, Zenon
<1>5. CASE ~refusing /\ Fence(m.attempt) /\ Answer(m, "204") /\ AppendLogs(m.attempt, m.chunks)
  BY <1>1, <1>5, StoreKeeps, Zenon
<1>6. CASE ~refusing /\ Answer(m, "500") /\ UNCHANGED table
  BY <1>1, <1>2, <1>6, DeclineKeeps, Zenon
<1> QED BY <1>3, <1>4, <1>5, <1>6, Zenon DEF handleAppendLogs

-----------------------------------------------------------------------------
\* Nothing joined is nothing.
LEMMA JoinedNothing ==
  ASSUME NEW q \in Seq(Data), Len(q) = 0
  PROVE  Joined(q) = <<>>
<1>1. PICK f : IsParts(q, f)
  BY Parts, Zenon
<1> QED BY <1>1, Zenon DEF IsParts

\* At first nothing is written, sent or stored.
LEMMA ShipInvInit ==
  ASSUME ShipInit
  PROVE  ShipInv
<1>0. <<>> \in Data /\ <<>> \in Seq(Chunk) /\ <<>> \in Seq(Data) /\ Len(<<>>) = 0
  BY EmptySeq DEF Data
<1>1. ShipTypeOK
  <2>1. 0 \in Nat /\ 1 \in Nat \ {0} /\ 0 \in 0..MaxAttempts
    BY LogShipAssumption
  <2>2. Fresh \in Shipper
    BY <1>0, <2>1, Zenon DEF Fresh, Shipper
  <2> QED BY <1>0, <2>1, <2>2, Zenon DEF ShipInit, ShipTypeOK
<1>2. ASSUME NEW a \in Attempts PROVE AttemptInv(a)
  <2>1. sh[a] = Fresh /\ rows[a] = <<>> /\ events[a] = 0
    BY Zenon DEF ShipInit
  <2>2. PICK s, r : s = Fresh /\ r = <<>>
    BY Zenon
  <2>3. /\ s.out = 0 /\ s.cur = <<>> /\ s.pending = <<>> /\ s.dropped = 0 /\ s.nextSeq = 1
        /\ s.stale = FALSE /\ s.rejected = FALSE /\ s.pc = "off" /\ s.batch = 0 /\ s.result = "none"
    BY <2>2, Zenon DEF Fresh
  <2>4. Len(s.pending) = 0 /\ Len(s.cur) = 0 /\ Len(r) = 0 /\ r \in Seq(Data)
    BY <1>0, <2>2, <2>3, Zenon
  <2>5. MaxOut \in Nat /\ LogCapBytes \in Nat
    BY LogShipAssumption
  <2>6. "off" # "send" /\ "none" # "nil" /\ 0 <= MaxOut /\ 0 < 1 /\ 1 + 0 + 0 <= 0 + 1 /\ 0 <= 0 /\ 1..0 = {} /\ 0 <= 1 /\ 0 # 1
        /\ 0 <= LogCapBytes /\ 1 - 1 - 0 = 0 /\ 1 - 1 = 0 /\ 0 - 0 = 0 /\ 0 < 1
    BY <2>5
  <2>7. Numbered(s)
    BY <2>3, <2>4, <2>6, Zenon DEF Numbered
  <2>8. ShipperInv(s, r, Gone(a), refusing)
    BY <2>3, <2>4, <2>6, <2>7, Zenon DEF ShipperInv
  <2>9. Base(s) = 0
    BY <2>3, <2>4, <2>6, Zenon DEF Base
  <2>10. s \in Shipper
    BY <1>1, <2>1, <2>2, Zenon DEF ShipTypeOK
  <2>11. Stream(s, r) = <<>>
    <3>1. Base(s) <= Len(r) /\ Len(r) < s.nextSeq
      BY <2>3, <2>4, <2>6, <2>9, Zenon
    <3>2. Pieces(s, r) \in Seq(Data) /\ Len(Pieces(s, r)) = s.nextSeq - 1
      BY <2>4, <2>7, <2>10, <3>1, PiecesFacts, Zenon
    <3>3. Len(Pieces(s, r)) = 0
      BY <2>3, <2>6, <3>2, Zenon
    <3>4. Joined(Pieces(s, r)) = <<>>
      BY <3>2, <3>3, JoinedNothing, Zenon
    <3>5. <<>> \o <<>> = <<>>
      BY <1>0, ConcatEmptySeq, Zenon
    <3> QED BY <2>3, <3>4, <3>5, Zenon DEF Stream
  <2>12. Seamless(<<>>) /\ EndsWith(<<>>, 0)
    BY <1>0, <2>6, Zenon DEF Seamless, EndsWith, At
  <2>13. MeetInv(s, r, 0)
    <3>1. s.out - s.dropped = 0
      BY <2>3, <2>6, Zenon
    <3> QED BY <2>3, <2>4, <2>6, <2>9, <2>11, <2>12, <3>1, Zenon DEF MeetInv
  <2>14. RowsInv(r, 0)
    <3>1. ListLogChunks(r) = Joined(r)
      BY <2>4, <2>6, ListIsJoined, Zenon
    <3>2. ListLogChunks(r) = <<>>
      BY <2>4, <3>1, JoinedNothing, Zenon
    <3>3. LogBytes(r) = 0
      BY <1>0, <3>2, Zenon DEF LogBytes
    <3> QED BY <2>4, <2>6, <2>12, <3>2, <3>3, Zenon DEF RowsInv
  <2> QED BY <2>1, <2>2, <2>3, <2>8, <2>13, <2>14, Zenon DEF AttemptInv
<1>3. \A m \in wire : WireInv(m, sh[m.attempt], rows[m.attempt])
  BY Zenon DEF ShipInit
<1> QED BY <1>1, <1>2, <1>3, Zenon DEF ShipInv

\* Every step keeps the invariant.
LEMMA ShipInvNext ==
  ASSUME ShipInv, [ShipNext]_shipVars
  PROVE  ShipInv'
<1>1. CASE Claim
  BY <1>1, ClaimKeeps, Zenon
<1>2. CASE Lose
  BY <1>2, LoseKeeps, Zenon DEF Lose
<1>3. CASE Refuse
  BY <1>3, RefuseKeeps, Zenon
<1>4. ASSUME NEW a \in Attempts, report(a) PROVE ShipInv'
  BY <1>4, LoseKeeps, Zenon DEF report
<1>5. ASSUME NEW a \in Attempts, drain(a) PROVE ShipInv'
  BY <1>5, DrainKeeps, Zenon
<1>6. ASSUME NEW a \in Attempts, Reply(a) PROVE ShipInv'
  BY <1>6, ReplyKeeps, Zenon
<1>7. ASSUME NEW a \in Attempts, Timeout(a) PROVE ShipInv'
  BY <1>7, TimeoutKeeps, Zenon
<1>8. ASSUME NEW a \in Attempts, Close(a) PROVE ShipInv'
  BY <1>8, CloseKeeps, Zenon
<1>9. ASSUME NEW a \in Attempts, Expire(a) PROVE ShipInv'
  BY <1>9, ExpireKeeps, Zenon
<1>10. ASSUME NEW a \in Attempts, Closed(a) PROVE ShipInv'
  BY <1>10, ClosedKeeps, Zenon
<1>11. ASSUME NEW a \in Attempts, NEW k \in 1..MaxWrite, Write(a, k) PROVE ShipInv'
  BY <1>11, WriteKeeps, Zenon
<1>12. ASSUME NEW m \in wire, handleAppendLogs(m) PROVE ShipInv'
  BY <1>12, HandleKeeps, Zenon
<1>13. CASE UNCHANGED shipVars
  BY <1>13 DEF shipVars, job, table, ShipInv, ShipTypeOK, AttemptInv, Gone
<1> QED BY <1>1, <1>2, <1>3, <1>4, <1>5, <1>6, <1>7, <1>8, <1>9, <1>10, <1>11, <1>12, <1>13, Zenon DEF ShipNext

\* No gap without its note, between any two blocks that follow each other.
LEMMA SeamlessGap ==
  ASSUME NEW t \in Data, Seamless(t), NEW i \in 0..Len(t), NEW j \in 0..Len(t), i < j,
         i = 0 \/ t[i] # Marker, j = 0 \/ t[j] # Marker,
         \A k \in (i + 1)..(j - 1) : ~(k = 0 \/ t[k] # Marker)
  PROVE  /\ (IF i = 0 THEN 0 ELSE t[i]) < (IF j = 0 THEN 0 ELSE t[j])
         /\ (IF i = 0 THEN 0 ELSE t[i]) + 1 < (IF j = 0 THEN 0 ELSE t[j]) <=> i + 1 < j
<1> DEFINE x == IF i = 0 THEN 0 ELSE t[i]
           y == IF j = 0 THEN 0 ELSE t[j]
<1>1. Len(t) \in Nat /\ \A k \in 1..Len(t) : t[k] \in Nat
  BY DataFacts, Zenon
<1>2. i \in Nat /\ j \in Nat /\ j \in 1..Len(t) /\ j # 0 /\ (i # 0 => i \in 1..Len(t)) /\ 0 \in Nat
  BY <1>1
<1>3. x \in Nat /\ y \in Nat /\ y = t[j] /\ At(t, i) = x
  <2>1. i < 1 <=> i = 0
    BY <1>2
  <2> QED BY <1>1, <1>2, <2>1, Zenon DEF At
<1>4. t[j] # Marker
  BY <1>2, Zenon
<1>5. IF j = 1 \/ t[j - 1] # Marker THEN t[j] = At(t, j - 1) + 1
      ELSE (j = 2 \/ t[j - 2] # Marker) /\ t[j] > At(t, j - 2) + 1
  BY <1>2, <1>4, Zenon DEF Seamless
<1> HIDE DEF x, y
<1>6. CASE j = 1 \/ t[j - 1] # Marker
  <2>1. i = j - 1
    <3> SUFFICES ASSUME i # j - 1 PROVE FALSE
      BY Zenon
    <3>1. j - 1 \in (i + 1)..(j - 1) /\ (j = 1 => j - 1 = 0)
      BY <1>2
    <3> QED BY <1>6, <3>1, Zenon
  <2>2. y = x + 1
    BY <1>3, <1>5, <1>6, <2>1, Zenon
  <2>3. x < y /\ ~(x + 1 < y) /\ ~(i + 1 < j)
    BY <1>2, <1>3, <2>1, <2>2
  <2> QED BY <2>3, Zenon DEF x, y
<1>7. CASE ~(j = 1 \/ t[j - 1] # Marker)
  <2>1. i # j - 1
    <3> SUFFICES ASSUME i = j - 1 PROVE FALSE
      BY Zenon
    <3>1. j - 1 # 0
      BY <1>2, <1>7
    <3> QED BY <1>7, <3>1, Zenon
  <2>2. i = j - 2
    <3> SUFFICES ASSUME i # j - 2 PROVE FALSE
      BY Zenon
    <3>1. j - 2 \in (i + 1)..(j - 1) /\ (j = 2 => j - 2 = 0)
      BY <1>2, <2>1
    <3> QED BY <1>5, <1>7, <3>1, Zenon
  <2>3. y > x + 1
    BY <1>3, <1>5, <1>7, <2>2, Zenon
  <2>4. x < y /\ x + 1 < y /\ i + 1 < j
    BY <1>2, <1>3, <2>2, <2>3
  <2> QED BY <2>4, Zenon DEF x, y
<1> QED BY <1>6, <1>7, Zenon


\* The length of what is stored is within the bound.
LEMMA RowsBound ==
  ASSUME ShipInv, NEW a \in Attempts
  PROVE  Len(rows[a]) \in Nat /\ Len(rows[a]) <= MaxOut /\ MaxOut \in Nat
<1>1. PICK s, r : s = sh[a] /\ r = rows[a]
  BY Zenon
<1>2. /\ s \in Shipper /\ r \in Seq(Data) /\ Len(r) < s.nextSeq
      /\ s.nextSeq + Len(s.cur) + s.dropped <= s.out + 1 /\ s.out <= MaxOut
  BY <1>1, AttemptFacts, Zenon DEF ShipperInv, MeetInv
<1>3. s.nextSeq \in Nat /\ Len(s.cur) \in Nat /\ s.dropped \in Nat /\ s.out \in Nat
  BY <1>2, ShipperFacts, Zenon
<1>4. Len(r) \in Nat /\ MaxOut \in Nat
  BY <1>2, LenProperties, LogShipAssumption
<1>5. Len(r) <= MaxOut
  BY <1>2, <1>3, <1>4
<1> QED BY <1>1, <1>4, <1>5, Zenon

\* The invariant says that no gap is silent.
LEMMA InvNoSilentGap ==
  ASSUME ShipInv
  PROVE  NoSilentGap
<1> SUFFICES ASSUME NEW a \in Attempts
             PROVE  LET text == ListLogChunks(rows[a])
                        block(i) == IF i = 0 THEN 0 ELSE text[i]
                        isBlock(i) == i = 0 \/ text[i] # Marker
                        follows(j, i) == i < j /\ isBlock(i) /\ isBlock(j) /\ \A k \in (i + 1)..(j - 1) : ~isBlock(k)
                    IN  \A i, j \in 0..Len(text) : follows(j, i) =>
                          /\ block(i) < block(j)
                          /\ block(i) + 1 < block(j) <=> i + 1 < j
  BY Zenon DEF NoSilentGap
<1>1. Seamless(ListLogChunks(rows[a])) /\ rows[a] \in Seq(Data)
  BY AttemptFacts, Zenon DEF RowsInv
<1>2. ListLogChunks(rows[a]) \in Data
  <2>1. ListLogChunks(rows[a]) = Joined(rows[a])
    BY <1>1, RowsBound, ListIsJoined, Zenon
  <2> QED BY <1>1, <2>1, JoinedType, Zenon
<1> DEFINE t == ListLogChunks(rows[a])
<1>3. \A x, y \in 0..Len(t) :
        /\ x < y /\ (x = 0 \/ t[x] # Marker) /\ (y = 0 \/ t[y] # Marker)
        /\ \A k \in (x + 1)..(y - 1) : ~(k = 0 \/ t[k] # Marker)
        => /\ (IF x = 0 THEN 0 ELSE t[x]) < (IF y = 0 THEN 0 ELSE t[y])
           /\ (IF x = 0 THEN 0 ELSE t[x]) + 1 < (IF y = 0 THEN 0 ELSE t[y]) <=> x + 1 < y
  BY <1>1, <1>2, SeamlessGap, Zenon
<1> QED BY <1>3, Zenon

\* The invariant says that nil means stored.
LEMMA InvNilMeansStored ==
  ASSUME ShipInv
  PROVE  NilMeansStored
<1> SUFFICES ASSUME NEW a \in Attempts, sh[a].result = "nil"
             PROVE  /\ DOMAIN rows[a] = 1..(sh[a].nextSeq - 1)
                    /\ sh[a].out > 0 /\ events[a] = 0 =>
                         LET text == ListLogChunks(rows[a]) IN text[Len(text)] = sh[a].out
  BY Zenon DEF NilMeansStored
<1>1. PICK s, r, e : s = sh[a] /\ r = rows[a] /\ e = events[a]
  BY Zenon
<1>2. /\ s \in Shipper /\ r \in Seq(Data) /\ Numbered(s)
      /\ ShipperInv(s, r, Gone(a), refusing) /\ MeetInv(s, r, e) /\ s.result = "nil"
  BY <1>1, AttemptFacts, Zenon
<1>3. Kept(s) /\ s.cur = <<>> /\ s.pending = <<>> /\ s.dropped = 0
  BY <1>2, Zenon DEF ShipperInv
<1>4. Len(s.pending) = 0 /\ <<>> \in Data
  BY <1>3, EmptySeq DEF Data
<1>5. Base(s) <= Len(r) /\ Len(r) < s.nextSeq
  BY <1>2, <1>3, Zenon DEF MeetInv
<1>6. Len(r) \in Nat /\ DOMAIN r = 1..Len(r) /\ s.nextSeq \in Nat /\ s.out \in Nat /\ \A n \in 1..Len(r) : r[n] \in Data
  BY <1>2, LenProperties, ElementOfSeq, ShipperFacts, Zenon
<1>7. Base(s) = s.nextSeq - 1 - 0
  BY <1>4, Zenon DEF Base
<1>8. Len(r) = s.nextSeq - 1
  BY <1>5, <1>6, <1>7
<1>9. DOMAIN r = 1..(s.nextSeq - 1)
  BY <1>6, <1>8, Zenon
<1>10. ASSUME s.out > 0, e = 0
       PROVE  LET text == ListLogChunks(r) IN text[Len(text)] = s.out
  <2>1. ListLogChunks(r) = Joined(r) /\ Joined(r) \in Data
    BY <1>1, <1>2, RowsBound, ListIsJoined, JoinedType, Zenon
  <2>2. Pieces(s, r) = r
    <3>1. Pieces(s, r) \in Seq(Data) /\ Len(Pieces(s, r)) = Len(r)
      BY <1>2, <1>5, <1>8, PiecesFacts, Zenon
    <3>2. ASSUME NEW n \in 1..Len(r) PROVE Pieces(s, r)[n] = r[n]
      <4>1. n <= Len(r) /\ n \in 1..(s.nextSeq - 1)
        BY <1>6, <1>8
      <4> QED BY <4>1, Zenon DEF Pieces
    <3> QED BY <1>2, <3>1, <3>2, SeqEqual, Zenon
  <2>3. Stream(s, r) = ListLogChunks(r)
    <3>1. Joined(r) \o <<>> = Joined(r)
      BY <2>1, ConcatEmptySeq, Zenon DEF Data
    <3> QED BY <1>3, <2>1, <2>2, <3>1, Zenon DEF Stream
  <2>4. PICK t : t = ListLogChunks(r)
    BY Zenon
  <2>5. EndsWith(t, s.out - 0) /\ t \in Data
    BY <1>2, <1>3, <1>10, <2>1, <2>3, <2>4, Zenon DEF MeetInv
  <2>6. At(t, Len(t)) = s.out
    <3>1. s.out - 0 = s.out
      BY <1>6
    <3> QED BY <2>5, <3>1, Zenon DEF EndsWith
  <2>7. Len(t) \in Nat /\ s.out # 0
    BY <1>6, <1>10, <2>5, DataFacts
  <2>8. ~(Len(t) < 1)
    BY <2>6, <2>7, Zenon DEF At
  <2> QED BY <2>4, <2>6, <2>8, Zenon DEF At
<1> QED BY <1>1, <1>9, <1>10, Zenon

\* Nothing is sent or stored at first.
LEMMA CutsInvInit ==
  ASSUME ShipInit
  PROVE  CutsInv
<1>1. <<>> \in Seq(Data) /\ Len(<<>>) = 0 /\ 1..0 = {} /\ 0 # 1
  BY EmptySeq
<1>2. whole \in [Attempts -> Seq(Data)]
  BY <1>1, Zenon DEF ShipInit
<1>3. ASSUME NEW a \in Attempts PROVE CutInv(rows[a], events[a], whole[a])
  <2>1. rows[a] = <<>> /\ events[a] = 0 /\ whole[a] = <<>>
    BY Zenon DEF ShipInit
  <2> QED BY <1>1, <2>1, Zenon DEF CutInv
<1> QED BY <1>2, <1>3, Zenon DEF CutsInv

\* Only what is stored under the fence changes the table.
LEMMA CutsInvNext ==
  ASSUME ShipInv, CutsInv, [ShipNext]_shipVars
  PROVE  CutsInv'
<1>1. CASE UNCHANGED table
  BY <1>1, Zenon DEF table, CutsInv, CutInv
<1>2. CASE Claim \/ Lose \/ Refuse
  BY <1>1, <1>2, Zenon DEF Claim, Lose, Refuse
<1>3. ASSUME NEW a \in Attempts,
             report(a) \/ drain(a) \/ Reply(a) \/ Timeout(a) \/ Close(a) \/ Expire(a) \/ Closed(a) \/ \E k \in 1..MaxWrite : Write(a, k)
      PROVE  CutsInv'
  BY <1>1, <1>3, Zenon DEF report, drain, Reply, Timeout, Close, Expire, Closed, Write
<1>4. ASSUME NEW m \in wire, handleAppendLogs(m) PROVE CutsInv'
  <2>1. wire' = wire \ {m} /\ UNCHANGED <<job, refusing>>
    BY <1>4, Zenon DEF handleAppendLogs
  <2>2. CASE ~refusing /\ Fence(m.attempt) /\ Answer(m, "204") /\ AppendLogs(m.attempt, m.chunks)
    BY <2>1, <2>2, StoreKeeps, Zenon
  <2> QED BY <1>1, <1>4, <2>2, Zenon DEF handleAppendLogs
<1>5. CASE UNCHANGED shipVars
  BY <1>1, <1>5, Zenon DEF shipVars
<1> QED BY <1>2, <1>3, <1>4, <1>5, Zenon DEF ShipNext

\* The invariant says that the cap is noted once.
LEMMA InvCapNotedOnce ==
  ASSUME ShipInv, CutsInv
  PROVE  CapNotedOnce
<1> SUFFICES ASSUME NEW a \in Attempts
             PROVE  /\ LogBytes(rows[a]) <= LogCapBytes
                    /\ events[a] <= 1
                    /\ events[a] = 1 => LogBytes(rows[a]) = LogCapBytes
                    /\ events[a] = 1 <=> \E n \in DOMAIN rows[a] : Len(rows[a][n]) < Len(whole[a][n])
  BY Zenon DEF CapNotedOnce
<1>1. rows[a] \in Seq(Data) /\ events[a] \in Nat /\ RowsInv(rows[a], events[a])
  BY AttemptFacts, Zenon
<1>2. DOMAIN rows[a] = 1..Len(rows[a])
  BY <1>1, LenProperties, Zenon
<1>3. events[a] = 1 <=> \E n \in 1..Len(rows[a]) : Len(rows[a][n]) < Len(whole[a][n])
  BY Zenon DEF CutsInv, CutInv
<1> QED BY <1>1, <1>2, <1>3, Zenon DEF RowsInv

-----------------------------------------------------------------------------
(***************************************************************************)
(* The log as its readers know it: a step of the shipping is a step of     *)
(* LogTable, or none.                                                      *)
(***************************************************************************)
\* The seqs that are stored.
Stored == [a \in 0..MaxAttempts |-> IF a = 0 THEN {} ELSE DOMAIN rows[a]]

\* Only a request that is stored under the fence changes the table.
LEMMA SameTable ==
  ASSUME UNCHANGED rows
  PROVE  Stored' = Stored
BY Zenon DEF Stored

\* A request that is stored adds the numbers that follow, if any.
LEMMA StoreAppends ==
  ASSUME ShipInv, NEW m \in wire, wire' = wire \ {m}, UNCHANGED <<job, refusing>>,
         ~refusing, Fence(m.attempt), Answer(m, "204"), AppendLogs(m.attempt, m.chunks)
  PROVE  \/ Stored' = Stored
         \/ \E lo \in 1..MaxOut : \E hi \in lo..MaxOut :
              /\ \A s \in lo..hi, t \in Stored[attempt] : t < s
              /\ Stored' = [Stored EXCEPT ![attempt] = @ \cup lo..hi]
<1>1. PICK a : a = m.attempt
  BY Zenon
<1>2. /\ ShipInv' /\ a \in Attempts /\ rows' = [rows EXCEPT ![a] = rows'[a]]
      /\ rows'[a] \in Seq(Data) /\ Len(rows[a]) <= Len(rows'[a])
  BY <1>1, StoreKeeps, Zenon
<1>3. PICK r, q : r = rows[a] /\ q = rows'[a]
  BY Zenon
<1>4. r \in Seq(Data) /\ q \in Seq(Data) /\ Len(r) <= Len(q)
  BY <1>2, <1>3, AttemptFacts, Zenon
<1>5. Len(r) \in Nat /\ Len(q) \in Nat /\ DOMAIN r = 1..Len(r) /\ DOMAIN q = 1..Len(q)
  BY <1>4, LenProperties, Zenon
<1>6. Len(q) <= MaxOut /\ MaxOut \in Nat /\ MaxAttempts \in Nat
  <2>1. q \in Seq(Data) /\ Len(q) < sh'[a].nextSeq /\ sh'[a] \in Shipper
        /\ sh'[a].nextSeq + Len(sh'[a].cur) + sh'[a].dropped <= sh'[a].out + 1 /\ sh'[a].out <= MaxOut
    BY <1>2, <1>3, Zenon DEF ShipInv, ShipTypeOK, AttemptInv, ShipperInv, MeetInv
  <2>2. PICK s : s = sh'[a]
    BY Zenon
  <2>3. s.nextSeq \in Nat /\ Len(s.cur) \in Nat /\ s.dropped \in Nat /\ s.out \in Nat
    BY <2>1, <2>2, ShipperFacts, Zenon
  <2>4. Len(q) < s.nextSeq /\ s.nextSeq + Len(s.cur) + s.dropped <= s.out + 1 /\ s.out <= MaxOut
    BY <2>1, <2>2, Zenon
  <2>5. MaxOut \in Nat /\ MaxAttempts \in Nat
    BY LogShipAssumption
  <2> QED BY <1>5, <2>3, <2>4, <2>5
<1>7. a \in 0..MaxAttempts /\ a # 0 /\ attempt = a /\ \A b \in 0..MaxAttempts : b # 0 => b \in Attempts
  <2>1. attempt = a
    BY <1>1, Zenon DEF Fence
  <2> QED BY <1>2, <1>6, <2>1 DEF Attempts
<1>8. rows \in [Attempts -> Seq(Data)]
  BY Zenon DEF ShipInv, ShipTypeOK
<1>9. rows' = [rows EXCEPT ![a] = q]
  BY <1>2, <1>3, Zenon
<1>10. Stored' = [Stored EXCEPT ![a] = DOMAIN q]
  <2>1. ASSUME NEW b \in 0..MaxAttempts
        PROVE  (IF b = 0 THEN {} ELSE DOMAIN rows'[b]) = [Stored EXCEPT ![a] = DOMAIN q][b]
    BY <1>7, <1>8, <1>9, Zenon DEF Stored
  <2> QED BY <2>1, Zenon DEF Stored
<1>11. Stored[a] = 1..Len(r)
  BY <1>3, <1>5, <1>7, Zenon DEF Stored
<1>12. CASE Len(r) = Len(q)
  <2>1. DOMAIN q = Stored[a]
    BY <1>5, <1>11, <1>12, Zenon
  <2>2. [Stored EXCEPT ![a] = Stored[a]] = Stored
    BY <1>7, Zenon DEF Stored
  <2> QED BY <1>10, <2>1, <2>2, Zenon
<1>13. CASE Len(r) # Len(q)
  <2>1. Len(r) + 1 \in 1..MaxOut /\ Len(q) \in (Len(r) + 1)..MaxOut
    <3>1. \A x, y, z \in Nat : x <= y /\ x # y /\ y <= z => x + 1 \in 1..z /\ y \in (x + 1)..z
      OBVIOUS
    <3> QED BY <1>4, <1>5, <1>6, <1>13, <3>1, Zenon
  <2>2. 1..Len(q) = (1..Len(r)) \cup ((Len(r) + 1)..Len(q))
    BY <1>4, <1>5
  <2>3. \A s \in (Len(r) + 1)..Len(q), t \in 1..Len(r) : t < s
    BY <1>4, <1>5
  <2>4. \A s \in (Len(r) + 1)..Len(q), t \in Stored[attempt] : t < s
    BY <1>7, <1>11, <2>3, Zenon
  <2>5. Stored' = [Stored EXCEPT ![attempt] = @ \cup (Len(r) + 1)..Len(q)]
    BY <1>5, <1>7, <1>10, <1>11, <2>2, Zenon
  <2> QED BY <2>1, <2>4, <2>5, Zenon
<1> QED BY <1>12, <1>13, Zenon

\* A step of the shipping is a step of the table.
LEMMA ShipTableStep ==
  ASSUME ShipInv, [ShipNext]_shipVars
  PROVE  [Table!TableNext]_(Table!tableVars)
<1>0. [a \in 0..MaxAttempts |-> IF a = 0 THEN {} ELSE DOMAIN rows[a]] = Stored
  BY Zenon DEF Stored
<1> SUFFICES \/ /\ state = "queued" /\ attempt < MaxAttempts /\ state' = "running"
                /\ attempt' = attempt + 1 /\ Stored' = Stored
             \/ /\ state \in {"queued", "running"}
                /\ state' = "over" \/ (state = "running" /\ attempt < MaxAttempts /\ state' = "queued")
                /\ attempt' = attempt /\ Stored' = Stored
             \/ /\ state = "running" /\ state' = state /\ attempt' = attempt
                /\ \E lo \in 1..MaxOut : \E hi \in lo..MaxOut :
                     /\ \A s \in lo..hi, t \in Stored[attempt] : t < s
                     /\ Stored' = [Stored EXCEPT ![attempt] = @ \cup lo..hi]
             \/ state' = state /\ attempt' = attempt /\ Stored' = Stored
  BY Zenon DEF Stored, Table!TableNext, Table!tableVars, Table!Claim, Table!End, Table!AppendLogs
<1>1. CASE Claim
  BY <1>1, SameTable, Zenon DEF Claim, table
<1>2. CASE Lose
  BY <1>2, SameTable, Zenon DEF Lose, table
<1>3. CASE Refuse
  BY <1>3, SameTable, Zenon DEF Refuse, table, job
<1>4. ASSUME NEW a \in Attempts, report(a) PROVE (state = "running" /\ (state' = "over" \/ (attempt < MaxAttempts /\ state' = "queued")) /\ attempt' = attempt /\ Stored' = Stored)
  BY <1>4, SameTable, Zenon DEF report, Fence, table
<1>5. ASSUME NEW a \in Attempts, drain(a) \/ Reply(a) \/ Timeout(a) \/ Close(a) \/ Expire(a) \/ Closed(a) \/ \E k \in 1..MaxWrite : Write(a, k)
      PROVE  state' = state /\ attempt' = attempt /\ Stored' = Stored
  BY <1>5, SameTable, Zenon DEF drain, Reply, Timeout, Close, Expire, Closed, Write, table, job
<1>6. ASSUME NEW m \in wire, handleAppendLogs(m)
      PROVE  /\ state' = state /\ attempt' = attempt
             /\ \/ Stored' = Stored
                \/ /\ state = "running"
                   /\ \E lo \in 1..MaxOut : \E hi \in lo..MaxOut :
                        /\ \A s \in lo..hi, t \in Stored[attempt] : t < s
                        /\ Stored' = [Stored EXCEPT ![attempt] = @ \cup lo..hi]
  <2>1. wire' = wire \ {m} /\ UNCHANGED <<job, refusing>>
    BY <1>6, Zenon DEF handleAppendLogs
  <2>2. state' = state /\ attempt' = attempt
    BY <2>1, Zenon DEF job
  <2>3. CASE UNCHANGED table
    BY <2>2, <2>3, SameTable, Zenon DEF table
  <2>4. CASE ~refusing /\ Fence(m.attempt) /\ Answer(m, "204") /\ AppendLogs(m.attempt, m.chunks)
    <3>1. state = "running"
      BY <2>4, Zenon DEF Fence
    <3> QED BY <2>1, <2>2, <2>4, <3>1, StoreAppends, Zenon
  <2> QED BY <1>6, <2>3, <2>4, Zenon DEF handleAppendLogs
<1>7. CASE UNCHANGED shipVars
  BY <1>7, SameTable, Zenon DEF shipVars, job, table
<1> QED BY <1>1, <1>2, <1>3, <1>4, <1>5, <1>6, <1>7, Zenon DEF ShipNext
-----------------------------------------------------------------------------
\* The invariant of the shipping holds in every reachable state.
THEOREM ShipInvariance == ShipSpec => []ShipInv
<1>1. ShipInit => ShipInv
  BY ShipInvInit, Zenon
<1>2. ShipInv /\ [ShipNext]_shipVars => ShipInv'
  BY ShipInvNext, Zenon
<1> QED BY <1>1, <1>2, PTL DEF ShipSpec

\* NoSilentGap always.
THEOREM AlwaysNoSilentGap == ShipSpec => []NoSilentGap
<1>1. ShipInv => NoSilentGap
  BY InvNoSilentGap, Zenon
<1> QED BY <1>1, ShipInvariance, PTL

\* NilMeansStored always.
THEOREM AlwaysNilMeansStored == ShipSpec => []NilMeansStored
<1>1. ShipInv => NilMeansStored
  BY InvNilMeansStored, Zenon
<1> QED BY <1>1, ShipInvariance, PTL

\* CapNotedOnce always: AppendLogs writes its event for the first chunk it cuts
\* and for none it stores in full.
THEOREM AlwaysCapNotedOnce == ShipSpec => []CapNotedOnce
<1>1. ShipInit => CutsInv
  BY CutsInvInit, Zenon
<1>2. ShipInv /\ CutsInv /\ [ShipNext]_shipVars => CutsInv'
  BY CutsInvNext, Zenon
<1>3. ShipInv /\ CutsInv => CapNotedOnce
  BY InvCapNotedOnce, Zenon
<1> QED BY <1>1, <1>2, <1>3, ShipInvariance, PTL DEF ShipSpec

\* The shipping implements the table.
THEOREM ShippingImplementsTable == ShipSpec => ImplementsTable
<1>1. ShipInit => Table!TableInit
  <2> SUFFICES ASSUME ShipInit PROVE Table!TableInit
    OBVIOUS
  <2>1. DOMAIN <<>> = {}
    OBVIOUS
  <2>2. \A a \in 0..MaxAttempts : a # 0 => a \in Attempts
    BY LogShipAssumption DEF Attempts
  <2>3. ASSUME NEW a \in 0..MaxAttempts PROVE (IF a = 0 THEN {} ELSE DOMAIN rows[a]) = {}
    BY <2>1, <2>2, Zenon DEF ShipInit
  <2> QED BY <2>3, Zenon DEF ShipInit, Table!TableInit
<1>2. ShipInv /\ [ShipNext]_shipVars => [Table!TableNext]_(Table!tableVars)
  BY ShipTableStep, Zenon
<1> QED BY <1>1, <1>2, ShipInvariance, PTL DEF ShipSpec, ImplementsTable, Table!TableSpec
=============================================================================

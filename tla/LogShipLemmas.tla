---------------------------- MODULE LogShipLemmas ----------------------------
(***************************************************************************)
(* What the proofs about LogShip rest on, for any sizes of chunks, batches *)
(* and buffers: least numbers and recursive functions; data that is joined *)
(* and cut; streams without a silent gap; what sealing, appending and      *)
(* writing do to what a shipper holds; and what a step of one shipper      *)
(* leaves to be shown.                                                     *)
(***************************************************************************)
EXTENDS LogShip, SequenceTheorems, WellFoundedInduction, TLAPS

-----------------------------------------------------------------------------
(***************************************************************************)
(* Shipping: vocabulary of its proof.                                      *)
(***************************************************************************)
\* What t begins with.
Begins(s, t) == Len(s) <= Len(t) /\ \A i \in 1..Len(s) : s[i] = t[i]

\* g goes from x by step.
Follows(g, x, N, step) == g[0] = x /\ \A n \in 1..N : g[n] = step[n][g[n - 1]]

\* The data up to each piece.
IsParts(q, f) ==
  /\ f \in [0..Len(q) -> Data]
  /\ f[0] = <<>>
  /\ \A n \in 1..Len(q) : f[n] = f[n - 1] \o q[n]
  /\ Joined(q) = f[Len(q)]

\* Two shippers that differ in what they hold and dropped only.
SameRest(s, t) ==
  /\ t.out = s.out
  /\ t.closed = s.closed /\ t.stale = s.stale /\ t.rejected = s.rejected /\ t.expired = s.expired
  /\ t.pc = s.pc /\ t.batch = s.batch /\ t.sends = s.sends /\ t.reply = s.reply /\ t.result = s.result

\* They hold the same.
SameHeld(s, t) == t.nextSeq = s.nextSeq /\ t.pending = s.pending /\ t.cur = s.cur

\* t comes from s by sealing.
Sealing(s, t) ==
  /\ t \in Shipper /\ Numbered(t) /\ SameRest(s, t) /\ t.dropped = s.dropped
  /\ Base(t) = Base(s)
  /\ Begins(s.pending, t.pending)
  /\ s.nextSeq <= t.nextSeq
  /\ t.nextSeq + Len(t.cur) <= s.nextSeq + Len(s.cur)
  /\ \A r \in Seq(Data) : Base(s) <= Len(r) /\ Len(r) < s.nextSeq => Stream(t, r) = Stream(s, r)

\* t comes from s by appending p.
Taking(s, t, p) ==
  /\ t \in Shipper /\ Numbered(t) /\ SameRest(s, t)
  /\ Base(t) = Base(s)
  /\ Begins(s.pending, t.pending)
  /\ s.nextSeq <= t.nextSeq
  /\ t.nextSeq + Len(t.cur) <= s.nextSeq + Len(s.cur) + Len(p)
  /\ \A r \in Seq(Data) : Base(s) <= Len(r) /\ Len(r) < s.nextSeq => Stream(t, r) = Stream(s, r) \o p

\* t comes from s by a Write of k blocks.
Writing(s, t, k) ==
  /\ t \in Shipper /\ Numbered(t) /\ SameRest(s, t)
  /\ Base(t) = Base(s)
  /\ Begins(s.pending, t.pending)
  /\ s.nextSeq <= t.nextSeq
  /\ t.nextSeq + Len(t.cur) + t.dropped <= s.out + k + 1
  /\ \A r \in Seq(Data) :
       /\ ~s.stale /\ Base(s) <= Len(r) /\ Len(r) < s.nextSeq
       /\ Seamless(Stream(s, r)) /\ EndsWith(Stream(s, r), s.out - s.dropped)
       => Seamless(Stream(t, r)) /\ EndsWith(Stream(t, r), s.out + k - t.dropped)

\* What the requests of s say of t as well.
WireKeeps(s, t) ==
  /\ s.sends <= t.sends /\ (s.pc # "off" => t.pc # "off")
  /\ Kept(t) =>
       /\ Kept(s)
       /\ Base(s) <= Base(t) /\ s.nextSeq <= t.nextSeq
       /\ \A n \in 1..(s.nextSeq - 1) : n > Base(t) => t.pending[n - Base(t)] = s.pending[n - Base(s)]
       /\ t.pc = "send" /\ t.sends = s.sends =>
            s.pc = "send" /\ SubSeq(t.pending, 1, t.batch) = SubSeq(s.pending, 1, s.batch)

\* Where the transaction is when n chunks are handled, the first of which is lo + 1.
Accs == [rows : Seq(Data), lost : BOOLEAN]

\* Which of them are new, and that one is cut if and only if that is known.
Cutting(x, n, lo, r, P) ==
  /\ \A i \in 1..Len(r) : x.rows[i] = r[i]
  /\ Len(x.rows) <= Len(r) \/ Len(x.rows) = lo + n
  /\ x.lost <=> \E i \in 1..Len(x.rows) : Len(r) < i /\ Len(x.rows[i]) < Len(P[i])

Storing(x, n, lo, s, r, e) ==
  /\ x \in Accs
  /\ Len(r) <= Len(x.rows) /\ lo + n <= Len(x.rows) /\ Len(x.rows) < s.nextSeq
  /\ Len(Joined(x.rows)) <= LogCapBytes
  /\ x.lost \/ e = 1 => Len(Joined(x.rows)) = LogCapBytes
  /\ e = 0 => Begins(Joined(x.rows), Joined(Pieces(s, r)))
  /\ e = 0 /\ ~x.lost => \A i \in 1..Len(x.rows) : x.rows[i] = Pieces(s, r)[i] /\ x.rows[i] # <<>>
  /\ e = 1 => Joined(x.rows) = Joined(r)
  /\ Cutting(x, n, lo, r, Pieces(s, r))

\* One row more.
Extended(r, d) == [i \in 1..(Len(r) + 1) |-> IF i = Len(r) + 1 THEN d ELSE r[i]]
-----------------------------------------------------------------------------
\* A set of numbers has a least one.
LEMMA LeastNumber ==
  ASSUME NEW T \in SUBSET Nat, T # {}
  PROVE  \E x \in T : \A y \in T : x <= y
<1> DEFINE R == OpToRel(<, Nat)
<1>1. IsWellFoundedOn(R, Nat)
  BY NatLessThanWellFounded, Zenon
<1>2. \A y, x \in Nat : y < x => <<y, x>> \in R
  BY Zenon DEF OpToRel
<1> HIDE DEF R
<1>3. PICK x \in T : \A y \in T : ~(<<y, x>> \in R)
  BY <1>1, WFMin, Zenon
<1>4. \A y \in T : ~(y < x)
  BY <1>2, <1>3, Zenon
<1>5. \A y \in T : x <= y
  <2> SUFFICES ASSUME NEW y \in T PROVE x <= y
    BY Zenon
  <2>1. x \in Nat /\ y \in Nat /\ ~(y < x)
    BY <1>4, Zenon
  <2> QED BY <2>1
<1> QED BY <1>5, Zenon

\* A set with 0 and with every number up to N whose predecessor it has, has
\* all numbers up to N.
LEMMA UpTo ==
  ASSUME NEW N \in Nat, NEW P, 0 \in P, \A n \in 1..N : n - 1 \in P => n \in P
  PROVE  \A n \in 0..N : n \in P
<1> DEFINE T == {n \in 0..N : n \notin P}
<1> SUFFICES T = {}
  BY Zenon
<1> SUFFICES ASSUME T # {} PROVE FALSE
  BY Zenon
<1>1. T \in SUBSET Nat
  OBVIOUS
<1>2. PICK x \in T : \A y \in T : x <= y
  BY <1>1, LeastNumber, Zenon
<1>3. x \in 0..N /\ x \notin P /\ x # 0
  BY <1>2, Zenon
<1>4. x \in 1..N /\ x - 1 \in 0..N /\ ~(x <= x - 1)
  BY <1>3
<1>5. x - 1 \in P
  BY <1>2, <1>4, Zenon
<1> QED BY <1>3, <1>4, <1>5, Zenon

\* A recursion has its function.
LEMMA Recursion ==
  ASSUME NEW S, NEW x \in S, NEW N \in Nat, NEW step \in [1..N -> [S -> S]]
  PROVE  \E g \in [0..N -> S] : Follows(g, x, N, step)
<1> DEFINE Q(k, g) == Follows(g, x, k, step)
           P == {k \in 0..N : \E g \in [0..k -> S] : Q(k, g)}
<1>1. 0 \in P
  <2> DEFINE g == [n \in 0..0 |-> x]
  <2>1. g \in [0..0 -> S] /\ g[0] = x /\ 1..0 = {} /\ 0 \in 0..N
    OBVIOUS
  <2>2. Q(0, g)
    BY <2>1, Zenon DEF Follows
  <2> HIDE DEF g
  <2> QED BY <2>1, <2>2, Zenon
<1>2. ASSUME NEW k \in 1..N, k - 1 \in P PROVE k \in P
  <2>0. PICK g \in [0..(k - 1) -> S] : Q(k - 1, g)
    BY <1>2, Zenon
  <2>1. g[0] = x /\ \A n \in 1..(k - 1) : g[n] = step[n][g[n - 1]]
    BY <2>0, Zenon DEF Follows
  <2> DEFINE h == [n \in 0..k |-> IF n = k THEN step[k][g[k - 1]] ELSE g[n]]
  <2>2. /\ k \in 0..N /\ k - 1 \in 0..(k - 1) /\ 0 \in 0..k /\ 0 # k
        /\ \A n \in 0..k : n # k => n \in 0..(k - 1)
    OBVIOUS
  <2>3. step[k] \in [S -> S] /\ g[k - 1] \in S
    BY <2>2, Zenon
  <2>4. step[k][g[k - 1]] \in S
    BY <2>3, Zenon
  <2>5. h \in [0..k -> S]
    BY <2>2, <2>4, Zenon
  <2>6. h[0] = x
    BY <2>1, <2>2, Zenon
  <2>7. ASSUME NEW n \in 1..k PROVE h[n] = step[n][h[n - 1]]
    <3>1. n \in 0..k /\ n - 1 \in 0..k /\ n - 1 # k /\ (n # k => n \in 1..(k - 1))
      OBVIOUS
    <3>2. h[n - 1] = g[n - 1]
      BY <3>1, Zenon
    <3>3. CASE n # k
      <4>1. h[n] = g[n]
        BY <3>1, <3>3, Zenon
      <4> QED BY <2>1, <3>1, <3>2, <3>3, <4>1, Zenon
    <3>4. CASE n = k
      <4>1. h[n] = step[k][g[k - 1]]
        BY <3>1, <3>4, Zenon
      <4> QED BY <3>2, <3>4, <4>1, Zenon
    <3> QED BY <3>3, <3>4, Zenon
  <2> HIDE DEF h
  <2>8. Q(k, h)
    BY <2>6, <2>7, Zenon DEF Follows
  <2> QED BY <2>2, <2>5, <2>8, Zenon
<1>3. N \in 0..N
  OBVIOUS
<1> HIDE DEF P
<1>4. N \in P
  BY <1>1, <1>2, <1>3, UpTo, Zenon
<1> QED BY <1>4, Zenon DEF P
-----------------------------------------------------------------------------
\* Data is closed under joining.
LEMMA DataConcat ==
  ASSUME NEW x \in Data, NEW y \in Data
  PROVE  x \o y \in Data /\ Len(x \o y) = Len(x) + Len(y)
BY ConcatProperties, Zenon DEF Data

\* The recursion of Joined has its function.
LEMMA Parts ==
  ASSUME NEW q \in Seq(Data)
  PROVE  \E f : IsParts(q, f)
<1> DEFINE N == Len(q)
           step == [n \in 1..N |-> [d \in Data |-> d \o q[n]]]
           Rec(f) == f = [n \in 0..N |-> IF n = 0 THEN <<>> ELSE f[n - 1] \o q[n]]
<1>1. N \in Nat /\ \A n \in 1..N : q[n] \in Data
  BY LenProperties, ElementOfSeq, Zenon
<1>2. step \in [1..N -> [Data -> Data]]
  BY <1>1, DataConcat, Zenon
<1>3. <<>> \in Data
  BY EmptySeq, Zenon DEF Data
<1> HIDE DEF N
<1>4. PICK g \in [0..N -> Data] : Follows(g, <<>>, N, step)
  <2> HIDE DEF step
  <2> QED BY <1>1, <1>2, <1>3, Recursion, Zenon
<1>5. \A n \in 1..N : n - 1 \in 0..N /\ n \in 0..N /\ n # 0
  BY <1>1
<1>6. \A n \in 1..N : g[n] = g[n - 1] \o q[n]
  <2>1. \A n \in 1..N : g[n] = step[n][g[n - 1]]
    BY <1>4, Zenon DEF Follows
  <2> QED BY <1>5, <2>1, Zenon
<1>7. Rec(g)
  <2>1. \A n \in 0..N : n # 0 => n \in 1..N
    BY <1>1
  <2>2. \A n \in 0..N : g[n] = IF n = 0 THEN <<>> ELSE g[n - 1] \o q[n]
    BY <1>4, <1>6, <2>1, Zenon DEF Follows
  <2>3. g = [n \in 0..N |-> g[n]]
    BY <1>4, Zenon
  <2> QED BY <2>2, <2>3, Zenon
<1> DEFINE f == CHOOSE h : Rec(h)
<1>8. Rec(f)
  BY <1>7, Zenon
<1>9. Joined(q) = f[N]
  BY Zenon DEF Joined, N
<1> HIDE DEF f
<1>10. DOMAIN f = 0..N /\ \A n \in 0..N : f[n] = IF n = 0 THEN <<>> ELSE f[n - 1] \o q[n]
  BY <1>8, Zenon
<1> DEFINE P == {n \in 0..N : f[n] = g[n]}
<1>11. \A n \in 0..N : n \in P
  <2>1. 0 \in P
    <3>1. 0 \in 0..N
      BY <1>1
    <3> QED BY <1>4, <1>10, <3>1, Zenon DEF Follows
  <2>2. ASSUME NEW n \in 1..N, n - 1 \in P PROVE n \in P
    BY <1>5, <1>6, <1>10, <2>2, Zenon
  <2> HIDE DEF P
  <2> QED BY <1>1, <2>1, <2>2, UpTo, Zenon
<1>12. f = g
  <2>1. g = [n \in 0..N |-> g[n]] /\ f = [n \in 0..N |-> IF n = 0 THEN <<>> ELSE f[n - 1] \o q[n]]
    BY <1>4, <1>8, Zenon
  <2>2. f = [n \in 0..N |-> f[n]]
    BY <1>10, <2>1, Zenon
  <2>3. \A n \in 0..N : f[n] = g[n]
    BY <1>11, Zenon
  <2> QED BY <2>1, <2>2, <2>3, Zenon
<1> QED BY <1>4, <1>6, <1>9, <1>12, Zenon DEF IsParts, Follows, N

\* Where pieces agree, so does what they add up to.
LEMMA SameParts ==
  ASSUME NEW q \in Seq(Data), NEW r \in Seq(Data), NEW f, IsParts(q, f), NEW g, IsParts(r, g),
         Len(q) <= Len(r), \A n \in 1..Len(q) : q[n] = r[n]
  PROVE  f[Len(q)] = g[Len(q)]
<1> DEFINE P == {n \in 0..Len(q) : f[n] = g[n]}
<1>0. Len(q) \in Nat /\ Len(r) \in Nat
  BY LenProperties, Zenon
<1>1. 0 \in P
  <2>1. 0 \in 0..Len(q)
    BY <1>0
  <2>2. f[0] = g[0]
    BY Zenon DEF IsParts
  <2> QED BY <2>1, <2>2, Zenon
<1>2. ASSUME NEW n \in 1..Len(q), n - 1 \in P PROVE n \in P
  <2>1. n \in 1..Len(r) /\ n \in 0..Len(q)
    BY <1>0
  <2>2. f[n] = f[n - 1] \o q[n] /\ g[n] = g[n - 1] \o r[n]
    BY <2>1, Zenon DEF IsParts
  <2> QED BY <1>2, <2>1, <2>2, Zenon
<1> HIDE DEF P
<1>3. Len(q) \in P
  <2>1. Len(q) \in 0..Len(q)
    BY <1>0
  <2> QED BY <1>0, <1>1, <1>2, <2>1, UpTo, Zenon
<1> QED BY <1>3, Zenon DEF P

\* What is put behind data leaves its beginning.
LEMMA ConcatBegins ==
  ASSUME NEW x \in Data, NEW y \in Data
  PROVE  Begins(x, x \o y)
<1>1. /\ Len(x) \in Nat /\ Len(y) \in Nat
      /\ Len(x \o y) = Len(x) + Len(y)
      /\ \A i \in 1..(Len(x) + Len(y)) : (x \o y)[i] = IF i <= Len(x) THEN x[i] ELSE y[i - Len(x)]
  BY ConcatProperties, LenProperties, Zenon DEF Data
<1>2. \A i \in 1..Len(x) : i \in 1..(Len(x) + Len(y)) /\ i <= Len(x)
  BY <1>1
<1>3. Len(x) <= Len(x \o y)
  BY <1>1
<1> QED BY <1>1, <1>2, <1>3, Zenon DEF Begins

\* Begins is transitive.
LEMMA BeginsTrans ==
  ASSUME NEW x \in Data, NEW y \in Data, NEW z \in Data, Begins(x, y), Begins(y, z)
  PROVE  Begins(x, z)
<1>1. Len(x) \in Nat /\ Len(y) \in Nat /\ Len(z) \in Nat
  BY LenProperties, Zenon DEF Data
<1>2. Len(x) <= Len(y) /\ Len(y) <= Len(z)
  BY Zenon DEF Begins
<1>3. Len(x) <= Len(z) /\ \A i \in 1..Len(x) : i \in 1..Len(y)
  BY <1>1, <1>2
<1> QED BY <1>3, Zenon DEF Begins

\* What the first pieces add up to begins what more of them add up to.
LEMMA PartsBegin ==
  ASSUME NEW q \in Seq(Data), NEW f, IsParts(q, f), NEW k \in 0..Len(q)
  PROVE  Begins(f[k], Joined(q))
<1>0. Len(q) \in Nat /\ \A n \in 1..Len(q) : q[n] \in Data
  BY LenProperties, ElementOfSeq, Zenon
<1>1. \A n \in 0..Len(q) : f[n] \in Data
  BY Zenon DEF IsParts
<1> DEFINE P == {n \in 0..Len(q) : k <= n => Begins(f[k], f[n])}
<1>2. Begins(f[k], f[k])
  <2>1. Len(f[k]) \in Nat
    BY <1>1, LenProperties, Zenon DEF Data
  <2>2. Len(f[k]) <= Len(f[k])
    BY <2>1
  <2> QED BY <2>2, Zenon DEF Begins
<1>3. 0 \in P
  <2>1. 0 \in 0..Len(q) /\ (k <= 0 => k = 0)
    BY <1>0
  <2> QED BY <1>2, <2>1, Zenon
<1>4. ASSUME NEW n \in 1..Len(q), n - 1 \in P PROVE n \in P
  <2>1. n \in 0..Len(q) /\ n - 1 \in 0..Len(q) /\ (k <= n => k = n \/ k <= n - 1)
    BY <1>0
  <2>2. CASE k <= n - 1
    <3>1. f[n] = f[n - 1] \o q[n]
      BY Zenon DEF IsParts
    <3>2. f[k] \in Data /\ f[n - 1] \in Data /\ q[n] \in Data
      BY <1>0, <1>1, <2>1, Zenon
    <3>3. Begins(f[n - 1], f[n]) /\ f[n] \in Data
      BY <3>1, <3>2, ConcatBegins, DataConcat, Zenon
    <3>4. Begins(f[k], f[n - 1])
      BY <1>4, <2>2, Zenon
    <3>5. Begins(f[k], f[n])
      BY <3>2, <3>3, <3>4, BeginsTrans, Zenon
    <3> QED BY <2>1, <3>5, Zenon
  <2> QED BY <1>2, <2>1, <2>2, Zenon
<1> HIDE DEF P
<1>5. Len(q) \in P
  <2>1. Len(q) \in 0..Len(q)
    BY <1>0
  <2> QED BY <1>0, <1>3, <1>4, <2>1, UpTo, Zenon
<1>6. k <= Len(q)
  BY <1>0
<1> QED BY <1>5, <1>6, Zenon DEF P, IsParts

\* What Joined returns.
LEMMA JoinedType ==
  ASSUME NEW q \in Seq(Data)
  PROVE  Joined(q) \in Data
<1>1. PICK f : IsParts(q, f)
  BY Parts, Zenon
<1>2. Len(q) \in Nat
  BY LenProperties, Zenon
<1>3. Len(q) \in 0..Len(q)
  BY <1>2
<1> QED BY <1>1, <1>3, Zenon DEF IsParts

\* The pieces before others begin all of them.
LEMMA JoinedBegins ==
  ASSUME NEW q \in Seq(Data), NEW r \in Seq(Data), Len(q) <= Len(r), \A n \in 1..Len(q) : q[n] = r[n]
  PROVE  Begins(Joined(q), Joined(r))
<1>1. PICK f : IsParts(q, f)
  BY Parts, Zenon
<1>2. PICK g : IsParts(r, g)
  BY Parts, Zenon
<1>3. Len(q) \in Nat /\ Len(r) \in Nat
  BY LenProperties, Zenon
<1>4. Len(q) \in 0..Len(q) /\ Len(q) \in 0..Len(r) /\ Len(q) <= Len(q)
  BY <1>3
<1>5. f[Len(q)] = g[Len(q)]
  BY <1>1, <1>2, <1>4, SameParts, Zenon
<1>6. Joined(q) = f[Len(q)]
  BY <1>1, Zenon DEF IsParts
<1> QED BY <1>2, <1>4, <1>5, <1>6, PartsBegin, Zenon

\* One piece more.
LEMMA JoinedMore ==
  ASSUME NEW q \in Seq(Data), NEW r \in Seq(Data), Len(r) = Len(q) + 1, \A n \in 1..Len(q) : q[n] = r[n]
  PROVE  Joined(r) = Joined(q) \o r[Len(r)]
<1>1. PICK f : IsParts(q, f)
  BY Parts, Zenon
<1>2. PICK g : IsParts(r, g)
  BY Parts, Zenon
<1>3. Len(q) \in Nat /\ Len(r) \in Nat
  BY LenProperties, Zenon
<1>4. /\ Len(q) \in 0..Len(q) /\ Len(q) <= Len(r) /\ Len(q) <= Len(q)
      /\ Len(r) \in 1..Len(r) /\ Len(r) - 1 = Len(q)
  BY <1>3
<1>5. f[Len(q)] = g[Len(q)]
  BY <1>1, <1>2, <1>4, SameParts, ZenonT(40)
<1>6. g[Len(r)] = g[Len(r) - 1] \o r[Len(r)]
  BY <1>2, <1>4, Zenon DEF IsParts
<1>7. Joined(q) = f[Len(q)] /\ Joined(r) = g[Len(r)]
  BY <1>1, <1>2, Zenon DEF IsParts
<1> QED BY <1>4, <1>5, <1>6, <1>7, Zenon

\* Empty pieces at the end add nothing.
LEMMA JoinedPad ==
  ASSUME NEW q \in Seq(Data), NEW r \in Seq(Data), Len(q) <= Len(r), \A n \in 1..Len(q) : q[n] = r[n],
         \A n \in (Len(q) + 1)..Len(r) : r[n] = <<>>
  PROVE  Joined(r) = Joined(q)
<1>1. PICK f : IsParts(q, f)
  BY Parts, Zenon
<1>2. PICK g : IsParts(r, g)
  BY Parts, Zenon
<1>3. Len(q) \in Nat /\ Len(r) \in Nat
  BY LenProperties, Zenon
<1>4. Len(q) \in 0..Len(q) /\ Len(q) \in 0..Len(r) /\ Len(q) <= Len(q) /\ Len(r) \in 0..Len(r)
  <2>1. \A x, y \in Nat : x <= y => x \in 0..x /\ x \in 0..y /\ x <= x /\ y \in 0..y
    OBVIOUS
  <2> QED BY <1>3, <2>1, Zenon
<1>5. f[Len(q)] = g[Len(q)]
  BY <1>1, <1>2, <1>4, SameParts, ZenonT(40)
<1> DEFINE P == {n \in 0..Len(r) : Len(q) <= n => g[n] = g[Len(q)]}
<1>6. 0 \in P
  <2>1. 0 \in 0..Len(r) /\ (Len(q) <= 0 => Len(q) = 0)
    BY <1>3
  <2> QED BY <2>1, Zenon
<1>7. ASSUME NEW n \in 1..Len(r), n - 1 \in P PROVE n \in P
  <2>1. /\ n \in 0..Len(r) /\ n - 1 \in 0..Len(r)
        /\ Len(q) <= n => Len(q) = n \/ (Len(q) <= n - 1 /\ n \in (Len(q) + 1)..Len(r))
    BY <1>3
  <2>2. CASE Len(q) <= n - 1 /\ n \in (Len(q) + 1)..Len(r)
    <3>1. g[n] = g[n - 1] \o r[n] /\ r[n] = <<>> /\ g[n - 1] \in Data
      BY <1>2, <2>1, <2>2, Zenon DEF IsParts
    <3>2. g[n] = g[n - 1]
      BY <3>1, ConcatEmptySeq, Zenon DEF Data
    <3>3. g[n] = g[Len(q)]
      BY <1>7, <2>2, <3>2, Zenon
    <3> QED BY <2>1, <3>3, Zenon
  <2> QED BY <2>1, <2>2, Zenon
<1> HIDE DEF P
<1>8. Len(r) \in P
  BY <1>3, <1>4, <1>6, <1>7, UpTo, Zenon
<1>9. g[Len(r)] = g[Len(q)]
  BY <1>8, Zenon DEF P
<1> QED BY <1>1, <1>2, <1>5, <1>9, Zenon DEF IsParts

\* Nothing comes of empty pieces only.
LEMMA JoinedEmpty ==
  ASSUME NEW q \in Seq(Data), Len(Joined(q)) = 0, NEW n \in 1..Len(q)
  PROVE  q[n] = <<>>
<1>1. PICK f : IsParts(q, f)
  BY Parts, Zenon
<1>2. Len(q) \in Nat /\ q[n] \in Data
  BY LenProperties, ElementOfSeq, Zenon
<1>3. n \in 0..Len(q) /\ n - 1 \in 0..Len(q)
  BY <1>2
<1>4. f[n] \in Data /\ f[n - 1] \in Data /\ f[n] = f[n - 1] \o q[n]
  BY <1>1, <1>3, Zenon DEF IsParts
<1>5. Len(f[n]) <= 0
  BY <1>1, <1>3, PartsBegin, Zenon DEF Begins
<1>6. Len(f[n]) = Len(f[n - 1]) + Len(q[n])
  BY <1>2, <1>4, DataConcat, ZenonT(40)
<1>7. Len(q[n]) = 0
  <2>1. Len(f[n - 1]) \in Nat /\ Len(q[n]) \in Nat
    BY <1>2, <1>4, LenProperties, Zenon DEF Data
  <2>2. \A x, y \in Nat : x + y <= 0 => y = 0
    OBVIOUS
  <2> QED BY <1>5, <1>6, <2>1, <2>2, Zenon
<1> QED BY <1>2, <1>7, EmptySeq, Zenon DEF Data

\* The rows, when they are numbered without a gap: ListLogChunks joins them.
LEMMA ListIsJoined ==
  ASSUME NEW r \in Seq(Data), Len(r) <= MaxOut
  PROVE  ListLogChunks(r) = Joined(r)
<1> DEFINE w == [n \in 1..MaxOut |-> IF n \in DOMAIN r THEN r[n] ELSE <<>>]
<1>1. MaxOut \in Nat
  BY LogShipAssumption
<1>2. Len(r) \in Nat /\ DOMAIN r = 1..Len(r) /\ \A n \in 1..Len(r) : r[n] \in Data
  BY LenProperties, ElementOfSeq, Zenon
<1>3. <<>> \in Data
  BY EmptySeq, Zenon DEF Data
<1>4. w \in [1..MaxOut -> Data]
  BY <1>2, <1>3, Zenon
<1>5. w \in Seq(Data) /\ Len(w) = MaxOut
  <2> HIDE DEF w
  <2> QED BY <1>1, <1>4
<1>6. \A n \in 1..Len(r) : n \in 1..MaxOut
  BY <1>1, <1>2
<1>7. \A n \in 1..Len(r) : r[n] = w[n]
  BY <1>2, <1>6, Zenon
<1>8. \A n \in (Len(r) + 1)..Len(w) : n \in 1..MaxOut /\ n \notin 1..Len(r)
  BY <1>1, <1>2, <1>5
<1>9. \A n \in (Len(r) + 1)..Len(w) : w[n] = <<>>
  BY <1>2, <1>8, Zenon
<1>10. ListLogChunks(r) = Joined(w)
  BY Zenon DEF ListLogChunks
<1> HIDE DEF w
<1>11. Joined(w) = Joined(r)
  BY <1>5, <1>7, <1>9, JoinedPad, Zenon
<1> QED BY <1>10, <1>11, Zenon

-----------------------------------------------------------------------------
\* The members and the length of data.
LEMMA DataFacts ==
  ASSUME NEW t \in Data
  PROVE  Len(t) \in Nat /\ \A i \in 1..Len(t) : t[i] \in Nat
<1>1. Len(t) \in Nat /\ \A i \in 1..Len(t) : t[i] \in 0..MaxOut
  BY LenProperties, ElementOfSeq, Zenon DEF Data
<1>2. \A x \in 0..MaxOut : x \in Nat
  OBVIOUS
<1> QED BY <1>1, <1>2, Zenon

\* The members of data in two pieces.
LEMMA ConcatFacts ==
  ASSUME NEW x \in Data, NEW y \in Data
  PROVE  /\ x \o y \in Data
         /\ Len(x \o y) = Len(x) + Len(y)
         /\ \A i \in 1..Len(x) : (x \o y)[i] = x[i]
         /\ \A i \in 1..Len(y) : (x \o y)[Len(x) + i] = y[i]
<1>1. /\ Len(x) \in Nat /\ Len(y) \in Nat
      /\ x \o y \in Data /\ Len(x \o y) = Len(x) + Len(y)
      /\ \A i \in 1..(Len(x) + Len(y)) : (x \o y)[i] = IF i <= Len(x) THEN x[i] ELSE y[i - Len(x)]
  BY ConcatProperties, LenProperties, Zenon DEF Data
<1>2. \A m, n \in Nat : /\ \A i \in 1..m : i \in 1..(m + n) /\ i <= m
                        /\ \A i \in 1..n : \A j : j = m + i => j \in 1..(m + n) /\ ~(j <= m) /\ j - m = i
  OBVIOUS
<1>3. \A i \in 1..Len(x) : i \in 1..(Len(x) + Len(y)) /\ i <= Len(x)
  BY <1>1, <1>2, Zenon
<1>4. \A i \in 1..Len(y) : \A j : j = Len(x) + i =>
        j \in 1..(Len(x) + Len(y)) /\ ~(j <= Len(x)) /\ j - Len(x) = i
  BY <1>1, <1>2, Zenon
<1>5. ASSUME NEW i \in 1..Len(y) PROVE (x \o y)[Len(x) + i] = y[i]
  <2>1. PICK j : j = Len(x) + i
    BY Zenon
  <2>2. j \in 1..(Len(x) + Len(y)) /\ ~(j <= Len(x)) /\ j - Len(x) = i
    BY <1>4, <2>1, Zenon
  <2>3. (x \o y)[j] = y[j - Len(x)]
    BY <1>1, <2>2, Zenon
  <2> QED BY <2>1, <2>2, <2>3, Zenon
<1> QED BY <1>1, <1>3, <1>5, Zenon

\* What begins seamless data is seamless.
LEMMA SeamlessBegins ==
  ASSUME NEW x \in Data, NEW y \in Data, Begins(x, y), Seamless(y)
  PROVE  Seamless(x)
<1> DEFINE m == Len(x)
           n == Len(y)
<1>1. m \in Nat /\ n \in Nat /\ m <= n /\ \A i \in 1..m : x[i] = y[i]
  BY DataFacts, Zenon DEF Begins
<1>2. \A i \in 1..n : y[i] # 0 =>
        IF i = 1 \/ y[i - 1] # 0 THEN y[i] = (IF i - 1 < 1 THEN 0 ELSE y[i - 1]) + 1
        ELSE (i = 2 \/ y[i - 2] # 0) /\ y[i] > (IF i - 2 < 1 THEN 0 ELSE y[i - 2]) + 1
  BY Zenon DEF Seamless, At, Marker
<1> HIDE DEF m, n
<1>3. \A i \in 1..m : x[i] # 0 =>
        IF i = 1 \/ x[i - 1] # 0 THEN x[i] = (IF i - 1 < 1 THEN 0 ELSE x[i - 1]) + 1
        ELSE (i = 2 \/ x[i - 2] # 0) /\ x[i] > (IF i - 2 < 1 THEN 0 ELSE x[i - 2]) + 1
  BY <1>1, <1>2
<1> QED BY <1>3, Zenon DEF Seamless, At, Marker, m

\* Output that follows at once.
LEMMA SeamlessMore ==
  ASSUME NEW t \in Data, NEW p \in Data, NEW b \in Nat, Seamless(t), EndsWith(t, b),
         Len(p) # 0, \A i \in 1..Len(p) : p[i] = b + i
  PROVE  t \o p \in Data /\ Seamless(t \o p) /\ EndsWith(t \o p, b + Len(p))
<1> DEFINE u == t \o p
           m == Len(t)
           n == Len(p)
<1>1. /\ m \in Nat /\ n \in Nat /\ n # 0 /\ u \in Data /\ Len(u) = m + n
      /\ \A i \in 1..m : u[i] = t[i] /\ t[i] \in Nat
      /\ \A i \in 1..n : u[m + i] = b + i
  BY DataFacts, ConcatFacts, Zenon
<1>2. \A i \in 1..m : t[i] # 0 =>
        IF i = 1 \/ t[i - 1] # 0 THEN t[i] = (IF i - 1 < 1 THEN 0 ELSE t[i - 1]) + 1
        ELSE (i = 2 \/ t[i - 2] # 0) /\ t[i] > (IF i - 2 < 1 THEN 0 ELSE t[i - 2]) + 1
  BY Zenon DEF Seamless, At, Marker
<1>3. (IF m < 1 THEN 0 ELSE t[m]) = b /\ (t # <<>> => b # 0)
  BY Zenon DEF EndsWith, At, Marker
<1>4. t # <<>> <=> m # 0
  BY EmptySeq, Zenon DEF Data
<1>5. u # <<>>
  <2>1. m + n # 0
    BY <1>1
  <2> QED BY <1>1, <2>1, EmptySeq, Zenon
<1> HIDE DEF u, m, n
<1>6. ASSUME NEW i \in 1..(m + n), u[i] # 0
      PROVE  IF i = 1 \/ u[i - 1] # 0 THEN u[i] = (IF i - 1 < 1 THEN 0 ELSE u[i - 1]) + 1
             ELSE (i = 2 \/ u[i - 2] # 0) /\ u[i] > (IF i - 2 < 1 THEN 0 ELSE u[i - 2]) + 1
  <2>1. CASE i \in 1..m
    <3>1. \A x \in Nat : \A y \in 1..x :
             (y # 1 => y - 1 \in 1..x) /\ (y # 1 /\ y # 2 => y - 2 \in 1..x) /\ 1 - 1 < 1 /\ 2 - 2 < 1
      OBVIOUS
    <3>2. \A x \in Nat : \A y \in 1..x : (y - 1 < 1 => y = 1) /\ (y - 2 < 1 => y = 1 \/ y = 2)
      OBVIOUS
    <3>3. i # 1 => u[i - 1] = t[i - 1]
      BY <1>1, <2>1, <3>1, Zenon
    <3>4. i # 1 /\ i # 2 => u[i - 2] = t[i - 2]
      BY <1>1, <2>1, <3>1, Zenon
    <3>5. u[i] = t[i] /\ t[i] # 0
      BY <1>1, <1>6, <2>1, Zenon
    <3> QED BY <1>1, <1>2, <2>1, <3>1, <3>2, <3>3, <3>4, <3>5, Zenon
  <2>2. CASE i = m + 1
    <3>1. u[i] = b + 1
      BY <1>1, <2>2
    <3>2. CASE m = 0
      BY <1>1, <1>3, <2>2, <3>1, <3>2
    <3>3. CASE m # 0
      <4>1. u[i - 1] = b /\ b # 0 /\ i - 1 >= 1
        BY <1>1, <1>3, <1>4, <2>2, <3>3
      <4> QED BY <3>1, <4>1
    <3> QED BY <3>2, <3>3, Zenon
  <2>3. CASE i > m + 1
    <3> DEFINE j == i - m
    <3>1. j \in 1..n /\ j - 1 \in 1..n /\ m + j = i /\ m + (j - 1) = i - 1 /\ i - 1 >= 1
      BY <1>1, <2>3
    <3>2. u[m + j] = b + j /\ u[m + (j - 1)] = b + (j - 1)
      BY <1>1, <3>1, Zenon
    <3>3. u[i] = b + j /\ u[i - 1] = b + (j - 1)
      BY <3>1, <3>2, Zenon
    <3> HIDE DEF j
    <3> QED BY <1>1, <3>1, <3>3
  <2> QED BY <1>1, <2>1, <2>2, <2>3
<1>7. Seamless(u)
  BY <1>1, <1>6, Zenon DEF Seamless, At, Marker
<1>8. EndsWith(u, b + n)
  <2>1. n \in 1..n /\ ~(m + n < 1) /\ b + n # 0
    BY <1>1
  <2>2. u[m + n] = b + n
    BY <1>1, <2>1, Zenon
  <2> QED BY <1>1, <2>1, <2>2, Zenon DEF EndsWith, At, Marker
<1> QED BY <1>1, <1>7, <1>8, Zenon DEF u, n

\* Output that follows a note.
LEMMA SeamlessNote ==
  ASSUME NEW t \in Data, NEW b \in Nat, Seamless(t), EndsWith(t, b),
         NEW c \in Nat, b < c, NEW p \in Data, Len(p) # 0, \A i \in 1..Len(p) : p[i] = c + i
  PROVE  /\ (t \o <<Marker>>) \o p \in Data
         /\ Seamless((t \o <<Marker>>) \o p)
         /\ EndsWith((t \o <<Marker>>) \o p, c + Len(p))
<1> DEFINE w == <<Marker>>
           v == t \o w
           u == v \o p
           m == Len(t)
           n == Len(p)
<1>0. w \in Data /\ Len(w) = 1 /\ w[1] = 0
  <2>1. 0 \in 0..MaxOut
    BY LogShipAssumption
  <2> QED BY <2>1 DEF Data, Marker
<1>1. /\ m \in Nat /\ n \in Nat /\ n # 0
      /\ v \in Data /\ Len(v) = m + 1
      /\ \A i \in 1..m : v[i] = t[i]
      /\ v[m + 1] = 0
      /\ u \in Data /\ Len(u) = (m + 1) + n
      /\ \A i \in 1..(m + 1) : u[i] = v[i]
      /\ \A i \in 1..n : u[(m + 1) + i] = c + i
  <2> HIDE DEF w
  <2>1. m \in Nat /\ n \in Nat /\ n # 0
    BY DataFacts, Zenon
  <2>2. v \in Data /\ Len(v) = m + Len(w) /\ (\A i \in 1..m : v[i] = t[i]) /\ \A i \in 1..Len(w) : v[m + i] = w[i]
    BY <1>0, ConcatFacts, Zenon
  <2>3. 1 \in 1..Len(w)
    BY <1>0
  <2> HIDE DEF v
  <2>4. u \in Data /\ Len(u) = Len(v) + n /\ (\A i \in 1..Len(v) : u[i] = v[i]) /\ \A i \in 1..n : u[Len(v) + i] = p[i]
    BY <2>2, ConcatFacts, Zenon
  <2> HIDE DEF u, m
  <2>5. Len(v) = m + 1 /\ v[m + 1] = 0
    BY <1>0, <2>2, <2>3, Zenon
  <2>6. Len(u) = (m + 1) + n /\ (\A i \in 1..(m + 1) : u[i] = v[i])
    BY <2>4, <2>5, Zenon
  <2>7. \A i \in 1..n : u[(m + 1) + i] = p[i]
    BY <2>4, <2>5, Zenon
  <2> QED BY <2>1, <2>2, <2>4, <2>5, <2>6, <2>7, Zenon
<1>2. \A i \in 1..m : t[i] # 0 =>
        IF i = 1 \/ t[i - 1] # 0 THEN t[i] = (IF i - 1 < 1 THEN 0 ELSE t[i - 1]) + 1
        ELSE (i = 2 \/ t[i - 2] # 0) /\ t[i] > (IF i - 2 < 1 THEN 0 ELSE t[i - 2]) + 1
  BY Zenon DEF Seamless, At, Marker
<1>3. (IF m < 1 THEN 0 ELSE t[m]) = b /\ (t # <<>> => b # 0)
  BY Zenon DEF EndsWith, At, Marker
<1>4. (t # <<>> <=> m # 0) /\ \A i \in 1..m : t[i] \in Nat
  BY EmptySeq, DataFacts, Zenon DEF Data
<1> HIDE DEF u, v, w, m, n
<1>5. /\ \A i \in 1..m : u[i] = t[i]
      /\ u[m + 1] = 0
  <2>1. \A i \in 1..m : i \in 1..(m + 1)
    BY <1>1
  <2>2. m + 1 \in 1..(m + 1)
    BY <1>1
  <2> QED BY <1>1, <2>1, <2>2, Zenon
<1>6. ASSUME NEW i \in 1..(m + 1 + n), u[i] # 0
      PROVE  IF i = 1 \/ u[i - 1] # 0 THEN u[i] = (IF i - 1 < 1 THEN 0 ELSE u[i - 1]) + 1
             ELSE (i = 2 \/ u[i - 2] # 0) /\ u[i] > (IF i - 2 < 1 THEN 0 ELSE u[i - 2]) + 1
  <2>1. CASE i \in 1..m
    BY <1>1, <1>2, <1>5, <1>6, <2>1
  <2>2. CASE i = m + 1
    BY <1>5, <1>6, <2>2, Zenon
  <2>3. CASE i = m + 2
    <3>1. u[i] = c + 1
      BY <1>1, <2>3
    <3>2. i # 1 /\ i - 1 = m + 1 /\ i - 2 = m
      BY <1>1, <2>3
    <3>3. u[i - 1] = 0
      BY <1>5, <3>2, Zenon
    <3>4. CASE m = 0
      BY <1>1, <1>3, <2>3, <3>1, <3>3, <3>4
    <3>5. CASE m # 0
      <4>1. u[m] = b /\ b # 0 /\ m >= 1
        BY <1>1, <1>3, <1>4, <1>5, <3>5
      <4>2. u[i - 2] = b /\ b # 0 /\ ~(i - 2 < 1)
        BY <1>1, <3>2, <4>1
      <4> QED BY <3>1, <3>2, <3>3, <4>2
    <3> QED BY <3>4, <3>5, Zenon
  <2>4. CASE i > m + 2
    <3>1. PICK j \in 1..n : (m + 1) + j = i /\ j > 1
      BY <1>1, <2>4
    <3>2. j - 1 \in 1..n /\ (m + 1) + (j - 1) = i - 1 /\ i - 1 >= 1
      BY <1>1, <3>1
    <3>3. u[i] = c + j
      BY <1>1, <3>1, Zenon
    <3>4. u[(m + 1) + (j - 1)] = c + (j - 1)
      BY <1>1, <3>2, Zenon
    <3>5. u[i - 1] = c + (j - 1)
      BY <3>2, <3>4, Zenon
    <3> QED BY <1>1, <3>1, <3>2, <3>3, <3>5
  <2> QED BY <1>1, <2>1, <2>2, <2>3, <2>4
<1>7. Seamless(u)
  BY <1>1, <1>6, Zenon DEF Seamless, At, Marker
<1>8. EndsWith(u, c + n)
  <2>1. n \in 1..n /\ ~((m + 1) + n < 1) /\ c + n # 0
    BY <1>1
  <2>2. u[(m + 1) + n] = c + n
    BY <1>1, <2>1, Zenon
  <2> QED BY <1>1, <2>1, <2>2, Zenon DEF EndsWith, At, Marker
<1> QED BY <1>1, <1>7, <1>8, Zenon DEF u, v, w, n

-----------------------------------------------------------------------------
\* A part of data.
LEMMA DataSub ==
  ASSUME NEW x \in Data, NEW m \in Nat, m # 0, NEW n \in Nat, n <= Len(x), m <= n + 1
  PROVE  /\ SubSeq(x, m, n) \in Data
         /\ Len(SubSeq(x, m, n)) = n - m + 1
         /\ \A i \in 1..(n - m + 1) : SubSeq(x, m, n)[i] = x[m + i - 1]
<1>1. Len(x) \in Nat /\ \A i \in 1..Len(x) : x[i] \in 0..MaxOut
  BY LenProperties, ElementOfSeq, Zenon DEF Data
<1>2. \A i \in m..n : i \in 1..Len(x)
  BY <1>1
<1>3. m \in Int /\ n \in Int /\ \A i \in m..n : x[i] \in 0..MaxOut
  BY <1>1, <1>2
<1>4. /\ SubSeq(x, m, n) \in Seq(0..MaxOut)
      /\ Len(SubSeq(x, m, n)) = IF m <= n THEN n - m + 1 ELSE 0
      /\ \A i \in 1..(n - m + 1) : SubSeq(x, m, n)[i] = x[m + i - 1]
  BY <1>3, SubSeqProperties, SMT
<1>5. ~(m <= n) => n - m + 1 = 0
  OBVIOUS
<1> QED BY <1>4, <1>5, Zenon DEF Data

\* The fields of a shipper.
LEMMA ShipperFacts ==
  ASSUME NEW s \in Shipper
  PROVE  /\ s.out \in Nat /\ s.dropped \in Nat /\ s.nextSeq \in Nat /\ s.nextSeq # 0
         /\ s.batch \in Nat /\ s.sends \in Nat
         /\ s.cur \in Data /\ Len(s.cur) \in Nat
         /\ s.pending \in Seq(Chunk) /\ Len(s.pending) \in Nat
         /\ \A i \in 1..Len(s.pending) : s.pending[i] \in Chunk
<1>1. /\ s.out \in Nat /\ s.dropped \in Nat /\ s.nextSeq \in Nat /\ s.nextSeq # 0
      /\ s.batch \in Nat /\ s.sends \in Nat /\ s.cur \in Data /\ s.pending \in Seq(Chunk)
  BY DEF Shipper
<1> QED BY <1>1, DataFacts, LenProperties, ElementOfSeq, Zenon

\* What seal does to a shipper.
LEMMA SealFields ==
  ASSUME NEW s \in Shipper, NEW n \in 1..Len(s.cur)
  PROVE  LET t == seal(s, n) IN
         /\ t \in Shipper /\ SameRest(s, t) /\ t.dropped = s.dropped
         /\ t.cur = SubSeq(s.cur, n + 1, Len(s.cur))
         /\ t.pending = Append(s.pending, [seq |-> s.nextSeq, data |-> SubSeq(s.cur, 1, n)])
         /\ t.nextSeq = s.nextSeq + 1
<1> DEFINE t == seal(s, n)
           rest == SubSeq(s.cur, n + 1, Len(s.cur))
           c == [seq |-> s.nextSeq, data |-> SubSeq(s.cur, 1, n)]
           more == Append(s.pending, c)
<1>1. t = [s EXCEPT !.cur = rest, !.pending = more, !.nextSeq = @ + 1]
  BY Zenon DEF seal
<1>2. rest \in Data /\ SubSeq(s.cur, 1, n) \in Data
  <2>1. s.cur \in Data /\ Len(s.cur) \in Nat
    BY ShipperFacts, Zenon
  <2>2. /\ n + 1 \in Nat /\ n + 1 # 0 /\ Len(s.cur) <= Len(s.cur) /\ n + 1 <= Len(s.cur) + 1
        /\ 1 \in Nat /\ 1 # 0 /\ n \in Nat /\ n <= Len(s.cur) /\ 1 <= n + 1
    BY <2>1
  <2> QED BY <2>1, <2>2, DataSub, Zenon
<1>3. c \in Chunk
  BY <1>2, ShipperFacts DEF Chunk
<1>4. more \in Seq(Chunk)
  <2> HIDE DEF c
  <2> QED BY <1>3, ShipperFacts, AppendProperties, Zenon
<1> HIDE DEF t, rest, more, c
<1>5. t \in Shipper
  <2>1. s.nextSeq + 1 \in Nat \ {0}
    BY ShipperFacts
  <2> QED BY <1>1, <1>2, <1>4, <2>1, Zenon DEF Shipper
<1>6. SameRest(s, t) /\ t.dropped = s.dropped /\ t.cur = rest /\ t.pending = more /\ t.nextSeq = s.nextSeq + 1
  BY <1>1, Zenon DEF Shipper, SameRest
<1> QED BY <1>5, <1>6, Zenon DEF t, rest, more, c

\* The pieces of a stream.
LEMMA PiecesFacts ==
  ASSUME NEW s \in Shipper, Numbered(s), NEW r \in Seq(Data), Base(s) <= Len(r), Len(r) < s.nextSeq
  PROVE  /\ Pieces(s, r) \in Seq(Data)
         /\ Len(Pieces(s, r)) = s.nextSeq - 1
         /\ \A n \in 1..(s.nextSeq - 1) : n > Len(r) => n - Base(s) \in 1..Len(s.pending)
<1>1. /\ s.nextSeq \in Nat /\ Len(s.pending) \in Nat /\ s.nextSeq # 0
      /\ \A i \in 1..Len(s.pending) : s.pending[i] \in Chunk
  BY ShipperFacts, Zenon
<1>2. Len(r) \in Nat /\ \A n \in 1..Len(r) : r[n] \in Data
  BY LenProperties, ElementOfSeq, Zenon
<1>3. \A n \in 1..(s.nextSeq - 1) : n > Len(r) => n - Base(s) \in 1..Len(s.pending)
  BY <1>1, <1>2 DEF Base, Numbered
<1>4. \A n \in 1..(s.nextSeq - 1) : n <= Len(r) => n \in 1..Len(r)
  BY <1>1, <1>2
<1>5. \A n \in 1..(s.nextSeq - 1) : ~(n <= Len(r)) => n > Len(r)
  BY <1>1, <1>2
<1>6. \A c \in Chunk : c.data \in Data
  BY DEF Chunk
<1>7. \A n \in 1..(s.nextSeq - 1) : (IF n <= Len(r) THEN r[n] ELSE s.pending[n - Base(s)].data) \in Data
  BY <1>1, <1>2, <1>3, <1>4, <1>5, <1>6, Zenon
<1>8. Pieces(s, r) \in [1..(s.nextSeq - 1) -> Data]
  BY <1>7, Zenon DEF Pieces
<1>9. s.nextSeq - 1 \in Nat
  BY <1>1
<1>10. Pieces(s, r) \in Seq(Data) /\ Len(Pieces(s, r)) = s.nextSeq - 1
  BY <1>8, <1>9
<1> QED BY <1>3, <1>10, Zenon

\* Joining is associative.
LEMMA DataAssoc ==
  ASSUME NEW x \in Data, NEW y \in Data, NEW z \in Data
  PROVE  (x \o y) \o z = x \o (y \o z)
BY ConcatAssociative, SMTT(30) DEF Data

\* One chunk more.
LEMMA ChunksAppend ==
  ASSUME NEW q \in Seq(Chunk), NEW c \in Chunk
  PROVE  /\ Len(Append(q, c)) = Len(q) + 1
         /\ \A i \in 1..Len(q) : Append(q, c)[i] = q[i]
         /\ Append(q, c)[Len(q) + 1] = c
BY AppendProperties

\* Data in two parts.
LEMMA DataSplit ==
  ASSUME NEW x \in Data, NEW n \in 1..Len(x)
  PROVE  /\ SubSeq(x, 1, n) \in Data /\ SubSeq(x, n + 1, Len(x)) \in Data
         /\ Len(SubSeq(x, 1, n)) = n /\ Len(SubSeq(x, n + 1, Len(x))) = Len(x) - n
         /\ SubSeq(x, 1, n) \o SubSeq(x, n + 1, Len(x)) = x
<1>1. Len(x) \in Nat
  BY DataFacts, Zenon
<1>2. /\ n + 1 \in Nat /\ n + 1 # 0 /\ Len(x) <= Len(x) /\ n + 1 <= Len(x) + 1
      /\ 1 \in Nat /\ 1 # 0 /\ n \in Nat /\ n <= Len(x) /\ 1 <= n + 1
      /\ n - 1 + 1 = n /\ Len(x) - (n + 1) + 1 = Len(x) - n
  BY <1>1
<1>3. /\ SubSeq(x, 1, n) \in Data /\ SubSeq(x, n + 1, Len(x)) \in Data
      /\ Len(SubSeq(x, 1, n)) = n - 1 + 1 /\ Len(SubSeq(x, n + 1, Len(x))) = Len(x) - (n + 1) + 1
  BY <1>1, <1>2, DataSub, Zenon
<1>4. 1 \in 1..(Len(x) + 1) /\ n \in (1 - 1)..Len(x) /\ Len(x) \in n..Len(x)
  BY <1>1
<1>5. SubSeq(x, 1, n) \o SubSeq(x, n + 1, Len(x)) = SubSeq(x, 1, Len(x))
  BY <1>4, ConcatAdjacentSubSeq DEF Data
<1>6. SubSeq(x, 1, Len(x)) = x
  BY SubSeqFull, Zenon DEF Data
<1> QED BY <1>2, <1>3, <1>5, <1>6, Zenon

\* Sealing the first n bytes leaves the stream.
LEMMA SealSealing ==
  ASSUME NEW s \in Shipper, Numbered(s), NEW n \in 1..Len(s.cur)
  PROVE  Sealing(s, seal(s, n))
<1> DEFINE t == seal(s, n)
           d == SubSeq(s.cur, 1, n)
           e == SubSeq(s.cur, n + 1, Len(s.cur))
           c == [seq |-> s.nextSeq, data |-> d]
<1>1. t \in Shipper /\ SameRest(s, t) /\ t.dropped = s.dropped /\ t.cur = e /\ t.pending = Append(s.pending, c) /\ t.nextSeq = s.nextSeq + 1
  BY SealFields, Zenon
<1>2. /\ s.nextSeq \in Nat /\ s.nextSeq # 0 /\ s.cur \in Data /\ Len(s.cur) \in Nat
      /\ s.pending \in Seq(Chunk) /\ Len(s.pending) \in Nat
  BY ShipperFacts, Zenon
<1>3. d \in Data /\ e \in Data /\ Len(d) = n /\ Len(e) = Len(s.cur) - n /\ d \o e = s.cur
  BY <1>2, DataSplit, Zenon
<1> HIDE DEF t, d, e
<1>4. c \in Chunk /\ c.seq = s.nextSeq /\ c.data = d
  BY <1>2, <1>3 DEF Chunk
<1> HIDE DEF c
<1>5. /\ Len(t.pending) = Len(s.pending) + 1
      /\ \A i \in 1..Len(s.pending) : t.pending[i] = s.pending[i]
      /\ t.pending[Len(s.pending) + 1] = c
  <2> DEFINE q == Append(s.pending, c)
  <2>1. /\ Len(q) = Len(s.pending) + 1
        /\ \A i \in 1..Len(s.pending) : q[i] = s.pending[i]
        /\ q[Len(s.pending) + 1] = c
    BY <1>2, <1>4, ChunksAppend, Zenon
  <2>2. t.pending = q
    BY <1>1, Zenon
  <2> HIDE DEF q
  <2> QED BY <2>1, <2>2, Zenon
<1>6. Base(t) = Base(s)
  <2>1. /\ s.nextSeq \in Nat /\ Len(s.pending) \in Nat
        /\ t.nextSeq = s.nextSeq + 1 /\ Len(t.pending) = Len(s.pending) + 1
    BY <1>1, <1>2, <1>5, Zenon
  <2>2. \A q, l \in Nat : (q + 1) - 1 - (l + 1) = q - 1 - l
    OBVIOUS
  <2> QED BY <2>1, <2>2, Zenon DEF Base
<1>7. d # <<>>
  <2>1. n # 0
    OBVIOUS
  <2> QED BY <1>3, <2>1, EmptySeq, Zenon
<1>8. Numbered(t)
  <2>1. Len(s.pending) < s.nextSeq
    BY Zenon DEF Numbered
  <2>2. Len(t.pending) < t.nextSeq
    BY <1>1, <1>2, <1>5, <2>1
  <2>3. ASSUME NEW i \in 1..Len(t.pending) PROVE t.pending[i].seq = Base(t) + i /\ t.pending[i].data # <<>>
    <3>1. CASE i \in 1..Len(s.pending)
      BY <1>5, <1>6, <3>1, Zenon DEF Numbered
    <3>2. CASE i = Len(s.pending) + 1
      <4>1. t.pending[i] = c
        BY <1>5, <3>2, Zenon
      <4>2. Base(s) + i = s.nextSeq
        <5>1. \A q, l \in Nat : q - 1 - l + (l + 1) = q
          OBVIOUS
        <5> QED BY <1>2, <3>2, <5>1, Zenon DEF Base
      <4> QED BY <1>4, <1>6, <1>7, <4>1, <4>2, Zenon
    <3>3. i \in 1..Len(s.pending) \/ i = Len(s.pending) + 1
      BY <1>2, <1>5
    <3> QED BY <3>1, <3>2, <3>3, Zenon
  <2> QED BY <2>2, <2>3, Zenon DEF Numbered
<1>9. Begins(s.pending, t.pending)
  <2>1. Len(s.pending) <= Len(t.pending)
    BY <1>2, <1>5
  <2> QED BY <1>5, <2>1, Zenon DEF Begins
<1>10. s.nextSeq <= t.nextSeq /\ t.nextSeq + Len(t.cur) <= s.nextSeq + Len(s.cur)
  <2>1. Len(t.cur) = Len(s.cur) - n
    BY <1>1, <1>3, Zenon
  <2> QED BY <1>1, <1>2, <2>1
<1>11. ASSUME NEW r \in Seq(Data), Base(s) <= Len(r), Len(r) < s.nextSeq
       PROVE  Stream(t, r) = Stream(s, r)
  <2> DEFINE P == Pieces(s, r)
             Q == Pieces(t, r)
  <2>1. Len(r) \in Nat
    BY LenProperties, Zenon
  <2>2. Base(t) <= Len(r) /\ Len(r) < t.nextSeq
    BY <1>1, <1>2, <1>6, <1>11, <2>1
  <2>3. /\ P \in Seq(Data) /\ Len(P) = s.nextSeq - 1
        /\ \A i \in 1..(s.nextSeq - 1) : i > Len(r) => i - Base(s) \in 1..Len(s.pending)
    BY <1>11, PiecesFacts, Zenon
  <2>4. Q \in Seq(Data) /\ Len(Q) = t.nextSeq - 1
    BY <1>1, <1>8, <2>2, PiecesFacts, Zenon
  <2>5. Len(Q) = Len(P) + 1 /\ Len(Q) = s.nextSeq
    BY <1>1, <1>2, <2>3, <2>4
  <2>6. ASSUME NEW i \in 1..Len(P) PROVE P[i] = Q[i]
    <3>1. i \in 1..(s.nextSeq - 1) /\ i \in 1..(t.nextSeq - 1) /\ (~(i <= Len(r)) => i > Len(r))
      BY <1>1, <1>2, <2>1, <2>3
    <3>2. P[i] = IF i <= Len(r) THEN r[i] ELSE s.pending[i - Base(s)].data
      BY <3>1, Zenon DEF Pieces
    <3>3. Q[i] = IF i <= Len(r) THEN r[i] ELSE t.pending[i - Base(t)].data
      BY <3>1, Zenon DEF Pieces
    <3> QED BY <1>5, <1>6, <2>3, <3>1, <3>2, <3>3, Zenon
  <2>7. Q[Len(Q)] = d
    <3>1. /\ Len(Q) \in 1..(t.nextSeq - 1) /\ ~(Len(Q) <= Len(r))
          /\ Len(Q) - Base(s) = Len(s.pending) + 1
      <4> HIDE DEF Q
      <4>1. /\ s.nextSeq \in Nat /\ s.nextSeq # 0 /\ Len(s.pending) \in Nat
            /\ Len(Q) = s.nextSeq /\ t.nextSeq = s.nextSeq + 1 /\ Len(r) < s.nextSeq
        BY <1>1, <1>2, <1>11, <2>5, Zenon
      <4> QED BY <2>1, <4>1 DEF Base
    <3>2. Q[Len(Q)] = t.pending[Len(Q) - Base(t)].data
      <4> HIDE DEF P
      <4>1. PICK i : i = Len(Q)
        BY Zenon
      <4>2. i \in 1..(t.nextSeq - 1) /\ ~(i <= Len(r))
        BY <3>1, <4>1, Zenon
      <4>3. Q[i] = t.pending[i - Base(t)].data
        BY <4>2, Zenon DEF Pieces
      <4> QED BY <4>1, <4>3, Zenon
    <3> QED BY <1>4, <1>5, <1>6, <3>1, <3>2, Zenon
  <2> HIDE DEF P, Q
  <2>8. Joined(Q) = Joined(P) \o d
    BY <2>3, <2>4, <2>5, <2>6, <2>7, JoinedMore, Zenon
  <2>9. Joined(P) \in Data
    BY <2>3, JoinedType, Zenon
  <2>10. (Joined(P) \o d) \o e = Joined(P) \o (d \o e)
    BY <1>3, <2>9, DataAssoc, Zenon
  <2> QED BY <1>1, <1>3, <2>8, <2>10, Zenon DEF Stream, P, Q
<1> QED BY <1>1, <1>6, <1>8, <1>9, <1>10, <1>11, Zenon DEF Sealing, t

\* Sealing nothing.
LEMMA SealingRefl ==
  ASSUME NEW s \in Shipper, Numbered(s)
  PROVE  Sealing(s, s)
<1>1. Len(s.pending) <= Len(s.pending) /\ s.nextSeq <= s.nextSeq /\ s.nextSeq + Len(s.cur) <= s.nextSeq + Len(s.cur)
  BY ShipperFacts
<1> QED BY <1>1, Zenon DEF Sealing, SameRest, Begins

\* Sealing more.
LEMMA SealingTrans ==
  ASSUME NEW s \in Shipper, NEW t, NEW u, Sealing(s, t), Sealing(t, u)
  PROVE  Sealing(s, u)
<1>1. t \in Shipper /\ u \in Shipper /\ Numbered(u)
  BY Zenon DEF Sealing
<1>2. SameRest(s, u) /\ u.dropped = s.dropped
  BY Zenon DEF Sealing, SameRest
<1>3. Base(u) = Base(s) /\ Base(t) = Base(s)
  BY Zenon DEF Sealing
<1>4. /\ s.nextSeq \in Nat /\ t.nextSeq \in Nat /\ u.nextSeq \in Nat
      /\ Len(s.cur) \in Nat /\ Len(t.cur) \in Nat /\ Len(u.cur) \in Nat
      /\ Len(s.pending) \in Nat /\ Len(t.pending) \in Nat /\ Len(u.pending) \in Nat
  BY <1>1, ShipperFacts, Zenon
<1>5. /\ s.nextSeq <= t.nextSeq /\ t.nextSeq <= u.nextSeq
      /\ t.nextSeq + Len(t.cur) <= s.nextSeq + Len(s.cur)
      /\ u.nextSeq + Len(u.cur) <= t.nextSeq + Len(t.cur)
      /\ Len(s.pending) <= Len(t.pending) /\ Len(t.pending) <= Len(u.pending)
  BY Zenon DEF Sealing, Begins
<1>6. /\ s.nextSeq <= u.nextSeq /\ u.nextSeq + Len(u.cur) <= s.nextSeq + Len(s.cur)
      /\ Len(s.pending) <= Len(u.pending) /\ \A i \in 1..Len(s.pending) : i \in 1..Len(t.pending)
  <2>1. \A x, y, z \in Nat : x <= y /\ y <= z => x <= z /\ \A i \in 1..x : i \in 1..y
    OBVIOUS
  <2>2. u.nextSeq + Len(u.cur) <= s.nextSeq + Len(s.cur)
    <3>1. s.nextSeq + Len(s.cur) \in Nat /\ t.nextSeq + Len(t.cur) \in Nat /\ u.nextSeq + Len(u.cur) \in Nat
      <4>1. \A x, y \in Nat : x + y \in Nat
        OBVIOUS
      <4> QED BY <1>4, <4>1, Zenon
    <3> QED BY <1>5, <2>1, <3>1, Zenon
  <2> QED BY <1>4, <1>5, <2>1, <2>2, Zenon
<1>7. Begins(s.pending, u.pending)
  BY <1>6, Zenon DEF Sealing, Begins
<1>8. ASSUME NEW r \in Seq(Data), Base(s) <= Len(r), Len(r) < s.nextSeq
      PROVE  Stream(u, r) = Stream(s, r)
  <2>1. Len(r) \in Nat
    BY LenProperties, Zenon
  <2>2. Len(r) < t.nextSeq
    BY <1>4, <1>5, <1>8, <2>1
  <2>3. Stream(t, r) = Stream(s, r)
    BY <1>8, Zenon DEF Sealing
  <2>4. Base(t) <= Len(r)
    BY <1>3, <1>8, Zenon
  <2>5. Stream(u, r) = Stream(t, r)
    BY <2>2, <2>4, Zenon DEF Sealing
  <2> QED BY <2>3, <2>5, Zenon
<1> QED BY <1>1, <1>2, <1>3, <1>6, <1>7, <1>8, Zenon DEF Sealing

\* append: p is behind what was buffered, and full chunks are sealed.
LEMMA AppendSealing ==
  ASSUME NEW s \in Shipper, Numbered(s), NEW p \in Data
  PROVE  LET s1 == [s EXCEPT !.cur = @ \o p]
         IN  s1 \in Shipper /\ Numbered(s1) /\ Sealing(s1, append(s, p))
<1> DEFINE s1 == [s EXCEPT !.cur = @ \o p]
           N == Len(s1.cur)
           Full(x) == IF Len(x.cur) >= FlushBytes THEN seal(x, FlushBytes) ELSE x
           step == [n \in 1..N |-> [x \in Shipper |-> Full(x)]]
           Rec(f) == f = [n \in 0..N |->
             IF n = 0 THEN s1
             ELSE IF Len(f[n - 1].cur) >= FlushBytes THEN seal(f[n - 1], FlushBytes)
             ELSE f[n - 1]]
<1>1. s1 \in Shipper /\ Numbered(s1)
  <2>1. s.cur \o p \in Data
    BY ShipperFacts, DataConcat, Zenon
  <2>2. s1 \in Shipper
    BY <2>1, Zenon DEF Shipper
  <2>3. s1.pending = s.pending /\ s1.nextSeq = s.nextSeq
    BY Zenon DEF Shipper
  <2> HIDE DEF s1
  <2> QED BY <2>2, <2>3, Zenon DEF Numbered, Base
<1>2. append(s, p) = (CHOOSE f : Rec(f))[N]
  BY Zenon DEF append
<1> HIDE DEF s1
<1>3. N \in Nat /\ N \in 0..N
  BY <1>1, ShipperFacts
<1>4. ASSUME NEW x \in Shipper PROVE Full(x) \in Shipper /\ (Numbered(x) => Sealing(x, Full(x)))
  <2>1. CASE Len(x.cur) >= FlushBytes
    <3>1. FlushBytes \in 1..Len(x.cur)
      <4>1. Len(x.cur) \in Nat
        BY ShipperFacts, Zenon
      <4>2. FlushBytes \in Nat \ {0}
        BY LogShipAssumption
      <4> QED BY <2>1, <4>1, <4>2
    <3>2. seal(x, FlushBytes) \in Shipper
      BY <3>1, SealFields, Zenon
    <3> QED BY <2>1, <3>1, <3>2, SealSealing, Zenon
  <2>2. CASE ~(Len(x.cur) >= FlushBytes)
    BY <2>2, SealingRefl, Zenon
  <2> QED BY <2>1, <2>2, Zenon
<1>5. step \in [1..N -> [Shipper -> Shipper]]
  <2> HIDE DEF Full
  <2> QED BY <1>4, Zenon
<1>6. PICK g \in [0..N -> Shipper] : Follows(g, s1, N, step)
  <2> HIDE DEF step, N
  <2> QED BY <1>1, <1>3, <1>5, Recursion, Zenon
<1> HIDE DEF N
<1>7. \A n \in 1..N : n - 1 \in 0..N /\ n \in 0..N /\ n # 0
  BY <1>3
<1>8. \A n \in 1..N : g[n] = Full(g[n - 1]) /\ g[n - 1] \in Shipper
  <2>1. \A n \in 1..N : g[n] = step[n][g[n - 1]] /\ g[n - 1] \in Shipper
    BY <1>6, <1>7, Zenon DEF Follows
  <2> HIDE DEF Full
  <2> QED BY <2>1, Zenon
<1>9. g[0] = s1
  BY <1>6, Zenon DEF Follows
<1>10. Rec(g)
  <2>1. \A n \in 0..N : n # 0 => n \in 1..N
    BY <1>3
  <2>2. \A n \in 0..N : g[n] = IF n = 0 THEN s1
             ELSE IF Len(g[n - 1].cur) >= FlushBytes THEN seal(g[n - 1], FlushBytes)
             ELSE g[n - 1]
    BY <1>8, <1>9, <2>1, Zenon
  <2>3. g = [n \in 0..N |-> g[n]]
    BY <1>6, Zenon
  <2> QED BY <2>2, <2>3, Zenon
<1> DEFINE f == CHOOSE h : Rec(h)
<1>11. Rec(f)
  BY <1>10, Zenon
<1> HIDE DEF f
<1>12. \A n \in 0..N : f[n] = IF n = 0 THEN s1 ELSE Full(f[n - 1])
  BY <1>11, Zenon
<1> HIDE DEF Full
<1> DEFINE P == {n \in 0..N : f[n] = g[n] /\ Sealing(s1, f[n])}
<1>13. 0 \in P
  <2>1. 0 \in 0..N
    BY <1>3
  <2>2. f[0] = s1
    BY <1>12, <2>1, Zenon
  <2> QED BY <1>1, <1>9, <2>1, <2>2, SealingRefl, Zenon
<1>14. ASSUME NEW n \in 1..N, n - 1 \in P PROVE n \in P
  <2>1. f[n - 1] = g[n - 1] /\ Sealing(s1, f[n - 1]) /\ f[n] = Full(f[n - 1]) /\ g[n] = Full(g[n - 1])
    BY <1>7, <1>8, <1>12, <1>14, Zenon
  <2>2. f[n - 1] \in Shipper /\ Numbered(f[n - 1])
    BY <2>1, Zenon DEF Sealing
  <2>3. Sealing(f[n - 1], f[n])
    BY <1>4, <2>1, <2>2, Zenon
  <2>4. Sealing(s1, f[n])
    BY <1>1, <2>1, <2>3, SealingTrans, Zenon
  <2> QED BY <1>7, <2>1, <2>4, Zenon
<1> HIDE DEF P
<1>15. N \in P
  BY <1>3, <1>13, <1>14, UpTo, Zenon
<1>16. Sealing(s1, f[N])
  BY <1>15, Zenon DEF P
<1> QED BY <1>1, <1>2, <1>16, Zenon DEF s1, f

\* append puts p behind the stream.
LEMMA AppendTaking ==
  ASSUME NEW s \in Shipper, Numbered(s), NEW p \in Data
  PROVE  Taking(s, append(s, p), p) /\ append(s, p).dropped = s.dropped
<1> DEFINE s1 == [s EXCEPT !.cur = @ \o p]
           t == append(s, p)
<1>1. s1 \in Shipper /\ Numbered(s1) /\ Sealing(s1, t)
  BY AppendSealing, Zenon
<1>2. /\ s1.cur = s.cur \o p /\ s1.pending = s.pending /\ s1.nextSeq = s.nextSeq
      /\ SameRest(s, s1) /\ s1.dropped = s.dropped
  BY Zenon DEF Shipper, SameRest
<1> HIDE DEF s1, t
<1>3. Base(s1) = Base(s)
  BY <1>2, Zenon DEF Base
<1>4. s.cur \in Data /\ Len(s1.cur) = Len(s.cur) + Len(p)
  BY <1>2, ShipperFacts, DataConcat, Zenon
<1>5. /\ t \in Shipper /\ Numbered(t) /\ SameRest(s, t) /\ t.dropped = s.dropped
      /\ Base(t) = Base(s) /\ Begins(s.pending, t.pending) /\ s.nextSeq <= t.nextSeq
  BY <1>1, <1>2, <1>3, Zenon DEF Sealing, SameRest
<1>6. t.nextSeq + Len(t.cur) <= s.nextSeq + Len(s.cur) + Len(p)
  <2>1. t.nextSeq + Len(t.cur) <= s.nextSeq + (Len(s.cur) + Len(p))
    BY <1>1, <1>2, <1>4, Zenon DEF Sealing
  <2>2. s.nextSeq \in Nat /\ Len(s.cur) \in Nat /\ Len(p) \in Nat
    BY ShipperFacts, DataFacts, Zenon
  <2>3. \A x, y, z \in Nat : x + (y + z) = x + y + z
    OBVIOUS
  <2> QED BY <2>1, <2>2, <2>3, Zenon
<1>7. ASSUME NEW r \in Seq(Data), Base(s) <= Len(r), Len(r) < s.nextSeq
      PROVE  Stream(t, r) = Stream(s, r) \o p
  <2>1. Stream(t, r) = Stream(s1, r)
    BY <1>1, <1>2, <1>3, <1>7, Zenon DEF Sealing
  <2>2. Pieces(s1, r) = Pieces(s, r)
    BY <1>2, <1>3, Zenon DEF Pieces
  <2>3. Joined(Pieces(s, r)) \in Data
    BY <1>7, PiecesFacts, JoinedType, Zenon
  <2>4. (Joined(Pieces(s, r)) \o s.cur) \o p = Joined(Pieces(s, r)) \o (s.cur \o p)
    BY <1>4, <2>3, DataAssoc, Zenon
  <2> QED BY <1>2, <2>1, <2>2, <2>4, Zenon DEF Stream
<1> QED BY <1>5, <1>6, <1>7, Zenon DEF Taking, t

\* What was dropped is not in the stream.
LEMMA DropTaking ==
  ASSUME NEW s \in Shipper, NEW t, NEW p, Taking(s, t, p), NEW d \in Nat
  PROVE  Taking(s, [t EXCEPT !.dropped = d], p) /\ [t EXCEPT !.dropped = d].dropped = d
<1> DEFINE u == [t EXCEPT !.dropped = d]
<1>1. t \in Shipper
  BY Zenon DEF Taking
<1>2. /\ u \in Shipper /\ u.dropped = d /\ u.cur = t.cur /\ u.pending = t.pending /\ u.nextSeq = t.nextSeq
      /\ SameRest(t, u)
  BY <1>1, Zenon DEF Shipper, SameRest
<1> HIDE DEF u
<1>3. Base(u) = Base(t)
  BY <1>2, Zenon DEF Base
<1>4. Numbered(u)
  BY <1>2, <1>3, Zenon DEF Taking, Numbered
<1>5. SameRest(s, u)
  BY <1>2, Zenon DEF Taking, SameRest
<1>6. \A r : Stream(u, r) = Stream(t, r)
  BY <1>2, <1>3, Zenon DEF Stream, Pieces
<1>7. /\ Base(t) = Base(s) /\ Begins(s.pending, t.pending) /\ s.nextSeq <= t.nextSeq
      /\ t.nextSeq + Len(t.cur) <= s.nextSeq + Len(s.cur) + Len(p)
      /\ \A r \in Seq(Data) : Base(s) <= Len(r) /\ Len(r) < s.nextSeq => Stream(t, r) = Stream(s, r) \o p
  BY Zenon DEF Taking
<1>8. Taking(s, u, p)
  BY <1>2, <1>3, <1>4, <1>5, <1>6, <1>7, Zenon DEF Taking
<1> QED BY <1>2, <1>8, Zenon DEF u

\* The stream of a shipper is data.
LEMMA StreamType ==
  ASSUME NEW s \in Shipper, Numbered(s), NEW r \in Seq(Data), Base(s) <= Len(r), Len(r) < s.nextSeq
  PROVE  Stream(s, r) \in Data
<1>1. Joined(Pieces(s, r)) \in Data
  BY PiecesFacts, JoinedType, Zenon
<1> QED BY <1>1, ShipperFacts, DataConcat, Zenon DEF Stream

\* What is buffered is a number of blocks.
LEMMA BufferedType ==
  ASSUME NEW s \in Shipper
  PROVE  /\ [i \in DOMAIN s.pending |-> s.pending[i].data] \in Seq(Data)
         /\ Len([i \in DOMAIN s.pending |-> s.pending[i].data]) = Len(s.pending)
         /\ Len(Flat(s.pending)) \in Nat /\ Buffered(s) \in Nat
<1> DEFINE q == [i \in DOMAIN s.pending |-> s.pending[i].data]
<1>1. DOMAIN s.pending = 1..Len(s.pending) /\ Len(s.pending) \in Nat /\ Len(s.cur) \in Nat
  BY ShipperFacts, LenProperties, Zenon
<1>2. \A i \in 1..Len(s.pending) : s.pending[i].data \in Data
  <2>1. \A c \in Chunk : c.data \in Data
    BY DEF Chunk
  <2> QED BY <2>1, ShipperFacts, Zenon
<1>3. q \in [1..Len(s.pending) -> Data]
  BY <1>1, <1>2, Zenon
<1> HIDE DEF q
<1>4. q \in Seq(Data) /\ Len(q) = Len(s.pending)
  BY <1>1, <1>3
<1>5. Len(Joined(q)) \in Nat
  BY <1>4, JoinedType, DataFacts, Zenon
<1>6. Flat(s.pending) = Joined(q)
  BY Zenon DEF Flat, q
<1>7. \A x, y \in Nat : x + y \in Nat
  OBVIOUS
<1>8. Buffered(s) \in Nat
  BY <1>1, <1>5, <1>6, <1>7, Zenon DEF Buffered
<1> QED BY <1>4, <1>5, <1>6, <1>8, Zenon DEF q

\* Appending nothing.
LEMMA TakingNothing ==
  ASSUME NEW s \in Shipper, Numbered(s)
  PROVE  Taking(s, s, <<>>)
<1>1. s.nextSeq \in Nat /\ Len(s.cur) \in Nat /\ Len(s.pending) \in Nat
  BY ShipperFacts, Zenon
<1>2. Len(<<>>) = 0
  BY EmptySeq, Zenon
<1>3. \A x, y \in Nat : x <= x /\ x + y <= x + y + 0
  OBVIOUS
<1>4. s.nextSeq <= s.nextSeq /\ Len(s.pending) <= Len(s.pending) /\ s.nextSeq + Len(s.cur) <= s.nextSeq + Len(s.cur) + Len(<<>>)
  BY <1>1, <1>2, <1>3, Zenon
<1>5. ASSUME NEW r \in Seq(Data), Base(s) <= Len(r), Len(r) < s.nextSeq
      PROVE  Stream(s, r) = Stream(s, r) \o <<>>
  BY <1>5, StreamType, ConcatEmptySeq, Zenon DEF Data
<1> QED BY <1>4, <1>5, Zenon DEF Taking, SameRest, Begins

\* Appending twice.
LEMMA TakingTwice ==
  ASSUME NEW s \in Shipper, Numbered(s), NEW t, NEW u, NEW p \in Data, NEW q \in Data,
         Taking(s, t, p), Taking(t, u, q)
  PROVE  Taking(s, u, p \o q)
<1>1. t \in Shipper /\ u \in Shipper /\ Numbered(u) /\ Numbered(t)
  BY Zenon DEF Taking
<1>2. SameRest(s, u)
  BY Zenon DEF Taking, SameRest
<1>3. Base(u) = Base(s) /\ Base(t) = Base(s)
  BY Zenon DEF Taking
<1>4. /\ s.nextSeq \in Nat /\ t.nextSeq \in Nat /\ u.nextSeq \in Nat
      /\ Len(s.cur) \in Nat /\ Len(t.cur) \in Nat /\ Len(u.cur) \in Nat
      /\ Len(s.pending) \in Nat /\ Len(t.pending) \in Nat /\ Len(u.pending) \in Nat
      /\ Len(p) \in Nat /\ Len(q) \in Nat
  BY <1>1, ShipperFacts, DataFacts, Zenon
<1>5. /\ s.nextSeq <= t.nextSeq /\ t.nextSeq <= u.nextSeq
      /\ t.nextSeq + Len(t.cur) <= s.nextSeq + Len(s.cur) + Len(p)
      /\ u.nextSeq + Len(u.cur) <= t.nextSeq + Len(t.cur) + Len(q)
      /\ Len(s.pending) <= Len(t.pending) /\ Len(t.pending) <= Len(u.pending)
  BY Zenon DEF Taking, Begins
<1>6. \A x, y, z \in Nat : x <= y /\ y <= z => x <= z /\ \A i \in 1..x : i \in 1..y
  OBVIOUS
<1>7. u.nextSeq + Len(u.cur) <= s.nextSeq + Len(s.cur) + (Len(p) + Len(q))
  <2>1. \A a1, a2, b1, b2, c1, c2, m, n \in Nat :
          b1 + b2 <= a1 + a2 + m /\ c1 + c2 <= b1 + b2 + n => c1 + c2 <= a1 + a2 + (m + n)
    OBVIOUS
  <2> QED BY <1>4, <1>5, <2>1, Zenon
<1>8. Len(p \o q) = Len(p) + Len(q)
  BY DataConcat, Zenon
<1>9. Begins(s.pending, u.pending) /\ s.nextSeq <= u.nextSeq
  <2>1. Len(s.pending) <= Len(u.pending) /\ s.nextSeq <= u.nextSeq /\ \A i \in 1..Len(s.pending) : i \in 1..Len(t.pending)
    BY <1>4, <1>5, <1>6, Zenon
  <2> QED BY <2>1, Zenon DEF Taking, Begins
<1>10. ASSUME NEW r \in Seq(Data), Base(s) <= Len(r), Len(r) < s.nextSeq
       PROVE  Stream(u, r) = Stream(s, r) \o (p \o q)
  <2>1. Len(r) \in Nat
    BY LenProperties, Zenon
  <2>2. Len(r) < t.nextSeq
    BY <1>4, <1>5, <1>10, <2>1, SMTT(30)
  <2>3. Base(t) <= Len(r)
    BY <1>3, <1>10, Zenon
  <2>4. Stream(t, r) = Stream(s, r) \o p /\ Stream(u, r) = Stream(t, r) \o q
    BY <1>10, <2>2, <2>3, Zenon DEF Taking
  <2>5. Stream(s, r) \in Data
    BY <1>10, StreamType, Zenon
  <2>6. (Stream(s, r) \o p) \o q = Stream(s, r) \o (p \o q)
    BY <2>5, DataAssoc, Zenon
  <2> QED BY <2>4, <2>6, Zenon
<1> QED BY <1>1, <1>2, <1>3, <1>7, <1>8, <1>9, <1>10, Zenon DEF Taking

\* Write: what fits is behind the stream, after a note about what was dropped
\* before, and the rest is counted.
LEMMA WrittenWriting ==
  ASSUME NEW s \in Shipper, Numbered(s), s.nextSeq + Len(s.cur) + s.dropped <= s.out + 1, ~s.closed,
         NEW k \in Nat, k # 0, s.out + k <= MaxOut
  PROVE  Writing(s, Written(s, [i \in 1..k |-> s.out + i]), k)
<1> DEFINE p == [i \in 1..k |-> s.out + i]
           t == Written(s, p)
           room == MaxBuffered - Buffered(s)
           f == Least(k, room)
           fits == SubSeq(p, 1, f)
<1>1. /\ s.out \in Nat /\ s.dropped \in Nat /\ s.nextSeq \in Nat /\ Len(s.cur) \in Nat /\ Buffered(s) \in Nat
      /\ MaxBuffered \in Nat /\ MaxOut \in Nat /\ s.dropped <= s.out
  <2>1. /\ s.out \in Nat /\ s.dropped \in Nat /\ s.nextSeq \in Nat /\ s.nextSeq # 0 /\ Len(s.cur) \in Nat
        /\ Buffered(s) \in Nat
    BY ShipperFacts, BufferedType, Zenon
  <2>2. MaxBuffered \in Nat /\ MaxOut \in Nat
    BY LogShipAssumption
  <2>3. \A x, y, d, o \in Nat : x # 0 /\ x + y + d <= o + 1 => d <= o
    OBVIOUS
  <2> QED BY <2>1, <2>2, <2>3, Zenon
<1>2. p \in Data /\ Len(p) = k /\ \A i \in 1..k : p[i] = s.out + i
  <2>1. \A i \in 1..k : s.out + i \in 0..MaxOut
    <3>1. \A o, x, m \in Nat : o + x <= m => \A i \in 1..x : o + i \in 0..m
      OBVIOUS
    <3> QED BY <1>1, <3>1, Zenon
  <2>2. p \in [1..k -> 0..MaxOut]
    BY <2>1, Zenon
  <2>3. \A i \in 1..k : p[i] = s.out + i
    BY Zenon
  <2> HIDE DEF p
  <2>4. \A S, x : x \in [1..k -> S] => x \in Seq(S) /\ Len(x) = k
    OBVIOUS
  <2>5. p \in Seq(0..MaxOut) /\ Len(p) = k
    BY <2>2, <2>4, Zenon
  <2> QED BY <2>3, <2>5, Zenon DEF Data
<1>3. Written(s, p) =
        LET s1 == IF s.dropped > 0 THEN Noted(s) ELSE s
        IN  IF s.closed \/ s.stale THEN s
            ELSE IF Buffered(s) >= MaxBuffered THEN [s EXCEPT !.dropped = @ + Len(p)]
            ELSE [append(s1, SubSeq(p, 1, Least(Len(p), room))) EXCEPT !.dropped = Len(p) - Len(SubSeq(p, 1, Least(Len(p), room)))]
  BY Zenon DEF Written
<1> SUFFICES Writing(s, t, k)
  BY Zenon
<1> HIDE DEF p
<1>4. CASE s.stale
  <2>1. t = s
    BY <1>3, <1>4, Zenon
  <2>2. \A x, y, z, o \in Nat : x + y + z <= o + 1 => x + y + z <= o + k + 1
    OBVIOUS
  <2>3. s.nextSeq + Len(s.cur) + s.dropped <= s.out + k + 1
    BY <1>1, <2>2, Zenon
  <2>4. Taking(s, s, <<>>)
    BY TakingNothing, Zenon
  <2>5. SameRest(s, s) /\ Begins(s.pending, s.pending) /\ s.nextSeq <= s.nextSeq
    BY <2>4, Zenon DEF Taking
  <2>6. Writing(s, s, k)
    BY <1>4, <2>3, <2>5, Zenon DEF Writing
  <2> QED BY <2>1, <2>6, Zenon
<1>5. CASE ~s.stale /\ Buffered(s) >= MaxBuffered
  <2>1. t = [s EXCEPT !.dropped = s.dropped + k]
    BY <1>2, <1>3, <1>5, Zenon
  <2>2. s.dropped + k \in Nat
    BY <1>1
  <2> HIDE DEF t
  <2>3. Taking(s, t, <<>>) /\ t.dropped = s.dropped + k
    <3>1. Taking(s, s, <<>>)
      BY TakingNothing, Zenon
    <3>2. /\ Taking(s, [s EXCEPT !.dropped = s.dropped + k], <<>>)
          /\ [s EXCEPT !.dropped = s.dropped + k].dropped = s.dropped + k
      BY <2>2, <3>1, DropTaking, Zenon
    <3> QED BY <2>1, <3>2, Zenon
  <2>4. t \in Shipper /\ t.nextSeq + Len(t.cur) <= s.nextSeq + Len(s.cur) + 0
    BY <2>3, EmptySeq, Zenon DEF Taking
  <2>5. t.nextSeq + Len(t.cur) + t.dropped <= s.out + k + 1
    <3>1. t.nextSeq \in Nat /\ Len(t.cur) \in Nat
      BY <2>4, ShipperFacts, Zenon
    <3>2. \A x, y, u, v, d, o \in Nat : u + v <= x + y + 0 /\ x + y + d <= o + 1 => u + v + (d + k) <= o + k + 1
      OBVIOUS
    <3>3. t.nextSeq + Len(t.cur) + (s.dropped + k) <= s.out + k + 1
      BY <1>1, <2>4, <3>1, <3>2, Zenon
    <3> QED BY <2>3, <3>3, Zenon
  <2>6. ASSUME NEW r \in Seq(Data), Base(s) <= Len(r), Len(r) < s.nextSeq,
               Seamless(Stream(s, r)), EndsWith(Stream(s, r), s.out - s.dropped)
        PROVE  Seamless(Stream(t, r)) /\ EndsWith(Stream(t, r), s.out + k - t.dropped)
    <3>1. Stream(t, r) = Stream(s, r)
      <4>1. Stream(t, r) = Stream(s, r) \o <<>>
        BY <2>3, <2>6, Zenon DEF Taking
      <4>2. Stream(s, r) \o <<>> = Stream(s, r)
        BY <2>6, StreamType, ConcatEmptySeq, Zenon DEF Data
      <4> QED BY <4>1, <4>2, Zenon
    <3>2. s.out + k - (s.dropped + k) = s.out - s.dropped
      BY <1>1
    <3>3. s.out + k - t.dropped = s.out - s.dropped
      BY <2>3, <3>2, Zenon
    <3> QED BY <2>6, <3>1, <3>3, Zenon
  <2> QED BY <2>3, <2>5, <2>6, Zenon DEF Writing, Taking
<1>6. CASE ~s.stale /\ ~(Buffered(s) >= MaxBuffered)
  <2>1. f \in 1..k
    <3>1. \A x, m, u \in Nat : x # 0 /\ ~(u >= m) => (IF x <= m - u THEN x ELSE m - u) \in 1..x
      OBVIOUS
    <3> QED BY <1>1, <1>6, <3>1, Zenon DEF Least
  <2> HIDE DEF f
  <2>2. fits \in Data /\ Len(fits) = f /\ \A i \in 1..f : fits[i] = s.out + i
    <3>1. 1 \in Nat /\ 1 # 0 /\ f \in Nat /\ f <= Len(p) /\ 1 <= f + 1
      <4>1. \A x \in Nat : \A y \in 1..x : 1 \in Nat /\ 1 # 0 /\ y \in Nat /\ y <= x /\ 1 <= y + 1
        OBVIOUS
      <4> QED BY <1>2, <2>1, <4>1, Zenon
    <3>2. fits \in Data /\ Len(fits) = f - 1 + 1 /\ \A i \in 1..(f - 1 + 1) : fits[i] = p[1 + i - 1]
      BY <1>2, <3>1, DataSub, Zenon
    <3>3. f - 1 + 1 = f /\ \A i \in 1..f : i \in 1..k /\ 1 + i - 1 = i
      BY <2>1
    <3>4. \A i \in 1..f : fits[i] = p[i]
      BY <3>2, <3>3, Zenon
    <3> QED BY <1>2, <3>2, <3>3, <3>4, Zenon
  <2> DEFINE s1 == IF s.dropped > 0 THEN Noted(s) ELSE s
  <2>3. t = [append(s1, fits) EXCEPT !.dropped = k - f]
    BY <1>2, <1>3, <1>6, <2>2, Zenon DEF f
  <2> HIDE DEF fits, t
  <2>4. k - f \in Nat /\ f \in Nat /\ f # 0
    BY <2>1
  <2>5. CASE ~(s.dropped > 0)
    <3>1. s1 = s /\ s.dropped = 0
      BY <1>1, <2>5
    <3>2. Taking(s, t, fits) /\ t.dropped = k - f
      <4>1. Taking(s, append(s, fits), fits)
        BY <2>2, AppendTaking, Zenon
      <4>2. /\ Taking(s, [append(s, fits) EXCEPT !.dropped = k - f], fits)
            /\ [append(s, fits) EXCEPT !.dropped = k - f].dropped = k - f
        BY <2>4, <4>1, DropTaking, Zenon
      <4> QED BY <2>3, <3>1, <4>2, Zenon
    <3>3. t \in Shipper /\ t.nextSeq + Len(t.cur) <= s.nextSeq + Len(s.cur) + f
      BY <2>2, <3>2, Zenon DEF Taking
    <3>4. t.nextSeq + Len(t.cur) + t.dropped <= s.out + k + 1
      <4>1. t.nextSeq \in Nat /\ Len(t.cur) \in Nat
        BY <3>3, ShipperFacts, Zenon
      <4>2. \A x, y, u, v, d, o \in Nat : u + v <= x + y + f /\ x + y + d <= o + 1 => u + v + (k - f) <= o + k + 1
        BY <2>4
      <4> QED BY <1>1, <3>2, <3>3, <4>1, <4>2, Zenon
    <3>5. ASSUME NEW r \in Seq(Data), Base(s) <= Len(r), Len(r) < s.nextSeq,
                 Seamless(Stream(s, r)), EndsWith(Stream(s, r), s.out - s.dropped)
          PROVE  Seamless(Stream(t, r)) /\ EndsWith(Stream(t, r), s.out + k - t.dropped)
      <4>1. Stream(t, r) = Stream(s, r) \o fits
        BY <3>2, <3>5, Zenon DEF Taking
      <4>2. Stream(s, r) \in Data
        BY <3>5, StreamType, Zenon
      <4>3. s.out - s.dropped = s.out /\ s.out + k - (k - f) = s.out + f
        BY <1>1, <2>4, <3>1
      <4>4. EndsWith(Stream(s, r), s.out)
        BY <3>5, <4>3, Zenon
      <4>5. Seamless(Stream(s, r) \o fits) /\ EndsWith(Stream(s, r) \o fits, s.out + f)
        BY <1>1, <2>2, <2>4, <3>5, <4>2, <4>4, SeamlessMore, Zenon
      <4> QED BY <3>2, <4>1, <4>3, <4>5, Zenon
    <3> QED BY <3>2, <3>4, <3>5, Zenon DEF Writing, Taking
  <2>6. CASE s.dropped > 0
    <3> DEFINE w == <<Marker>>
    <3>1. w \in Data /\ Len(w) = 1
      <4>1. 0 \in 0..MaxOut
        BY <1>1
      <4> QED BY <4>1 DEF Data, Marker
    <3>2. s1 = [append(s, w) EXCEPT !.dropped = 0] /\ 0 \in Nat
      BY <2>6, Zenon DEF Noted
    <3> HIDE DEF w, s1
    <3>3. Taking(s, s1, w)
      BY <3>1, <3>2, AppendTaking, DropTaking, Zenon
    <3>4. s1 \in Shipper /\ Numbered(s1)
      BY <3>3, Zenon DEF Taking
    <3>5. Taking(s1, t, fits) /\ t.dropped = k - f
      <4>1. Taking(s1, append(s1, fits), fits)
        BY <2>2, <3>4, AppendTaking, Zenon
      <4>2. /\ Taking(s1, [append(s1, fits) EXCEPT !.dropped = k - f], fits)
            /\ [append(s1, fits) EXCEPT !.dropped = k - f].dropped = k - f
        BY <2>4, <3>4, <4>1, DropTaking, Zenon
      <4> QED BY <2>3, <4>2, Zenon DEF s1
    <3>6. Taking(s, t, w \o fits)
      BY <2>2, <3>1, <3>3, <3>5, TakingTwice, Zenon
    <3>7. t \in Shipper /\ t.nextSeq + Len(t.cur) <= s.nextSeq + Len(s.cur) + (1 + f)
      <4>1. t \in Shipper /\ t.nextSeq + Len(t.cur) <= s.nextSeq + Len(s.cur) + Len(w \o fits)
        BY <3>6, Zenon DEF Taking
      <4>2. Len(w \o fits) = Len(w) + Len(fits)
        BY <2>2, <3>1, DataConcat, Zenon
      <4>3. Len(w \o fits) = 1 + f
        BY <2>2, <3>1, <4>2, Zenon
      <4> QED BY <4>1, <4>3, Zenon
    <3>8. t.nextSeq + Len(t.cur) + t.dropped <= s.out + k + 1
      <4>1. t.nextSeq \in Nat /\ Len(t.cur) \in Nat
        BY <3>7, ShipperFacts, Zenon
      <4>2. \A x, y, u, v, d, o \in Nat :
              d > 0 /\ u + v <= x + y + (1 + f) /\ x + y + d <= o + 1 => u + v + (k - f) <= o + k + 1
        BY <2>4
      <4> QED BY <1>1, <2>6, <3>5, <3>7, <4>1, <4>2, Zenon
    <3>9. ASSUME NEW r \in Seq(Data), Base(s) <= Len(r), Len(r) < s.nextSeq,
                 Seamless(Stream(s, r)), EndsWith(Stream(s, r), s.out - s.dropped)
          PROVE  Seamless(Stream(t, r)) /\ EndsWith(Stream(t, r), s.out + k - t.dropped)
      <4>1. Stream(t, r) = Stream(s, r) \o (w \o fits)
        BY <3>6, <3>9, Zenon DEF Taking
      <4>2. Stream(s, r) \in Data
        BY <3>9, StreamType, Zenon
      <4>3. (Stream(s, r) \o w) \o fits = Stream(s, r) \o (w \o fits)
        BY <2>2, <3>1, <4>2, DataAssoc, Zenon
      <4>4. s.out + k - (k - f) = s.out + f /\ s.out - s.dropped \in Nat /\ s.out - s.dropped < s.out
        BY <1>1, <2>4, <2>6
      <4>5. /\ Seamless((Stream(s, r) \o <<Marker>>) \o fits)
            /\ EndsWith((Stream(s, r) \o <<Marker>>) \o fits, s.out + f)
        BY <1>1, <2>2, <2>4, <3>9, <4>2, <4>4, SeamlessNote, Zenon
      <4> QED BY <3>5, <4>1, <4>3, <4>4, <4>5, Zenon DEF w
    <3> QED BY <3>5, <3>6, <3>8, <3>9, Zenon DEF Writing, Taking
  <2> QED BY <2>5, <2>6, Zenon
<1> QED BY <1>4, <1>5, <1>6, Zenon

\* Each attempt's part is in the total.
LEMMA TotalBound ==
  ASSUME NEW f \in [Attempts -> Nat], NEW a \in Attempts
  PROVE  Total(f) \in Nat /\ f[a] <= Total(f)
<1> DEFINE N == MaxAttempts
           step == [n \in 1..N |-> [d \in Nat |-> d + f[n]]]
           Rec(h) == h = [n \in 0..N |-> IF n = 0 THEN 0 ELSE h[n - 1] + f[n]]
<1>1. N \in Nat /\ N \in 0..N /\ 0 \in 0..N
  BY LogShipAssumption
<1>2. \A n \in 1..N : f[n] \in Nat
  BY Zenon DEF Attempts
<1>3. step \in [1..N -> [Nat -> Nat]]
  <2>1. \A x, y \in Nat : x + y \in Nat
    OBVIOUS
  <2> QED BY <1>2, <2>1, Zenon
<1>4. Total(f) = (CHOOSE h : Rec(h))[N]
  BY Zenon DEF Total
<1> HIDE DEF N
<1>5. PICK g \in [0..N -> Nat] : Follows(g, 0, N, step)
  <2>1. 0 \in Nat
    OBVIOUS
  <2> HIDE DEF step
  <2> QED BY <1>1, <1>3, <2>1, Recursion, Zenon
<1>6. \A n \in 1..N : n - 1 \in 0..N /\ n \in 0..N /\ n # 0
  BY <1>1
<1>7. g[0] = 0 /\ \A n \in 1..N : g[n] = g[n - 1] + f[n]
  <2>1. g[0] = 0 /\ \A n \in 1..N : g[n] = step[n][g[n - 1]] /\ g[n - 1] \in Nat
    BY <1>5, <1>6, Zenon DEF Follows
  <2> QED BY <2>1, Zenon
<1>8. Rec(g)
  <2>1. \A n \in 0..N : n # 0 => n \in 1..N
    BY <1>1
  <2>2. \A n \in 0..N : g[n] = IF n = 0 THEN 0 ELSE g[n - 1] + f[n]
    BY <1>7, <2>1, Zenon
  <2>3. g = [n \in 0..N |-> g[n]]
    BY <1>5, Zenon
  <2> QED BY <2>2, <2>3, Zenon
<1> DEFINE h == CHOOSE x : Rec(x)
<1>9. Rec(h)
  BY <1>8, Zenon
<1> HIDE DEF h
<1>10. \A n \in 0..N : h[n] = IF n = 0 THEN 0 ELSE h[n - 1] + f[n]
  BY <1>9, Zenon
<1> DEFINE P == {n \in 0..N : h[n] \in Nat /\ (a <= n => f[a] <= h[n])}
<1>11. a \in 1..N /\ f[a] \in Nat
  BY Zenon DEF Attempts, N
<1>12. 0 \in P
  <2>1. h[0] = 0
    BY <1>1, <1>10, Zenon
  <2>2. 0 \in Nat /\ ~(a <= 0)
    BY <1>1, <1>11
  <2> QED BY <1>1, <2>1, <2>2, Zenon
<1>13. ASSUME NEW n \in 1..N, n - 1 \in P PROVE n \in P
  <2>1. h[n] = h[n - 1] + f[n] /\ h[n - 1] \in Nat /\ f[n] \in Nat /\ (a <= n - 1 => f[a] <= h[n - 1]) /\ n \in 0..N
    BY <1>2, <1>6, <1>10, <1>13, Zenon
  <2>2. h[n] \in Nat /\ h[n] >= h[n - 1] /\ f[n] <= h[n]
    BY <2>1
  <2>3. ASSUME a <= n PROVE f[a] <= h[n]
    <3>1. CASE a = n
      BY <2>2, <3>1, Zenon
    <3>2. CASE a # n
      <4>1. a <= n - 1
        BY <1>1, <1>11, <2>3, <3>2
      <4>2. f[a] \in Nat /\ h[n] \in Nat /\ h[n - 1] \in Nat /\ f[a] <= h[n - 1] /\ h[n] >= h[n - 1]
        BY <1>11, <2>1, <2>2, <4>1, Zenon
      <4> QED BY <4>2
    <3> QED BY <3>1, <3>2, Zenon
  <2> QED BY <2>1, <2>2, <2>3, Zenon
<1> HIDE DEF P
<1>14. N \in P
  BY <1>1, <1>12, <1>13, UpTo, Zenon
<1>15. h[N] \in Nat /\ (a <= N => f[a] <= h[N])
  BY <1>14, Zenon DEF P
<1>16. a <= N
  BY <1>1, <1>11
<1> QED BY <1>4, <1>15, <1>16, Zenon DEF h
-----------------------------------------------------------------------------

\* Sequences with the same beginning have the same first chunks.
LEMMA SubSame ==
  ASSUME NEW x \in Seq(Chunk), NEW y \in Seq(Chunk), Begins(x, y), NEW b \in Nat, b <= Len(x)
  PROVE  SubSeq(y, 1, b) = SubSeq(x, 1, b)
<1>1. Len(x) \in Nat /\ Len(y) \in Nat /\ Len(x) <= Len(y) /\ \A i \in 1..Len(x) : x[i] = y[i]
  BY LenProperties, Zenon DEF Begins
<1>2. \A i \in 1..b : i \in 1..Len(x)
  BY <1>1
<1>3. \A i \in 1..b : x[i] = y[i] /\ x[i] \in Chunk /\ y[i] \in Chunk
  BY <1>1, <1>2, ElementOfSeq, Zenon
<1>4. 1 \in Int /\ b \in Int /\ b - 1 + 1 = b /\ (IF 1 <= b THEN b - 1 + 1 ELSE 0) = b /\ \A i \in 1..b : 1 + i - 1 = i
  OBVIOUS
<1> DEFINE u == SubSeq(x, 1, b)
           v == SubSeq(y, 1, b)
<1>5. u \in Seq(Chunk) /\ Len(u) = b /\ \A i \in 1..b : u[i] = x[i]
  <2>1. u \in Seq(Chunk) /\ Len(u) = (IF 1 <= b THEN b - 1 + 1 ELSE 0) /\ \A i \in 1..(b - 1 + 1) : u[i] = x[1 + i - 1]
    BY <1>3, <1>4, SubSeqProperties, SMT
  <2> QED BY <1>4, <2>1, Zenon
<1>6. v \in Seq(Chunk) /\ Len(v) = b /\ \A i \in 1..b : v[i] = y[i]
  <2>1. v \in Seq(Chunk) /\ Len(v) = (IF 1 <= b THEN b - 1 + 1 ELSE 0) /\ \A i \in 1..(b - 1 + 1) : v[i] = y[1 + i - 1]
    BY <1>3, <1>4, SubSeqProperties, SMT
  <2> QED BY <1>4, <2>1, Zenon
<1> HIDE DEF u, v
<1>7. Len(u) = Len(v) /\ \A i \in 1..Len(u) : u[i] = v[i]
  BY <1>3, <1>5, <1>6, Zenon
<1>8. u = v
  BY <1>5, <1>6, <1>7, SeqEqual, Zenon
<1> QED BY <1>8, Zenon DEF u, v

\* The base is a number.
LEMMA BaseNat ==
  ASSUME NEW s \in Shipper, Numbered(s)
  PROVE  Base(s) \in Nat /\ Base(s) + Len(s.pending) = s.nextSeq - 1 /\ s.nextSeq \in Nat /\ Len(s.pending) \in Nat
<1>1. s.nextSeq \in Nat /\ Len(s.pending) \in Nat /\ Len(s.pending) < s.nextSeq
  BY ShipperFacts, Zenon DEF Numbered
<1> QED BY <1>1 DEF Base

\* A shipper with more pending, and the requests so far.
LEMMA MoreKeeps ==
  ASSUME NEW s \in Shipper, Numbered(s), NEW t \in Shipper, Numbered(t), Base(t) = Base(s), Begins(s.pending, t.pending),
         s.nextSeq <= t.nextSeq, s.batch <= Len(s.pending), t.stale = s.stale, t.rejected = s.rejected,
         \/ t.sends = s.sends /\ t.pc = s.pc /\ t.batch = s.batch
         \/ t.sends = s.sends + 1 /\ t.pc = "send"
  PROVE  WireKeeps(s, t)
<1>1. /\ s.sends \in Nat /\ s.nextSeq \in Nat /\ s.batch \in Nat /\ t.nextSeq \in Nat
      /\ s.pending \in Seq(Chunk) /\ t.pending \in Seq(Chunk)
  BY ShipperFacts, Zenon
<1>2. /\ Base(s) \in Nat /\ Base(s) + Len(s.pending) = s.nextSeq - 1 /\ Len(s.pending) \in Nat
  BY BaseNat, Zenon
<1>3. s.sends <= t.sends
  <2>1. s.sends <= s.sends /\ s.sends <= s.sends + 1
    BY <1>1
  <2> QED BY <2>1, Zenon
<1>4. (Kept(t) => Kept(s)) /\ (s.pc # "off" => t.pc # "off")
  <2>1. "send" # "off"
    OBVIOUS
  <2> QED BY <2>1, Zenon DEF Kept
<1>5. Base(s) <= Base(t)
  <2>1. Base(s) <= Base(s)
    BY <1>2
  <2> QED BY <2>1, Zenon
<1>6. ASSUME NEW n \in 1..(s.nextSeq - 1), n > Base(t) PROVE t.pending[n - Base(t)] = s.pending[n - Base(s)]
  <2>1. n > Base(s)
    BY <1>6, Zenon
  <2>2. n - Base(s) \in 1..Len(s.pending)
    BY <1>1, <1>2, <2>1
  <2>3. \A i \in 1..Len(s.pending) : s.pending[i] = t.pending[i]
    BY Zenon DEF Begins
  <2>4. t.pending[n - Base(s)] = s.pending[n - Base(s)]
    BY <2>2, <2>3, Zenon
  <2> QED BY <2>4, Zenon
<1>7. ASSUME t.pc = "send", t.sends = s.sends
      PROVE  s.pc = "send" /\ SubSeq(t.pending, 1, t.batch) = SubSeq(s.pending, 1, s.batch)
  <2>1. s.sends # s.sends + 1
    BY <1>1
  <2>2. t.pc = s.pc /\ t.batch = s.batch
    BY <1>7, <2>1, Zenon
  <2>3. SubSeq(t.pending, 1, s.batch) = SubSeq(s.pending, 1, s.batch)
    BY <1>1, SubSame, Zenon
  <2> QED BY <1>7, <2>2, <2>3, Zenon
<1> QED BY <1>3, <1>4, <1>5, <1>6, <1>7, Zenon DEF WireKeeps

\* The requests of s are requests of t, whatever was stored meanwhile.
LEMMA WireMore ==
  ASSUME NEW s \in Shipper, NEW t \in Shipper, WireKeeps(s, t), NEW m \in Message, Numbered(s), Numbered(t),
         NEW r \in Seq(Data), NEW q \in Seq(Data), Len(r) <= Len(q), WireInv(m, s, r)
  PROVE  WireInv(m, t, q)
<1>1. m.send \in Nat /\ s.sends \in Nat /\ t.sends \in Nat /\ s.sends <= t.sends /\ m.send <= s.sends
  BY ShipperFacts, Zenon DEF Message, WireKeeps, WireInv
<1>2. m.send <= t.sends /\ t.pc # "off"
  <2>1. t.pc # "off"
    BY Zenon DEF WireKeeps, WireInv
  <2> QED BY <1>1, <2>1
<1>3. ASSUME Kept(t) PROVE \E lo \in 0..Len(q) : Carries(m.chunks, lo, t)
  <2>1. Kept(s) /\ Base(s) <= Base(t) /\ s.nextSeq <= t.nextSeq
    BY <1>3, Zenon DEF WireKeeps
  <2>2. \A n \in 1..(s.nextSeq - 1) : n > Base(t) => t.pending[n - Base(t)] = s.pending[n - Base(s)]
    BY <1>3, Zenon DEF WireKeeps
  <2>3. PICK lo \in 0..Len(r) : Carries(m.chunks, lo, s)
    BY <2>1, Zenon DEF WireInv
  <2>4. /\ Base(s) \in Nat /\ Base(t) \in Nat /\ s.nextSeq \in Nat /\ t.nextSeq \in Nat
        /\ Len(r) \in Nat /\ Len(q) \in Nat
    BY BaseNat, LenProperties, Zenon
  <2>5. lo \in Nat /\ lo \in 0..Len(q)
    BY <2>4
  <2>6. Len(m.chunks) \in Nat
    BY LenProperties, Zenon DEF Message
  <2>7. ASSUME NEW i \in 1..Len(m.chunks)
        PROVE  /\ m.chunks[i].seq = lo + i
               /\ lo + i < t.nextSeq
               /\ lo + i > Base(t) => m.chunks[i] = t.pending[lo + i - Base(t)]
    <3>1. /\ m.chunks[i].seq = lo + i
          /\ lo + i < s.nextSeq
          /\ lo + i > Base(s) => m.chunks[i] = s.pending[lo + i - Base(s)]
      BY <2>3, Zenon DEF Carries
    <3>2. i \in Nat /\ i # 0
      BY <2>6
    <3>3. lo + i \in 1..(s.nextSeq - 1) /\ lo + i < t.nextSeq /\ (lo + i > Base(t) => lo + i > Base(s))
      BY <2>1, <2>4, <2>5, <3>1, <3>2
    <3>4. lo + i > Base(t) => t.pending[lo + i - Base(t)] = s.pending[lo + i - Base(s)]
      <4>1. (lo + i) - Base(t) = lo + i - Base(t) /\ (lo + i) - Base(s) = lo + i - Base(s)
        BY <2>4, <2>5, <3>2
      <4> QED BY <2>2, <3>3, <4>1, Zenon
    <3>5. lo + i > Base(t) => m.chunks[i] = s.pending[lo + i - Base(s)]
      BY <3>1, <3>3, Zenon
    <3>6. lo + i > Base(t) => m.chunks[i] = t.pending[lo + i - Base(t)]
      BY <3>4, <3>5, Zenon
    <3> QED BY <3>1, <3>3, <3>6, Zenon
  <2>8. Carries(m.chunks, lo, t)
    BY <2>7, Zenon DEF Carries
  <2> QED BY <2>5, <2>8, Zenon
<1>4. ASSUME Kept(t), t.pc = "send", m.send = t.sends PROVE m.chunks = SubSeq(t.pending, 1, t.batch)
  <2>1. t.sends = s.sends
    BY <1>1, <1>4
  <2>2. Kept(s) /\ s.pc = "send" /\ SubSeq(t.pending, 1, t.batch) = SubSeq(s.pending, 1, s.batch)
    BY <1>4, <2>1, Zenon DEF WireKeeps
  <2>3. m.send = s.sends
    BY <1>4, <2>1, Zenon
  <2>4. m.chunks = SubSeq(s.pending, 1, s.batch)
    BY <2>2, <2>3, Zenon DEF WireInv
  <2> QED BY <2>2, <2>4, Zenon
<1> QED BY <1>2, <1>3, <1>4, Zenon DEF WireInv


\* A step of one attempt: its shipper becomes t, its rows q with e events, and
\* requests of w are sent.
LEMMA AttemptStep ==
  ASSUME ShipInv, NEW a \in Attempts, NEW t \in Shipper, NEW q \in Seq(Data), NEW e \in Nat, NEW w,
         sh' = [sh EXCEPT ![a] = t], rows' = [rows EXCEPT ![a] = q], events' = [events EXCEPT ![a] = e],
         wire' \subseteq wire \cup w, UNCHANGED <<state, attempt, refusing>>,
         \A m \in w : m \in Message /\ m.attempt = a /\ WireInv(m, t, q),
         Len(rows[a]) <= Len(q), WireKeeps(sh[a], t), t.pc = sh[a].pc \/ sh[a].pc # "off",
         ShipperInv(t, q, Gone(a), refusing), MeetInv(t, q, e), RowsInv(q, e)
  PROVE  ShipInv'
<1>1. ShipTypeOK /\ \A b \in Attempts : AttemptInv(b)
  BY Zenon DEF ShipInv
<1>2. sh \in [Attempts -> Shipper] /\ rows \in [Attempts -> Seq(Data)] /\ events \in [Attempts -> Nat] /\ wire \subseteq Message
  BY <1>1, Zenon DEF ShipTypeOK
<1>3. sh' \in [Attempts -> Shipper] /\ rows' \in [Attempts -> Seq(Data)] /\ events' \in [Attempts -> Nat]
  BY <1>2, Zenon
<1>4. wire' \subseteq Message
  BY <1>2, Zenon
<1>5. ShipTypeOK'
  BY <1>1, <1>3, <1>4, Zenon DEF ShipTypeOK
<1>6. \A b \in Attempts : Gone(b)' <=> Gone(b)
  BY Zenon DEF Gone
<1>7. sh'[a] = t /\ rows'[a] = q /\ events'[a] = e
  BY <1>2, Zenon
<1>8. \A b \in Attempts : b # a => sh'[b] = sh[b] /\ rows'[b] = rows[b] /\ events'[b] = events[b]
  BY <1>2, Zenon
<1>9. ASSUME NEW b \in Attempts PROVE AttemptInv(b)'
  <2>1. CASE b # a
    <3>1. /\ ShipperInv(sh[b], rows[b], Gone(b), refusing) /\ MeetInv(sh[b], rows[b], events[b])
          /\ RowsInv(rows[b], events[b]) /\ (attempt < b => sh[b].pc = "off")
      BY <1>1, Zenon DEF AttemptInv
    <3>2. Gone(b)' = Gone(b)
      BY <1>6, Zenon DEF Gone
    <3>3. /\ ShipperInv(sh'[b], rows'[b], Gone(b)', refusing') /\ MeetInv(sh'[b], rows'[b], events'[b])
          /\ RowsInv(rows'[b], events'[b]) /\ (attempt' < b => sh'[b].pc = "off")
      BY <1>8, <2>1, <3>1, <3>2, Zenon
    <3> QED BY <3>3, Zenon DEF AttemptInv
  <2>2. CASE b = a
    <3>1. Gone(a)' = Gone(a)
      BY <1>6, Zenon DEF Gone
    <3>2. attempt < a => t.pc = "off"
      BY <1>1, Zenon DEF AttemptInv
    <3>3. /\ ShipperInv(sh'[a], rows'[a], Gone(a)', refusing') /\ MeetInv(sh'[a], rows'[a], events'[a])
          /\ RowsInv(rows'[a], events'[a]) /\ (attempt' < a => sh'[a].pc = "off")
      BY <1>7, <3>1, <3>2, Zenon
    <3> QED BY <2>2, <3>3, Zenon DEF AttemptInv
  <2> QED BY <2>1, <2>2, Zenon
<1>10. ASSUME NEW m \in wire' PROVE WireInv(m, sh'[m.attempt], rows'[m.attempt])
  <2>1. m.attempt \in Attempts /\ m \in Message
    BY <1>4, Zenon DEF Message
  <2>2. CASE m \in w
    <3>1. m.attempt = a /\ WireInv(m, t, q)
      BY <2>2, Zenon
    <3> QED BY <1>7, <3>1, Zenon
  <2>3. CASE m \notin w
    <3>1. m \in wire /\ WireInv(m, sh[m.attempt], rows[m.attempt])
      BY <2>3, Zenon DEF ShipInv
    <3>2. CASE m.attempt # a
      BY <1>8, <2>1, <3>1, <3>2, Zenon
    <3>3. CASE m.attempt = a
      <4>1. WireInv(m, sh[a], rows[a]) /\ sh[a] \in Shipper /\ rows[a] \in Seq(Data)
        BY <1>2, <3>1, <3>3, Zenon
      <4>2. Numbered(sh[a]) /\ Numbered(t)
        BY <1>1, Zenon DEF AttemptInv, ShipperInv
      <4>3. WireInv(m, t, q)
        BY <2>1, <4>1, <4>2, WireMore, Zenon
      <4> QED BY <1>7, <3>3, <4>3, Zenon
    <3> QED BY <3>2, <3>3, Zenon
  <2> QED BY <2>2, <2>3, Zenon
<1> QED BY <1>5, <1>9, <1>10, Zenon DEF ShipInv

\* A step of a shipper alone.
LEMMA ShipperStep ==
  ASSUME ShipInv, NEW a \in Attempts, NEW t \in Shipper, sh' = [sh EXCEPT ![a] = t],
         UNCHANGED <<job, table, refusing, wire>>,
         WireKeeps(sh[a], t), t.pc = sh[a].pc \/ sh[a].pc # "off",
         ShipperInv(t, rows[a], Gone(a), refusing), MeetInv(t, rows[a], events[a])
  PROVE  ShipInv'
<1>1. rows \in [Attempts -> Seq(Data)] /\ events \in [Attempts -> Nat]
  BY Zenon DEF ShipInv, ShipTypeOK
<1>2. rows[a] \in Seq(Data) /\ events[a] \in Nat
  BY <1>1, Zenon
<1>3. UNCHANGED <<state, attempt, refusing>> /\ rows' = rows /\ events' = events /\ wire' \subseteq wire \cup {}
  BY Zenon DEF job, table
<1>4. rows' = [rows EXCEPT ![a] = rows[a]] /\ events' = [events EXCEPT ![a] = events[a]]
  BY <1>1, <1>3, Zenon
<1>5. Len(rows[a]) <= Len(rows[a])
  <2>1. Len(rows[a]) \in Nat
    BY <1>2, LenProperties, Zenon
  <2> QED BY <2>1
<1>6. RowsInv(rows[a], events[a])
  BY Zenon DEF ShipInv, AttemptInv
<1>7. PICK q, e, w : q = rows[a] /\ e = events[a] /\ w = {}
  BY Zenon
<1>8. q \in Seq(Data) /\ e \in Nat
  BY <1>2, <1>7, Zenon
<1>9. rows' = [rows EXCEPT ![a] = q] /\ events' = [events EXCEPT ![a] = e] /\ wire' \subseteq wire \cup w
  BY <1>3, <1>4, <1>7, Zenon
<1>10. Len(rows[a]) <= Len(q) /\ ShipperInv(t, q, Gone(a), refusing) /\ MeetInv(t, q, e) /\ RowsInv(q, e)
  BY <1>5, <1>6, <1>7, Zenon
<1>11. \A m \in w : m \in Message /\ m.attempt = a /\ WireInv(m, t, q)
  BY <1>7, Zenon
<1> QED BY <1>3, <1>8, <1>9, <1>10, <1>11, AttemptStep, Zenon


\* What follows from what a shipper holds.
LEMMA HeldSame ==
  ASSUME NEW s, NEW t, SameHeld(s, t)
  PROVE  /\ Base(t) = Base(s) /\ (Numbered(s) => Numbered(t)) /\ Buffered(t) = Buffered(s)
         /\ \A r : Stream(t, r) = Stream(s, r)
<1>1. t.nextSeq = s.nextSeq /\ t.pending = s.pending /\ t.cur = s.cur
  BY Zenon DEF SameHeld
<1>2. Base(t) = Base(s)
  BY <1>1, Zenon DEF Base
<1>3. Numbered(s) => Numbered(t)
  BY <1>1, <1>2, Zenon DEF Numbered
<1>4. Buffered(t) = Buffered(s)
  BY <1>1, Zenon DEF Buffered
<1>5. \A r : Pieces(t, r) = Pieces(s, r)
  BY <1>1, <1>2, Zenon DEF Pieces
<1>6. \A r : Stream(t, r) = Stream(s, r)
  BY <1>1, <1>5, Zenon DEF Stream
<1> QED BY <1>2, <1>3, <1>4, <1>6, Zenon

\* A step that leaves what a shipper holds.
LEMMA HeldKeeps ==
  ASSUME NEW s \in Shipper, NEW t \in Shipper, SameHeld(s, t),
         t.out = s.out, t.dropped = s.dropped, t.stale = s.stale, t.rejected = s.rejected, t.sends = s.sends,
         NEW r \in Seq(Data), NEW e, NEW gone, NEW ref, ShipperInv(s, r, gone, ref), MeetInv(s, r, e),
         t.pc # "send" \/ (s.pc = "send" /\ t.batch = s.batch), t.batch = 0 \/ t.batch = s.batch,
         s.pc # "off" => t.pc # "off",
         t.pc = "send" /\ t.reply = "409" => gone,
         t.pc = "send" /\ t.reply = "4xx" => ref,
         t.pc = "send" /\ t.reply = "204" /\ Kept(s) => Base(s) + s.batch <= Len(r),
         t.result = "nil" =>
           /\ t.closed /\ t.pc = "done" /\ Kept(s)
           /\ s.cur = <<>> /\ s.pending = <<>> /\ s.dropped = 0
  PROVE  WireKeeps(s, t) /\ ShipperInv(t, r, gone, ref) /\ MeetInv(t, r, e)
<1>1. t.nextSeq = s.nextSeq /\ t.pending = s.pending /\ t.cur = s.cur
  BY Zenon DEF SameHeld
<1>2. Numbered(s) /\ s.batch <= Len(s.pending)
  BY Zenon DEF ShipperInv
<1>3. Base(t) = Base(s) /\ Numbered(t) /\ Stream(t, r) = Stream(s, r)
  BY <1>2, HeldSame, Zenon
<1>4. Kept(t) <=> Kept(s)
  BY Zenon DEF Kept
<1>5. s.sends \in Nat /\ Base(s) \in Nat /\ s.nextSeq \in Nat /\ Len(s.pending) \in Nat
  BY <1>2, BaseNat, ShipperFacts, Zenon
<1>6. WireKeeps(s, t)
  <2>1. s.sends <= s.sends /\ Base(s) <= Base(s) /\ s.nextSeq <= s.nextSeq
    BY <1>5
  <2>2. s.sends <= t.sends /\ Base(s) <= Base(t) /\ s.nextSeq <= t.nextSeq
    BY <1>1, <1>3, <2>1, Zenon
  <2>3. \A n : t.pending[n - Base(t)] = s.pending[n - Base(s)]
    BY <1>1, <1>3, Zenon
  <2>4. t.pc = "send" => s.pc = "send" /\ SubSeq(t.pending, 1, t.batch) = SubSeq(s.pending, 1, s.batch)
    BY <1>1, Zenon
  <2> QED BY <1>4, <2>2, <2>3, <2>4, Zenon DEF WireKeeps
<1>7. t.batch <= Len(t.pending)
  <2>1. 0 <= Len(s.pending)
    BY <1>5
  <2> QED BY <1>1, <1>2, <2>1, Zenon
<1>8. t.pc = "send" /\ t.reply = "204" /\ Kept(t) => Base(t) + t.batch <= Len(r)
  <2>1. ASSUME t.pc = "send", t.reply = "204", Kept(t) PROVE Base(t) + t.batch <= Len(r)
    <3>1. Base(s) + s.batch <= Len(r) /\ t.batch = s.batch
      BY <1>4, <2>1, Zenon
    <3> QED BY <1>3, <3>1, Zenon
  <2> QED BY <2>1, Zenon
<1>9. t.nextSeq + Len(t.cur) + t.dropped <= t.out + 1
  BY <1>1, Zenon DEF ShipperInv
<1>10. t.out <= MaxOut /\ (t.stale => gone) /\ (t.rejected => ref)
  BY Zenon DEF ShipperInv
<1>11. t.result = "nil" => t.closed /\ t.pc = "done" /\ Kept(t) /\ t.cur = <<>> /\ t.pending = <<>> /\ t.dropped = 0
  BY <1>1, <1>4, Zenon
<1>12. ShipperInv(t, r, gone, ref)
  BY <1>3, <1>7, <1>8, <1>9, <1>10, <1>11, Zenon DEF ShipperInv
<1>13. MeetInv(t, r, e)
  BY <1>1, <1>3, <1>4, Zenon DEF MeetInv
<1> QED BY <1>6, <1>12, <1>13, Zenon


\* A shipper that buffers nothing holds nothing.
LEMMA BufferedZero ==
  ASSUME NEW s \in Shipper, Numbered(s), ~(Buffered(s) > 0)
  PROVE  s.cur = <<>> /\ s.pending = <<>>
<1> DEFINE q == [i \in DOMAIN s.pending |-> s.pending[i].data]
<1>1. q \in Seq(Data) /\ Len(q) = Len(s.pending) /\ Len(Flat(s.pending)) \in Nat /\ Len(s.cur) \in Nat
  BY BufferedType, ShipperFacts, Zenon
<1>2. s.cur \in Data /\ s.pending \in Seq(Chunk) /\ Len(s.pending) \in Nat
  BY ShipperFacts, Zenon
<1>3. Flat(s.pending) = Joined(q)
  BY Zenon DEF Flat
<1>4. \A i \in DOMAIN s.pending : q[i] = s.pending[i].data
  BY Zenon
<1> HIDE DEF q
<1>5. Len(s.cur) = 0 /\ Len(Flat(s.pending)) = 0
  <2>1. \A x, y \in Nat : ~(x + y > 0) => x = 0 /\ y = 0
    OBVIOUS
  <2>2. ~(Len(s.cur) + Len(Flat(s.pending)) > 0)
    BY Zenon DEF Buffered
  <2> QED BY <1>1, <2>1, <2>2, Zenon
<1>6. s.cur = <<>>
  BY <1>2, <1>5, EmptySeq, Zenon DEF Data
<1>7. Len(s.pending) = 0
  <2> SUFFICES ASSUME Len(s.pending) # 0 PROVE FALSE
    BY Zenon
  <2>1. 1 \in 1..Len(s.pending)
    BY <1>2
  <2>2. q[1] = <<>>
    BY <1>1, <1>3, <1>5, <2>1, JoinedEmpty, Zenon
  <2>3. 1 \in DOMAIN s.pending
    BY <1>2, <2>1, LenProperties, Zenon
  <2>4. s.pending[1].data # <<>>
    BY <2>1, Zenon DEF Numbered
  <2> QED BY <1>4, <2>2, <2>3, <2>4, Zenon
<1>8. s.pending = <<>>
  BY <1>2, <1>7, EmptySeq, Zenon
<1> QED BY <1>6, <1>8, Zenon

\* What the invariant says of one attempt.
LEMMA AttemptFacts ==
  ASSUME ShipInv, NEW a \in Attempts
  PROVE  /\ sh \in [Attempts -> Shipper] /\ sh[a] \in Shipper /\ rows[a] \in Seq(Data) /\ events[a] \in Nat
         /\ ShipperInv(sh[a], rows[a], Gone(a), refusing)
         /\ MeetInv(sh[a], rows[a], events[a])
         /\ RowsInv(rows[a], events[a])
         /\ Numbered(sh[a])
BY Zenon DEF ShipInv, ShipTypeOK, AttemptInv, ShipperInv
-----------------------------------------------------------------------------
\* The last place, or one before it.
LEMMA LastOrBefore == \A x \in Nat : \A i \in 1..(x + 1) : i = x + 1 \/ i \in 1..x
OBVIOUS

\* One row more.
LEMMA ExtendedFacts ==
  ASSUME NEW r \in Seq(Data), NEW d \in Data
  PROVE  LET x == Extended(r, d) IN
         /\ x \in Seq(Data) /\ Len(x) = Len(r) + 1
         /\ \A i \in 1..Len(r) : x[i] = r[i]
         /\ x[Len(r) + 1] = d
         /\ Joined(x) = Joined(r) \o d
         /\ Len(Joined(x)) = Len(Joined(r)) + Len(d)
<1> DEFINE x == Extended(r, d)
           N == Len(r) + 1
<1>1. Len(r) \in Nat /\ \A i \in 1..Len(r) : r[i] \in Data
  BY LenProperties, ElementOfSeq, Zenon
<1>2. /\ N \in Nat /\ N \in 1..N /\ \A i \in 1..N : i # N => i \in 1..Len(r)
      /\ \A i \in 1..Len(r) : i # N /\ i \in 1..N
  BY <1>1
<1>3. x = [i \in 1..N |-> IF i = N THEN d ELSE r[i]]
  BY Zenon DEF Extended
<1> HIDE DEF N, x
<1>4. \A i \in 1..N : (IF i = N THEN d ELSE r[i]) \in Data
  BY <1>1, <1>2, Zenon
<1>5. x \in [1..N -> Data]
  BY <1>3, <1>4, Zenon
<1>6. x[N] = d /\ \A i \in 1..Len(r) : x[i] = r[i]
  BY <1>2, <1>3, Zenon
<1>7. x \in Seq(Data) /\ Len(x) = N
  BY <1>2, <1>5
<1>8. Joined(x) = Joined(r) \o x[Len(x)]
  <2>1. Len(x) = Len(r) + 1
    BY <1>7, Zenon DEF N
  <2>2. \A n \in 1..Len(r) : r[n] = x[n]
    BY <1>6, Zenon
  <2> QED BY <1>7, <2>1, <2>2, JoinedMore, Zenon
<1>9. Joined(x) = Joined(r) \o d
  BY <1>6, <1>7, <1>8, Zenon
<1>10. Joined(r) \in Data
  BY JoinedType, Zenon
<1>11. Len(Joined(x)) = Len(Joined(r)) + Len(d)
  BY <1>9, <1>10, DataConcat, Zenon
<1> QED BY <1>6, <1>7, <1>9, <1>11, Zenon DEF x, N

\* What is cut from data begins it.
LEMMA CutFacts ==
  ASSUME NEW d \in Data, NEW k \in Nat
  PROVE  LET c == SubSeq(d, 1, Least(Len(d), k)) IN
         /\ c \in Data /\ Begins(c, d) /\ Len(c) \in Nat /\ Len(c) <= k /\ Len(c) <= Len(d)
         /\ Len(c) < Len(d) => Len(c) = k
         /\ ~(Len(c) < Len(d)) => c = d
         /\ k = 0 => c = <<>>
<1> DEFINE n == Least(Len(d), k)
           c == SubSeq(d, 1, n)
<1>1. Len(d) \in Nat
  BY DataFacts, Zenon
<1>2. n \in Nat /\ n <= Len(d) /\ n <= k /\ (n < Len(d) => n = k) /\ (~(n < Len(d)) => n = Len(d)) /\ (k = 0 => n = 0)
  BY <1>1 DEF Least
<1> HIDE DEF n
<1>3. 1 \in Nat /\ 1 # 0 /\ 1 <= n + 1 /\ n - 1 + 1 = n /\ \A i \in 1..n : 1 + i - 1 = i
  BY <1>2
<1>4. c \in Data /\ Len(c) = n - 1 + 1 /\ \A i \in 1..(n - 1 + 1) : c[i] = d[1 + i - 1]
  BY <1>2, <1>3, DataSub, Zenon
<1>5. c \in Data /\ Len(c) = n /\ \A i \in 1..n : c[i] = d[i]
  BY <1>3, <1>4, Zenon
<1>6. Begins(c, d)
  BY <1>2, <1>5, Zenon DEF Begins
<1>7. ~(Len(c) < Len(d)) => c = d
  <2>1. ~(n < Len(d)) => c = SubSeq(d, 1, Len(d))
    BY <1>2, Zenon
  <2>2. SubSeq(d, 1, Len(d)) = d
    BY SubSeqFull, Zenon DEF Data
  <2> QED BY <1>5, <2>1, <2>2, Zenon
<1>8. k = 0 => c = <<>>
  <2>1. k = 0 => Len(c) = 0
    BY <1>2, <1>5, Zenon
  <2>2. Len(c) = 0 => c = <<>>
    BY <1>5, EmptySeq, Zenon DEF Data
  <2> QED BY <2>1, <2>2, Zenon
<1>9. /\ Len(c) \in Nat /\ Len(c) <= k /\ Len(c) <= Len(d) /\ (Len(c) < Len(d) => Len(c) = k)
  BY <1>2, <1>5, Zenon
<1> HIDE DEF c
<1> QED BY <1>5, <1>6, <1>7, <1>8, <1>9, Zenon DEF c, n

\* Data behind the same data.
LEMMA ConcatBegin ==
  ASSUME NEW x \in Data, NEW y \in Data, NEW z \in Data, Begins(y, z)
  PROVE  Begins(x \o y, x \o z)
<1>1. /\ Len(x) \in Nat /\ Len(y) \in Nat /\ Len(z) \in Nat /\ Len(y) <= Len(z)
      /\ \A i \in 1..Len(y) : y[i] = z[i]
  BY DataFacts, Zenon DEF Begins
<1>2. /\ Len(x \o y) = Len(x) + Len(y)
      /\ \A i \in 1..Len(x) : (x \o y)[i] = x[i]
      /\ \A i \in 1..Len(y) : (x \o y)[Len(x) + i] = y[i]
  BY ConcatFacts, Zenon
<1>3. /\ Len(x \o z) = Len(x) + Len(z)
      /\ \A i \in 1..Len(x) : (x \o z)[i] = x[i]
      /\ \A i \in 1..Len(z) : (x \o z)[Len(x) + i] = z[i]
  BY ConcatFacts, Zenon
<1>4. Len(x) + Len(y) <= Len(x) + Len(z)
  BY <1>1
<1>5. ASSUME NEW i \in 1..(Len(x) + Len(y)) PROVE (x \o y)[i] = (x \o z)[i]
  <2>1. CASE i <= Len(x)
    <3>1. i \in 1..Len(x)
      BY <1>1, <2>1
    <3> QED BY <1>2, <1>3, <3>1, Zenon
  <2>2. CASE ~(i <= Len(x))
    <3>1. PICK j : j = i - Len(x)
      BY Zenon
    <3>2. j \in 1..Len(y) /\ j \in 1..Len(z) /\ i = Len(x) + j
      BY <1>1, <2>2, <3>1
    <3>3. (x \o y)[Len(x) + j] = y[j] /\ (x \o z)[Len(x) + j] = z[j] /\ y[j] = z[j]
      BY <1>1, <1>2, <1>3, <3>2, Zenon
    <3> QED BY <3>2, <3>3, Zenon
  <2> QED BY <2>1, <2>2, Zenon
<1> QED BY <1>2, <1>3, <1>4, <1>5, Zenon DEF Begins


\* The data of a chunk that is not stored.
LEMMA ChunkPiece ==
  ASSUME NEW s \in Shipper, Numbered(s), NEW r \in Seq(Data), Base(s) <= Len(r), Len(r) < s.nextSeq,
         NEW chunks \in Seq(Chunk), NEW lo \in Nat, Carries(chunks, lo, s), NEW n \in 1..Len(chunks)
  PROVE  \E g \in Nat :
           /\ g = lo + n /\ chunks[n].seq = g /\ g # 0 /\ g < s.nextSeq /\ chunks[n].data \in Data
           /\ g > Len(r) => chunks[n].data = Pieces(s, r)[g] /\ chunks[n].data # <<>>
<1>0. PICK g : g = lo + n
  BY Zenon
<1>1. Len(chunks) \in Nat /\ chunks[n] \in Chunk
  BY LenProperties, ElementOfSeq, Zenon
<1>2. n \in Nat /\ n # 0
  BY <1>1
<1>3. g \in Nat /\ g # 0
  BY <1>0, <1>2
<1>4. chunks[n].seq = g /\ g < s.nextSeq
  BY <1>0, Zenon DEF Carries
<1>5. chunks[n].data \in Data
  BY <1>1, Zenon DEF Chunk
<1>6. ASSUME g > Len(r) PROVE chunks[n].data = Pieces(s, r)[g] /\ chunks[n].data # <<>>
  <2>1. Base(s) \in Nat /\ s.nextSeq \in Nat /\ Len(r) \in Nat /\ Base(s) + Len(s.pending) = s.nextSeq - 1 /\ Len(s.pending) \in Nat
    BY BaseNat, LenProperties, Zenon
  <2>2. g > Base(s) /\ g \in 1..(s.nextSeq - 1) /\ ~(g <= Len(r)) /\ g - Base(s) \in 1..Len(s.pending)
    <3>1. \A x, b, l, p, q \in Nat :
             /\ b <= l /\ x > l /\ x < q /\ b + p = q - 1
             => x > b /\ x \in 1..(q - 1) /\ ~(x <= l) /\ x - b \in 1..p
      OBVIOUS
    <3> QED BY <1>3, <1>4, <1>6, <2>1, <3>1, Zenon
  <2>3. lo + n - Base(s) = g - Base(s)
    BY <1>0, <1>2, <2>1
  <2>4. chunks[n] = s.pending[lo + n - Base(s)]
    BY <1>0, <2>2, Zenon DEF Carries
  <2>5. chunks[n] = s.pending[g - Base(s)]
    BY <2>3, <2>4, Zenon
  <2>6. Pieces(s, r)[g] = s.pending[g - Base(s)].data
    BY <2>2, Zenon DEF Pieces
  <2>7. s.pending[g - Base(s)].data # <<>>
    BY <2>2, Zenon DEF Numbered
  <2> QED BY <2>5, <2>6, <2>7, Zenon
<1> QED BY <1>0, <1>3, <1>4, <1>5, <1>6, Zenon

\* The chunk after the last row is cut to what the cap leaves and put there.
LEMMA InsertNew ==
  ASSUME NEW x \in Accs, NEW c \in Chunk, c.seq = Len(x.rows) + 1, Len(x.rows) <= MaxOut,
         Len(Joined(x.rows)) <= LogCapBytes
  PROVE  LET k == LogCapBytes - Len(Joined(x.rows))
             d == SubSeq(c.data, 1, Least(Len(c.data), k))
             y == InsertLogChunk(x, c)
         IN  /\ k \in Nat /\ y \in Accs /\ d \in Data
             /\ y.rows = Extended(x.rows, d) /\ y.lost = (x.lost \/ Len(d) < Len(c.data))
<1> DEFINE R == x.rows
           bytes == Len(Joined(R))
           k == LogCapBytes - bytes
           d == SubSeq(c.data, 1, Least(Len(c.data), k))
           y == InsertLogChunk(x, c)
<1>1. R \in Seq(Data) /\ x.lost \in BOOLEAN
  BY Zenon DEF Accs
<1>2. Len(R) \in Nat /\ DOMAIN R = 1..Len(R)
  BY <1>1, LenProperties, Zenon
<1>3. LogBytes(R) = bytes
  BY <1>1, ListIsJoined, Zenon DEF LogBytes
<1>4. bytes \in Nat /\ LogCapBytes \in Nat
  <2>1. Joined(R) \in Data
    BY <1>1, JoinedType, Zenon
  <2> QED BY <2>1, DataFacts, LogShipAssumption, Zenon
<1>5. c.data \in Data
  BY Zenon DEF Chunk
<1> HIDE DEF bytes
<1>6. bytes <= LogCapBytes
  BY Zenon DEF bytes
<1>7. k \in Nat
  BY <1>4, <1>6
<1>8. c.seq \notin DOMAIN R /\ DOMAIN R \cup {c.seq} = 1..(Len(R) + 1)
  BY <1>2
<1>9. y = [rows |-> [n \in DOMAIN R \cup {c.seq} |-> IF n = c.seq THEN d ELSE R[n]],
           lost |-> x.lost \/ Len(d) < Len(c.data)]
  BY <1>3, <1>6, <1>8, Zenon DEF InsertLogChunk
<1>10. d \in Data
  BY <1>5, <1>7, CutFacts, Zenon
<1> HIDE DEF d, k
<1>11. [n \in DOMAIN R \cup {c.seq} |-> IF n = c.seq THEN d ELSE R[n]] = Extended(R, d)
  BY <1>8, Zenon DEF Extended
<1>12. y = [rows |-> Extended(R, d), lost |-> x.lost \/ Len(d) < Len(c.data)]
  BY <1>9, <1>11, Zenon
<1>13. Extended(R, d) \in Seq(Data)
  BY <1>1, <1>10, ExtendedFacts, Zenon
<1>14. (x.lost \/ Len(d) < Len(c.data)) \in BOOLEAN
  BY Zenon
<1> HIDE DEF y
<1>15. y \in Accs
  BY <1>12, <1>13, <1>14, Zenon DEF Accs
<1>16. y.rows = Extended(R, d) /\ y.lost = (x.lost \/ Len(d) < Len(c.data))
  BY <1>12, Zenon
<1> QED BY <1>7, <1>10, <1>15, <1>16, Zenon DEF y, d, k, bytes


\* A chunk that is there already changes nothing.
LEMMA CuttingSame ==
  ASSUME NEW x, NEW n \in Nat, NEW lo \in Nat, NEW r, NEW P, Len(r) \in Nat, Len(x.rows) \in Nat,
         Cutting(x, n - 1, lo, r, P), lo + n <= Len(x.rows)
  PROVE  Cutting(x, n, lo, r, P)
<1>1. \A k, m \in Nat : (k <= m \/ k = lo + (n - 1)) /\ lo + n <= k => k <= m
  OBVIOUS
<1>2. Len(x.rows) <= Len(r) \/ Len(x.rows) = lo + (n - 1)
  BY Zenon DEF Cutting
<1>3. Len(x.rows) <= Len(r)
  BY <1>1, <1>2, Zenon
<1> QED BY <1>3, Zenon DEF Cutting

\* A new chunk is cut or it is not.
LEMMA CuttingNew ==
  ASSUME NEW x, NEW y, NEW d, NEW b, NEW n, NEW lo, NEW r, NEW P, Len(r) \in Nat, Len(x.rows) \in Nat,
         Cutting(x, n - 1, lo, r, P), Len(r) <= Len(x.rows), lo + n = Len(x.rows) + 1, b = P[lo + n],
         Len(y.rows) = Len(x.rows) + 1, \A i \in 1..Len(x.rows) : y.rows[i] = x.rows[i],
         y.rows[Len(x.rows) + 1] = d, y.lost = (x.lost \/ Len(d) < Len(b))
  PROVE  Cutting(y, n, lo, r, P)
<1>1. PICK k, l : k = Len(x.rows) /\ l = Len(r)
  BY Zenon
<1>2. k \in Nat /\ l \in Nat /\ l <= k
  BY <1>1, Zenon
<1>3. /\ \A i \in 1..l : i \in 1..k
      /\ \A i \in 1..k : i \in 1..(k + 1)
      /\ \A i \in 1..(k + 1) : i = k + 1 \/ i \in 1..k
      /\ k + 1 \in 1..(k + 1) /\ l < k + 1
  BY <1>2
<1>4. /\ \A i \in 1..l : x.rows[i] = r[i]
      /\ x.lost <=> \E i \in 1..k : l < i /\ Len(x.rows[i]) < Len(P[i])
  BY <1>1, Zenon DEF Cutting
<1>5. /\ Len(y.rows) = k + 1 /\ (\A i \in 1..k : y.rows[i] = x.rows[i]) /\ y.rows[k + 1] = d
      /\ b = P[k + 1] /\ lo + n = k + 1
  BY <1>1, Zenon
<1>6. \A i \in 1..l : y.rows[i] = r[i]
  BY <1>3, <1>4, <1>5, Zenon
<1>7. y.lost => \E i \in 1..(k + 1) : l < i /\ Len(y.rows[i]) < Len(P[i])
  <2>1. CASE x.lost
    <3>1. PICK i \in 1..k : l < i /\ Len(x.rows[i]) < Len(P[i])
      BY <1>4, <2>1, Zenon
    <3> QED BY <1>3, <1>5, <3>1, Zenon
  <2>2. CASE Len(d) < Len(b)
    BY <1>3, <1>5, <2>2, Zenon
  <2> QED BY <2>1, <2>2, Zenon
<1>8. ASSUME NEW i \in 1..(k + 1), l < i, Len(y.rows[i]) < Len(P[i]) PROVE y.lost
  <2>1. CASE i = k + 1
    BY <1>5, <1>8, <2>1, Zenon
  <2>2. CASE i \in 1..k
    BY <1>4, <1>5, <1>8, <2>2, Zenon
  <2> QED BY <1>3, <2>1, <2>2, Zenon
<1>9. /\ \A i \in 1..Len(r) : y.rows[i] = r[i]
      /\ Len(y.rows) = lo + n
      /\ y.lost <=> \E i \in 1..Len(y.rows) : Len(r) < i /\ Len(y.rows[i]) < Len(P[i])
  BY <1>1, <1>5, <1>6, <1>7, <1>8, Zenon
<1> QED BY <1>9, Zenon DEF Cutting


\* One chunk of the batch.
LEMMA StoringStep ==
  ASSUME NEW s \in Shipper, Numbered(s), NEW r \in Seq(Data), Base(s) <= Len(r), Len(r) < s.nextSeq,
         s.nextSeq <= MaxOut + 1, NEW e,
         NEW chunks \in Seq(Chunk), NEW lo \in Nat, Carries(chunks, lo, s), NEW n \in 1..Len(chunks),
         NEW x, Storing(x, n - 1, lo, s, r, e)
  PROVE  Storing(InsertLogChunk(x, chunks[n]), n, lo, s, r, e)
<1> DEFINE R == x.rows
           c == chunks[n]
           y == InsertLogChunk(x, c)
           P == Pieces(s, r)
<1>1. /\ x \in Accs /\ Len(r) <= Len(R) /\ lo + (n - 1) <= Len(R) /\ Len(R) < s.nextSeq
      /\ Len(Joined(R)) <= LogCapBytes
      /\ x.lost \/ e = 1 => Len(Joined(R)) = LogCapBytes
      /\ e = 0 => Begins(Joined(R), Joined(P))
      /\ e = 0 /\ ~x.lost => \A i \in 1..Len(R) : R[i] = P[i] /\ R[i] # <<>>
      /\ e = 1 => Joined(R) = Joined(r)
      /\ Cutting(x, n - 1, lo, r, P)
  BY Zenon DEF Storing
<1>2. R \in Seq(Data) /\ x.lost \in BOOLEAN /\ c \in Chunk
  BY <1>1, ElementOfSeq, Zenon DEF Accs
<1>3. PICK g \in Nat :
         /\ g = lo + n /\ c.seq = g /\ g # 0 /\ g < s.nextSeq /\ c.data \in Data
         /\ g > Len(r) => c.data = P[g] /\ c.data # <<>>
  BY ChunkPiece, ZenonT(40)
<1>4. /\ c.seq = g /\ g \in Nat /\ g # 0 /\ g < s.nextSeq /\ c.data \in Data
      /\ g > Len(r) => c.data = P[g] /\ c.data # <<>>
  BY <1>3, Zenon
<1>5. P \in Seq(Data) /\ Len(P) = s.nextSeq - 1
  BY PiecesFacts, Zenon
<1>6. Len(R) \in Nat /\ DOMAIN R = 1..Len(R) /\ Len(r) \in Nat /\ s.nextSeq \in Nat /\ Len(chunks) \in Nat /\ MaxOut \in Nat
  <2>1. MaxOut \in Nat
    BY LogShipAssumption
  <2> QED BY <1>2, <2>1, LenProperties, ShipperFacts, Zenon
<1>7. CASE g <= Len(R)
  <2>1. g \in DOMAIN R
    BY <1>4, <1>6, <1>7
  <2>2. y = x
    BY <1>4, <2>1, Zenon DEF InsertLogChunk
  <2>3. lo + n <= Len(x.rows)
    BY <1>3, <1>7, Zenon
  <2>4. Cutting(x, n, lo, r, P)
    <3>1. n \in Nat
      BY <1>6
    <3> QED BY <1>1, <1>6, <2>3, <3>1, CuttingSame, Zenon
  <2>5. Storing(x, n, lo, s, r, e)
    BY <2>3, <2>4, Zenon DEF Storing
  <2> QED BY <2>2, <2>5, Zenon
<1>8. CASE ~(g <= Len(R))
  <2> DEFINE k == LogCapBytes - Len(Joined(R))
             d == SubSeq(c.data, 1, Least(Len(c.data), k))
  <2>1. g = Len(R) + 1 /\ Len(R) <= MaxOut /\ g > Len(r)
    <3>1. n \in Nat
      BY <1>6
    <3>2. lo + (n - 1) <= Len(R) /\ Len(r) <= Len(R) /\ Len(R) < s.nextSeq /\ g = lo + n
      BY <1>1, <1>3, Zenon
    <3> HIDE DEF R
    <3> QED BY <1>4, <1>6, <1>8, <3>1, <3>2
  <2>2. c.seq = Len(x.rows) + 1
    BY <1>4, <2>1, Zenon
  <2>3. k \in Nat /\ y \in Accs /\ d \in Data /\ y.rows = Extended(R, d) /\ y.lost = (x.lost \/ Len(d) < Len(c.data))
    BY <1>1, <1>2, <2>1, <2>2, InsertNew, Zenon
  <2>4. c.data = P[g] /\ c.data # <<>>
    BY <1>4, <2>1, Zenon
  <2>5. /\ Begins(d, c.data) /\ Len(d) \in Nat /\ Len(d) <= k /\ (Len(d) < Len(c.data) => Len(d) = k)
        /\ ~(Len(d) < Len(c.data)) => d = c.data
        /\ k = 0 => d = <<>>
    BY <1>4, <2>3, CutFacts, Zenon
  <2>6. Joined(R) \in Data /\ Len(Joined(R)) \in Nat /\ LogCapBytes \in Nat
    <3>1. Joined(R) \in Data
      BY <1>2, JoinedType, Zenon
    <3> QED BY <3>1, DataFacts, LogShipAssumption, Zenon
  <2> DEFINE v == y.rows
             bytes == Len(Joined(R))
  <2>7. /\ v \in Seq(Data) /\ Len(v) = Len(R) + 1 /\ (\A i \in 1..Len(R) : v[i] = R[i]) /\ v[Len(R) + 1] = d
        /\ Joined(v) = Joined(R) \o d /\ Len(Joined(v)) = bytes + Len(d)
    <3> HIDE DEF d, y, R
    <3>1. LET z == Extended(R, d) IN
          /\ z \in Seq(Data) /\ Len(z) = Len(R) + 1 /\ (\A i \in 1..Len(R) : z[i] = R[i]) /\ z[Len(R) + 1] = d
          /\ Joined(z) = Joined(R) \o d /\ Len(Joined(z)) = bytes + Len(d)
      BY <1>2, <2>3, ExtendedFacts, Zenon
    <3>2. v = Extended(R, d)
      BY <2>3, Zenon
    <3> HIDE DEF v
    <3> QED BY <3>1, <3>2, Zenon
  <2>8. k = LogCapBytes - bytes /\ bytes \in Nat
    BY <2>6, Zenon
  <2> HIDE DEF d, v, y, k, bytes
  <2>9. Len(r) <= Len(v) /\ lo + n <= Len(v) /\ Len(v) < s.nextSeq
    <3>1. Len(v) = g /\ lo + n = g /\ g <= g
      BY <1>3, <1>4, <2>1, <2>7
    <3>2. Len(r) <= g
      BY <1>4, <1>6, <2>1
    <3> QED BY <1>4, <3>1, <3>2, Zenon
  <2>10. Len(Joined(v)) <= LogCapBytes
    <3>1. bytes + Len(d) <= LogCapBytes
      <4>1. Len(d) \in Nat /\ Len(d) <= k /\ k \in Nat
        BY <2>3, <2>5, Zenon
      <4> QED BY <2>6, <2>8, <4>1
    <3> QED BY <2>7, <3>1, Zenon
  <2>11. bytes = LogCapBytes => k = 0
    BY <2>6, <2>8
  <2>12. bytes = LogCapBytes => Joined(v) = Joined(R)
    <3>1. Joined(R) \o <<>> = Joined(R)
      BY <2>6, ConcatEmptySeq, Zenon DEF Data
    <3> QED BY <2>5, <2>7, <2>11, <3>1, Zenon
  <2>13. y.lost \/ e = 1 => Len(Joined(v)) = LogCapBytes
    <3>1. CASE x.lost \/ e = 1
      <4>1. bytes = LogCapBytes
        BY <1>1, <3>1, Zenon DEF bytes
      <4>2. Joined(v) = Joined(R)
        BY <2>12, <4>1, Zenon
      <4> QED BY <4>1, <4>2, Zenon DEF bytes
    <3>2. CASE Len(d) < Len(c.data)
      <4>1. Len(d) = k /\ k \in Nat
        BY <2>3, <2>5, <3>2, Zenon
      <4>2. bytes + k = LogCapBytes
        BY <2>6, <2>8
      <4> QED BY <2>7, <4>1, <4>2, Zenon
    <3> QED BY <2>3, <3>1, <3>2, Zenon
  <2>14. e = 0 => Begins(Joined(v), Joined(P))
    <3>1. CASE e = 0 /\ x.lost
      <4>1. bytes = LogCapBytes
        BY <1>1, <3>1, Zenon DEF bytes
      <4>2. Joined(v) = Joined(R)
        BY <2>12, <4>1, Zenon
      <4> QED BY <1>1, <3>1, <4>2, Zenon
    <3>2. CASE e = 0 /\ ~x.lost
      <4> DEFINE z == Extended(R, c.data)
      <4>1. /\ z \in Seq(Data) /\ Len(z) = Len(R) + 1 /\ (\A i \in 1..Len(R) : z[i] = R[i]) /\ z[Len(R) + 1] = c.data
            /\ Joined(z) = Joined(R) \o c.data
        BY <1>2, <1>4, ExtendedFacts, Zenon
      <4> HIDE DEF z
      <4>2. \A i \in 1..Len(R) : z[i] = P[i]
        BY <1>1, <3>2, <4>1, Zenon
      <4>3. z[g] = P[g] /\ Len(z) = g
        BY <2>1, <2>4, <4>1, Zenon
      <4>4. \A i \in 1..g : i = g \/ i \in 1..Len(R)
        BY <1>6, <2>1, LastOrBefore, Zenon
      <4>5. \A i \in 1..Len(z) : z[i] = P[i]
        BY <4>2, <4>3, <4>4, Zenon
      <4>6. Len(z) <= Len(P)
        <5>1. g <= s.nextSeq - 1
          BY <1>4, <1>6
        <5> QED BY <1>5, <4>3, <5>1, Zenon
      <4>7. Begins(Joined(z), Joined(P))
        BY <1>5, <4>1, <4>5, <4>6, JoinedBegins, Zenon
      <4>8. Begins(Joined(v), Joined(z))
        <5>1. Begins(Joined(R) \o d, Joined(R) \o c.data)
          BY <1>4, <2>3, <2>5, <2>6, ConcatBegin, Zenon
        <5> QED BY <2>7, <4>1, <5>1, Zenon
      <4>9. Joined(v) \in Data /\ Joined(z) \in Data /\ Joined(P) \in Data
        BY <1>5, <2>7, <4>1, JoinedType, Zenon
      <4> QED BY <4>7, <4>8, <4>9, BeginsTrans, Zenon
    <3> QED BY <1>2, <3>1, <3>2, Zenon
  <2>15. ASSUME e = 0, ~y.lost PROVE \A i \in 1..Len(v) : v[i] = P[i] /\ v[i] # <<>>
    <3>1. ~x.lost /\ ~(Len(d) < Len(c.data))
      BY <2>3, <2>15, Zenon
    <3>2. d = c.data
      BY <2>5, <3>1, Zenon
    <3>3. \A i \in 1..Len(R) : v[i] = P[i] /\ v[i] # <<>>
      BY <1>1, <2>7, <2>15, <3>1, Zenon
    <3>4. v[g] = P[g] /\ v[g] # <<>> /\ Len(v) = g
      BY <2>1, <2>4, <2>7, <3>2, Zenon
    <3>5. \A i \in 1..g : i = g \/ i \in 1..Len(R)
      BY <1>6, <2>1, LastOrBefore, Zenon
    <3> QED BY <3>3, <3>4, <3>5, Zenon
  <2>16. e = 1 => Joined(v) = Joined(r)
    <3>1. e = 1 => bytes = LogCapBytes
      BY <1>1, Zenon DEF bytes
    <3> QED BY <1>1, <2>12, <3>1, Zenon
  <2>17. y \in Accs
    BY <2>3, Zenon
  <2>18. Cutting(y, n, lo, r, P)
    <3>1. v = y.rows /\ c.data = P[lo + n] /\ lo + n = Len(R) + 1
      BY <1>3, <2>1, <2>4, Zenon DEF v
    <3>2. /\ Len(v) = Len(R) + 1 /\ (\A i \in 1..Len(R) : v[i] = R[i]) /\ v[Len(R) + 1] = d
          /\ y.lost = (x.lost \/ Len(d) < Len(c.data)) /\ Len(r) <= Len(R)
      BY <1>1, <2>3, <2>7, Zenon
    <3> HIDE DEF R, P, c
    <3>3. Cutting(y, n, lo, r, P)
      BY <1>1, <1>6, <3>1, <3>2, CuttingNew, Zenon DEF R
    <3> QED BY <3>3, Zenon
  <2>19. Storing(y, n, lo, s, r, e)
    BY <2>9, <2>10, <2>13, <2>14, <2>15, <2>16, <2>17, <2>18, Zenon DEF Storing, v
  <2> QED BY <2>19, Zenon DEF y
<1> QED BY <1>7, <1>8, Zenon


\* Before the first chunk.
LEMMA StoringInit ==
  ASSUME NEW s \in Shipper, Numbered(s), NEW r \in Seq(Data), Base(s) <= Len(r), Len(r) < s.nextSeq,
         s.nextSeq <= MaxOut + 1, NEW e, RowsInv(r, e), NEW lo \in 0..Len(r)
  PROVE  Storing([rows |-> r, lost |-> FALSE], 0, lo, s, r, e)
<1> DEFINE x == [rows |-> r, lost |-> FALSE]
           P == Pieces(s, r)
<1>1. x \in Accs /\ x.rows = r /\ x.lost = FALSE
  BY Zenon DEF Accs
<1>2. Len(r) \in Nat /\ s.nextSeq \in Nat /\ MaxOut \in Nat
  <2>1. MaxOut \in Nat
    BY LogShipAssumption
  <2> QED BY <2>1, LenProperties, ShipperFacts, Zenon
<1>3. Len(r) <= MaxOut /\ Len(r) <= Len(r) /\ lo + 0 <= Len(r) /\ Len(r) <= s.nextSeq - 1
      /\ \A n \in 1..Len(r) : n \in 1..(s.nextSeq - 1) /\ n <= Len(r)
  BY <1>2
<1>4. ListLogChunks(r) = Joined(r)
  BY <1>3, ListIsJoined, Zenon
<1>5. Len(Joined(r)) <= LogCapBytes /\ (e = 1 => Len(Joined(r)) = LogCapBytes)
      /\ (e = 0 => \A n \in 1..Len(r) : r[n] # <<>>)
  BY <1>4, Zenon DEF RowsInv, LogBytes
<1>6. P \in Seq(Data) /\ Len(P) = s.nextSeq - 1
  BY PiecesFacts, Zenon
<1>7. \A n \in 1..Len(r) : r[n] = P[n]
  BY <1>3, Zenon DEF Pieces
<1> HIDE DEF P
<1>8. Len(r) <= Len(P)
  BY <1>3, <1>6, Zenon
<1>9. Begins(Joined(r), Joined(P))
  BY <1>6, <1>7, <1>8, JoinedBegins, Zenon
<1> HIDE DEF x
<1>10. Storing(x, 0, lo, s, r, e)
  <2>1. /\ Len(r) <= Len(x.rows) /\ lo + 0 <= Len(x.rows) /\ Len(x.rows) < s.nextSeq
    BY <1>1, <1>3, Zenon
  <2>2. Len(Joined(x.rows)) <= LogCapBytes /\ (x.lost \/ e = 1 => Len(Joined(x.rows)) = LogCapBytes)
    BY <1>1, <1>5, Zenon
  <2>3. e = 0 => Begins(Joined(x.rows), Joined(Pieces(s, r)))
    BY <1>1, <1>9, Zenon DEF P
  <2>4. e = 0 /\ ~x.lost => \A i \in 1..Len(x.rows) : x.rows[i] = Pieces(s, r)[i] /\ x.rows[i] # <<>>
    BY <1>1, <1>5, <1>7, Zenon DEF P
  <2>5. e = 1 => Joined(x.rows) = Joined(r)
    BY <1>1, Zenon
  <2>6. Cutting(x, 0, lo, r, P)
    <3>1. \A i \in 1..Len(r) : ~(Len(r) < i)
      BY <1>2
    <3> QED BY <1>1, <1>3, <3>1, Zenon DEF Cutting
  <2>7. Cutting(x, 0, lo, r, Pieces(s, r))
    BY <2>6, Zenon DEF P
  <2> QED BY <1>1, <2>1, <2>2, <2>3, <2>4, <2>5, <2>7, Zenon DEF Storing
<1> QED BY <1>10, Zenon DEF x

\* A new row was sent as the piece of its number.
LEMMA OriginalPiece ==
  ASSUME NEW s \in Shipper, Numbered(s), NEW r \in Seq(Data), Base(s) <= Len(r), Len(r) < s.nextSeq,
         NEW chunks \in Seq(Chunk), NEW lo \in Nat, Carries(chunks, lo, s),
         NEW g \in Nat, lo < g, g <= lo + Len(chunks), Len(r) < g
  PROVE  SentAs(chunks, g) \in Data /\ SentAs(chunks, g) = Pieces(s, r)[g]
<1> DEFINE I(i) == i \in DOMAIN chunks /\ chunks[i].seq = g
           i == CHOOSE j \in DOMAIN chunks : chunks[j].seq = g
<1>1. Len(chunks) \in Nat /\ DOMAIN chunks = 1..Len(chunks) /\ Len(r) \in Nat
  BY LenProperties, Zenon
<1>2. g - lo \in 1..Len(chunks) /\ lo + (g - lo) = g /\ g > Len(r)
  BY <1>1
<1>3. chunks[g - lo].seq = g
  BY <1>2, Zenon DEF Carries
<1>4. I(g - lo)
  BY <1>1, <1>2, <1>3, Zenon
<1>5. I(i)
  BY <1>4, Zenon
<1> HIDE DEF i
<1>6. i \in 1..Len(chunks)
  BY <1>1, <1>5, Zenon
<1>7. PICK h \in Nat :
         /\ h = lo + i /\ chunks[i].seq = h /\ h # 0 /\ h < s.nextSeq /\ chunks[i].data \in Data
         /\ h > Len(r) => chunks[i].data = Pieces(s, r)[h] /\ chunks[i].data # <<>>
  BY <1>6, ChunkPiece, ZenonT(40)
<1>8. h = g
  BY <1>5, <1>7, Zenon
<1>9. chunks[i].data \in Data /\ chunks[i].data = Pieces(s, r)[g]
  BY <1>2, <1>7, <1>8, Zenon
<1> QED BY <1>9, Zenon DEF i, SentAs

\* After the transaction the event is there if some row was cut.
LEMMA StoredCuts ==
  ASSUME NEW s \in Shipper, Numbered(s), NEW r \in Seq(Data), Base(s) <= Len(r), Len(r) < s.nextSeq,
         NEW chunks \in Seq(Chunk), NEW lo \in 0..Len(r), Carries(chunks, lo, s),
         NEW e, e = 0 \/ e = 1, NEW x, Storing(x, Len(chunks), lo, s, r, e), NEW w \in Seq(Data), CutInv(r, e, w),
         NEW f, f = IF x.lost /\ e = 0 THEN e + 1 ELSE e
  PROVE  LET z == Originals(x.rows, w, chunks) IN z \in Seq(Data) /\ CutInv(x.rows, f, z)
<1>1. PICK q, P, z : q = x.rows /\ P = Pieces(s, r) /\ z = Originals(q, w, chunks)
  BY Zenon
<1>2. /\ q \in Seq(Data) /\ x.lost \in BOOLEAN /\ Len(r) <= Len(q)
      /\ \A i \in 1..Len(r) : q[i] = r[i]
      /\ Len(q) <= Len(r) \/ Len(q) = lo + Len(chunks)
      /\ x.lost <=> \E i \in 1..Len(q) : Len(r) < i /\ Len(q[i]) < Len(P[i])
  BY <1>1, Zenon DEF Storing, Accs, Cutting
<1>3. /\ Len(q) \in Nat /\ Len(r) \in Nat /\ Len(chunks) \in Nat
      /\ DOMAIN q = 1..Len(q) /\ DOMAIN w = 1..Len(w) /\ \A i \in 1..Len(w) : w[i] \in Data
  BY <1>2, LenProperties, ElementOfSeq, Zenon
<1>4. Len(w) = Len(r) /\ (e = 1 <=> \E n \in 1..Len(r) : Len(r[n]) < Len(w[n]))
  BY Zenon DEF CutInv
<1>5. lo \in Nat
  BY <1>3
<1>6. ASSUME NEW i \in 1..Len(q), i \notin 1..Len(r)
      PROVE  SentAs(chunks, i) \in Data /\ SentAs(chunks, i) = P[i]
  <2>1. i \in Nat /\ lo < i /\ i <= lo + Len(chunks) /\ Len(r) < i
    <3>1. \A a, b, c, l \in Nat : l <= b /\ (a <= b \/ a = l + c) =>
            \A n \in 1..a : n \notin 1..b => n \in Nat /\ l < n /\ n <= l + c /\ b < n
      OBVIOUS
    <3>2. lo <= Len(r)
      BY <1>3
    <3> QED BY <1>2, <1>3, <1>5, <1>6, <3>1, <3>2, Zenon
  <2>2. SentAs(chunks, i) \in Data /\ SentAs(chunks, i) = Pieces(s, r)[i]
    BY <1>5, <2>1, OriginalPiece, ZenonT(40)
  <2> QED BY <1>1, <2>2, Zenon
<1>7. z = [n \in 1..Len(q) |-> IF n \in 1..Len(r) THEN w[n] ELSE SentAs(chunks, n)]
  <2>1. z = [n \in DOMAIN q |-> IF n \in DOMAIN w THEN w[n] ELSE SentAs(chunks, n)]
    BY <1>1, Zenon DEF Originals
  <2>2. DOMAIN q = 1..Len(q) /\ DOMAIN w = 1..Len(r)
    BY <1>3, <1>4, Zenon
  <2> QED BY <2>1, <2>2, Zenon
<1>8. \A n \in 1..Len(q) : z[n] \in Data /\ (n \in 1..Len(r) => z[n] = w[n]) /\ (n \notin 1..Len(r) => z[n] = P[n])
  BY <1>3, <1>4, <1>6, <1>7, Zenon
<1>9. z \in [1..Len(q) -> Data]
  BY <1>7, <1>8, Zenon
<1>10. z \in Seq(Data) /\ Len(z) = Len(q)
  BY <1>3, <1>9
<1>11. \A n \in 1..Len(q) : n \in 1..Len(r) <=> ~(Len(r) < n)
  BY <1>3
<1>12. \A n \in 1..Len(r) : n \in 1..Len(q)
  <2>1. \A a, b \in Nat : b <= a => \A n \in 1..b : n \in 1..a
    OBVIOUS
  <2> QED BY <1>2, <1>3, <2>1, Zenon
<1>13. x.lost \/ e = 1 <=> \E n \in 1..Len(q) : Len(q[n]) < Len(z[n])
  <2>1. ASSUME x.lost PROVE \E n \in 1..Len(q) : Len(q[n]) < Len(z[n])
    <3>1. PICK n \in 1..Len(q) : Len(r) < n /\ Len(q[n]) < Len(P[n])
      BY <1>2, <2>1, Zenon
    <3> QED BY <1>8, <1>11, <3>1, Zenon
  <2>2. ASSUME e = 1 PROVE \E n \in 1..Len(q) : Len(q[n]) < Len(z[n])
    <3>1. PICK n \in 1..Len(r) : Len(r[n]) < Len(w[n])
      BY <1>4, <2>2, Zenon
    <3> QED BY <1>2, <1>8, <1>12, <3>1, Zenon
  <2>3. ASSUME NEW n \in 1..Len(q), Len(q[n]) < Len(z[n]) PROVE x.lost \/ e = 1
    <3>1. CASE n \in 1..Len(r)
      BY <1>2, <1>4, <1>8, <2>3, <3>1, Zenon
    <3>2. CASE n \notin 1..Len(r)
      BY <1>2, <1>8, <1>11, <2>3, <3>2, Zenon
    <3> QED BY <3>1, <3>2, Zenon
  <2> QED BY <2>1, <2>2, <2>3, Zenon
<1>14. f = 1 <=> x.lost \/ e = 1
  <2>1. 0 + 1 = 1 /\ 0 # 1
    OBVIOUS
  <2> QED BY <1>2, <2>1, Zenon
<1>15. CutInv(q, f, z)
  BY <1>10, <1>13, <1>14, Zenon DEF CutInv
<1> QED BY <1>1, <1>10, <1>15, Zenon
==============================================================================

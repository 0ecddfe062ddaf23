------------------------ MODULE RegionAllocatorProofs ------------------------
(***************************************************************************)
(* The allocator of MemoryUtils.h keeps the promise of MemoryPool, for any *)
(* size, alignment and number of threads, with both ways of tracking: each *)
(* step is one of the pool's or silent.  What the pool promises keeps      *)
(* blocks and messages apart, and that in turn is what the allocator's     *)
(* bookkeeping of bytes and counts rests on, so that all is one invariant. *)
(***************************************************************************)
EXTENDS RegionAllocator, FiniteSetTheorems, SequenceTheorems, WellFoundedInduction, TLAPS
-----------------------------------------------------------------------------
(***************************************************************************)
(* Alignment.                                                              *)
(***************************************************************************)
LEMMA Multiple ==
  ASSUME NEW A \in Nat \ {0}, NEW x \in Int, x % A = 0
  PROVE  \E k \in Int : x = A * k
<1>1. x = A * (x \div A)
  BY SMTT(60)
<1>2. x \div A \in Int
  OBVIOUS
<1> QED BY <1>1, <1>2

LEMMA MultipleAligned ==
  ASSUME NEW A \in Nat \ {0}, NEW k \in Int
  PROVE  (A * k) % A = 0
OBVIOUS

LEMMA SumAligned ==
  ASSUME NEW A \in Nat \ {0}, NEW x \in Int, NEW y \in Int, x % A = 0, y % A = 0
  PROVE  (x + y) % A = 0 /\ (x - y) % A = 0
<1>1. PICK k \in Int : x = A * k
  BY Multiple
<1>2. PICK l \in Int : y = A * l
  BY Multiple
<1>3. x + y = A * (k + l) /\ x - y = A * (k - l)
  BY <1>1, <1>2
<1>4. k + l \in Int /\ k - l \in Int
  OBVIOUS
<1>5. (A * (k + l)) % A = 0 /\ (A * (k - l)) % A = 0
  BY <1>4, MultipleAligned
<1> QED BY <1>3, <1>5

\* icl_align: a size is padded to the next multiple of the alignment.
LEMMA AlignUpFacts ==
  ASSUME NEW size \in Nat \ {0}
  PROVE  /\ AlignUp(size) \in Nat \ {0}
         /\ AlignUp(size) % ALIGN = 0
         /\ size <= AlignUp(size) /\ AlignUp(size) - size < ALIGN
<1> DEFINE d == (size + ALIGN - 1) \div ALIGN
           r == (size + ALIGN - 1) % ALIGN
<1>1. ALIGN \in Nat \ {0} /\ size \in Nat /\ size >= 1 /\ size + ALIGN - 1 \in Nat
  BY RegionAssumption
<1>2. d \in Int /\ r \in Int /\ 0 <= r /\ r < ALIGN
  BY <1>1
<1>3. size + ALIGN - 1 = ALIGN * d + r
  BY <1>1, SMTT(60)
<1>4. AlignUp(size) = d * ALIGN
  BY DEF AlignUp
<1> HIDE DEF d, r
<1>5. d * ALIGN = ALIGN * d /\ ALIGN * d \in Int
  BY <1>1, <1>2
<1>6. AlignUp(size) = size + ALIGN - 1 - r /\ AlignUp(size) \in Int
  BY <1>1, <1>2, <1>3, <1>4, <1>5
<1>7. AlignUp(size) % ALIGN = 0
  BY <1>1, <1>2, <1>4, <1>5, MultipleAligned
<1> QED BY <1>1, <1>2, <1>6, <1>7

\* A set of bytes whose edges are multiples of the alignment.
Aligned(S) ==
  \A x \in S : (x - 1 \notin S => x % ALIGN = 0) /\ (x + 1 \notin S => (x + 1) % ALIGN = 0)

Spans == [start : Nat, len : Nat]

\* A range with edges at multiples of the alignment, in the region.
AlignedSpan(r) ==
  /\ r \in Spans /\ r.start % ALIGN = 0 /\ r.len % ALIGN = 0 /\ r.start + r.len <= Size

LEMMA BytesIn ==
  ASSUME NEW r \in Spans, NEW x
  PROVE  x \in Bytes(r) <=> x \in Nat /\ r.start <= x /\ x < r.start + r.len
BY DEF Bytes, Spans

LEMMA SpanType ==
  ASSUME NEW s \in Nat, NEW l \in Nat
  PROVE  Span(s, l) \in Spans /\ Span(s, l).start = s /\ Span(s, l).len = l
BY DEF Span, Spans

LEMMA AlignedEnd ==
  ASSUME NEW r, AlignedSpan(r)
  PROVE  (r.start + r.len) % ALIGN = 0
BY SumAligned, RegionAssumption DEF AlignedSpan, Spans

LEMMA SpanIsAligned ==
  ASSUME NEW r, AlignedSpan(r)
  PROVE  Aligned(Bytes(r)) /\ Bytes(r) \subseteq 0..(Size - 1)
<1>1. r.start \in Nat /\ r.len \in Nat /\ r.start % ALIGN = 0 /\ (r.start + r.len) % ALIGN = 0
      /\ r.start + r.len <= Size /\ Size \in Nat /\ r \in Spans
  BY AlignedEnd, RegionAssumption DEF AlignedSpan, Spans
<1>2. \A x : x \in Bytes(r) <=> x \in Nat /\ r.start <= x /\ x < r.start + r.len
  BY <1>1, BytesIn
<1>3. ASSUME NEW x \in Bytes(r), x - 1 \notin Bytes(r)
      PROVE  x % ALIGN = 0
  <2>1. x = r.start
    BY <1>1, <1>2, <1>3
  <2> QED BY <2>1, <1>1
<1>4. ASSUME NEW x \in Bytes(r), x + 1 \notin Bytes(r)
      PROVE  (x + 1) % ALIGN = 0
  <2>1. x + 1 = r.start + r.len
    BY <1>1, <1>2, <1>4
  <2> QED BY <2>1, <1>1
<1> QED BY <1>1, <1>2, <1>3, <1>4 DEF Aligned

LEMMA UnionAligned ==
  ASSUME NEW S, NEW T, Aligned(S), Aligned(T)
  PROVE  Aligned(S \union T)
BY DEF Aligned

LEMMA UnionOfAligned ==
  ASSUME NEW S, \A b \in S : AlignedSpan(b)
  PROVE  Aligned(BytesOf(S)) /\ BytesOf(S) \subseteq 0..(Size - 1)
<1>1. \A b \in S : Aligned(Bytes(b)) /\ Bytes(b) \subseteq 0..(Size - 1)
  BY SpanIsAligned
<1>2. \A x : x \in BytesOf(S) <=> \E b \in S : x \in Bytes(b)
  BY DEF BytesOf
<1>3. Aligned(BytesOf(S))
  <2>1. SUFFICES ASSUME NEW x \in BytesOf(S)
                 PROVE  /\ x - 1 \notin BytesOf(S) => x % ALIGN = 0
                        /\ x + 1 \notin BytesOf(S) => (x + 1) % ALIGN = 0
    BY DEF Aligned
  <2>2. PICK b \in S : x \in Bytes(b)
    BY <1>2
  <2>3. (x - 1 \notin BytesOf(S) => x - 1 \notin Bytes(b))
        /\ (x + 1 \notin BytesOf(S) => x + 1 \notin Bytes(b))
    BY <1>2
  <2> QED BY <1>1, <2>2, <2>3 DEF Aligned
<1> QED BY <1>1, <1>2, <1>3

\* Taking an aligned range out leaves aligned edges.
LEMMA MinusAligned ==
  ASSUME NEW S \in SUBSET (0..(Size - 1)), Aligned(S), NEW r, AlignedSpan(r)
  PROVE  Aligned(S \ Bytes(r))
<1>1. r.start \in Nat /\ r.len \in Nat /\ r.start % ALIGN = 0 /\ (r.start + r.len) % ALIGN = 0
      /\ r \in Spans /\ Size \in Nat
  BY AlignedEnd, RegionAssumption DEF AlignedSpan, Spans
<1>2. \A x : x \in Bytes(r) <=> x \in Nat /\ r.start <= x /\ x < r.start + r.len
  BY <1>1, BytesIn
<1>3. ASSUME NEW x \in S \ Bytes(r), x - 1 \notin S \ Bytes(r)
      PROVE  x % ALIGN = 0
  <2>1. CASE x - 1 \notin S
    BY <2>1, <1>3 DEF Aligned
  <2>2. CASE x - 1 \in Bytes(r)
    <3>1. x = r.start + r.len
      BY <2>2, <1>1, <1>2, <1>3
    <3> QED BY <3>1, <1>1
  <2> QED BY <2>1, <2>2, <1>3
<1>4. ASSUME NEW x \in S \ Bytes(r), x + 1 \notin S \ Bytes(r)
      PROVE  (x + 1) % ALIGN = 0
  <2>1. CASE x + 1 \notin S
    BY <2>1, <1>4 DEF Aligned
  <2>2. CASE x + 1 \in Bytes(r)
    <3>1. x + 1 = r.start
      BY <2>2, <1>1, <1>2, <1>4
    <3> QED BY <3>1, <1>1
  <2> QED BY <2>1, <2>2, <1>4
<1> QED BY <1>3, <1>4 DEF Aligned

\* The entries of the interval map are aligned ranges of free bytes.
LEMMA StretchAligned ==
  ASSUME NEW S \in SUBSET (0..(Size - 1)), Aligned(S), NEW s \in S, NEW l \in 1..Size,
         Bytes(Span(s, l)) \subseteq S, s - 1 \notin S, s + l \notin S
  PROVE  AlignedSpan(Span(s, l))
<1>1. s \in Nat /\ l \in Nat /\ l >= 1 /\ Size \in Nat /\ ALIGN \in Nat \ {0}
  BY RegionAssumption
<1>2. s % ALIGN = 0
  BY DEF Aligned
<1> DEFINE last == s + l - 1
<1>3. last \in Nat /\ last + 1 = s + l /\ last >= s
  BY <1>1
<1>4. last \in Bytes(Span(s, l))
  BY <1>1 DEF Bytes, Span
<1> HIDE DEF last
<1>5. last \in S /\ last + 1 \notin S
  BY <1>3, <1>4
<1>6. (last + 1) % ALIGN = 0 /\ last <= Size - 1
  BY <1>5 DEF Aligned
<1>7. s + l <= Size /\ (s + l) % ALIGN = 0
  BY <1>1, <1>3, <1>6
<1>8. ((s + l) - s) % ALIGN = 0
  <2>1. \A x, y \in Int : x % ALIGN = 0 /\ y % ALIGN = 0 => (x - y) % ALIGN = 0
    BY <1>1, SumAligned
  <2>2. s + l \in Int /\ s \in Int
    BY <1>1
  <2> QED BY <2>1, <2>2, <1>2, <1>7
<1>9. (s + l) - s = l
  BY <1>1
<1> QED BY <1>1, <1>2, <1>7, <1>8, <1>9, SpanType DEF AlignedSpan

LEMMA IntervalAligned ==
  ASSUME NEW S \in SUBSET (0..(Size - 1)), Aligned(S), NEW r \in Intervals(S)
  PROVE  AlignedSpan(r) /\ Bytes(r) \subseteq S /\ r.len \in 1..Size
<1>1. PICK s \in S, l \in 1..Size : r = Span(s, l)
  BY DEF Intervals, Span
<1>2. r.start = s /\ r.len = l
  BY <1>1 DEF Span
<1>3. Bytes(r) \subseteq S /\ s - 1 \notin S /\ s + l \notin S
  BY <1>2 DEF Intervals
<1>4. Bytes(Span(s, l)) \subseteq S
  BY <1>1, <1>3
<1> QED BY <1>1, <1>2, <1>3, <1>4, StretchAligned

\* The number of bytes of a range.
LEMMA SpanCount ==
  ASSUME NEW r \in Spans
  PROVE  IsFiniteSet(Bytes(r)) /\ Cardinality(Bytes(r)) = r.len
<1>1. r.start \in Int /\ r.len \in Nat /\ r.start + r.len - 1 \in Int
  BY DEF Spans
<1> DEFINE a == r.start
           b == r.start + r.len - 1
<1>2. IsFiniteSet(a..b) /\ Cardinality(a..b) = IF a > b THEN 0 ELSE b - a + 1
  BY <1>1, FS_Interval
<1> QED BY <1>1, <1>2 DEF Bytes

-----------------------------------------------------------------------------
(***************************************************************************)
(* The range that try_reclaim chooses.                                     *)
(***************************************************************************)
LEMMA Smallest ==
  ASSUME NEW S \in SUBSET Nat, S # {}
  PROVE  \E x \in S : \A y \in S : x <= y
<1>1. \E x \in S : \A y \in S : ~ (<<y, x>> \in OpToRel(<, Nat))
  BY WFMin, NatLessThanWellFounded
<1>2. \A x, y \in Nat : <<y, x>> \in OpToRel(<, Nat) <=> y < x
  BY DEF OpToRel
<1>3. \A x, y \in Nat : ~(y < x) <=> x <= y
  OBVIOUS
<1> QED BY <1>1, <1>2, <1>3

LEMMA ChosenIsOne ==
  ASSUME NEW S, S # {}, \A r \in S : r.start \in Nat /\ r.len \in 1..Size,
         kind.strategy \in {"eFindFirst", "eFindLongest"}
  PROVE  Chosen(S) \in S
<1>1. CASE kind.strategy = "eFindFirst"
  <2> DEFINE starts == {r.start : r \in S}
  <2>1. starts \in SUBSET Nat /\ starts # {}
    OBVIOUS
  <2>2. PICK x \in starts : \A y \in starts : x <= y
    BY <2>1, Smallest
  <2>3. \E r \in S : \A o \in S : r.start <= o.start
    BY <2>2
  <2> QED BY <1>1, <2>3 DEF Chosen
<1>2. CASE kind.strategy = "eFindLongest"
  <2> DEFINE rests == {Size - r.len : r \in S}
  <2>1. rests \in SUBSET Nat /\ rests # {}
    BY RegionAssumption
  <2>2. PICK x \in rests : \A y \in rests : x <= y
    BY <2>1, Smallest
  <2>3. PICK l \in S : x = Size - l.len
    BY <2>2
  <2>4. \A o \in S : l.len >= o.len
    <3> TAKE o \in S
    <3>1. Size - l.len <= Size - o.len
      BY <2>2, <2>3
    <3> QED BY <3>1, RegionAssumption
  <2> DEFINE starts == {r.start : r \in {r \in S : r.len = l.len}}
  <2>5. starts \in SUBSET Nat /\ starts # {}
    OBVIOUS
  <2>6. PICK z \in starts : \A y \in starts : z <= y
    BY <2>5, Smallest
  <2>7. PICK r \in S : r.len = l.len /\ r.start = z
    BY <2>6
  <2>8. \A o \in S : r.len > o.len \/ (r.len = o.len /\ r.start <= o.start)
    <3> TAKE o \in S
    <3>1. CASE o.len = l.len
      <4>1. o.start \in starts
        BY <3>1
      <4> QED BY <3>1, <4>1, <2>6, <2>7
    <3>2. CASE o.len # l.len
      BY <3>2, <2>4, <2>7
    <3> QED BY <3>1, <3>2
  <2>9. \E q \in S : \A o \in S : q.len > o.len \/ (q.len = o.len /\ q.start <= o.start)
    BY <2>8
  <2> QED BY <1>2, <2>9 DEF Chosen
<1> QED BY <1>1, <1>2
-----------------------------------------------------------------------------
(***************************************************************************)
(* The invariant.                                                          *)
(***************************************************************************)
\* The bytes that are not in use begin and end at multiples of the alignment.
SpaceInv == Aligned(mFreeRanges) /\ AlignedSpan(Span(mStart, mLength))

\* A byte is in a block in use, in the free ranges or in the extent, and mFree counts it.
ByteInv ==
  /\ BytesOf(Held) \union mFreeRanges \union Extent = 0..(Size - 1)
  /\ BytesOf(Held) \cap mFreeRanges = {}
  /\ BytesOf(Held) \cap Extent = {}
  /\ mFreeRanges \cap Extent = {}
  /\ mFree = Size - Cardinality(BytesOf(Held))

\* What MemoryPool promises of the blocks in use and their messages.
PoolInv ==
  /\ \A b \in Held : Pool!IsBlock(b)
  /\ Pool!Apart(Held)
  /\ \A m \in Outstanding : m \in Pool!Ranges /\ \E b \in Held : Pool!Within(m, b)
  /\ Pool!Apart(Outstanding)

\* A message is with its users or waits for the callback.
PlaceInv == messages \cap released = {}

\* mRefCnt is the number of the messages of a block that have not come back.
CountInv ==
  Counting => \A b \in DOMAIN mAllocBlocksMap :
                mAllocBlocksMap[b] = Cardinality(Pool!MessagesOf(b, Outstanding))

\* The blocks that a thread has allocated are in use, have no message yet, and no other
\* thread has them.
BlockOf(g) == Span(g.start, AlignUp(g.block.size))
Alone(t, i) ==
  \A u \in Threads : \A j \in DOMAIN got[u] : got[u][j].start = got[t][i].start => u = t /\ j = i
Untouched(b) == b \in DOMAIN mAllocBlocksMap /\ Pool!MessagesOf(b, Outstanding) = {}
GotInv ==
  Counting => \A t \in Threads : \A i \in DOMAIN got[t] :
                got[t][i].start # Null => Untouched(BlockOf(got[t][i])) /\ Alone(t, i)

Inv == TypeOK /\ SpaceInv /\ ByteInv /\ PoolInv /\ PlaceInv /\ CountInv /\ GotInv

-----------------------------------------------------------------------------
(***************************************************************************)
(* The promise of MemoryPool keeps blocks and messages apart.              *)
(***************************************************************************)
LEMMA BlockIsSpan ==
  ASSUME NEW b, Pool!IsBlock(b)
  PROVE  AlignedSpan(b) /\ b \in Pool!Ranges /\ b.len >= 1
<1>1. b \in [start : 0..(Size - 1), len : 1..Size] /\ b.start % ALIGN = 0 /\ b.len % ALIGN = 0
      /\ b.start + b.len <= Size
  BY DEF Pool!IsBlock, Pool!Ranges
<1>2. b \in Spans /\ b.len >= 1
  BY <1>1, RegionAssumption DEF Spans
<1> QED BY <1>1, <1>2 DEF AlignedSpan, Pool!Ranges

LEMMA RangeIsSpan ==
  ASSUME NEW r \in Pool!Ranges
  PROVE  r \in Spans /\ r.start \in Nat /\ r.len \in Nat /\ r.len >= 1 /\ r.start \in Bytes(r)
BY RegionAssumption DEF Pool!Ranges, Spans, Bytes

\* What lies within two disjoint ranges is disjoint.
LEMMA WithinApart ==
  ASSUME NEW a, NEW b, NEW m, NEW n,
         Pool!Disjoint(a, b), Pool!Within(m, a), Pool!Within(n, b)
  PROVE  Pool!Disjoint(m, n) /\ Pool!Disjoint(n, m)
BY DEF Pool!Disjoint, Pool!Within

\* A range is not within something disjoint.
LEMMA DisjointNotWithin ==
  ASSUME NEW a, NEW m \in Pool!Ranges, Pool!Disjoint(m, a) \/ Pool!Disjoint(a, m)
  PROVE  ~Pool!Within(m, a)
<1>1. m.start \in Pool!Bytes(m)
  BY RangeIsSpan DEF Pool!Bytes, Bytes
<1> QED BY <1>1 DEF Pool!Disjoint, Pool!Within

\* A message at the start of a block and no longer than it lies within it.
LEMMA ShorterIsWithin ==
  ASSUME NEW b \in Pool!Ranges, NEW m \in Pool!Ranges, m.start = b.start, m.len <= b.len
  PROVE  Pool!Within(m, b)
BY RegionAssumption DEF Pool!Within, Pool!Bytes, Pool!Ranges

\* Taking a block, with its message or without one, keeps all apart.
LEMMA TakeKeeps == PoolInv /\ Pool!Take => PoolInv'
<1> SUFFICES ASSUME PoolInv, Pool!Take PROVE PoolInv'
  OBVIOUS
<1>1. PICK b \in Held' \ Held :
        /\ Pool!IsBlock(b)
        /\ \A h \in Held : Pool!Disjoint(b, h)
        /\ Held' = Held \union {b}
        /\ Outstanding \subseteq Outstanding'
        /\ \A m \in Outstanding' \ Outstanding :
             m \in Pool!Ranges /\ m.start = b.start /\ m.len <= b.len /\ b.len - m.len < ALIGN
        /\ Pool!Apart(Outstanding' \ Outstanding)
  BY DEF Pool!Take
<1>2. b \in Pool!Ranges
  BY <1>1 DEF Pool!IsBlock
<1>3. \A m \in Outstanding' \ Outstanding : m \in Pool!Ranges /\ Pool!Within(m, b)
  BY <1>1, <1>2, ShorterIsWithin
<1>4. \A h \in Held' : Pool!IsBlock(h)
  BY <1>1 DEF PoolInv
<1>5. Pool!Apart(Held')
  BY <1>1 DEF PoolInv, Pool!Apart, Pool!Disjoint
<1>6. \A m \in Outstanding' : m \in Pool!Ranges /\ \E h \in Held' : Pool!Within(m, h)
  BY <1>1, <1>3 DEF PoolInv
<1>7. \A m \in Outstanding, n \in Outstanding' \ Outstanding :
        Pool!Disjoint(m, n) /\ Pool!Disjoint(n, m)
  <2> TAKE m \in Outstanding, n \in Outstanding' \ Outstanding
  <2>1. PICK h \in Held : Pool!Within(m, h)
    BY DEF PoolInv
  <2>2. Pool!Disjoint(b, h)
    BY <1>1
  <2> QED BY <1>3, <2>1, <2>2, WithinApart
<1>8. Pool!Apart(Outstanding')
  BY <1>1, <1>7 DEF PoolInv, Pool!Apart
<1> QED BY <1>4, <1>5, <1>6, <1>8 DEF PoolInv

\* New messages go into blocks that had none, so they meet no old one.
LEMMA MakeKeeps == PoolInv /\ Pool!Make => PoolInv'
<1> SUFFICES ASSUME PoolInv, Pool!Make PROVE PoolInv'
  OBVIOUS
<1>1. Held' = Held /\ Outstanding \subseteq Outstanding' /\ Pool!Apart(Outstanding' \ Outstanding)
  BY DEF Pool!Make
<1>2. \A m \in Outstanding' \ Outstanding :
        m \in Pool!Ranges /\ \E b \in Held : Pool!Within(m, b) /\ Pool!MessagesOf(b, Outstanding) = {}
  BY DEF Pool!Make
<1>3. \A m \in Outstanding' : m \in Pool!Ranges /\ \E h \in Held' : Pool!Within(m, h)
  BY <1>1, <1>2 DEF PoolInv
<1>4. \A m \in Outstanding, n \in Outstanding' \ Outstanding :
        Pool!Disjoint(m, n) /\ Pool!Disjoint(n, m)
  <2> TAKE m \in Outstanding, n \in Outstanding' \ Outstanding
  <2>1. PICK h \in Held : Pool!Within(m, h)
    BY DEF PoolInv
  <2>2. PICK b \in Held : Pool!Within(n, b) /\ Pool!MessagesOf(b, Outstanding) = {}
    BY <1>2
  <2>3. h # b
    BY <2>1, <2>2 DEF Pool!MessagesOf
  <2>4. Pool!Disjoint(h, b)
    BY <2>3 DEF PoolInv, Pool!Apart
  <2> QED BY <2>1, <2>2, <2>4, WithinApart
<1>5. Pool!Apart(Outstanding')
  BY <1>1, <1>4 DEF PoolInv, Pool!Apart
<1> QED BY <1>1, <1>3, <1>5 DEF PoolInv

\* A block that is freed has no message left.
LEMMA GiveBackKeeps == PoolInv /\ Pool!GiveBack => PoolInv'
<1> SUFFICES ASSUME PoolInv, Pool!GiveBack PROVE PoolInv'
  OBVIOUS
<1>1. Outstanding' \subseteq Outstanding
  BY DEF Pool!GiveBack
<1>2. Held' = Held \ {b \in Held : Pool!MessagesOf(b, Outstanding) # {}
                                     /\ Pool!MessagesOf(b, Outstanding') = {}}
  BY DEF Pool!GiveBack
<1>3. \A m \in Outstanding' : m \in Pool!Ranges /\ \E h \in Held' : Pool!Within(m, h)
  <2> TAKE m \in Outstanding'
  <2>1. m \in Pool!Ranges /\ \E h \in Held : Pool!Within(m, h)
    BY <1>1 DEF PoolInv
  <2>2. PICK b \in Held : Pool!Within(m, b)
    BY <2>1
  <2>3. m \in Pool!MessagesOf(b, Outstanding')
    BY <2>2 DEF Pool!MessagesOf
  <2>4. b \in Held'
    BY <1>2, <2>3
  <2> QED BY <2>1, <2>2, <2>4
<1>4. (\A b \in Held' : Pool!IsBlock(b)) /\ Pool!Apart(Held')
  BY <1>2 DEF PoolInv, Pool!Apart
<1>5. Pool!Apart(Outstanding')
  BY <1>1 DEF PoolInv, Pool!Apart
<1> QED BY <1>3, <1>4, <1>5 DEF PoolInv

LEMMA PoolStepKeeps == PoolInv /\ [Pool!Next]_Pool!vars => PoolInv'
<1>1. PoolInv /\ UNCHANGED Pool!vars => PoolInv'
  BY DEF PoolInv, Pool!vars, Pool!Apart
<1> QED BY <1>1, TakeKeeps, MakeKeeps, GiveBackKeeps DEF Pool!Next

-----------------------------------------------------------------------------
(***************************************************************************)
(* Where the bytes go.                                                     *)
(***************************************************************************)
LEMMA HeldBytes ==
  ASSUME \A b \in Held : Pool!IsBlock(b)
  PROVE  BytesOf(Held) \subseteq 0..(Size - 1) /\ IsFiniteSet(BytesOf(Held))
<1>1. \A b \in Held : AlignedSpan(b)
  BY BlockIsSpan
<1>2. BytesOf(Held) \subseteq 0..(Size - 1)
  BY <1>1, UnionOfAligned
<1>3. IsFiniteSet(0..(Size - 1))
  BY RegionAssumption, FS_Interval
<1> QED BY <1>2, <1>3, FS_Subset

LEMMA ExtentBytes ==
  ASSUME SpaceInv, mFreeRanges \subseteq 0..(Size - 1)
  PROVE  /\ Aligned(mFreeRanges \union Extent)
         /\ mFreeRanges \union Extent \subseteq 0..(Size - 1)
<1>1. Aligned(Extent) /\ Extent \subseteq 0..(Size - 1)
  BY SpanIsAligned DEF SpaceInv, Extent
<1> QED BY <1>1, UnionAligned DEF SpaceInv

\* The union of two sets of bytes that do not meet.
LEMMA CountApart ==
  ASSUME NEW S, NEW T, IsFiniteSet(S), IsFiniteSet(T), S \cap T = {}
  PROVE  Cardinality(S \union T) = Cardinality(S) + Cardinality(T)
<1>1. Cardinality(S \union T) = Cardinality(S) + Cardinality(T) - Cardinality(S \cap T)
  BY FS_Union
<1>2. Cardinality(S \cap T) = 0
  BY FS_EmptySet
<1>3. Cardinality(S) \in Nat /\ Cardinality(T) \in Nat
  BY FS_CardinalityType
<1> QED BY <1>1, <1>2, <1>3

\* An empty extent has no bytes.
LEMMA NoExtent == Bytes(Span(0, 0)) = {} /\ AlignedSpan(Span(0, 0))
<1>1. Bytes(Span(0, 0)) = {}
  BY DEF Bytes, Span
<1>2. ALIGN \in Nat \ {0} /\ Size \in Nat /\ 0 % ALIGN = 0
  <2>1. ALIGN \in Nat \ {0} /\ Size \in Nat
    BY RegionAssumption
  <2> QED BY <2>1
<1> QED BY <1>1, <1>2, SpanType DEF AlignedSpan

\* A block from the front of an aligned range: the rest of it is the extent.
LEMMA FrontOf ==
  ASSUME NEW s \in Nat, NEW l \in Nat, AlignedSpan(Span(s, l)),
         NEW n \in Nat \ {0}, n % ALIGN = 0, n <= l
  PROVE  /\ Pool!IsBlock(Span(s, n))
         /\ AlignedSpan(Span(s + n, l - n))
         /\ Bytes(Span(s, l)) = Bytes(Span(s, n)) \union Bytes(Span(s + n, l - n))
         /\ Bytes(Span(s, n)) \cap Bytes(Span(s + n, l - n)) = {}
         /\ l = n => Bytes(Span(s, l)) = Bytes(Span(s, n))
<1>1. s % ALIGN = 0 /\ l % ALIGN = 0 /\ s + l <= Size /\ Size \in Nat /\ ALIGN \in Nat \ {0}
  BY SpanType, RegionAssumption DEF AlignedSpan
<1>2. \A x, y \in Int : x % ALIGN = 0 /\ y % ALIGN = 0 => (x + y) % ALIGN = 0 /\ (x - y) % ALIGN = 0
  BY <1>1, SumAligned
<1>3. (s + n) % ALIGN = 0 /\ (l - n) % ALIGN = 0
  <2>1. s \in Int /\ l \in Int /\ n \in Int
    OBVIOUS
  <2>2. (s + n) % ALIGN = 0
    BY <1>1, <1>2, <2>1
  <2>3. (l - n) % ALIGN = 0
    BY <1>1, <1>2, <2>1
  <2> QED BY <2>2, <2>3
<1>4. s + n \in Nat /\ l - n \in Nat /\ (s + n) + (l - n) <= Size
  BY <1>1
<1>5. AlignedSpan(Span(s + n, l - n))
  BY <1>3, <1>4, SpanType DEF AlignedSpan
<1>6. Pool!IsBlock(Span(s, n))
  <2>1. s \in 0..(Size - 1) /\ n \in 1..Size /\ s + n <= Size
    BY <1>1
  <2> QED BY <2>1, <1>1 DEF Pool!IsBlock, Pool!Ranges, Span
<1>7. Bytes(Span(s, l)) = Bytes(Span(s, n)) \union Bytes(Span(s + n, l - n))
  BY DEF Bytes, Span
<1>8. Bytes(Span(s, n)) \cap Bytes(Span(s + n, l - n)) = {}
  BY DEF Bytes, Span
<1> QED BY <1>5, <1>6, <1>7, <1>8

\* try_alloc from the range s, l, the extent or the one that try_reclaim chose.
Takes(s, l, n) ==
  /\ mFreeRanges' \union Bytes(Span(s, l)) = mFreeRanges \union Extent
  /\ mFreeRanges' \cap Bytes(Span(s, l)) = {}
  /\ Aligned(mFreeRanges')
  /\ mLength' = l - n
  /\ mStart' = IF mLength' = 0 THEN 0 ELSE s + n
  /\ mFree' = mFree - n
  /\ Held' = Held \union {Span(s, n)}

SpaceType ==
  /\ mStart \in 0..Size /\ mLength \in 0..Size /\ mFreeRanges \subseteq 0..(Size - 1)
  /\ mFree \in Int

LEMMA ExtentType ==
  ASSUME NEW s, NEW l, AlignedSpan(Span(s, l))
  PROVE  s \in 0..Size /\ l \in 0..Size
<1>1. Size \in Nat
  BY RegionAssumption
<1>2. Span(s, l).start = s /\ Span(s, l).len = l
  BY DEF Span
<1>3. s \in Nat /\ l \in Nat
  BY <1>2 DEF AlignedSpan, Spans
<1> QED BY <1>1, <1>2, <1>3 DEF AlignedSpan

LEMMA TakeSpace ==
  ASSUME SpaceType, SpaceInv, ByteInv, \A b \in Held : Pool!IsBlock(b),
         NEW s \in Nat, NEW l \in Nat, AlignedSpan(Span(s, l)),
         NEW n \in Nat \ {0}, n % ALIGN = 0, n <= l, Takes(s, l, n)
  PROVE  /\ SpaceType' /\ SpaceInv' /\ ByteInv'
         /\ Pool!IsBlock(Span(s, n))
         /\ \A h \in Held : Pool!Disjoint(Span(s, n), h)
         /\ Span(s, n) \notin Held
<1> DEFINE block == Bytes(Span(s, n))
           range == Bytes(Span(s, l))
           used == BytesOf(Held)
<1>1. /\ Pool!IsBlock(Span(s, n)) /\ AlignedSpan(Span(s + n, l - n))
      /\ range = block \union Bytes(Span(s + n, l - n))
      /\ block \cap Bytes(Span(s + n, l - n)) = {}
      /\ l = n => range = block
  BY FrontOf
<1>2. AlignedSpan(Span(mStart', mLength')) /\ range = block \union Extent' /\ block \cap Extent' = {}
  <2>1. CASE l - n = 0
    <3>1. mStart' = 0 /\ mLength' = 0
      BY <2>1 DEF Takes
    <3>2. Extent' = {} /\ AlignedSpan(Span(mStart', mLength'))
      BY <3>1, NoExtent DEF Extent
    <3> QED BY <2>1, <3>2, <1>1
  <2>2. CASE l - n # 0
    <3>1. mStart' = s + n /\ mLength' = l - n
      BY <2>2 DEF Takes
    <3> QED BY <3>1, <1>1 DEF Extent
  <2> QED BY <2>1, <2>2
<1>3. BytesOf(Held') = used \union block
  <2>1. Held' = Held \union {Span(s, n)}
    BY DEF Takes
  <2>2. BytesOf(Held \union {Span(s, n)}) = used \union block
    BY DEF BytesOf
  <2> QED BY <2>1, <2>2
<1>4. /\ mFreeRanges' \union range = mFreeRanges \union Extent
      /\ mFreeRanges' \cap range = {} /\ Aligned(mFreeRanges') /\ mFree' = mFree - n
  BY DEF Takes
<1>5. IsFiniteSet(used)
  BY HeldBytes
<1>6. IsFiniteSet(block) /\ Cardinality(block) = n
  <2>1. Span(s, n) \in Spans /\ Span(s, n).len = n
    BY SpanType
  <2> QED BY <2>1, SpanCount
<1>7. /\ used \union mFreeRanges \union Extent = 0..(Size - 1)
      /\ used \cap mFreeRanges = {} /\ used \cap Extent = {} /\ mFreeRanges \cap Extent = {}
      /\ mFree = Size - Cardinality(used)
  BY DEF ByteInv
<1> HIDE DEF block, range, used
<1>9. used \cap block = {}
  BY <1>2, <1>4, <1>7
<1>10. Cardinality(used \union block) = Cardinality(used) + n
  BY <1>5, <1>6, <1>9, CountApart
<1>11. Cardinality(used) \in Nat /\ Size \in Nat
  BY <1>5, FS_CardinalityType, RegionAssumption
<1>12. mFree' = Size - Cardinality(used \union block)
  BY <1>4, <1>7, <1>10, <1>11
<1>13. ByteInv'
  <2>1. (used \union block) \union mFreeRanges' \union Extent' = 0..(Size - 1)
    BY <1>2, <1>4, <1>7
  <2>2. (used \union block) \cap mFreeRanges' = {} /\ (used \union block) \cap Extent' = {}
        /\ mFreeRanges' \cap Extent' = {}
    BY <1>2, <1>4, <1>7
  <2> QED BY <2>1, <2>2, <1>3, <1>12 DEF ByteInv
<1>14. SpaceInv'
  BY <1>2, <1>4 DEF SpaceInv
<1>15. SpaceType'
  <2>2. mStart' \in 0..Size /\ mLength' \in 0..Size
    BY <1>2, ExtentType
  <2>3. mFreeRanges' \subseteq 0..(Size - 1)
    BY <1>4, <1>7
  <2>4. mFree' \in Int
    BY <1>4 DEF SpaceType
  <2> QED BY <2>2, <2>3, <2>4 DEF SpaceType
<1>16. \A h \in Held : Pool!Disjoint(Span(s, n), h)
  <2> TAKE h \in Held
  <2>1. Bytes(h) \subseteq used
    BY DEF used, BytesOf
  <2>2. block \cap Bytes(h) = {}
    BY <2>1, <1>9
  <2> QED BY <2>2 DEF Pool!Disjoint, Pool!Bytes, Bytes, block
<1>17. Span(s, n) \notin Held
  <2>1. s \in Bytes(Span(s, n))
    BY DEF Bytes, Span
  <2> QED BY <2>1, <1>16 DEF Pool!Disjoint, Pool!Bytes, Bytes
<1> QED BY <1>1, <1>13, <1>14, <1>15, <1>16, <1>17

\* try_reclaim without a range that fits: all that is free is in the free ranges.
LEMMA GatherSpace ==
  ASSUME SpaceType, SpaceInv, ByteInv, mFreeRanges' = mFreeRanges \union Extent,
         mStart' = 0, mLength' = 0, mFree' = mFree, Held' = Held
  PROVE  SpaceType' /\ SpaceInv' /\ ByteInv'
<1>1. Extent' = {} /\ AlignedSpan(Span(mStart', mLength'))
  BY NoExtent DEF Extent
<1>2. Aligned(mFreeRanges') /\ mFreeRanges' \subseteq 0..(Size - 1)
  BY ExtentBytes DEF SpaceType
<1>3. ByteInv'
  BY <1>1 DEF ByteInv
<1>4. SpaceType'
  BY <1>2, RegionAssumption DEF SpaceType
<1> QED BY <1>1, <1>2, <1>3, <1>4 DEF SpaceInv

\* The callback: blocks go back to the free ranges.
LEMMA ReturnSpace ==
  ASSUME SpaceType, SpaceInv, ByteInv, \A b \in Held : Pool!IsBlock(b), Pool!Apart(Held),
         NEW S \in SUBSET Held, Held' = Held \ S, UNCHANGED <<mStart, mLength>>,
         mFreeRanges' = mFreeRanges \union BytesOf(S),
         mFree' = mFree + Cardinality(BytesOf(S))
  PROVE  SpaceType' /\ SpaceInv' /\ ByteInv'
<1> DEFINE used == BytesOf(Held)
           freed == BytesOf(S)
           left == BytesOf(Held \ S)
<1>1. used = left \union freed
  BY DEF BytesOf
<1>2. left \cap freed = {}
  BY DEF BytesOf, Pool!Apart, Pool!Disjoint, Pool!Bytes, Bytes
<1>3. \A b \in S : AlignedSpan(b)
  BY BlockIsSpan
<1>4. Aligned(freed) /\ freed \subseteq 0..(Size - 1)
  BY <1>3, UnionOfAligned
<1>5. IsFiniteSet(used)
  BY HeldBytes
<1>6. /\ used \union mFreeRanges \union Extent = 0..(Size - 1)
      /\ used \cap mFreeRanges = {} /\ used \cap Extent = {} /\ mFreeRanges \cap Extent = {}
      /\ mFree = Size - Cardinality(used)
  BY DEF ByteInv
<1>7. BytesOf(Held') = left /\ Extent' = Extent
  BY DEF Extent
<1>8. mFreeRanges' = mFreeRanges \union freed /\ mFree' = mFree + Cardinality(freed)
  OBVIOUS
<1> HIDE DEF used, freed, left
<1>9. IsFiniteSet(left) /\ IsFiniteSet(freed)
  BY <1>1, <1>5, FS_Subset
<1>10. Cardinality(used) = Cardinality(left) + Cardinality(freed)
  BY <1>1, <1>2, <1>9, CountApart
<1>11. Cardinality(left) \in Nat /\ Cardinality(freed) \in Nat /\ Size \in Nat
  BY <1>9, FS_CardinalityType, RegionAssumption
<1>12. mFree' = Size - Cardinality(left)
  BY <1>6, <1>8, <1>10, <1>11
<1>13. left \union mFreeRanges' \union Extent = 0..(Size - 1)
       /\ left \cap mFreeRanges' = {} /\ left \cap Extent = {} /\ mFreeRanges' \cap Extent = {}
  BY <1>1, <1>2, <1>6, <1>8
<1>14. ByteInv'
  BY <1>7, <1>12, <1>13 DEF ByteInv
<1>15. SpaceInv'
  BY <1>4, <1>8, UnionAligned DEF SpaceInv
<1>16. SpaceType'
  <2>1. mFreeRanges' \subseteq 0..(Size - 1)
    BY <1>4, <1>8 DEF SpaceType
  <2>2. mFree' \in Int
    BY <1>8, <1>11 DEF SpaceType
  <2> QED BY <2>1, <2>2 DEF SpaceType
<1> QED BY <1>14, <1>15, <1>16

-----------------------------------------------------------------------------
(***************************************************************************)
(* Types.                                                                  *)
(***************************************************************************)
KindType == kind \in Kinds /\ mRunning \in BOOLEAN /\ moved \in BOOLEAN

MapType ==
  /\ mAllocBlocksMap \in [DOMAIN mAllocBlocksMap -> Nat]
  /\ DOMAIN mAllocBlocksMap \subseteq Spans

MessageType == messages \subseteq Spans /\ released \subseteq Spans

LockedPcs == {"alloc", "loop", "reclaim", "wait"}
Pcs == LockedPcs \union {"idle", "create", "ended"}
Gots == [start : Nat \union {Null}, block : Blocks]

ThreadType ==
  /\ holder \subseteq Threads /\ \A t, u \in holder : t = u
  /\ pc \in [Threads -> Pcs]
  /\ todo \in [Threads -> Seq(Blocks)]
  /\ got \in [Threads -> Seq(Gots)]
  /\ \A t \in Threads : (t \in holder <=> pc[t] \in LockedPcs) /\ (todo[t] # <<>> <=> t \in holder)

LEMMA TypeParts == TypeOK <=> KindType /\ SpaceType /\ MapType /\ MessageType /\ ThreadType
<1>1. Pcs = {"idle", "alloc", "loop", "reclaim", "wait", "create", "ended"}
  BY DEF Pcs, LockedPcs
<1>2. TypeOK => KindType /\ SpaceType /\ MapType /\ MessageType
  BY DEF TypeOK, KindType, SpaceType, MapType, MessageType, Spans
<1>3. TypeOK => ThreadType
  BY <1>1 DEF TypeOK, ThreadType, LockedPcs, Gots
<1>4. KindType /\ SpaceType /\ MapType /\ MessageType /\ ThreadType => TypeOK
  BY <1>1 DEF TypeOK, KindType, SpaceType, MapType, MessageType, Spans, ThreadType, LockedPcs, Gots
<1> QED BY <1>2, <1>3, <1>4

LEMMA TypePartsNext ==
  KindType' /\ SpaceType' /\ MapType' /\ MessageType' /\ ThreadType' => TypeOK'
BY TypeParts, PTL

\* What a thread with the lock has left to allocate.
LEMMA HeadOfTodo ==
  ASSUME ThreadType, NEW t \in Threads, pc[t] \in LockedPcs
  PROVE  /\ t \in holder /\ holder = {t}
         /\ Head(todo[t]) \in Blocks /\ Tail(todo[t]) \in Seq(Blocks)
         /\ Head(todo[t]).size \in Nat \ {0}
<1>1. t \in holder /\ holder = {t} /\ todo[t] # <<>> /\ todo[t] \in Seq(Blocks)
  BY DEF ThreadType
<1>2. Head(todo[t]) \in Blocks /\ Tail(todo[t]) \in Seq(Blocks)
  BY <1>1, HeadTailProperties
<1>3. Head(todo[t]).size \in Nat \ {0}
  BY <1>2 DEF Blocks
<1> QED BY <1>1, <1>2, <1>3

LEMMA ReturnType ==
  ASSUME ThreadType, NEW t \in Threads, pc[t] \in LockedPcs,
         NEW address \in Nat \union {Null}, Return(t, address)
  PROVE  /\ ThreadType'
         /\ got'[t] = Append(got[t], [start |-> address, block |-> Head(todo[t])])
         /\ \A u \in Threads \ {t} : got'[u] = got[u]
<1> DEFINE rest == Tail(todo[t])
           new == [start |-> address, block |-> Head(todo[t])]
<1>1. holder = {t} /\ Head(todo[t]) \in Blocks /\ rest \in Seq(Blocks)
  BY HeadOfTodo
<1>2. new \in Gots
  BY <1>1 DEF Gots
<1>3. /\ todo' = [todo EXCEPT ![t] = rest]
      /\ got' = [got EXCEPT ![t] = Append(@, new)]
      /\ pc' = [pc EXCEPT ![t] = IF rest = <<>> THEN "create" ELSE "alloc"]
      /\ holder' = IF rest = <<>> THEN {} ELSE holder
  BY DEF Return
<1> HIDE DEF rest, new
<1>4. got[t] \in Seq(Gots) /\ got \in [Threads -> Seq(Gots)]
  BY DEF ThreadType
<1>5. Append(got[t], new) \in Seq(Gots)
  BY <1>2, <1>4, AppendProperties
<1>6. got' \in [Threads -> Seq(Gots)]
  BY <1>3, <1>4, <1>5
<1>7. todo' \in [Threads -> Seq(Blocks)] /\ todo'[t] = rest /\ \A u \in Threads \ {t} : todo'[u] = todo[u]
  BY <1>1, <1>3 DEF ThreadType
<1>8. /\ pc' \in [Threads -> Pcs] /\ pc'[t] = (IF rest = <<>> THEN "create" ELSE "alloc")
      /\ \A u \in Threads \ {t} : pc'[u] = pc[u]
  BY <1>3 DEF ThreadType, Pcs, LockedPcs
<1>9. holder' \subseteq Threads /\ \A u, v \in holder' : u = v
  BY <1>1, <1>3
<1>10. ASSUME NEW u \in Threads
       PROVE  (u \in holder' <=> pc'[u] \in LockedPcs) /\ (todo'[u] # <<>> <=> u \in holder')
  <2>1. CASE u = t
    BY <2>1, <1>1, <1>3, <1>7, <1>8 DEF LockedPcs
  <2>2. CASE u # t
    <3>1. pc'[u] = pc[u] /\ todo'[u] = todo[u] /\ (u \in holder' <=> FALSE) /\ (u \in holder <=> FALSE)
      BY <2>2, <1>1, <1>3, <1>7, <1>8
    <3> QED BY <3>1 DEF ThreadType
  <2> QED BY <2>1, <2>2
<1>11. got'[t] = Append(got[t], new) /\ \A u \in Threads \ {t} : got'[u] = got[u]
  BY <1>3, <1>4
<1> QED BY <1>6, <1>7, <1>8, <1>9, <1>10, <1>11 DEF ThreadType, new

\* A thread moves on in the lock.
LEMMA MoveType ==
  ASSUME ThreadType, NEW t \in Threads, pc[t] \in LockedPcs, NEW p \in LockedPcs,
         pc' = [pc EXCEPT ![t] = p], UNCHANGED <<holder, todo, got>>
  PROVE  ThreadType'
<1>1. pc' \in [Threads -> Pcs] /\ pc'[t] = p /\ \A u \in Threads \ {t} : pc'[u] = pc[u]
  BY DEF ThreadType, Pcs
<1> QED BY <1>1 DEF ThreadType

LEMMA RequestType ==
  ASSUME ThreadType, NEW t \in Threads, Request(t)
  PROVE  ThreadType'
<1>1. PICK r \in Requests : todo' = [todo EXCEPT ![t] = r]
  BY DEF Request
<1>2. r \in Seq(Blocks) /\ r # <<>>
  BY RegionAssumption
<1>3. holder = {} /\ pc[t] = "idle" /\ holder' = {t} /\ pc' = [pc EXCEPT ![t] = "alloc"] /\ got' = got
  BY DEF Request
<1>4. todo' \in [Threads -> Seq(Blocks)] /\ todo'[t] = r /\ \A u \in Threads \ {t} : todo'[u] = todo[u]
  BY <1>1, <1>2 DEF ThreadType
<1>5. pc' \in [Threads -> Pcs] /\ pc'[t] = "alloc" /\ \A u \in Threads \ {t} : pc'[u] = pc[u]
  BY <1>3 DEF ThreadType, Pcs, LockedPcs
<1>6. got' \in [Threads -> Seq(Gots)] /\ holder' \subseteq Threads /\ \A u, v \in holder' : u = v
  BY <1>3 DEF ThreadType
<1>7. ASSUME NEW u \in Threads
      PROVE  (u \in holder' <=> pc'[u] \in LockedPcs) /\ (todo'[u] # <<>> <=> u \in holder')
  <2>1. CASE u = t
    BY <2>1, <1>2, <1>3, <1>4, <1>5 DEF LockedPcs
  <2>2. CASE u # t
    <3>1. pc'[u] = pc[u] /\ todo'[u] = todo[u] /\ (u \in holder' <=> FALSE) /\ (u \in holder <=> FALSE)
      BY <2>2, <1>3, <1>4, <1>5
    <3> QED BY <3>1 DEF ThreadType
  <2> QED BY <2>1, <2>2
<1> QED BY <1>4, <1>5, <1>6, <1>7 DEF ThreadType

\* A thread is done with its blocks.
LEMMA FinishType ==
  ASSUME ThreadType, NEW t \in Threads, pc[t] = "create", NEW p \in {"idle", "ended"},
         pc' = [pc EXCEPT ![t] = p], got' = [got EXCEPT ![t] = <<>>], UNCHANGED <<holder, todo>>
  PROVE  /\ ThreadType'
         /\ got'[t] = <<>> /\ \A u \in Threads \ {t} : got'[u] = got[u]
<1>1. pc' \in [Threads -> Pcs] /\ pc'[t] = p /\ \A u \in Threads \ {t} : pc'[u] = pc[u]
  BY DEF ThreadType, Pcs
<1>2. got \in [Threads -> Seq(Gots)] /\ <<>> \in Seq(Gots)
  BY EmptySeq DEF ThreadType
<1>3. got' \in [Threads -> Seq(Gots)] /\ got'[t] = <<>> /\ \A u \in Threads \ {t} : got'[u] = got[u]
  BY <1>2
<1>4. (t \in holder <=> FALSE) /\ p \notin LockedPcs
  BY DEF ThreadType, LockedPcs
<1>5. ASSUME NEW u \in Threads
      PROVE  (u \in holder' <=> pc'[u] \in LockedPcs) /\ (todo'[u] # <<>> <=> u \in holder')
  <2>1. CASE u = t
    BY <2>1, <1>1, <1>4 DEF ThreadType
  <2>2. CASE u # t
    BY <2>2, <1>1 DEF ThreadType
  <2> QED BY <2>1, <2>2
<1>6. holder' \subseteq Threads /\ (\A u, v \in holder' : u = v) /\ todo' \in [Threads -> Seq(Blocks)]
  BY DEF ThreadType
<1> QED BY <1>1, <1>3, <1>5, <1>6 DEF ThreadType

-----------------------------------------------------------------------------
(***************************************************************************)
(* The steps.                                                              *)
(***************************************************************************)
\* The threads have no block that they did not have.
KeepsGot ==
  \A u \in Threads : \A i \in DOMAIN got'[u] :
    got'[u][i].start # Null => i \in DOMAIN got[u] /\ got'[u][i] = got[u][i]

LEMMA SameGot == got' = got => KeepsGot
BY DEF KeepsGot

LEMMA ClearedGot ==
  ASSUME NEW t \in Threads, got'[t] = <<>>, \A u \in Threads \ {t} : got'[u] = got[u]
  PROVE  KeepsGot
<1> SUFFICES ASSUME NEW u \in Threads, NEW i \in DOMAIN got'[u]
             PROVE  i \in DOMAIN got[u] /\ got'[u][i] = got[u][i]
  BY DEF KeepsGot
<1>1. u # t
  BY SMT
<1> QED BY <1>1

LEMMA AppendedGot ==
  ASSUME ThreadType, NEW t \in Threads, NEW g \in Gots,
         got'[t] = Append(got[t], g), \A u \in Threads \ {t} : got'[u] = got[u]
  PROVE  \A u \in Threads : \A i \in DOMAIN got'[u] :
           \/ i \in DOMAIN got[u] /\ got'[u][i] = got[u][i]
           \/ u = t /\ i = Len(got[t]) + 1 /\ got'[u][i] = g
<1> SUFFICES ASSUME NEW u \in Threads, NEW i \in DOMAIN got'[u]
             PROVE  \/ i \in DOMAIN got[u] /\ got'[u][i] = got[u][i]
                    \/ u = t /\ i = Len(got[t]) + 1 /\ got'[u][i] = g
  OBVIOUS
<1>1. CASE u # t
  BY <1>1
<1>2. CASE u = t
  <2>1. got[t] \in Seq(Gots)
    BY DEF ThreadType
  <2>2. DOMAIN got[t] = 1..Len(got[t]) /\ Len(got[t]) \in Nat /\ DOMAIN got'[t] = 1..(Len(got[t]) + 1)
    BY <2>1, AppendProperties
  <2>3. \A j \in 1..Len(got[t]) : got'[t][j] = got[t][j]
    BY <2>1, AppendProperties
  <2>4. got'[t][Len(got[t]) + 1] = g
    BY <2>1, AppendProperties
  <2> QED BY <1>2, <2>2, <2>3, <2>4
<1> QED BY <1>1, <1>2

\* The blocks that they had stay untouched.
LEMMA GotKeeps ==
  ASSUME GotInv, kind' = kind,
         KeepsGot,
         Counting => \A u \in Threads : \A i \in DOMAIN got'[u] :
           (got'[u][i].start # Null /\ Untouched(BlockOf(got[u][i])))
             => /\ BlockOf(got[u][i]) \in DOMAIN mAllocBlocksMap'
                /\ Pool!MessagesOf(BlockOf(got[u][i]), Outstanding') = {}
  PROVE  GotInv'
<1>1. Counting' <=> Counting
  BY DEF Counting
<1>2. CASE ~Counting
  BY <1>1, <1>2 DEF GotInv
<1>3. CASE Counting
  <2> SUFFICES ASSUME NEW t \in Threads, NEW i \in DOMAIN got'[t], got'[t][i].start # Null
               PROVE  /\ BlockOf(got'[t][i]) \in DOMAIN mAllocBlocksMap'
                      /\ Pool!MessagesOf(BlockOf(got'[t][i]), Outstanding') = {}
                      /\ \A u \in Threads : \A j \in DOMAIN got'[u] :
                           got'[u][j].start = got'[t][i].start => u = t /\ j = i
    BY DEF GotInv, Untouched, Alone
  <2>1. i \in DOMAIN got[t] /\ got'[t][i] = got[t][i]
    BY DEF KeepsGot
  <2>2. Untouched(BlockOf(got[t][i])) /\ Alone(t, i)
    BY <1>3, <2>1 DEF GotInv
  <2>3. /\ BlockOf(got'[t][i]) \in DOMAIN mAllocBlocksMap'
        /\ Pool!MessagesOf(BlockOf(got'[t][i]), Outstanding') = {}
    BY <1>3, <2>1, <2>2
  <2>4. ASSUME NEW u \in Threads, NEW j \in DOMAIN got'[u], got'[u][j].start = got'[t][i].start
        PROVE  u = t /\ j = i
    <3>1. j \in DOMAIN got[u] /\ got'[u][j] = got[u][j]
      <4>1. got'[u][j].start # Null
        BY <2>4
      <4> QED BY <4>1 DEF KeepsGot
    <3> QED BY <2>4, <3>1, <2>1, <2>2 DEF Alone
  <2> QED BY <2>3, <2>4
<1> QED BY <1>2, <1>3

\* A step that gives nothing out and gets nothing back.
LEMMA QuietStep ==
  ASSUME Inv, UNCHANGED <<kind, mAllocBlocksMap, mFree>>, Outstanding' = Outstanding,
         KindType', MessageType', ThreadType', PlaceInv', KeepsGot,
         \/ UNCHANGED extentVars
         \/ mFreeRanges' = mFreeRanges \union Extent /\ mStart' = 0 /\ mLength' = 0
  PROVE  Inv' /\ UNCHANGED Pool!vars
<1>1. (Counting' <=> Counting) /\ Held' = Held
  BY DEF Counting, Held
<1>2. UNCHANGED Pool!vars
  BY <1>1 DEF Pool!vars
<1>3. PoolInv'
  BY <1>2, PoolStepKeeps DEF Inv
<1>4. SpaceType' /\ SpaceInv' /\ ByteInv'
  <2>1. SpaceType /\ SpaceInv /\ ByteInv
    BY TypeParts DEF Inv
  <2>2. CASE UNCHANGED extentVars
    <3>1. Extent' = Extent
      BY <2>2 DEF extentVars, Extent
    <3> QED BY <2>1, <2>2, <3>1, <1>1 DEF extentVars, SpaceType, SpaceInv, ByteInv
  <2>3. CASE mFreeRanges' = mFreeRanges \union Extent /\ mStart' = 0 /\ mLength' = 0
    BY <2>1, <2>3, <1>1, GatherSpace
  <2> QED BY <2>2, <2>3
<1>5. CountInv'
  BY <1>1 DEF Inv, CountInv
<1>6. GotInv'
  <2>1. Counting => \A u \in Threads : \A i \in DOMAIN got'[u] :
          (got'[u][i].start # Null /\ Untouched(BlockOf(got[u][i])))
            => /\ BlockOf(got[u][i]) \in DOMAIN mAllocBlocksMap'
               /\ Pool!MessagesOf(BlockOf(got[u][i]), Outstanding') = {}
    BY DEF Untouched
  <2> QED BY <2>1, GotKeeps DEF Inv
<1>7. MapType'
  BY TypeParts DEF Inv, MapType
<1>8. TypeOK'
  BY <1>4, <1>7, TypePartsNext
<1> QED BY <1>2, <1>3, <1>4, <1>5, <1>6, <1>8 DEF Inv

\* A block that overlaps no block in use has no messages in it.
LEMMA Fresh ==
  ASSUME PoolInv, NEW b, Pool!IsBlock(b), \A h \in Held : Pool!Disjoint(b, h)
  PROVE  /\ Pool!MessagesOf(b, Outstanding) = {}
         /\ \A m \in Outstanding : m.start # b.start
         /\ \A h \in Held : h.start # b.start
<1>1. b \in Pool!Ranges /\ b.start \in Bytes(b)
  BY BlockIsSpan, RangeIsSpan
<1>2. ASSUME NEW h \in Held PROVE h.start # b.start
  <2>1. h \in Pool!Ranges
    BY DEF PoolInv, Pool!IsBlock
  <2>2. h.start \in Bytes(h)
    BY <2>1, RangeIsSpan
  <2>3. Bytes(b) \cap Bytes(h) = {}
    BY DEF Pool!Disjoint, Pool!Bytes, Bytes
  <2> QED BY <1>1, <2>2, <2>3
<1>3. ASSUME NEW m \in Outstanding PROVE ~Pool!Within(m, b) /\ m.start # b.start
  <2>1. m \in Pool!Ranges /\ \E h \in Held : Pool!Within(m, h)
    BY DEF PoolInv
  <2>2. PICK h \in Held : Pool!Within(m, h)
    BY <2>1
  <2>3. m.start \in Bytes(m)
    BY <2>1, RangeIsSpan
  <2>4. Bytes(m) \subseteq Bytes(h)
    BY <2>2 DEF Pool!Within, Pool!Bytes, Bytes
  <2>5. Bytes(b) \cap Bytes(h) = {}
    BY DEF Pool!Disjoint, Pool!Bytes, Bytes
  <2>6. m.start # b.start
    BY <1>1, <2>3, <2>4, <2>5
  <2>7. ~Pool!Within(m, b)
    <3>1. SUFFICES ASSUME Pool!Within(m, b) PROVE FALSE
      OBVIOUS
    <3>2. Bytes(m) \subseteq Bytes(b)
      BY <3>1 DEF Pool!Within, Pool!Bytes, Bytes
    <3> QED BY <3>2, <2>3, <2>4, <2>5
  <2> QED BY <2>6, <2>7
<1> QED BY <1>2, <1>3 DEF Pool!MessagesOf

\* try_alloc succeeds, in the extent or in a range that try_reclaim found.
LEMMA TakeStep ==
  ASSUME Inv, UNCHANGED <<kind, mRunning, released>>, moved' \in BOOLEAN,
         NEW t \in Threads, pc[t] \in LockedPcs,
         NEW s \in Nat, NEW l \in Nat, AlignedSpan(Span(s, l)),
         AlignUp(Head(todo[t]).size) <= l,
         mFreeRanges' \union Bytes(Span(s, l)) = mFreeRanges \union Extent,
         mFreeRanges' \cap Bytes(Span(s, l)) = {}, Aligned(mFreeRanges'),
         ReturnBlock(t, s, l)
  PROVE  Inv' /\ Pool!Take
<1> DEFINE size == Head(todo[t]).size
           n == AlignUp(size)
           block == Span(s, n)
           g == [start |-> s, block |-> Head(todo[t])]
<1>1. KindType /\ SpaceType /\ MapType /\ MessageType /\ ThreadType
  BY TypeParts DEF Inv
<1>2. Head(todo[t]) \in Blocks /\ size \in Nat \ {0}
  BY <1>1, HeadOfTodo
<1>3. n \in Nat \ {0} /\ n % ALIGN = 0 /\ size <= n /\ n - size < ALIGN /\ n <= l
  BY <1>2, AlignUpFacts
<1>4. /\ mLength' = l - n
      /\ mStart' = IF mLength' = 0 THEN 0 ELSE s + n
      /\ mFree' = mFree - n
      /\ mAllocBlocksMap' = IF Counting THEN [b \in DOMAIN mAllocBlocksMap \union {block} |->
                                                IF b = block THEN 0 ELSE mAllocBlocksMap[b]]
                            ELSE mAllocBlocksMap
      /\ messages' = IF Counting THEN messages ELSE messages \union {Span(s, size)}
      /\ Return(t, s)
  BY DEF ReturnBlock, Span, NewFairMQMessage
<1>5. block \in Spans /\ block.start = s /\ block.len = n
  BY <1>3, SpanType
<1>6. Span(s, size) \in Spans /\ Span(s, size).start = s /\ Span(s, size).len = size
  BY <1>2, SpanType
<1>7. g \in Gots /\ g.start = s /\ BlockOf(g) = block
  BY <1>2 DEF Gots, BlockOf
<1> HIDE DEF size, n, block, g
<1>8. Counting' <=> Counting
  BY DEF Counting
<1>9. Counting =>
        /\ DOMAIN mAllocBlocksMap' = DOMAIN mAllocBlocksMap \union {block}
        /\ mAllocBlocksMap' \in [DOMAIN mAllocBlocksMap' -> Nat]
        /\ mAllocBlocksMap'[block] = 0
        /\ \A b \in DOMAIN mAllocBlocksMap : b # block => mAllocBlocksMap'[b] = mAllocBlocksMap[b]
        /\ Outstanding' = Outstanding /\ messages' = messages
  <2> SUFFICES ASSUME Counting
               PROVE  /\ DOMAIN mAllocBlocksMap' = DOMAIN mAllocBlocksMap \union {block}
                      /\ mAllocBlocksMap' \in [DOMAIN mAllocBlocksMap' -> Nat]
                      /\ mAllocBlocksMap'[block] = 0
                      /\ \A b \in DOMAIN mAllocBlocksMap :
                           b # block => mAllocBlocksMap'[b] = mAllocBlocksMap[b]
                      /\ Outstanding' = Outstanding /\ messages' = messages
    OBVIOUS
  <2>1. mAllocBlocksMap' = [b \in DOMAIN mAllocBlocksMap \union {block} |->
                             IF b = block THEN 0 ELSE mAllocBlocksMap[b]]
    BY <1>4
  <2>2. mAllocBlocksMap \in [DOMAIN mAllocBlocksMap -> Nat]
    BY <1>1 DEF MapType
  <2> QED BY <2>1, <2>2, <1>4 DEF Outstanding
<1>10. ~Counting =>
         /\ mAllocBlocksMap' = mAllocBlocksMap
         /\ messages' = messages \union {Span(s, size)}
         /\ Outstanding' = Outstanding \union {Span(s, size)}
  BY <1>4 DEF Outstanding
<1>11. Held' = Held \union {block}
  <2>1. CASE Counting
    BY <2>1, <1>8, <1>9 DEF Held
  <2>2. CASE ~Counting
    <3>1. /\ Held = {Span(m.start, AlignUp(m.len)) : m \in Outstanding}
          /\ Held' = {Span(m.start, AlignUp(m.len)) : m \in Outstanding'}
      BY <2>2, <1>8 DEF Held
    <3>2. block = Span(Span(s, size).start, AlignUp(Span(s, size).len))
      BY <1>6 DEF block, n
    <3> QED BY <3>1, <3>2, <2>2, <1>10
  <2> QED BY <2>1, <2>2
<1>12. Takes(s, l, n)
  BY <1>4, <1>11 DEF Takes, block
<1>13. /\ SpaceType' /\ SpaceInv' /\ ByteInv'
       /\ Pool!IsBlock(block) /\ (\A h \in Held : Pool!Disjoint(block, h)) /\ block \notin Held
  <2>1. SpaceInv /\ ByteInv /\ \A b \in Held : Pool!IsBlock(b)
    BY DEF Inv, PoolInv
  <2> QED BY <2>1, <1>1, <1>3, <1>12, TakeSpace DEF block
<1>14. PoolInv /\ PlaceInv /\ CountInv /\ GotInv
  BY DEF Inv
<1>15. /\ Pool!MessagesOf(block, Outstanding) = {}
       /\ \A m \in Outstanding : m.start # s
       /\ \A h \in Held : h.start # s
  BY <1>5, <1>13, <1>14, Fresh
<1>16. \A m \in Outstanding' \ Outstanding : m = Span(s, size)
  BY <1>9, <1>10
<1>17. Span(s, size) \in Pool!Ranges
  <2>1. s \in 0..(Size - 1) /\ n <= Size
    BY <1>5, <1>13 DEF Pool!IsBlock, Pool!Ranges
  <2>2. size \in 1..Size
    BY <2>1, <1>2, <1>3, RegionAssumption
  <2> QED BY <2>1, <2>2 DEF Pool!Ranges, Span
<1>18. Pool!Take
  <2>1. block \in Held' \ Held
    BY <1>11, <1>13
  <2>2. Outstanding \subseteq Outstanding'
    BY <1>9, <1>10
  <2>3. \A m \in Outstanding' \ Outstanding :
          m \in Pool!Ranges /\ m.start = block.start /\ m.len <= block.len /\ block.len - m.len < ALIGN
    BY <1>3, <1>5, <1>6, <1>16, <1>17
  <2>4. Pool!Apart(Outstanding' \ Outstanding)
    BY <1>16 DEF Pool!Apart
  <2> QED BY <2>1, <2>2, <2>3, <2>4, <1>11, <1>13 DEF Pool!Take
<1>19. PoolInv'
  BY <1>14, <1>18, TakeKeeps
<1>20. PlaceInv' /\ MessageType'
  <2>1. CASE Counting
    BY <2>1, <1>1, <1>9, <1>14 DEF PlaceInv, MessageType
  <2>2. CASE ~Counting
    <3>1. Span(s, size) \notin released
      BY <1>6, <1>15 DEF Outstanding
    <3> QED BY <3>1, <2>2, <1>1, <1>6, <1>10, <1>14 DEF PlaceInv, MessageType
  <2> QED BY <2>1, <2>2
<1>21. MapType' /\ CountInv'
  <2>1. CASE Counting
    <3>1. MapType'
      BY <2>1, <1>1, <1>5, <1>9 DEF MapType
    <3>2. ASSUME NEW b \in DOMAIN mAllocBlocksMap'
          PROVE  mAllocBlocksMap'[b] = Cardinality(Pool!MessagesOf(b, Outstanding'))
      <4>1. CASE b = block
        BY <4>1, <2>1, <1>9, <1>15, FS_EmptySet
      <4>2. CASE b # block
        <5>1. b \in DOMAIN mAllocBlocksMap /\ mAllocBlocksMap'[b] = mAllocBlocksMap[b]
          BY <3>2, <4>2, <2>1, <1>9
        <5> QED BY <5>1, <2>1, <1>9, <1>14 DEF CountInv
      <4> QED BY <4>1, <4>2
    <3> QED BY <3>1, <3>2 DEF CountInv
  <2>2. CASE ~Counting
    BY <2>2, <1>1, <1>8, <1>10 DEF MapType, CountInv
  <2> QED BY <2>1, <2>2
<1>22. /\ ThreadType' /\ got'[t] = Append(got[t], g)
       /\ \A u \in Threads \ {t} : got'[u] = got[u]
  BY <1>1, <1>4, ReturnType DEF g
<1>23. \A u \in Threads : \A i \in DOMAIN got'[u] :
         \/ i \in DOMAIN got[u] /\ got'[u][i] = got[u][i]
         \/ u = t /\ i = Len(got[t]) + 1 /\ got'[u][i] = g
  BY <1>1, <1>7, <1>22, AppendedGot
<1>24. GotInv'
  <2>1. CASE ~Counting
    BY <2>1, <1>8 DEF GotInv
  <2>2. CASE Counting
    <3>1. ASSUME NEW u \in Threads, NEW i \in DOMAIN got[u], got[u][i].start # Null
          PROVE  Untouched(BlockOf(got[u][i])) /\ Alone(u, i) /\ got[u][i].start # s
      <4>1. Untouched(BlockOf(got[u][i])) /\ Alone(u, i)
        BY <3>1, <2>2, <1>14 DEF GotInv
      <4>2. BlockOf(got[u][i]) \in Held
        BY <4>1, <2>2 DEF Untouched, Held
      <4>3. BlockOf(got[u][i]).start = got[u][i].start
        BY DEF BlockOf, Span
      <4> QED BY <4>1, <4>2, <4>3, <1>15
    <3>2. ASSUME NEW u \in Threads, NEW i \in DOMAIN got'[u], got'[u][i].start # Null
          PROVE  /\ BlockOf(got'[u][i]) \in DOMAIN mAllocBlocksMap'
                 /\ Pool!MessagesOf(BlockOf(got'[u][i]), Outstanding') = {}
      <4>1. CASE i \in DOMAIN got[u] /\ got'[u][i] = got[u][i]
        <5>1. Untouched(BlockOf(got[u][i]))
          BY <4>1, <3>1, <3>2
        <5> QED BY <5>1, <4>1, <2>2, <1>9 DEF Untouched
      <4>2. CASE got'[u][i] = g
        BY <4>2, <2>2, <1>7, <1>9, <1>15
      <4> QED BY <4>1, <4>2, <1>23, <3>2
    <3>3. ASSUME NEW u \in Threads, NEW i \in DOMAIN got'[u], got'[u][i].start # Null,
                 NEW v \in Threads, NEW j \in DOMAIN got'[v], got'[v][j].start = got'[u][i].start
          PROVE  v = u /\ j = i
      <4>1. CASE i \in DOMAIN got[u] /\ got'[u][i] = got[u][i] /\ j \in DOMAIN got[v] /\ got'[v][j] = got[v][j]
        <5>1. Alone(u, i)
          BY <4>1, <3>1, <3>3
        <5> QED BY <5>1, <4>1, <3>3 DEF Alone
      <4>2. CASE i \in DOMAIN got[u] /\ got'[u][i] = got[u][i] /\ got'[v][j] = g
        <5>1. got[u][i].start # s
          BY <4>2, <3>1, <3>3
        <5> QED BY <5>1, <4>2, <3>3, <1>7
      <4>3. CASE j \in DOMAIN got[v] /\ got'[v][j] = got[v][j] /\ got'[u][i] = g
        <5>1. got[v][j].start # s
          BY <4>3, <3>1, <3>3
        <5> QED BY <5>1, <4>3, <3>3, <1>7
      <4>4. CASE u = t /\ i = Len(got[t]) + 1 /\ v = t /\ j = Len(got[t]) + 1
        BY <4>4
      <4> QED BY <4>1, <4>2, <4>3, <4>4, <1>23, <3>3
    <3> QED BY <3>2, <3>3 DEF GotInv, Untouched, Alone
  <2> QED BY <2>1, <2>2
<1>25. KindType'
  BY <1>1 DEF KindType
<1>26. TypeOK'
  BY <1>13, <1>20, <1>21, <1>22, <1>25, TypePartsNext
<1> QED BY <1>13, <1>18, <1>19, <1>20, <1>21, <1>24, <1>26 DEF Inv

\* lower_bound finds the block that a message lies in.
LEMMA OwnerFound ==
  ASSUME Counting, PoolInv, NEW m \in Pool!Ranges, NEW b \in DOMAIN mAllocBlocksMap, Pool!Within(m, b)
  PROVE  Owner(m) = b
<1> DEFINE IsOwner(o) ==
      /\ o.start + o.len - 1 >= m.start
      /\ \A h \in DOMAIN mAllocBlocksMap : h.start + h.len - 1 >= m.start => o.start <= h.start
<1>1. Held = DOMAIN mAllocBlocksMap
  BY DEF Held
<1>2. \A h \in DOMAIN mAllocBlocksMap : h \in Pool!Ranges
  BY <1>1 DEF PoolInv, Pool!IsBlock
<1>3. \A h \in DOMAIN mAllocBlocksMap : h.start \in Nat /\ h.len \in Nat /\ h.len >= 1
  BY <1>2, RangeIsSpan
<1>4. \A h, o \in DOMAIN mAllocBlocksMap :
        h # o => ~(h.start <= o.start /\ o.start <= h.start + h.len - 1)
  <2> SUFFICES ASSUME NEW h \in DOMAIN mAllocBlocksMap, NEW o \in DOMAIN mAllocBlocksMap,
                      h # o, h.start <= o.start, o.start <= h.start + h.len - 1
               PROVE  FALSE
    OBVIOUS
  <2>1. h.start \in Nat /\ h.len \in Nat /\ o.start \in Nat /\ o.len \in Nat /\ o.len >= 1
    BY <1>3
  <2>2. o.start \in Bytes(h) /\ o.start \in Bytes(o)
    BY <2>1 DEF Bytes
  <2>3. Pool!Disjoint(h, o)
    BY <1>1 DEF PoolInv, Pool!Apart
  <2> QED BY <2>2, <2>3 DEF Pool!Disjoint, Pool!Bytes, Bytes
<1>5. m.start \in Nat /\ b.start <= m.start /\ m.start <= b.start + b.len - 1
  <2>1. m.start \in Bytes(m) /\ m.start \in Nat
    BY RangeIsSpan
  <2>2. m.start \in Bytes(b)
    BY <2>1 DEF Pool!Within, Pool!Bytes, Bytes
  <2> QED BY <2>1, <2>2 DEF Bytes
<1>6. IsOwner(b)
  <2>1. ASSUME NEW h \in DOMAIN mAllocBlocksMap, h.start + h.len - 1 >= m.start
        PROVE  b.start <= h.start
    BY <2>1, <1>3, <1>4, <1>5
  <2> QED BY <2>1, <1>3, <1>5
<1>7. ASSUME NEW o \in DOMAIN mAllocBlocksMap, IsOwner(o) PROVE o = b
  <2>1. o.start <= b.start /\ o.start + o.len - 1 >= m.start
    BY <1>3, <1>5, <1>7
  <2> QED BY <2>1, <1>3, <1>4, <1>5
<1>8. Owner(m) = CHOOSE o \in DOMAIN mAllocBlocksMap : IsOwner(o)
  BY DEF Owner
<1> HIDE DEF IsOwner
<1> QED BY <1>6, <1>7, <1>8

\* The messages of a block with a pointer lie in it, side by side.
LEMMA PartsFit ==
  ASSUME NEW g \in Gots, g.start # Null, Pool!IsBlock(BlockOf(g))
  PROVE  /\ PartsOf(g) \subseteq Pool!Ranges
         /\ \A m \in PartsOf(g) : Pool!Within(m, BlockOf(g))
         /\ Pool!Apart(PartsOf(g))
<1>1. g.start \in Nat /\ g.block \in Blocks
  BY DEF Gots
<1> DEFINE size == g.block.size
           parts == g.block.parts
<1>2. /\ size \in Nat \ {0} /\ parts \subseteq [start : Nat, len : Nat \ {0}]
      /\ \A p \in parts : p.start + p.len <= size
      /\ \A p, q \in parts : p # q => p.start + p.len <= q.start \/ q.start + q.len <= p.start
  BY <1>1 DEF Blocks
<1>3. AlignUp(size) \in Nat \ {0} /\ size <= AlignUp(size)
  BY <1>2, AlignUpFacts
<1>4. BlockOf(g).start = g.start /\ BlockOf(g).len = AlignUp(size)
  BY DEF BlockOf, Span
<1>5. g.start + AlignUp(size) <= Size /\ Size \in Nat
  BY <1>4, RegionAssumption DEF Pool!IsBlock
<1>6. PartsOf(g) = {Span(g.start + p.start, p.len) : p \in parts}
  BY DEF PartsOf
<1> DEFINE s == g.start
           n == AlignUp(size)
<1> HIDE DEF size, parts, s, n
<1>7. s \in Nat /\ n \in Nat /\ s + n <= Size /\ size <= n /\ s = g.start /\ BlockOf(g).len = n
  BY <1>1, <1>3, <1>4, <1>5 DEF s, n
<1>8. ASSUME NEW p \in parts
      PROVE  /\ p.start \in Nat /\ p.len \in Nat /\ p.len >= 1 /\ p.start + p.len <= n
             /\ Span(s + p.start, p.len) \in Pool!Ranges
             /\ Pool!Within(Span(s + p.start, p.len), BlockOf(g))
  <2>1. p.start \in Nat /\ p.len \in Nat /\ p.len >= 1 /\ p.start + p.len <= n
    <3>1. p \in [start : Nat, len : Nat \ {0}] /\ p.start + p.len <= size
      BY <1>2
    <3> QED BY <3>1, <1>2, <1>7
  <2>2. s + p.start \in 0..(Size - 1) /\ p.len \in 1..Size
    BY <2>1, <1>5, <1>7
  <2>3. Span(s + p.start, p.len) \in Pool!Ranges
    BY <2>2 DEF Pool!Ranges, Span
  <2>4. Span(s + p.start, p.len).start = s + p.start /\ Span(s + p.start, p.len).len = p.len
    BY DEF Span
  <2>5. Pool!Within(Span(s + p.start, p.len), BlockOf(g))
    BY <2>1, <2>4, <1>4, <1>7 DEF Pool!Within, Pool!Bytes
  <2> QED BY <2>1, <2>3, <2>5
<1>9. Pool!Apart(PartsOf(g))
  <2> SUFFICES ASSUME NEW p \in parts, NEW q \in parts, Span(s + p.start, p.len) # Span(s + q.start, q.len)
               PROVE  Pool!Disjoint(Span(s + p.start, p.len), Span(s + q.start, q.len))
    BY <1>6, <1>7 DEF Pool!Apart
  <2>1. p.start + p.len <= q.start \/ q.start + q.len <= p.start
    BY <1>2
  <2>2. p.start \in Nat /\ p.len \in Nat /\ q.start \in Nat /\ q.len \in Nat
    BY <1>8
  <2>3. /\ Span(s + p.start, p.len).start = s + p.start /\ Span(s + p.start, p.len).len = p.len
        /\ Span(s + q.start, q.len).start = s + q.start /\ Span(s + q.start, q.len).len = q.len
    BY DEF Span
  <2> QED BY <2>1, <2>2, <2>3, <1>7 DEF Pool!Disjoint, Pool!Bytes
<1> QED BY <1>6, <1>7, <1>8, <1>9

LEMMA RangesFinite == IsFiniteSet(Pool!Ranges)
<1>1. Pool!Ranges = [start : 0..(Size - 1), len : 1..Size]
  BY DEF Pool!Ranges
<1> DEFINE P == (0..(Size - 1)) \X (1..Size)
           f == [x \in P |-> [start |-> x[1], len |-> x[2]]]
<1>2. IsFiniteSet(P)
  <2>1. IsFiniteSet(0..(Size - 1)) /\ IsFiniteSet(1..Size)
    BY RegionAssumption, FS_Interval
  <2> QED BY <2>1, FS_Product
<1>3. f \in Surjection(P, Pool!Ranges)
  <2>1. f \in [P -> Pool!Ranges]
    BY <1>1
  <2>2. \A r \in Pool!Ranges : \E x \in P : f[x] = r
    <3> TAKE r \in Pool!Ranges
    <3>1. <<r.start, r.len>> \in P /\ r = [start |-> r.start, len |-> r.len]
      BY <1>1
    <3> QED BY <3>1
  <2> QED BY <2>1, <2>2 DEF Surjection
<1> QED BY <1>2, <1>3, FS_Surjection

\* Outstanding messages can be counted.
LEMMA MessagesFinite ==
  ASSUME NEW S \in SUBSET Pool!Ranges
  PROVE  IsFiniteSet(S) /\ Cardinality(S) \in Nat
BY RangesFinite, FS_Subset, FS_CardinalityType

\* fmqFromDataBuffers: the messages of a thread's blocks, and their counts.
LEMMA CreateStep ==
  ASSUME Inv, NEW t \in Threads, CreateMessages(t), Counting
  PROVE  Inv' /\ Pool!Make
<1> DEFINE gs == got[t]
           new == UNION {PartsOf(gs[i]) : i \in DOMAIN gs}
<1>1. KindType /\ SpaceType /\ MapType /\ MessageType /\ ThreadType
  BY TypeParts DEF Inv
<1>2. SpaceInv /\ ByteInv /\ PoolInv /\ PlaceInv /\ CountInv /\ GotInv
  BY DEF Inv
<1>3. /\ pc[t] = "create" /\ pc' = [pc EXCEPT ![t] = "idle"]
      /\ got' = [got EXCEPT ![t] = <<>>] /\ UNCHANGED <<holder, todo>>
      /\ UNCHANGED <<kind, mRunning, extentVars, mFree, moved, released>>
  BY DEF CreateMessages
<1>4. /\ \A i \in DOMAIN gs : gs[i].start # Null
      /\ mAllocBlocksMap' = [b \in DOMAIN mAllocBlocksMap |->
           mAllocBlocksMap[b] + Cardinality({m \in new : Owner(m) = b})]
      /\ messages' = messages \union new
  BY DEF CreateMessages
<1>5. \A i \in DOMAIN gs : gs[i] \in Gots
  BY <1>1 DEF ThreadType
<1>6. \A i \in DOMAIN gs : Untouched(BlockOf(gs[i])) /\ Alone(t, i)
  BY <1>2, <1>4 DEF GotInv
<1>7. (Counting' <=> Counting) /\ Held = DOMAIN mAllocBlocksMap /\ Held' = Held
  BY <1>3, <1>4 DEF Counting, Held
<1>8. \A i \in DOMAIN gs : BlockOf(gs[i]) \in Held /\ Pool!IsBlock(BlockOf(gs[i]))
  BY <1>2, <1>6, <1>7 DEF Untouched, PoolInv
<1>9. \A i \in DOMAIN gs : /\ PartsOf(gs[i]) \subseteq Pool!Ranges
                           /\ \A m \in PartsOf(gs[i]) : Pool!Within(m, BlockOf(gs[i]))
                           /\ Pool!Apart(PartsOf(gs[i]))
  BY <1>4, <1>5, <1>8, PartsFit
<1>10. \A m \in new : \E i \in DOMAIN gs : m \in PartsOf(gs[i])
  OBVIOUS
<1> HIDE DEF gs, new
<1>11. ASSUME NEW m \in new
       PROVE  /\ m \in Pool!Ranges
              /\ \E i \in DOMAIN gs : Pool!Within(m, BlockOf(gs[i]))
              /\ m \notin Outstanding
  <2>1. PICK i \in DOMAIN gs : m \in PartsOf(gs[i])
    BY <1>10
  <2>2. m \in Pool!Ranges /\ Pool!Within(m, BlockOf(gs[i]))
    BY <2>1, <1>9
  <2>3. Pool!MessagesOf(BlockOf(gs[i]), Outstanding) = {}
    BY <1>6 DEF Untouched
  <2> QED BY <2>2, <2>3 DEF Pool!MessagesOf
<1>12. \A i, j \in DOMAIN gs : i # j => Pool!Disjoint(BlockOf(gs[i]), BlockOf(gs[j]))
  <2> TAKE i, j \in DOMAIN gs
  <2> HAVE i # j
  <2>1. gs[i].start # gs[j].start
    BY <1>6 DEF Alone, gs
  <2>2. BlockOf(gs[i]) # BlockOf(gs[j])
    <3>1. BlockOf(gs[i]).start = gs[i].start /\ BlockOf(gs[j]).start = gs[j].start
      BY DEF BlockOf, Span
    <3> QED BY <2>1, <3>1
  <2> QED BY <2>2, <1>2, <1>8 DEF PoolInv, Pool!Apart
<1>13. Pool!Apart(new)
  <2> SUFFICES ASSUME NEW m \in new, NEW n \in new, m # n PROVE Pool!Disjoint(m, n)
    BY DEF Pool!Apart
  <2>1. PICK i \in DOMAIN gs : m \in PartsOf(gs[i])
    BY <1>10
  <2>2. PICK j \in DOMAIN gs : n \in PartsOf(gs[j])
    BY <1>10
  <2>3. CASE i = j
    BY <2>1, <2>2, <2>3, <1>9 DEF Pool!Apart
  <2>4. CASE i # j
    <3>1. Pool!Within(m, BlockOf(gs[i])) /\ Pool!Within(n, BlockOf(gs[j]))
      BY <2>1, <2>2, <1>9
    <3> QED BY <3>1, <2>4, <1>12, WithinApart
  <2> QED BY <2>3, <2>4
<1>14. Outstanding' = Outstanding \union new
  BY <1>3, <1>4 DEF Outstanding
<1>15. Outstanding' \ Outstanding = new
  BY <1>11, <1>14
<1>16. Pool!Make
  <2>1. \A m \in new : m \in Pool!Ranges
          /\ \E b \in Held : Pool!Within(m, b) /\ Pool!MessagesOf(b, Outstanding) = {}
    <3> TAKE m \in new
    <3>1. PICK i \in DOMAIN gs : Pool!Within(m, BlockOf(gs[i]))
      BY <1>11
    <3>2. Pool!MessagesOf(BlockOf(gs[i]), Outstanding) = {}
      BY <1>6 DEF Untouched
    <3> QED BY <3>1, <3>2, <1>8, <1>11
  <2> QED BY <2>1, <1>7, <1>13, <1>14, <1>15 DEF Pool!Make
<1>17. PoolInv'
  BY <1>2, <1>16, MakeKeeps
<1>18. PlaceInv' /\ MessageType'
  <2>1. new \subseteq Spans
    BY <1>11, RangeIsSpan
  <2>2. new \cap released = {}
    BY <1>11 DEF Outstanding
  <2> QED BY <2>1, <2>2, <1>1, <1>2, <1>3, <1>4 DEF PlaceInv, MessageType
<1>19. ASSUME NEW b \in DOMAIN mAllocBlocksMap
       PROVE  /\ mAllocBlocksMap'[b] = Cardinality(Pool!MessagesOf(b, Outstanding'))
              /\ mAllocBlocksMap'[b] \in Nat
  <2> DEFINE old == Pool!MessagesOf(b, Outstanding)
             added == {m \in new : Owner(m) = b}
  <2>1. \A m \in new : Owner(m) = b <=> Pool!Within(m, b)
    <3> TAKE m \in new
    <3>1. PICK i \in DOMAIN gs : Pool!Within(m, BlockOf(gs[i]))
      BY <1>11
    <3>2. Owner(m) = BlockOf(gs[i])
      BY <3>1, <1>2, <1>7, <1>8, <1>11, OwnerFound
    <3>3. Pool!Within(m, b) => Owner(m) = b
      BY <1>2, <1>11, OwnerFound
    <3> QED BY <3>1, <3>2, <3>3
  <2>2. Pool!MessagesOf(b, Outstanding') = old \union added /\ old \cap added = {}
    BY <2>1, <1>11, <1>14 DEF Pool!MessagesOf
  <2>3. old \subseteq Pool!Ranges /\ added \subseteq Pool!Ranges
    BY <1>2, <1>11 DEF PoolInv, Pool!MessagesOf
  <2>4. mAllocBlocksMap'[b] = mAllocBlocksMap[b] + Cardinality(added)
    BY <1>4
  <2>5. mAllocBlocksMap[b] = Cardinality(old)
    BY <1>2 DEF CountInv
  <2> HIDE DEF old, added
  <2>6. /\ IsFiniteSet(old) /\ IsFiniteSet(added)
        /\ Cardinality(old) \in Nat /\ Cardinality(added) \in Nat
    BY <2>3, MessagesFinite
  <2>7. Cardinality(old \union added) = Cardinality(old) + Cardinality(added)
    BY <2>2, <2>6, CountApart
  <2> QED BY <2>2, <2>4, <2>5, <2>6, <2>7
<1>20. MapType' /\ CountInv'
  <2>1. DOMAIN mAllocBlocksMap' = DOMAIN mAllocBlocksMap
    BY <1>4
  <2>2. mAllocBlocksMap' \in [DOMAIN mAllocBlocksMap -> Nat]
    BY <1>4, <1>19
  <2> QED BY <2>1, <2>2, <1>1, <1>19 DEF MapType, CountInv
<1>21. /\ ThreadType' /\ got'[t] = <<>> /\ \A u \in Threads \ {t} : got'[u] = got[u]
  BY <1>1, <1>3, FinishType
<1>22. KeepsGot
  BY <1>21, ClearedGot
<1>23. ASSUME NEW u \in Threads, NEW i \in DOMAIN got'[u],
              got'[u][i].start # Null, Untouched(BlockOf(got[u][i]))
       PROVE  /\ BlockOf(got[u][i]) \in DOMAIN mAllocBlocksMap'
              /\ Pool!MessagesOf(BlockOf(got[u][i]), Outstanding') = {}
  <2> DEFINE b == BlockOf(got[u][i])
  <2>1. i \in DOMAIN got[u] /\ got'[u][i] = got[u][i] /\ u # t
    <3>1. u # t
      BY <1>21, <1>23, SMT
    <3> QED BY <3>1, <1>21
  <2>2. Alone(u, i) /\ b \in Held
    BY <2>1, <1>2, <1>7, <1>23 DEF GotInv, Untouched
  <2>3. ASSUME NEW m \in new PROVE ~Pool!Within(m, b)
    <3>1. PICK j \in DOMAIN gs : Pool!Within(m, BlockOf(gs[j]))
      BY <1>11
    <3>2. gs[j].start # got[u][i].start
      BY <2>1, <2>2 DEF Alone, gs
    <3>3. BlockOf(gs[j]) # b
      <4>1. BlockOf(gs[j]).start = gs[j].start /\ b.start = got[u][i].start
        BY DEF BlockOf, Span
      <4> QED BY <3>2, <4>1
    <3>4. Pool!Disjoint(BlockOf(gs[j]), b)
      BY <2>2, <3>3, <1>2, <1>8 DEF PoolInv, Pool!Apart
    <3>5. Pool!Disjoint(m, b)
      <4>1. Pool!Within(b, b)
        BY DEF Pool!Within
      <4> QED BY <3>1, <3>4, <4>1, WithinApart
    <3> QED BY <3>5, <1>11, DisjointNotWithin
  <2>4. Pool!MessagesOf(b, Outstanding) = {}
    BY <1>23 DEF Untouched
  <2> QED BY <2>2, <2>3, <2>4, <1>7, <1>14 DEF Pool!MessagesOf, Held
<1>24. GotInv'
  BY <1>2, <1>3, <1>22, <1>23, GotKeeps
<1>25. SpaceType' /\ SpaceInv' /\ ByteInv'
  <2>1. Extent' = Extent
    BY <1>3 DEF Extent, extentVars
  <2> QED BY <2>1, <1>1, <1>2, <1>3, <1>7 DEF extentVars, SpaceType, SpaceInv, ByteInv
<1>26. KindType'
  BY <1>1, <1>3 DEF KindType
<1>27. TypeOK'
  BY <1>18, <1>20, <1>21, <1>25, <1>26, TypePartsNext
<1> QED BY <1>16, <1>17, <1>18, <1>20, <1>24, <1>25, <1>27 DEF Inv

\* Blocks go back, one per message that came back last.
LEMMA FreeSpace ==
  ASSUME Inv, NEW S \in SUBSET Held, Held' = Held \ S, Reclaim(S), UNCHANGED <<mStart, mLength>>
  PROVE  SpaceType' /\ SpaceInv' /\ ByteInv' /\ moved' \in BOOLEAN
<1>1. SpaceType /\ SpaceInv /\ ByteInv /\ (\A b \in Held : Pool!IsBlock(b)) /\ Pool!Apart(Held)
  BY TypeParts DEF Inv, PoolInv
<1>2. mFreeRanges' = mFreeRanges \union BytesOf(S) /\ mFree' = mFree + Cardinality(BytesOf(S))
      /\ moved' \in BOOLEAN
  BY DEF Reclaim
<1> QED BY <1>1, <1>2, ReturnSpace

\* Without counts, a message has its block to itself.
BlockFor(m) == Span(m.start, AlignUp(m.len))

LEMMA OneMessage ==
  ASSUME PoolInv, ~Counting, NEW m \in Outstanding
  PROVE  /\ BlockFor(m) \in Held /\ Pool!Within(m, BlockFor(m))
         /\ \A n \in Outstanding : n # m => BlockFor(n) # BlockFor(m) /\ ~Pool!Within(n, BlockFor(m))
<1>1. Held = {BlockFor(n) : n \in Outstanding}
  BY DEF Held, BlockFor
<1>2. ASSUME NEW n \in Outstanding PROVE n \in Pool!Ranges /\ Pool!Within(n, BlockFor(n))
  <2>1. n \in Pool!Ranges
    BY DEF PoolInv
  <2>2. n.start \in Nat /\ n.len \in Nat \ {0}
    BY <2>1, RangeIsSpan
  <2>3. AlignUp(n.len) \in Nat /\ n.len <= AlignUp(n.len)
    BY <2>2, AlignUpFacts
  <2>4. BlockFor(n).start = n.start /\ BlockFor(n).len = AlignUp(n.len)
    BY DEF BlockFor, Span
  <2> QED BY <2>1, <2>2, <2>3, <2>4 DEF Pool!Within, Pool!Bytes
<1>3. ASSUME NEW n \in Outstanding, n # m
      PROVE  BlockFor(n) # BlockFor(m) /\ ~Pool!Within(n, BlockFor(m))
  <2>1. Pool!Disjoint(n, m) /\ n \in Pool!Ranges /\ m \in Pool!Ranges
    BY <1>2, <1>3 DEF PoolInv, Pool!Apart
  <2>2. n.start # m.start
    <3>1. n.start \in Bytes(n) /\ m.start \in Bytes(m)
      BY <2>1, RangeIsSpan
    <3> QED BY <2>1, <3>1 DEF Pool!Disjoint, Pool!Bytes, Bytes
  <2>3. BlockFor(n) # BlockFor(m)
    <3>1. BlockFor(n).start = n.start /\ BlockFor(m).start = m.start
      BY DEF BlockFor, Span
    <3> QED BY <2>2, <3>1
  <2>4. Pool!Disjoint(BlockFor(n), BlockFor(m))
    BY <1>1, <2>3 DEF PoolInv, Pool!Apart
  <2>5. Pool!Disjoint(n, BlockFor(m))
    <3>1. Pool!Within(BlockFor(m), BlockFor(m))
      BY DEF Pool!Within
    <3> QED BY <3>1, <2>4, <1>2, WithinApart
  <2> QED BY <2>1, <2>3, <2>5, DisjointNotWithin
<1> QED BY <1>1, <1>2, <1>3

\* icl_reclaimSHMMessage: a batch of messages of headers comes back.
LEMMA ExactStep ==
  ASSUME Inv, ReclaimExact
  PROVE  Inv' /\ Pool!GiveBack
<1>1. KindType /\ SpaceType /\ MapType /\ MessageType /\ ThreadType
  BY TypeParts DEF Inv
<1>2. SpaceInv /\ ByteInv /\ PoolInv /\ PlaceInv /\ CountInv /\ GotInv
  BY DEF Inv
<1>3. ~Counting /\ UNCHANGED <<kind, mRunning, mStart, mLength, mAllocBlocksMap, messages, threadVars>>
  BY DEF ReclaimExact
<1>4. PICK batch \in SUBSET released :
        Reclaim({Span(m.start, AlignUp(m.len)) : m \in batch}) /\ released' = released \ batch
  BY DEF ReclaimExact
<1> DEFINE S == {BlockFor(m) : m \in batch}
<1>5. Reclaim(S)
  BY <1>4 DEF BlockFor
<1>6. batch \subseteq Outstanding /\ Outstanding' = Outstanding \ batch
  BY <1>2, <1>3, <1>4 DEF PlaceInv, Outstanding
<1>7. Held = {BlockFor(m) : m \in Outstanding} /\ Held' = {BlockFor(m) : m \in Outstanding'}
      /\ ~Counting'
  BY <1>3 DEF Held, BlockFor, Counting
<1>8. \A m, n \in Outstanding : n # m => BlockFor(n) # BlockFor(m) /\ ~Pool!Within(n, BlockFor(m))
  BY <1>2, <1>3, OneMessage
<1>9. \A m \in Outstanding : Pool!Within(m, BlockFor(m))
  BY <1>2, <1>3, OneMessage
<1>10. S \in SUBSET Held
  BY <1>6, <1>7
<1>11. Held' = Held \ S
  BY <1>6, <1>7, <1>8
<1>12. ASSUME NEW b \in Held
       PROVE  b \in S <=> Pool!MessagesOf(b, Outstanding) # {} /\ Pool!MessagesOf(b, Outstanding') = {}
  <2>1. PICK m \in Outstanding : b = BlockFor(m)
    BY <1>7
  <2>2. m \in Pool!MessagesOf(b, Outstanding)
    BY <2>1, <1>9 DEF Pool!MessagesOf
  <2>3. \A n \in Outstanding : Pool!Within(n, b) => n = m
    BY <2>1, <1>8
  <2>4. b \in S <=> m \in batch
    BY <2>1, <1>6, <1>8
  <2>5. Pool!MessagesOf(b, Outstanding') = {} <=> m \in batch
    BY <2>1, <2>3, <1>6, <1>9 DEF Pool!MessagesOf
  <2> QED BY <2>2, <2>4, <2>5
<1> HIDE DEF S
<1>13. Pool!GiveBack
  <2>1. Held' = Held \ {b \in Held : Pool!MessagesOf(b, Outstanding) # {}
                                       /\ Pool!MessagesOf(b, Outstanding') = {}}
    BY <1>11, <1>12
  <2> QED BY <2>1, <1>6 DEF Pool!GiveBack
<1>14. PoolInv'
  BY <1>2, <1>13, GiveBackKeeps
<1>15. SpaceType' /\ SpaceInv' /\ ByteInv' /\ moved' \in BOOLEAN
  BY <1>3, <1>5, <1>10, <1>11, FreeSpace
<1>16. PlaceInv' /\ MessageType' /\ MapType' /\ KindType' /\ ThreadType'
  BY <1>1, <1>2, <1>3, <1>4, <1>15
     DEF PlaceInv, MessageType, MapType, KindType, ThreadType, threadVars
<1>17. CountInv' /\ GotInv'
  BY <1>7 DEF CountInv, GotInv
<1>18. TypeOK'
  BY <1>15, <1>16, TypePartsNext
<1> QED BY <1>13, <1>14, <1>15, <1>16, <1>17, <1>18 DEF Inv

\* The callback of a region of data: a message less, and the block goes with its last one.
LEMMA CountedStep ==
  ASSUME Inv, ReclaimCounted
  PROVE  Inv' /\ Pool!GiveBack
<1>1. KindType /\ SpaceType /\ MapType /\ MessageType /\ ThreadType
  BY TypeParts DEF Inv
<1>2. SpaceInv /\ ByteInv /\ PoolInv /\ PlaceInv /\ CountInv /\ GotInv
  BY DEF Inv
<1>3. Counting /\ UNCHANGED <<kind, mRunning, mStart, mLength, messages, threadVars>>
  BY DEF ReclaimCounted
<1>4. PICK m \in released : Deref(Owner(m)) /\ released' = released \ {m}
  BY DEF ReclaimCounted
<1>5. m \in Outstanding /\ Outstanding' = Outstanding \ {m}
  BY <1>2, <1>3, <1>4 DEF PlaceInv, Outstanding
<1>6. Held = DOMAIN mAllocBlocksMap /\ Held' = DOMAIN mAllocBlocksMap' /\ Counting'
  BY <1>3 DEF Held, Counting
<1>7. m \in Pool!Ranges /\ \E b \in Held : Pool!Within(m, b)
  BY <1>2, <1>5 DEF PoolInv
<1>8. PICK b \in Held : Pool!Within(m, b)
  BY <1>7
<1>9. Owner(m) = b
  BY <1>2, <1>3, <1>6, <1>7, <1>8, OwnerFound
<1> DEFINE all == Pool!MessagesOf(b, Outstanding)
<1>10. m \in all /\ Pool!MessagesOf(b, Outstanding') = all \ {m} /\ all \subseteq Pool!Ranges
  BY <1>2, <1>5, <1>8 DEF Pool!MessagesOf, PoolInv
<1>11. \A o \in Held : o # b => Pool!MessagesOf(o, Outstanding') = Pool!MessagesOf(o, Outstanding)
  <2> TAKE o \in Held
  <2> HAVE o # b
  <2>1. Pool!Disjoint(b, o) /\ Pool!Within(o, o)
    BY <1>2 DEF PoolInv, Pool!Apart, Pool!Within
  <2>2. Pool!Disjoint(m, o)
    BY <2>1, <1>8, WithinApart
  <2>3. ~Pool!Within(m, o)
    BY <2>2, <1>7, DisjointNotWithin
  <2> QED BY <2>3, <1>5 DEF Pool!MessagesOf
<1>12. mAllocBlocksMap[b] = Cardinality(all)
  BY <1>2, <1>3, <1>6 DEF CountInv
<1> HIDE DEF all
<1>13. IsFiniteSet(all) /\ Cardinality(all) \in Nat /\ Cardinality(all \ {m}) = Cardinality(all) - 1
       /\ IsFiniteSet(all \ {m}) /\ Cardinality(all \ {m}) \in Nat
  BY <1>10, MessagesFinite, FS_RemoveElement
<1>14. all \ {m} = {} <=> Cardinality(all) = 1
  <2>1. all \ {m} = {} <=> Cardinality(all \ {m}) = 0
    BY <1>13, FS_EmptySet
  <2> QED BY <2>1, <1>13
<1>15. /\ Pool!GiveBack /\ SpaceType' /\ SpaceInv' /\ ByteInv' /\ moved' \in BOOLEAN
       /\ MapType' /\ CountInv'
       /\ \A o \in Held : o # b => o \in Held'
  <2>1. CASE mAllocBlocksMap[b] = 1
    <3>1. mAllocBlocksMap' = [o \in DOMAIN mAllocBlocksMap \ {b} |-> mAllocBlocksMap[o]] /\ Reclaim({b})
      BY <2>1, <1>4, <1>9 DEF Deref
    <3>2. Held' = Held \ {b}
      BY <3>1, <1>6
    <3>3. Pool!MessagesOf(b, Outstanding) # {} /\ Pool!MessagesOf(b, Outstanding') = {}
      BY <2>1, <1>10, <1>12, <1>14 DEF all
    <3>4. {b} = {o \in Held : Pool!MessagesOf(o, Outstanding) # {}
                                /\ Pool!MessagesOf(o, Outstanding') = {}}
      BY <3>3, <1>8, <1>11
    <3>5. Pool!GiveBack
      BY <3>2, <3>4, <1>5 DEF Pool!GiveBack
    <3>6. SpaceType' /\ SpaceInv' /\ ByteInv' /\ moved' \in BOOLEAN
      <4>1. {b} \in SUBSET Held
        BY <1>8
      <4> QED BY <4>1, <3>1, <3>2, <1>3, FreeSpace
    <3>7. MapType'
      BY <3>1, <1>1 DEF MapType
    <3>8. CountInv'
      <4> SUFFICES ASSUME NEW o \in DOMAIN mAllocBlocksMap'
                   PROVE  mAllocBlocksMap'[o] = Cardinality(Pool!MessagesOf(o, Outstanding'))
        BY DEF CountInv
      <4>1. o \in DOMAIN mAllocBlocksMap /\ o # b /\ mAllocBlocksMap'[o] = mAllocBlocksMap[o]
        BY <3>1
      <4> QED BY <4>1, <1>2, <1>3, <1>6, <1>11 DEF CountInv
    <3> QED BY <3>2, <3>5, <3>6, <3>7, <3>8
  <2>2. CASE mAllocBlocksMap[b] # 1
    <3>1. mAllocBlocksMap' = [mAllocBlocksMap EXCEPT ![b] = @ - 1]
          /\ UNCHANGED <<mFreeRanges, mFree, moved>>
      BY <2>2, <1>4, <1>9 DEF Deref
    <3>2. mAllocBlocksMap \in [DOMAIN mAllocBlocksMap -> Nat]
      BY <1>1 DEF MapType
    <3>3. /\ DOMAIN mAllocBlocksMap' = DOMAIN mAllocBlocksMap
          /\ mAllocBlocksMap'[b] = mAllocBlocksMap[b] - 1
          /\ \A o \in DOMAIN mAllocBlocksMap : o # b => mAllocBlocksMap'[o] = mAllocBlocksMap[o]
      BY <3>1, <3>2, <1>6
    <3>4. Held' = Held
      BY <3>3, <1>6
    <3>5. Pool!MessagesOf(b, Outstanding') # {}
      BY <2>2, <1>10, <1>12, <1>14
    <3>6. {o \in Held : Pool!MessagesOf(o, Outstanding) # {}
                          /\ Pool!MessagesOf(o, Outstanding') = {}} = {}
      BY <3>5, <1>11
    <3>7. Pool!GiveBack
      BY <3>4, <3>6, <1>5 DEF Pool!GiveBack
    <3>8. SpaceType' /\ SpaceInv' /\ ByteInv' /\ moved' \in BOOLEAN
      <4>1. Extent' = Extent
        BY <1>3 DEF Extent
      <4> QED BY <4>1, <3>1, <3>4, <1>1, <1>2, <1>3 DEF SpaceType, SpaceInv, ByteInv, KindType
    <3>9. mAllocBlocksMap'[b] = Cardinality(Pool!MessagesOf(b, Outstanding'))
          /\ mAllocBlocksMap'[b] \in Nat
      BY <3>3, <1>10, <1>12, <1>13
    <3>10. \A o \in DOMAIN mAllocBlocksMap : o # b =>
             /\ mAllocBlocksMap'[o] = Cardinality(Pool!MessagesOf(o, Outstanding'))
             /\ mAllocBlocksMap'[o] \in Nat
      BY <3>2, <3>3, <1>2, <1>3, <1>6, <1>11 DEF CountInv
    <3>11. mAllocBlocksMap' \in [DOMAIN mAllocBlocksMap -> Nat]
      BY <3>1, <3>2, <3>9, <3>10
    <3>12. MapType' /\ CountInv'
      BY <3>3, <3>9, <3>10, <3>11, <1>1 DEF MapType, CountInv
    <3> QED BY <3>4, <3>7, <3>8, <3>12
  <2> QED BY <2>1, <2>2
<1>16. PoolInv'
  BY <1>2, <1>15, GiveBackKeeps
<1>17. PlaceInv' /\ MessageType' /\ KindType' /\ ThreadType'
  BY <1>1, <1>2, <1>3, <1>4, <1>15 DEF PlaceInv, MessageType, KindType, ThreadType, threadVars
<1>18. GotInv'
  <2>1. KeepsGot
    BY <1>3, SameGot DEF threadVars
  <2>2. ASSUME NEW u \in Threads, NEW i \in DOMAIN got'[u], Untouched(BlockOf(got[u][i]))
        PROVE  /\ BlockOf(got[u][i]) \in DOMAIN mAllocBlocksMap'
               /\ Pool!MessagesOf(BlockOf(got[u][i]), Outstanding') = {}
    <3>1. BlockOf(got[u][i]) \in Held /\ Pool!MessagesOf(BlockOf(got[u][i]), Outstanding) = {}
      BY <2>2, <1>6 DEF Untouched
    <3>2. BlockOf(got[u][i]) # b
      BY <3>1, <1>10 DEF all
    <3> QED BY <3>1, <3>2, <1>6, <1>11, <1>15
  <2> QED BY <2>1, <2>2, <1>2, <1>3, GotKeeps
<1>19. TypeOK'
  BY <1>15, <1>17, TypePartsNext
<1> QED BY <1>15, <1>16, <1>17, <1>18, <1>19 DEF Inv

\* A thread takes the lock.
LEMMA RequestStep ==
  ASSUME Inv, NEW t \in Threads, Request(t)
  PROVE  Inv' /\ UNCHANGED Pool!vars
<1>1. KindType /\ SpaceType /\ MapType /\ MessageType /\ ThreadType /\ PlaceInv
  BY TypeParts DEF Inv
<1>2. UNCHANGED <<kind, mRunning, extentVars, mFree, moved, mAllocBlocksMap, messages, released, got>>
  BY DEF Request
<1>3. ThreadType' /\ KeepsGot
  BY <1>1, <1>2, RequestType, SameGot
<1>4. Outstanding' = Outstanding /\ KindType' /\ MessageType' /\ PlaceInv'
  BY <1>1, <1>2 DEF Outstanding, KindType, MessageType, PlaceInv
<1> QED BY <1>2, <1>3, <1>4, QuietStep

\* do_allocate returns a null pointer, in a region that has stopped or that can fail.
LEMMA NullStep ==
  ASSUME Inv, NEW t \in Threads, pc[t] \in LockedPcs, ReturnNull(t),
         UNCHANGED <<kind, mRunning, released>>, moved' \in BOOLEAN,
         \/ UNCHANGED extentVars
         \/ mFreeRanges' = mFreeRanges \union Extent /\ mStart' = 0 /\ mLength' = 0
  PROVE  Inv' /\ UNCHANGED Pool!vars
<1>1. KindType /\ SpaceType /\ MapType /\ MessageType /\ ThreadType /\ PlaceInv
  BY TypeParts DEF Inv
<1>2. Return(t, Null) /\ UNCHANGED <<mFree, mAllocBlocksMap, messages>>
  BY DEF ReturnNull
<1> DEFINE g == [start |-> Null, block |-> Head(todo[t])]
<1>3. ThreadType' /\ got'[t] = Append(got[t], g) /\ \A u \in Threads \ {t} : got'[u] = got[u]
  BY <1>1, <1>2, ReturnType
<1>4. g \in Gots /\ g.start = Null
  BY <1>1, HeadOfTodo DEF Gots
<1> HIDE DEF g
<1>5. KeepsGot
  <2>1. \A u \in Threads : \A i \in DOMAIN got'[u] :
           \/ i \in DOMAIN got[u] /\ got'[u][i] = got[u][i]
           \/ u = t /\ i = Len(got[t]) + 1 /\ got'[u][i] = g
    BY <1>1, <1>3, <1>4, AppendedGot
  <2> QED BY <2>1, <1>4 DEF KeepsGot
<1>6. Outstanding' = Outstanding /\ KindType' /\ MessageType' /\ PlaceInv'
  BY <1>1, <1>2 DEF Outstanding, KindType, MessageType, PlaceInv
<1> QED BY <1>2, <1>3, <1>5, <1>6, QuietStep

\* A thread goes on in do_allocate without a result.
LEMMA MoveStep ==
  ASSUME Inv, NEW t \in Threads, pc[t] \in LockedPcs, NEW p \in LockedPcs,
         pc' = [pc EXCEPT ![t] = p], UNCHANGED <<holder, todo, got>>,
         UNCHANGED <<kind, mRunning, mFree, mAllocBlocksMap, messages, released>>, moved' \in BOOLEAN,
         \/ UNCHANGED extentVars
         \/ mFreeRanges' = mFreeRanges \union Extent /\ mStart' = 0 /\ mLength' = 0
  PROVE  Inv' /\ UNCHANGED Pool!vars
<1>1. KindType /\ SpaceType /\ MapType /\ MessageType /\ ThreadType /\ PlaceInv
  BY TypeParts DEF Inv
<1>2. ThreadType' /\ KeepsGot
  BY <1>1, MoveType, SameGot
<1>3. Outstanding' = Outstanding /\ KindType' /\ MessageType' /\ PlaceInv'
  BY <1>1 DEF Outstanding, KindType, MessageType, PlaceInv
<1> QED BY <1>2, <1>3, QuietStep

\* A thread is done with its blocks without messages to make.
LEMMA FinishStep ==
  ASSUME Inv, NEW t \in Threads, pc[t] = "create", NEW p \in {"idle", "ended"},
         pc' = [pc EXCEPT ![t] = p], got' = [got EXCEPT ![t] = <<>>], UNCHANGED <<holder, todo>>,
         UNCHANGED <<kind, mRunning, extentVars, mFree, moved, mAllocBlocksMap, messages, released>>
  PROVE  Inv' /\ UNCHANGED Pool!vars
<1>1. KindType /\ SpaceType /\ MapType /\ MessageType /\ ThreadType /\ PlaceInv
  BY TypeParts DEF Inv
<1>2. ThreadType' /\ got'[t] = <<>> /\ \A u \in Threads \ {t} : got'[u] = got[u]
  BY <1>1, FinishType
<1>3. KeepsGot
  BY <1>2, ClearedGot
<1>4. Outstanding' = Outstanding /\ KindType' /\ MessageType' /\ PlaceInv'
  BY <1>1 DEF Outstanding, KindType, MessageType, PlaceInv
<1> QED BY <1>2, <1>3, <1>4, QuietStep

\* A step of no thread that changes neither the bytes nor what is outstanding: a user is done
\* with a message, or the region stops.
LEMMA OtherStep ==
  ASSUME Inv, UNCHANGED <<kind, extentVars, mFree, moved, mAllocBlocksMap, threadVars>>,
         mRunning' \in BOOLEAN, Outstanding' = Outstanding, MessageType', PlaceInv'
  PROVE  Inv' /\ UNCHANGED Pool!vars
<1>1. KindType /\ SpaceType /\ MapType /\ MessageType /\ ThreadType
  BY TypeParts DEF Inv
<1>2. KindType' /\ ThreadType' /\ KeepsGot
  BY <1>1, SameGot DEF KindType, ThreadType, threadVars
<1> QED BY <1>2, QuietStep

\* do_allocate in the extent.
LEMMA AllocateStep ==
  ASSUME Inv, NEW t \in Threads, Allocate(t)
  PROVE  Inv' /\ [Pool!Next]_Pool!vars
<1>1. KindType /\ SpaceType /\ ThreadType /\ SpaceInv /\ ByteInv
  BY TypeParts DEF Inv
<1>2. pc[t] \in LockedPcs /\ UNCHANGED <<kind, mRunning, moved, released>> /\ moved' \in BOOLEAN
  BY <1>1 DEF Allocate, LockedPcs, KindType
<1>3. CASE ReturnNull(t) /\ UNCHANGED extentVars
  BY <1>2, <1>3, NullStep
<1>4. CASE mLength >= AlignUp(Head(todo[t]).size) /\ ReturnBlock(t, mStart, mLength)
           /\ UNCHANGED mFreeRanges
  <2>1. mStart \in Nat /\ mLength \in Nat /\ AlignedSpan(Span(mStart, mLength)) /\ Aligned(mFreeRanges)
    BY <1>1, RegionAssumption DEF SpaceType, SpaceInv
  <2>2. mFreeRanges \cap Bytes(Span(mStart, mLength)) = {}
    BY <1>1 DEF ByteInv, Extent
  <2>3. AlignUp(Head(todo[t]).size) <= mLength
    <3>1. AlignUp(Head(todo[t]).size) \in Nat
      BY <1>1, <1>2, HeadOfTodo, AlignUpFacts
    <3> QED BY <3>1, <2>1, <1>4
  <2>4. mFreeRanges' \union Bytes(Span(mStart, mLength)) = mFreeRanges \union Extent
    BY <1>4 DEF Extent
  <2>5. Inv' /\ Pool!Take
    <3>1. mFreeRanges' = mFreeRanges
      BY <1>4
    <3>2. mFreeRanges' \cap Bytes(Span(mStart, mLength)) = {} /\ Aligned(mFreeRanges')
      BY <3>1, <2>1, <2>2
    <3> QED BY <3>2, <2>1, <2>3, <2>4, <1>2, <1>4, TakeStep
  <2> QED BY <2>5 DEF Pool!Next
<1>5. CASE /\ pc' = [pc EXCEPT ![t] = "loop"]
           /\ UNCHANGED <<extentVars, mFree, mAllocBlocksMap, messages, holder, todo, got>>
  <2>1. "loop" \in LockedPcs
    BY DEF LockedPcs
  <2> QED BY <1>2, <1>5, <2>1, MoveStep
<1> QED BY <1>3, <1>4, <1>5 DEF Allocate

\* try_reclaim, with a range that fits or without.
LEMMA TryReclaimStep ==
  ASSUME Inv, NEW t \in Threads, TryReclaim(t)
  PROVE  Inv' /\ [Pool!Next]_Pool!vars
<1> DEFINE free == mFreeRanges \union Extent
           size == AlignUp(Head(todo[t]).size)
           fits == {r \in Intervals(free) : r.len >= size}
<1>1. KindType /\ SpaceType /\ ThreadType /\ SpaceInv /\ ByteInv
  BY TypeParts DEF Inv
<1>2. pc[t] \in LockedPcs /\ UNCHANGED <<kind, mRunning, released>>
  BY <1>1 DEF TryReclaim, LockedPcs
<1>3. size \in Nat \ {0}
  BY <1>1, <1>2, HeadOfTodo, AlignUpFacts
<1>4. CASE fits # {} /\ mFreeRanges' = free \ Bytes(Chosen(fits))
           /\ ReturnBlock(t, Chosen(fits).start, Chosen(fits).len) /\ moved' = FALSE
  <2>1. Aligned(free) /\ free \in SUBSET (0..(Size - 1))
    BY <1>1, ExtentBytes DEF SpaceType
  <2> HIDE DEF free
  <2>2. \A r \in Intervals(free) : AlignedSpan(r) /\ Bytes(r) \subseteq free /\ r.len \in 1..Size
    BY <2>1, IntervalAligned
  <2>3. \A r \in fits : r.start \in Nat /\ r.len \in 1..Size
    BY <2>2 DEF AlignedSpan, Spans
  <2>4. kind.strategy \in {"eFindFirst", "eFindLongest"}
    BY <1>1, RegionAssumption DEF KindType
  <2>5. Chosen(fits) \in fits
    <3> HIDE DEF fits
    <3> QED BY <2>3, <2>4, <1>4, ChosenIsOne
  <2> DEFINE r == Chosen(fits)
  <2>6. r \in Intervals(free) /\ r.len >= size
    BY <2>5
  <2>7. r.start \in Nat /\ r.len \in Nat
    BY <2>3, <2>5, RegionAssumption
  <2> HIDE DEF fits, size
  <2>8. mFreeRanges' = free \ Bytes(r) /\ ReturnBlock(t, r.start, r.len)
    BY <1>4
  <2>9. AlignedSpan(r) /\ Bytes(r) \subseteq free /\ r = Span(r.start, r.len)
    <3>1. AlignedSpan(r) /\ Bytes(r) \subseteq free
      BY <2>2, <2>6
    <3>2. r \in [start : Nat, len : Nat]
      BY <3>1 DEF AlignedSpan, Spans
    <3> QED BY <3>1, <3>2 DEF Span
  <2> HIDE DEF r
  <2> DEFINE s == r.start
             l == r.len
  <2>10. s \in Nat /\ l \in Nat /\ r = Span(s, l) /\ size <= l
    BY <2>6, <2>7, <2>9, <1>3
  <2>11. AlignedSpan(Span(s, l)) /\ Bytes(Span(s, l)) \subseteq free
         /\ mFreeRanges' = free \ Bytes(Span(s, l)) /\ ReturnBlock(t, s, l)
    BY <2>8, <2>9, <2>10
  <2> HIDE DEF s, l
  <2>12. Aligned(mFreeRanges')
    BY <2>1, <2>10, <2>11, MinusAligned
  <2>13. mFreeRanges' \union Bytes(Span(s, l)) = mFreeRanges \union Extent
         /\ mFreeRanges' \cap Bytes(Span(s, l)) = {}
    BY <2>11 DEF free
  <2>14. moved' \in BOOLEAN /\ AlignUp(Head(todo[t]).size) <= l
    BY <1>4, <2>10 DEF size
  <2>15. Inv' /\ Pool!Take
    BY <1>2, <2>10, <2>11, <2>12, <2>13, <2>14, TakeStep
  <2> QED BY <2>15 DEF Pool!Next
<1>5. CASE /\ mFreeRanges' = free
           /\ InvalidateExtent
           /\ IF kind.canFail
              THEN ReturnNull(t) /\ moved' = FALSE
              ELSE /\ pc' = [pc EXCEPT ![t] = "wait"]
                   /\ UNCHANGED <<moved, mFree, mAllocBlocksMap, messages, holder, todo, got>>
  <2>1. mFreeRanges' = mFreeRanges \union Extent /\ mStart' = 0 /\ mLength' = 0
    BY <1>5 DEF InvalidateExtent
  <2>2. CASE ReturnNull(t) /\ moved' = FALSE
    BY <2>1, <2>2, <1>2, NullStep
  <2>3. CASE /\ pc' = [pc EXCEPT ![t] = "wait"]
             /\ UNCHANGED <<moved, mFree, mAllocBlocksMap, messages, holder, todo, got>>
    <3>1. "wait" \in LockedPcs /\ moved' \in BOOLEAN
      BY <2>3, <1>1 DEF LockedPcs, KindType
    <3> QED BY <2>1, <2>3, <3>1, <1>2, MoveStep
  <2> QED BY <2>2, <2>3, <1>5
<1> QED BY <1>4, <1>5 DEF TryReclaim

LEMMA InitInv == Init => Inv /\ Pool!Init
<1> SUFFICES ASSUME Init PROVE Inv /\ Pool!Init
  OBVIOUS
<1>1. Size \in Nat /\ ALIGN \in Nat \ {0} /\ Size % ALIGN = 0
  BY RegionAssumption
<1>2. Outstanding = {} /\ Held = {} /\ DOMAIN mAllocBlocksMap = {}
  BY DEF Init, Outstanding, Held
<1>3. Extent = 0..(Size - 1) /\ BytesOf(Held) = {}
  BY <1>1, <1>2 DEF Init, Extent, Bytes, Span, BytesOf
<1>4. SpaceType /\ KindType /\ MessageType
  <2>1. mStart = 0 /\ mLength = Size /\ mFreeRanges = {} /\ mFree = Size
    BY DEF Init
  <2>2. SpaceType
    BY <1>1, <2>1 DEF SpaceType
  <2> QED BY <2>2 DEF Init, KindType, MessageType
<1>5. MapType
  BY <1>2 DEF Init, MapType
<1>6. ThreadType
  BY EmptySeq DEF Init, ThreadType, Pcs, LockedPcs
<1>7. SpaceInv
  <2>1. 0 % ALIGN = 0
    BY <1>1
  <2> QED BY <2>1, <1>1, SpanType DEF Init, SpaceInv, Aligned, AlignedSpan
<1>8. ByteInv
  <2>1. Cardinality({}) = 0
    BY FS_EmptySet
  <2> QED BY <2>1, <1>1, <1>3 DEF Init, ByteInv
<1>9. PoolInv /\ PlaceInv /\ CountInv /\ Pool!Init
  BY <1>2 DEF Init, PoolInv, PlaceInv, CountInv, Pool!Apart, Pool!Init
<1>10. GotInv
  <2>1. \A t \in Threads : DOMAIN got[t] = {}
    BY DEF Init
  <2> QED BY <2>1 DEF GotInv
<1>11. TypeOK
  BY <1>4, <1>5, <1>6, TypeParts
<1> QED BY <1>7, <1>8, <1>9, <1>10, <1>11 DEF Inv

LEMMA NextInv == Inv /\ [Next]_vars => Inv' /\ [Pool!Next]_Pool!vars
<1> SUFFICES ASSUME Inv, [Next]_vars PROVE Inv' /\ [Pool!Next]_Pool!vars
  OBVIOUS
<1>1. KindType /\ SpaceType /\ MapType /\ MessageType /\ ThreadType /\ PlaceInv
  BY TypeParts DEF Inv
<1>2. ASSUME NEW t \in Threads, Request(t) PROVE Inv' /\ [Pool!Next]_Pool!vars
  BY <1>2, RequestStep
<1>3. ASSUME NEW t \in Threads, Locked(t) PROVE Inv' /\ [Pool!Next]_Pool!vars
  <2>1. CASE Allocate(t)
    BY <2>1, AllocateStep
  <2>2. CASE ReadGeneration(t)
    <3>1. pc[t] \in LockedPcs /\ "reclaim" \in LockedPcs
          /\ UNCHANGED <<kind, mRunning, extentVars, released>>
      BY <2>2 DEF ReadGeneration, LockedPcs
    <3>2. CASE moved' = FALSE /\ pc' = [pc EXCEPT ![t] = "reclaim"]
               /\ UNCHANGED <<mFree, mAllocBlocksMap, messages, holder, todo, got>>
      BY <3>1, <3>2, MoveStep
    <3>3. CASE ReturnNull(t) /\ UNCHANGED moved
      <4>1. moved' \in BOOLEAN
        BY <3>3, <1>1 DEF KindType
      <4> QED BY <3>1, <3>3, <4>1, NullStep
    <3> QED BY <2>2, <3>2, <3>3 DEF ReadGeneration
  <2>3. CASE TryReclaim(t)
    BY <2>3, TryReclaimStep
  <2>4. CASE Wait(t)
    <3>1. pc[t] \in LockedPcs /\ "loop" \in LockedPcs /\ moved' \in BOOLEAN
          /\ pc' = [pc EXCEPT ![t] = "loop"] /\ UNCHANGED <<holder, todo, got>>
          /\ UNCHANGED <<kind, mRunning, mFree, mAllocBlocksMap, messages, released>>
          /\ UNCHANGED extentVars
      BY <2>4 DEF Wait, LockedPcs
    <3> QED BY <3>1, MoveStep
  <2> QED BY <1>3, <2>1, <2>2, <2>3, <2>4 DEF Locked
<1>4. ASSUME NEW t \in Threads, Finish(t) PROVE Inv' /\ [Pool!Next]_Pool!vars
  <2>1. CASE CreateMessages(t) /\ Counting
    BY <2>1, CreateStep DEF Pool!Next
  <2>2. CASE CreateMessages(t) /\ ~Counting
    <3>1. /\ pc[t] = "create" /\ pc' = [pc EXCEPT ![t] = "idle"]
          /\ got' = [got EXCEPT ![t] = <<>>] /\ UNCHANGED <<holder, todo>>
          /\ UNCHANGED <<kind, mRunning, extentVars, mFree, moved, mAllocBlocksMap, messages, released>>
      BY <2>2 DEF CreateMessages
    <3> QED BY <3>1, FinishStep
  <2>3. CASE FailTransfer(t)
    <3>1. /\ pc[t] = "create" /\ pc' = [pc EXCEPT ![t] = "ended"]
          /\ got' = [got EXCEPT ![t] = <<>>] /\ UNCHANGED <<holder, todo>>
          /\ UNCHANGED <<kind, mRunning, extentVars, mFree, moved, mAllocBlocksMap, messages, released>>
      BY <2>3 DEF FailTransfer
    <3> QED BY <3>1, FinishStep
  <2> QED BY <1>4, <2>1, <2>2, <2>3 DEF Finish
<1>5. CASE DropAny
  <2>1. PICK m \in messages : messages' = messages \ {m} /\ released' = released \union {m}
          /\ UNCHANGED <<kind, mRunning, extentVars, mFree, moved, mAllocBlocksMap, threadVars>>
    BY <1>5 DEF DropAny, Drop
  <2>2. Outstanding' = Outstanding /\ MessageType' /\ PlaceInv' /\ mRunning' \in BOOLEAN
    BY <2>1, <1>1 DEF Outstanding, MessageType, PlaceInv, KindType
  <2> QED BY <2>1, <2>2, OtherStep
<1>6. CASE ReclaimExact
  BY <1>6, ExactStep DEF Pool!Next
<1>7. CASE ReclaimCounted
  BY <1>7, CountedStep DEF Pool!Next
<1>8. CASE stop
  <2>1. mRunning' = FALSE /\ UNCHANGED <<messages, released>>
        /\ UNCHANGED <<kind, extentVars, mFree, moved, mAllocBlocksMap, threadVars>>
    BY <1>8 DEF stop
  <2>2. Outstanding' = Outstanding /\ MessageType' /\ PlaceInv' /\ mRunning' \in BOOLEAN
    BY <2>1, <1>1 DEF Outstanding, MessageType, PlaceInv
  <2> QED BY <2>1, <2>2, OtherStep
<1>9. CASE UNCHANGED vars
  <2>1. mRunning' = mRunning /\ UNCHANGED <<messages, released>>
        /\ UNCHANGED <<kind, extentVars, mFree, moved, mAllocBlocksMap, threadVars>>
    BY <1>9 DEF vars
  <2>2. Outstanding' = Outstanding /\ MessageType' /\ PlaceInv' /\ mRunning' \in BOOLEAN
    BY <2>1, <1>1 DEF Outstanding, MessageType, PlaceInv, KindType
  <2> QED BY <2>1, <2>2, OtherStep
<1> QED BY <1>2, <1>3, <1>4, <1>5, <1>6, <1>7, <1>8, <1>9 DEF Next

-----------------------------------------------------------------------------
\* Whatever threads, users and callbacks interleave, and however large the region is, each of its
\* bytes is in one block in use, in the free ranges or in the extent, and mFree is right
\* (do_allocate, try_reclaim and the two reclaiming callbacks of MemoryUtils.h).
THEOREM NoByteLost == Spec => []EveryByteIsSomewhere
<1>1. Init => Inv
  BY InitInv
<1>2. Inv /\ [Next]_vars => Inv'
  BY NextInv
<1>3. Inv => EveryByteIsSomewhere
  BY DEF Inv, ByteInv, EveryByteIsSomewhere
<1> QED BY <1>1, <1>2, <1>3, PTL DEF Spec

\* The allocator keeps the promise of MemoryPool, step by step: try_alloc takes a block,
\* fmqFromDataBuffers makes messages, a callback gives back, and everything else is silent.
THEOREM AllocatorIsAPool == Spec => KeepsThePool
<1>1. Init => Inv /\ Pool!Init
  BY InitInv
<1>2. Inv /\ [Next]_vars => Inv' /\ [Pool!Next]_Pool!vars
  BY NextInv
<1>3. KeepsThePool <=> Pool!Init /\ [][Pool!Next]_Pool!vars
  BY DEF KeepsThePool, Pool!Spec
<1> QED BY <1>1, <1>2, <1>3, PTL DEF Spec

\* No byte of a region is in two blocks or in two messages, and every message that has not come
\* back lies in a block in use: what MemoryUtils.h owes to those who write through its pointers.
THEOREM NoByteTwice ==
  Spec => [](/\ Pool!Apart(Held) /\ Pool!Apart(Outstanding)
             /\ \A m \in Outstanding : \E b \in Held : Pool!Within(m, b))
<1>1. Init => Inv
  BY InitInv
<1>2. Inv /\ [Next]_vars => Inv'
  BY NextInv
<1>3. Inv => /\ Pool!Apart(Held) /\ Pool!Apart(Outstanding)
             /\ \A m \in Outstanding : \E b \in Held : Pool!Within(m, b)
  BY DEF Inv, PoolInv
<1> QED BY <1>1, <1>2, <1>3, PTL DEF Spec
=============================================================================

--------------------------- MODULE RegionAllocator ---------------------------
(***************************************************************************)
(* RegionAllocatorResource: the shared-memory regions of MemoryUtils.h and *)
(* the locks of SyncMemoryResources around them.  A receiving thread takes *)
(* the blocks of a whole request under one lock, one do_allocate each, and *)
(* waits inside that lock when there is no memory.  It makes the messages  *)
(* of the blocks when the data has been transferred.  The messages leave   *)
(* for other processes; the transport's callback brings them back, in      *)
(* batches and in any order.                                               *)
(*                                                                         *)
(* A region of headers (eExactRegion, eFindFirst) has one message per      *)
(* block, made with it, and frees what comes back by its aligned size.  A  *)
(* region of data (eRefCount, eFindLongest) counts the messages of a block *)
(* and frees the block with the last one.                                  *)
(*                                                                         *)
(* mFreeRanges is an interval map that joins neighbouring ranges: here the *)
(* set of the free bytes, whose maximal intervals are the entries.  Blocks *)
(* of size 0 are left out.                                                 *)
(***************************************************************************)
EXTENDS Integers, Sequences, FiniteSets

CONSTANTS
  Size,             \* mSegmentSize
  ALIGN,
  Kinds,            \* [strategy, tracking, canFail]: the instantiations to consider
  Threads,
  Requests,         \* sequences of blocks [size, parts]: parts are offsets and lengths of messages
  FailingTransfers, \* threads whose transfer into the blocks may fail
  MayStop           \* stop() may be called

Null == -1

\* The blocks to allocate, with the messages that will be made in them: the messages of a
\* transfer group of an STF lie in its block side by side, as in the memory of the StfSender.
Blocks ==
  {b \in [size : Nat \ {0}, parts : SUBSET [start : Nat, len : Nat \ {0}]] :
     /\ \A p \in b.parts : p.start + p.len <= b.size
     /\ \A p, q \in b.parts : p # q => p.start + p.len <= q.start \/ q.start + q.len <= p.start}

ASSUME RegionAssumption ==
  /\ ALIGN \in Nat \ {0} /\ Size \in Nat /\ Size % ALIGN = 0
  /\ Kinds \subseteq [strategy : {"eFindLongest", "eFindFirst"},
                      tracking : {"eRefCount", "eExactRegion"}, canFail : BOOLEAN]
  /\ FailingTransfers \subseteq Threads
  /\ MayStop \in BOOLEAN
  /\ Requests \subseteq Seq(Blocks) \ {<<>>}

VARIABLES
  kind,             \* the template arguments and pCanFail
  mRunning,
  mStart, mLength,  \* the extent that try_alloc takes from
  mFreeRanges,      \* the free bytes outside the extent
  mFree,
  moved,            \* mGeneration has moved since a thread read it to wait for that
  mAllocBlocksMap,  \* eRefCount: a function from the blocks in use to mRefCnt
  messages,         \* the messages with their users
  released,         \* the messages that the callback has not been told of
  holder,           \* the set of the thread in mDataLock, or mHdrLock
  pc, todo,         \* of a thread: where it is, the blocks of its request still to allocate,
  got               \* and the allocated ones [start, block]

extentVars == <<mStart, mLength, mFreeRanges>>
threadVars == <<holder, pc, todo, got>>
vars == <<kind, mRunning, extentVars, mFree, moved, mAllocBlocksMap, messages, released, threadVars>>

AlignUp(size) == ((size + ALIGN - 1) \div ALIGN) * ALIGN
Span(s, l) == [start |-> s, len |-> l]
Bytes(r) == r.start..(r.start + r.len - 1)
BytesOf(S) == UNION {Bytes(r) : r \in S}
Extent == Bytes(Span(mStart, mLength))
Counting == kind.tracking = "eRefCount"

\* The entries of an interval map that holds these bytes.
Intervals(S) ==
  {r \in [start : S, len : 1..Size] :
     Bytes(r) \subseteq S /\ r.start - 1 \notin S /\ r.start + r.len \notin S}

\* try_reclaim: the interval that becomes the extent.
Chosen(S) ==
  CHOOSE r \in S : \A o \in S :
    \/ kind.strategy = "eFindFirst" /\ r.start <= o.start
    \/ kind.strategy = "eFindLongest" /\ (r.len > o.len \/ (r.len = o.len /\ r.start <= o.start))

\* The block of mAllocBlocksMap that lower_bound finds: its key is the last byte.
Owner(m) ==
  CHOOSE b \in DOMAIN mAllocBlocksMap :
    /\ b.start + b.len - 1 >= m.start
    /\ \A o \in DOMAIN mAllocBlocksMap :
         o.start + o.len - 1 >= m.start => b.start <= o.start

-----------------------------------------------------------------------------
Init ==
  /\ kind \in Kinds
  /\ mRunning = TRUE
  /\ mStart = 0 /\ mLength = Size /\ mFreeRanges = {} /\ mFree = Size
  /\ moved = FALSE
  /\ mAllocBlocksMap = << >>
  /\ messages = {} /\ released = {}
  /\ holder = {}
  /\ pc = [t \in Threads |-> "idle"]
  /\ todo = [t \in Threads |-> <<>>]
  /\ got = [t \in Threads |-> <<>>]

\* allocDataBuffers, allocHdrBuffers: the lock is taken for all the blocks.
Request(t) ==
  /\ holder = {} /\ pc[t] = "idle"
  /\ \E r \in Requests :
       /\ Counting \/ \A i \in DOMAIN r : r[i].parts = {Span(0, r[i].size)}
       /\ todo' = [todo EXCEPT ![t] = r]
  /\ holder' = {t}
  /\ pc' = [pc EXCEPT ![t] = "alloc"]
  /\ UNCHANGED <<kind, mRunning, extentVars, mFree, moved, mAllocBlocksMap, messages, released, got>>

\* do_allocate returns: the next block, or the end of the lock.
Return(t, address) ==
  LET rest == Tail(todo[t]) IN
  /\ todo' = [todo EXCEPT ![t] = rest]
  /\ got' = [got EXCEPT ![t] = Append(@, [start |-> address, block |-> Head(todo[t])])]
  /\ pc' = [pc EXCEPT ![t] = IF rest = <<>> THEN "create" ELSE "alloc"]
  /\ holder' = IF rest = <<>> THEN {} ELSE holder

ReturnNull(t) ==
  /\ Return(t, Null)
  /\ UNCHANGED <<mFree, mAllocBlocksMap, messages>>

\* Headers get their message with the block.
NewFairMQMessage(start, size) ==
  IF Counting THEN messages ELSE messages \union {Span(start, size)}

\* try_alloc succeeds in the extent start, len: the block is accounted and noted.
ReturnBlock(t, start, len) ==
  LET size == Head(todo[t]).size
      block == Span(start, AlignUp(size)) IN
  /\ mLength' = len - block.len
  /\ mStart' = IF mLength' = 0 THEN 0 ELSE start + block.len
  /\ mFree' = mFree - block.len
  /\ mAllocBlocksMap' =
       IF Counting THEN [b \in DOMAIN mAllocBlocksMap \union {block} |->
                           IF b = block THEN 0 ELSE mAllocBlocksMap[b]]
       ELSE mAllocBlocksMap
  /\ messages' = NewFairMQMessage(start, size)
  /\ Return(t, start)

\* do_allocate up to the loop.
Allocate(t) ==
  /\ pc[t] = "alloc"
  /\ IF ~mRunning
     THEN ReturnNull(t) /\ UNCHANGED extentVars
     ELSE IF mLength >= AlignUp(Head(todo[t]).size)
     THEN ReturnBlock(t, mStart, mLength) /\ UNCHANGED mFreeRanges
     ELSE /\ pc' = [pc EXCEPT ![t] = "loop"]
          /\ UNCHANGED <<extentVars, mFree, mAllocBlocksMap, messages, holder, todo, got>>
  /\ UNCHANGED <<kind, mRunning, moved, released>>

\* The loop's condition, and the generation read.
ReadGeneration(t) ==
  /\ pc[t] = "loop"
  /\ IF mRunning
     THEN /\ moved' = FALSE
          /\ pc' = [pc EXCEPT ![t] = "reclaim"]
          /\ UNCHANGED <<mFree, mAllocBlocksMap, messages, holder, todo, got>>
     ELSE ReturnNull(t) /\ UNCHANGED moved
  /\ UNCHANGED <<kind, mRunning, extentVars, released>>

\* Deviation: an extent that is too short stays in use.
KeepExtent == UNCHANGED <<mStart, mLength>>

InvalidateExtent == mStart' = 0 /\ mLength' = 0

\* try_reclaim under mReclaimLock, and the try_alloc that follows: the extent goes
\* back to the free ranges and the chosen range becomes the extent.
TryReclaim(t) ==
  LET free == mFreeRanges \union Extent
      fits == {r \in Intervals(free) : r.len >= AlignUp(Head(todo[t]).size)} IN
  /\ pc[t] = "reclaim"
  /\ \/ /\ fits # {}
        /\ mFreeRanges' = free \ Bytes(Chosen(fits))
        /\ ReturnBlock(t, Chosen(fits).start, Chosen(fits).len)
        /\ moved' = FALSE
     \/ /\ fits = {}
        /\ mFreeRanges' = free
        /\ InvalidateExtent
        /\ IF kind.canFail
           THEN ReturnNull(t) /\ moved' = FALSE
           ELSE /\ pc' = [pc EXCEPT ![t] = "wait"]
                /\ UNCHANGED <<moved, mFree, mAllocBlocksMap, messages, holder, todo, got>>
  /\ UNCHANGED <<kind, mRunning, released>>

\* The wait ends when memory has come back; mRunning is not looked at.
Wait(t) ==
  /\ pc[t] = "wait" /\ moved
  /\ moved' = FALSE
  /\ pc' = [pc EXCEPT ![t] = "loop"]
  /\ UNCHANGED <<kind, mRunning, extentVars, mFree, mAllocBlocksMap, messages, released,
                 holder, todo, got>>

\* The messages of the blocks that a thread has allocated.
PartsOf(g) == {Span(g.start + p.start, p.len) : p \in g.block.parts}

\* fmqFromDataBuffers, once the data is there: the counts of all the messages first.
CreateMessages(t) ==
  /\ pc[t] = "create"
  /\ IF Counting
     THEN /\ \A i \in DOMAIN got[t] : got[t][i].start # Null
          /\ LET new == UNION {PartsOf(got[t][i]) : i \in DOMAIN got[t]} IN
             /\ mAllocBlocksMap' = [b \in DOMAIN mAllocBlocksMap |->
                  mAllocBlocksMap[b] + Cardinality({m \in new : Owner(m) = b})]
             /\ messages' = messages \union new
     ELSE UNCHANGED <<mAllocBlocksMap, messages>>
  /\ pc' = [pc EXCEPT ![t] = "idle"]
  /\ got' = [got EXCEPT ![t] = <<>>]
  /\ UNCHANGED <<kind, mRunning, extentVars, mFree, moved, released, holder, todo>>

\* A transfer that fails, or that would go to a null pointer, ends the thread.  Its
\* blocks have no messages to free them.
FailTransfer(t) ==
  /\ pc[t] = "create" /\ Counting
  /\ t \in FailingTransfers \/ \E i \in DOMAIN got[t] : got[t][i].start = Null
  /\ pc' = [pc EXCEPT ![t] = "ended"]
  /\ got' = [got EXCEPT ![t] = <<>>]
  /\ UNCHANGED <<kind, mRunning, extentVars, mFree, moved, mAllocBlocksMap, messages, released,
                 holder, todo>>

\* The last user of a message is done with it.
Drop(m) ==
  /\ messages' = messages \ {m}
  /\ released' = released \union {m}
  /\ UNCHANGED <<kind, mRunning, extentVars, mFree, moved, mAllocBlocksMap, threadVars>>

\* Deviation: mGeneration stays.
ReclaimSilently(S) ==
  /\ mFreeRanges' = mFreeRanges \union BytesOf(S)
  /\ mFree' = mFree + Cardinality(BytesOf(S))
  /\ UNCHANGED moved

\* reclaimSHMMessage and what the callback does with it under mReclaimLock.
Reclaim(S) ==
  /\ mFreeRanges' = mFreeRanges \union BytesOf(S)
  /\ mFree' = mFree + Cardinality(BytesOf(S))
  /\ moved' = \E t \in Threads : pc[t] \in {"reclaim", "wait"}

\* The callback, eExactRegion: the aligned messages of a batch are joined and freed.
ReclaimExact ==
  /\ ~Counting
  /\ \E batch \in (SUBSET released) \ {{}} :
       /\ Reclaim({Span(m.start, AlignUp(m.len)) : m \in batch})
       /\ released' = released \ batch
  /\ UNCHANGED <<kind, mRunning, mStart, mLength, mAllocBlocksMap, messages, threadVars>>

\* Deviation: a block is freed with its first message.
DerefAny(b) ==
  /\ mAllocBlocksMap' = [o \in DOMAIN mAllocBlocksMap \ {b} |-> mAllocBlocksMap[o]]
  /\ Reclaim({b})

Deref(b) ==
  IF mAllocBlocksMap[b] = 1
  THEN /\ mAllocBlocksMap' = [o \in DOMAIN mAllocBlocksMap \ {b} |-> mAllocBlocksMap[o]]
       /\ Reclaim({b})
  ELSE /\ mAllocBlocksMap' = [mAllocBlocksMap EXCEPT ![b] = @ - 1]
       /\ UNCHANGED <<mFreeRanges, mFree, moved>>

\* The callback, eRefCount: each message of a batch takes mReclaimLock on its own.
ReclaimCounted ==
  /\ Counting
  /\ \E m \in released :
       /\ Deref(Owner(m))
       /\ released' = released \ {m}
  /\ UNCHANGED <<kind, mRunning, mStart, mLength, messages, threadVars>>

stop ==
  /\ MayStop /\ mRunning
  /\ mRunning' = FALSE
  /\ UNCHANGED <<kind, extentVars, mFree, moved, mAllocBlocksMap, messages, released, threadVars>>

Locked(t) == Allocate(t) \/ ReadGeneration(t) \/ TryReclaim(t) \/ Wait(t)
Finish(t) == CreateMessages(t) \/ FailTransfer(t)

DropAny == \E m \in messages : Drop(m)

Next ==
  \/ \E t \in Threads : Request(t) \/ Locked(t) \/ Finish(t)
  \/ DropAny \/ ReclaimExact \/ ReclaimCounted \/ stop

Spec == Init /\ [][Next]_vars

\* The threads run, users finish with what they have, the transport calls back.
Fairness ==
  /\ WF_vars(\E t \in Threads : Locked(t))
  /\ \A t \in Threads : WF_vars(Finish(t))
  /\ WF_vars(DropAny) /\ WF_vars(ReclaimExact) /\ WF_vars(ReclaimCounted)

FairSpec == Spec /\ Fairness

-----------------------------------------------------------------------------
(* Properties *)

Outstanding == messages \union released

\* The blocks in use: noted in mAllocBlocksMap, or given by their message.
Held ==
  IF Counting THEN DOMAIN mAllocBlocksMap
  ELSE {Span(m.start, AlignUp(m.len)) : m \in Outstanding}

\* The types of the variables, and where a thread may be with the lock.
TypeOK ==
  /\ kind \in Kinds /\ mRunning \in BOOLEAN /\ moved \in BOOLEAN
  /\ mStart \in 0..Size /\ mLength \in 0..Size /\ mFreeRanges \subseteq 0..(Size - 1)
  /\ mFree \in Int
  /\ mAllocBlocksMap \in [DOMAIN mAllocBlocksMap -> Nat]
  /\ DOMAIN mAllocBlocksMap \subseteq [start : Nat, len : Nat]
  /\ messages \subseteq [start : Nat, len : Nat] /\ released \subseteq [start : Nat, len : Nat]
  /\ holder \subseteq Threads /\ \A t, u \in holder : t = u
  /\ pc \in [Threads -> {"idle", "alloc", "loop", "reclaim", "wait", "create", "ended"}]
  /\ todo \in [Threads -> Seq(Blocks)]
  /\ got \in [Threads -> Seq([start : Nat \union {Null}, block : Blocks])]
  /\ \A t \in Threads :
       /\ t \in holder <=> pc[t] \in {"alloc", "loop", "reclaim", "wait"}
       /\ todo[t] # <<>> <=> t \in holder

\* Every byte of the region is in exactly one place: the extent, the free ranges or a
\* block in use; nothing is lost between the two strategies of giving memory back, and
\* mFree, which is reported to the scheduler, is the number of bytes not in use.
EveryByteIsSomewhere ==
  /\ TypeOK
  /\ BytesOf(Held) \union mFreeRanges \union Extent = 0..(Size - 1)
  /\ BytesOf(Held) \cap mFreeRanges = {}
  /\ BytesOf(Held) \cap Extent = {}
  /\ mFreeRanges \cap Extent = {}
  /\ mFree = Size - Cardinality(BytesOf(Held))

\* The allocator keeps the promise of MemoryPool.
Pool == INSTANCE MemoryPool WITH held <- Held, out <- Outstanding
KeepsThePool == Pool!Spec

\* A request that has the lock gets its memory or its null pointers, and leaves the
\* lock to the others, as long as no transfer has failed: one that failed keeps its
\* blocks for ever.
Leaked == \E t \in Threads : pc[t] = "ended"
AllocationEnds == []<>(holder = {} \/ Leaked)

\* do_allocate, after the loop: "Memory segment is stopped. No allocations are possible."
StoppedAllocationReturns == ~mRunning ~> holder = {}
=============================================================================

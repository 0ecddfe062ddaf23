-------------------------- MODULE TfBuilderProofs --------------------------
(***************************************************************************)
(* Proofs about TfBuilder, for any StfSenders, TFs, refusals and failing    *)
(* transfers: the counters of all runs, and the completeness and the order  *)
(* of the TFs of an undisturbed run.                                        *)
(*                                                                         *)
(* Base holds in all runs: types, and that an STF is sent once and is in    *)
(* one place.  Pipeline(k) follows the TFs of an undisturbed run from the   *)
(* request to the merger, where k is the key that each TF was given.        *)
(***************************************************************************)
EXTENDS TfBuilder, FiniteSetTheorems, SequenceTheorems, TLAPS

-----------------------------------------------------------------------------
\* Items of a queue.
In(queue, x) == \E i \in DOMAIN queue : queue[i] = x

Item == [type : {"ADD", "DELETE"}, key : Nat] \union [type : {"INFO"}, stf : Stfs]
Asking == [request : Request, left : SUBSET StfSenders, expected : Nat, counting : BOOLEAN,
           deleting : BOOLEAN]

\* An STF that was sent is on its way to mStfMergeMap, or in it.
Arriving(stf) == stf \in transfers \/ stf \in failed \/ In(mReceivedDataQueue, INFO(stf))
Stored(stf) == \E e \in mergeStfs : e.stf = stf
Sent(stf) == Arriving(stf) \/ Stored(stf)

\* A TF whose STFs have not all been asked for.
Has(queue, tf) == \E i \in DOMAIN queue : queue[i].tf = tf
Queued(tf) == Has(mStfRequestQueue, tf)
Asked(tf) == requesting # <<>> /\ requesting[1].request.tf = tf
Waiting(tf) == Queued(tf) \/ (Asked(tf) /\ ~requesting[1].deleting)

-----------------------------------------------------------------------------
(* In all runs: a TF is asked for once, so that an STF is sent once, and is in *)
(* one place.                                                              *)
SentInv == \A stf \in Stfs : Sent(stf) => stf.tf \in accepted /\ stf.from \in stf.tf.stfs

PlaceInv ==
  \A stf \in Stfs :
    /\ ~(stf \in transfers /\ stf \in failed)
    /\ In(mReceivedDataQueue, INFO(stf)) => stf \notin transfers /\ stf \notin failed
    /\ ~(Stored(stf) /\ Arriving(stf))

Once(queue) ==
  \A i, j \in DOMAIN queue : queue[i].type = "INFO" /\ queue[i] = queue[j] => i = j

TransferInv == SentInv /\ PlaceInv /\ Once(mReceivedDataQueue)

Alone(queue) == \A i, j \in DOMAIN queue : queue[i].tf = queue[j].tf => i = j

Unsent(tf) == \A s \in StfSenders : ~Sent(Stf(tf, s))

AskInv ==
  /\ \A tf \in Tfs : Queued(tf) => tf \in accepted /\ Unsent(tf) /\ ~Asked(tf)
  /\ Alone(mStfRequestQueue)
  /\ \A tf \in Tfs : Asked(tf) =>
       /\ tf \in accepted
       /\ requesting[1].left \subseteq tf.stfs
       /\ \A s \in StfSenders : s \in requesting[1].left => ~Sent(Stf(tf, s))
       /\ requesting[1].deleting => requesting[1].left = {} /\ ~requesting[1].counting

SlotInv == mNumReqInFlight + Uncounted = Cardinality(awaited) + Cardinality(failed)
BufferInv == IsFiniteSet(mTfIdSizes) /\ Cardinality(mTfIdSizes) <= mNumBufferedTfs

-----------------------------------------------------------------------------
(* In an undisturbed run, with the key that each accepted TF was given.    *)
Calm == run <= 1 /\ (\A tf \in accepted : tf.run = 1 /\ tf \notin EarlyTfs) /\ unanswered = {}

KeyPart(k) ==
  /\ k \in [accepted -> Nat \ {0}]
  /\ \A a, b \in accepted : k[a] = k[b] => a = b
  /\ \A tf \in accepted : IF Topological(tf) THEN k[tf] < mTopoStfId ELSE k[tf] = tf.id
  /\ mTopoStfId # 0
  /\ \A i \in DOMAIN mStfRequestQueue : mStfRequestQueue[i].key = k[mStfRequestQueue[i].tf]
  /\ requesting # <<>> => requesting[1].request.key = k[requesting[1].request.tf]
  /\ \A e \in mergeStfs : e.key = k[e.stf.tf]

\* Every STF on its way has its new name.
NamePart(k) ==
  /\ \A e \in mTopoTfIdRenameMap :
       \E tf \in accepted : tf.stfs = {e.from} /\ tf.id = e.id /\ k[tf] = e.to
  /\ \A tf \in accepted : \A s \in tf.stfs :
       Topological(tf) /\ (Waiting(tf) \/ Arriving(Stf(tf, s))) /\ ~Stored(Stf(tf, s)) =>
         [from |-> s, id |-> tf.id, to |-> k[tf]] \in mTopoTfIdRenameMap

SentOf(tf) == {s \in StfSenders : Sent(Stf(tf, s))}
Accounted(tf, s) == Sent(Stf(tf, s)) \/ Stf(tf, s) \in Refused

\* The number to expect is the number sent.
CountPart(k) ==
  /\ \A e \in mStfsCountMap : \E tf \in accepted :
       /\ e.key = k[tf] /\ ~Waiting(tf)
       /\ e.count = Cardinality(SentOf(tf))
       /\ \A s \in tf.stfs : Accounted(tf, s)
  /\ \A tf \in Tfs : Asked(tf) =>
       /\ requesting[1].expected = Cardinality(SentOf(tf))
       /\ \A s \in tf.stfs : s \in requesting[1].left \/ Accounted(tf, s)
       /\ requesting[1].deleting => requesting[1].expected = 0

Closed(tf) == ~Waiting(tf) /\ Unsent(tf)

\* An announcement is ahead of the STFs of its TF.
Announced(queue, k) ==
  \A i, j \in DOMAIN queue :
    i < j /\ queue[i].type = "INFO" /\ queue[j].type = "ADD" => queue[j].key # k[queue[i].stf.tf]

HomePart(k) ==
  /\ \A tf \in accepted :
       k[tf] \in mergeKeys \/ In(mReceivedDataQueue, ADD(k[tf])) \/ Closed(tf)
  /\ \A key \in mergeKeys : \E tf \in accepted : k[tf] = key
  /\ \A key \in Nat : In(mReceivedDataQueue, ADD(key)) => \E tf \in accepted : k[tf] = key
  /\ \A key \in Nat : In(mReceivedDataQueue, DELETE(key)) =>
       \E tf \in accepted : k[tf] = key /\ Closed(tf)
  /\ Announced(mReceivedDataQueue, k)

\* The keys ascend from the TFs that are built to those that are announced.
Rising(queue) ==
  \A i, j \in DOMAIN queue :
    i < j /\ queue[i].type = "ADD" /\ queue[j].type = "ADD" => queue[i].key < queue[j].key
Climbing(queue) == \A i, j \in DOMAIN queue : i < j => queue[i].key < queue[j].key
Over(queue, n) == \A i \in DOMAIN queue : n < queue[i].key
Behind(queue, n) == \A key \in Nat : In(queue, ADD(key)) => n < key
Below(n, keys, queue) == (\A key \in keys : n < key) /\ Behind(queue, n)

OrderPart(k) ==
  /\ Rising(mReceivedDataQueue)
  /\ \A key \in mergeKeys : Behind(mReceivedDataQueue, key)
  /\ Climbing(mStfsForMerging) /\ Over(mStfsForMerging, mMaxMergedTfId)
  /\ \A i \in DOMAIN mStfsForMerging : Below(mStfsForMerging[i].key, mergeKeys, mReceivedDataQueue)
  /\ Below(mMaxMergedTfId, mergeKeys, mReceivedDataQueue)
  /\ merging # <<>> =>
       /\ Below(merging[1].key, mergeKeys, mReceivedDataQueue) /\ Over(mStfsForMerging, merging[1].key)
       /\ mMaxMergedTfId < merging[1].key /\ merged = <<>>
  /\ merged # <<>> => merged[1].key = mMaxMergedTfId
  /\ mMaxMergedTfId = 0 \/ \E tf \in accepted : k[tf] = mMaxMergedTfId

BuiltPart(k) ==
  \A i \in DOMAIN built : \A stf \in built[i] :
    /\ k[stf.tf] <= mMaxMergedTfId
    /\ merged # <<>> => k[stf.tf] < mMaxMergedTfId
    /\ \A j \in DOMAIN built : \A other \in built[j] : i < j => k[stf.tf] < k[other.tf]

Whole(tf, stfs) ==
  /\ stfs \subseteq {Stf(tf, s) : s \in tf.stfs}
  /\ \A s \in tf.stfs : Stf(tf, s) \in stfs \/ Stf(tf, s) \in Refused

CompletePart(k) ==
  /\ \A i \in DOMAIN mStfsForMerging : \E tf \in accepted :
       k[tf] = mStfsForMerging[i].key /\ Whole(tf, mStfsForMerging[i].stfs) /\ Closed(tf)
  /\ merging # <<>> =>
       /\ merging[1].stfs # {}
       /\ \E tf \in accepted : k[tf] = merging[1].key /\ Whole(tf, merging[1].stfs) /\ Closed(tf)
  /\ merged # <<>> =>
       /\ merged[1].stfs # {}
       /\ \E tf \in accepted : k[tf] = merged[1].key /\ Whole(tf, merged[1].stfs) /\ Closed(tf)
  /\ \A i \in DOMAIN built :
       built[i] # {} /\ \E tf \in accepted : Whole(tf, built[i]) /\ Closed(tf)

Pipeline(k) ==
  /\ KeyPart(k) /\ NamePart(k) /\ CountPart(k) /\ HomePart(k)
  /\ OrderPart(k) /\ BuiltPart(k) /\ CompletePart(k)

-----------------------------------------------------------------------------
\* TFs and STFs.
LEMMA TfParts ==
  ASSUME NEW tf \in Tfs
  PROVE  /\ tf.run \in Nat \ {0} /\ tf.id \in Nat \ {0} /\ tf.stfs \subseteq StfSenders /\ tf.stfs # {}
         /\ tf = [run |-> tf.run, id |-> tf.id, stfs |-> tf.stfs]
         /\ Topological(tf) => Cardinality(tf.stfs) = 1
<1> DEFINE Ids == Nat \ {0}
           Senders == (SUBSET StfSenders) \ {{}}
<1>1. Tfs \subseteq [run : Ids, id : Ids, stfs : Senders]
  BY TfBuilderAssumption
<1> HIDE DEF Ids, Senders
<1>2. tf \in [run : Ids, id : Ids, stfs : Senders]
  BY <1>1
<1>3. /\ tf.run \in Ids /\ tf.id \in Ids /\ tf.stfs \in Senders
      /\ tf = [run |-> tf.run, id |-> tf.id, stfs |-> tf.stfs]
  BY <1>2
<1>4. Topological(tf) => Cardinality(tf.stfs) = 1
  BY TfBuilderAssumption
<1>5. QED
  BY <1>3, <1>4 DEF Ids, Senders

LEMMA TfSize ==
  ASSUME NEW tf \in Tfs
  PROVE  Cardinality(tf.stfs) \in Nat
BY TfParts, FS_Subset, FS_CardinalityType, TfBuilderAssumption

LEMMA StfParts ==
  /\ \A tf \in Tfs : \A s \in StfSenders :
       Stf(tf, s) \in Stfs /\ Stf(tf, s).tf = tf /\ Stf(tf, s).from = s
  /\ \A stf \in Stfs : stf.tf \in Tfs /\ stf.from \in StfSenders /\ stf = Stf(stf.tf, stf.from)
BY DEF Stfs, Stf

LEMMA StfEqual ==
  \A tf, other \in Tfs : \A s, t \in StfSenders : Stf(tf, s) = Stf(other, t) => tf = other /\ s = t
BY StfParts

LEMMA StfsFinite == IsFiniteSet(Stfs)
<1> DEFINE Pairs == Tfs \X StfSenders
           f == [p \in Pairs |-> Stf(p[1], p[2])]
<1>1. IsFiniteSet(Pairs)
  BY FS_Product, TfBuilderAssumption
<1>2. f \in Surjection(Pairs, Stfs)
  <2>1. f \in [Pairs -> Stfs]
    BY StfParts
  <2>2. ASSUME NEW stf \in Stfs PROVE \E p \in Pairs : f[p] = stf
    <3>1. stf.tf \in Tfs /\ stf.from \in StfSenders /\ stf = Stf(stf.tf, stf.from)
      BY StfParts
    <3>2. <<stf.tf, stf.from>> \in Pairs /\ f[<<stf.tf, stf.from>>] = stf
      BY <3>1
    <3>3. QED
      BY <3>2
  <2>3. QED
    BY <2>1, <2>2 DEF Surjection
<1>3. QED
  BY <1>1, <1>2, FS_Surjection

LEMMA SendersFinite ==
  /\ IsFiniteSet(StfSenders)
  /\ \A senders \in SUBSET StfSenders : IsFiniteSet(senders) /\ Cardinality(senders) \in Nat
BY TfBuilderAssumption, FS_Subset, FS_CardinalityType

LEMMA StfSetFinite ==
  \A stfs \in SUBSET Stfs : IsFiniteSet(stfs) /\ Cardinality(stfs) \in Nat
BY StfsFinite, FS_Subset, FS_CardinalityType

-----------------------------------------------------------------------------
\* The sequences that stand for an optional value, and queues.
LEMMA Optional ==
  ASSUME NEW S, NEW q \in Seq(S), Len(q) <= 1, q # <<>>
  PROVE  /\ q[1] \in S /\ q = <<q[1]>> /\ Len(q) = 1 /\ DOMAIN q = {1}
         /\ \A v : [q EXCEPT ![1] = v] = <<v>>
<1>1. Len(q) = 1 /\ DOMAIN q = 1 .. 1
  <2>1. Len(q) \in Nat /\ DOMAIN q = 1 .. Len(q)
    BY LenProperties
  <2>2. Len(q) # 0
    BY EmptySeq
  <2>3. Len(q) = 1
    BY <2>1, <2>2
  <2>4. QED
    BY <2>1, <2>3
<1>2. q[1] \in S /\ DOMAIN q = {1}
  BY <1>1, ElementOfSeq
<1>3. q = <<q[1]>>
  BY <1>1, <1>2, SeqEqual
<1>4. ASSUME NEW v PROVE [q EXCEPT ![1] = v] = <<v>>
  <2>1. q = [i \in {1} |-> q[1]] /\ <<v>> = [i \in {1} |-> v]
    BY <1>2, <1>3
  <2>2. QED
    BY <2>1
<1>5. QED
  BY <1>1, <1>2, <1>3, <1>4

LEMMA Single ==
  ASSUME NEW S, NEW x \in S
  PROVE  <<x>> \in Seq(S) /\ Len(<<x>>) = 1 /\ <<x>>[1] = x /\ <<x>> # <<>> /\ DOMAIN <<x>> = {1}
OBVIOUS

LEMMA Appended ==
  ASSUME NEW S, NEW q \in Seq(S), NEW x \in S
  PROVE  /\ Append(q, x) \in Seq(S) /\ Len(Append(q, x)) = Len(q) + 1 /\ Len(q) \in Nat
         /\ DOMAIN q = 1 .. Len(q) /\ DOMAIN Append(q, x) = 1 .. (Len(q) + 1)
         /\ \A i \in DOMAIN q : i \in DOMAIN Append(q, x) /\ Append(q, x)[i] = q[i]
         /\ Append(q, x)[Len(q) + 1] = x
         /\ \A i \in DOMAIN Append(q, x) :
              \/ i \in DOMAIN q /\ Append(q, x)[i] = q[i]
              \/ i = Len(q) + 1 /\ Append(q, x)[i] = x
<1>1. /\ Append(q, x) \in Seq(S) /\ Len(Append(q, x)) = Len(q) + 1 /\ Len(q) \in Nat
      /\ Append(q, x)[Len(q) + 1] = x
      /\ \A i \in 1 .. Len(q) : Append(q, x)[i] = q[i]
  BY AppendProperties, LenProperties
<1>2. DOMAIN q = 1 .. Len(q) /\ DOMAIN Append(q, x) = 1 .. (Len(q) + 1)
  BY <1>1, LenProperties
<1>3. QED
  BY <1>1, <1>2

LEMMA Tailed ==
  ASSUME NEW S, NEW q \in Seq(S), q # <<>>
  PROVE  /\ Head(q) = q[1] /\ Head(q) \in S /\ Tail(q) \in Seq(S) /\ 1 \in DOMAIN q
         /\ Len(Tail(q)) = Len(q) - 1 /\ Len(q) \in Nat /\ Len(q) >= 1
         /\ \A i \in DOMAIN Tail(q) : i + 1 \in DOMAIN q /\ Tail(q)[i] = q[i + 1] /\ i \in Nat \ {0}
         /\ \A i \in DOMAIN q : i = 1 \/ (i \in Nat /\ i - 1 \in DOMAIN Tail(q) /\ Tail(q)[i - 1] = q[i])
<1>1. /\ Head(q) = q[1] /\ Head(q) \in S /\ Tail(q) \in Seq(S)
      /\ Len(Tail(q)) = Len(q) - 1 /\ Len(q) \in Nat /\ Len(q) >= 1
      /\ \A i \in 1 .. (Len(q) - 1) : Tail(q)[i] = q[i + 1]
  BY HeadTailProperties, EmptySeq, LenProperties, ElementOfSeq
<1>2. DOMAIN q = 1 .. Len(q) /\ DOMAIN Tail(q) = 1 .. (Len(q) - 1)
  BY <1>1, LenProperties
<1>3. QED
  BY <1>1, <1>2

LEMMA InAppended ==
  ASSUME NEW S, NEW q \in Seq(S), NEW x \in S
  PROVE  \A y : In(Append(q, x), y) <=> In(q, y) \/ y = x
<1>1. Len(q) + 1 \in DOMAIN Append(q, x)
  BY Appended
<1>2. QED
  BY <1>1, Appended DEF In

LEMMA InTailed ==
  ASSUME NEW S, NEW q \in Seq(S), q # <<>>
  PROVE  /\ \A y : In(Tail(q), y) => In(q, y)
         /\ \A y : In(q, y) => y = Head(q) \/ In(Tail(q), y)
         /\ In(q, Head(q))
<1>1. \A y : In(Tail(q), y) => In(q, y)
  <2>1. \A i \in DOMAIN Tail(q) : i + 1 \in DOMAIN q /\ Tail(q)[i] = q[i + 1]
    BY Tailed
  <2>2. QED
    BY <2>1 DEF In
<1>2. \A y : In(q, y) => y = Head(q) \/ In(Tail(q), y)
  <2>1. \A i \in DOMAIN q : i = 1 \/ (i - 1 \in DOMAIN Tail(q) /\ Tail(q)[i - 1] = q[i])
    BY Tailed
  <2>2. Head(q) = q[1]
    BY Tailed
  <2>3. QED
    BY <2>1, <2>2 DEF In
<1>3. In(q, Head(q))
  <2>1. Head(q) = q[1] /\ 1 \in DOMAIN q
    BY Tailed
  <2>2. QED
    BY <2>1 DEF In
<1>4. QED
  BY <1>1, <1>2, <1>3

LEMMA Items ==
  /\ \A key \in Nat : ADD(key) \in Item /\ ADD(key).type = "ADD" /\ ADD(key).key = key
  /\ \A key \in Nat : DELETE(key) \in Item /\ DELETE(key).type = "DELETE" /\ DELETE(key).key = key
  /\ \A stf \in Stfs : INFO(stf) \in Item /\ INFO(stf).type = "INFO" /\ INFO(stf).stf = stf
  /\ \A x \in Item :
       \/ x.type = "ADD" /\ x.key \in Nat /\ x = ADD(x.key)
       \/ x.type = "DELETE" /\ x.key \in Nat /\ x = DELETE(x.key)
       \/ x.type = "INFO" /\ x.stf \in Stfs /\ x = INFO(x.stf)
BY DEF Item, ADD, DELETE, INFO
-----------------------------------------------------------------------------
RunType ==
  /\ run \in 0 .. MaxRuns
  /\ mInRunningState \in BOOLEAN /\ resetting \in BOOLEAN /\ crashed \in BOOLEAN

RequestType ==
  /\ accepted \subseteq Tfs /\ gone \subseteq accepted
  /\ mStfRequestQueue \in Seq(Request)
  /\ requesting \in Seq(Asking) /\ Len(requesting) <= 1

CountType ==
  /\ mStfsCountMap \subseteq [key : Nat, count : Nat]
  /\ \A d, e \in mStfsCountMap : d.key = e.key => d = e

TopoType ==
  /\ mTopoStfId \in Nat
  /\ mTopoTfIdRenameMap \subseteq [from : StfSenders, id : Nat, to : Nat]

ReceiveType ==
  /\ transfers \subseteq Stfs /\ failed \subseteq Stfs
  /\ awaited \subseteq transfers /\ unanswered \subseteq Stfs
  /\ mNumReqInFlight \in Nat \union {-1} /\ mThreadPool \in Nat
  /\ mReceivedDataQueue \in Seq(Item)

MergeType ==
  /\ mergeKeys \subseteq Nat /\ mergeStfs \subseteq [key : mergeKeys, stf : Stfs]
  /\ mMaxMergedTfId \in Nat
  /\ mStfsForMerging \in Seq(KeyedTf)
  /\ merging \in Seq(KeyedTf) /\ merged \in Seq(KeyedTf)
  /\ Len(merging) <= 1 /\ Len(merged) <= 1

OutType ==
  /\ mTfFwdIn \in Seq(Nat) /\ forwarding \in Seq(Nat) /\ Len(forwarding) <= 1
  /\ built \in Seq(SUBSET Stfs)

SizeType ==
  /\ mTfIdSizes \subseteq [id : Nat, size : Nat]
  /\ \A d, e \in mTfIdSizes : d.id = e.id => d = e
  /\ mCurrentTfBufferSize \in Nat /\ overrun \in Nat
  /\ mNumBufferedTfs \in Nat /\ mNumTfsInBuilding \in Nat /\ mLastBuiltTfId \in Nat

LEMMA TypeParts ==
  TypeOK <=> /\ RunType /\ RequestType /\ CountType /\ TopoType /\ ReceiveType
             /\ MergeType /\ OutType /\ SizeType
BY DEF TypeOK, RunType, RequestType, CountType, TopoType, ReceiveType, MergeType, OutType, SizeType,
       Item, Asking

\* The actions of a step.
AcceptTf == \E tf \in Tfs : MayBeRequested(tf) /\ BuildTfRequest(tf)
Arrival == \E stf \in transfers : DataHandlerThread(stf)
Failure == \E stf \in transfers : TransferFails(stf)

LEMMA Steps ==
  ASSUME [Next]_vars
  PROVE  \/ RunStep
         \/ AcceptTf
         \/ TakeRequest \/ AskStfSenders \/ CountRequest \/ FinishRequests \/ DeleteTf
         \/ Arrival \/ Failure
         \/ StfPacingThread \/ StfDeserializingThread \/ TakeTf \/ MergeTf \/ QueueTf
         \/ ForwardStep \/ UNCHANGED vars
BY DEF Next, RequestStep, StfRequestThread, ReceiveStep, BuildStep, AcceptTf, Arrival, Failure

LEMMA RunTypeStep ==
  ASSUME RunType, [Next]_vars
  PROVE  RunType'
<1> USE DEF RunType
<1>1. CASE RunStep
  <2>1. CASE ResetInput
    BY <2>1, TfBuilderAssumption DEF ResetInput
  <2>2. CASE PreRun
    BY <2>2 DEF PreRun
  <2>3. CASE PostRun
    BY <2>3 DEF PostRun
  <2>4. QED
    BY <1>1, <2>1, <2>2, <2>3 DEF RunStep
<1>2. CASE AcceptTf \/ TakeRequest \/ AskStfSenders \/ CountRequest \/ FinishRequests \/ DeleteTf
  BY <1>2 DEF runVars, AcceptTf, BuildTfRequest, TakeRequest, AskStfSenders, CountRequest, FinishRequests, DeleteTf
<1>3. CASE Arrival \/ Failure \/ StfPacingThread \/ StfDeserializingThread \/ MergeTf \/ QueueTf
  BY <1>3 DEF runVars, Arrival, Failure, DataHandlerThread, TransferFails, StfPacingThread,
              StfDeserializingThread, MergeTf, QueueTf
<1>4. CASE TakeTf
  BY <1>4 DEF runVars, TakeTf
<1>5. CASE ForwardStep \/ UNCHANGED vars
  BY <1>5 DEF runVars, vars, ForwardStep, DropTf, ForwardTf, TfForwarded
<1>6. QED
  BY <1>1, <1>2, <1>3, <1>4, <1>5, Steps

\* The request in the hands of StfRequestThread.
LEMMA Requesting ==
  ASSUME RequestType, requesting # <<>>
  PROVE  /\ requesting[1] \in Asking /\ requesting = <<requesting[1]>> /\ Len(requesting) = 1
         /\ requesting[1].request \in Request /\ requesting[1].request.tf \in Tfs
         /\ requesting[1].request.key \in Nat
         /\ requesting[1].left \subseteq StfSenders /\ requesting[1].expected \in Nat
         /\ requesting[1].counting \in BOOLEAN /\ requesting[1].deleting \in BOOLEAN
         /\ \A v : [requesting EXCEPT ![1] = v] = <<v>>
<1>1. requesting \in Seq(Asking) /\ Len(requesting) <= 1
  BY DEF RequestType
<1>2. /\ requesting[1] \in Asking /\ requesting = <<requesting[1]>> /\ Len(requesting) = 1
      /\ \A v : [requesting EXCEPT ![1] = v] = <<v>>
  BY <1>1, Optional
<1>3. requesting[1].request \in Request /\ requesting[1].left \subseteq StfSenders
      /\ requesting[1].expected \in Nat
      /\ requesting[1].counting \in BOOLEAN /\ requesting[1].deleting \in BOOLEAN
  BY <1>2 DEF Asking
<1>4. requesting[1].request.tf \in Tfs /\ requesting[1].request.key \in Nat
  BY <1>3 DEF Request
<1>5. QED
  BY <1>2, <1>3, <1>4

LEMMA AskedTf ==
  ASSUME RequestType, AskInv, requesting # <<>>
  PROVE  /\ Asked(requesting[1].request.tf)
         /\ requesting[1].request.tf \in accepted
         /\ requesting[1].left \subseteq requesting[1].request.tf.stfs
         /\ \A s \in requesting[1].left : ~Sent(Stf(requesting[1].request.tf, s))
         /\ requesting[1].deleting => requesting[1].left = {} /\ ~requesting[1].counting
<1> DEFINE tf == requesting[1].request.tf
<1>1. tf \in Tfs /\ requesting[1].left \subseteq StfSenders
  BY Requesting
<1>2. Asked(tf)
  BY DEF Asked
<1> HIDE DEF tf
<1>3. /\ tf \in accepted
      /\ requesting[1].left \subseteq tf.stfs
      /\ \A s \in requesting[1].left : ~Sent(Stf(tf, s))
      /\ requesting[1].deleting => requesting[1].left = {} /\ ~requesting[1].counting
  BY <1>1, <1>2 DEF AskInv
<1>4. QED
  BY <1>2, <1>3 DEF tf

\* Asking an StfSender: the STF is sent, or the request refused, or neither is known.
AskSends(s) ==
  /\ requesting' =
       <<[requesting[1] EXCEPT !.left = @ \ {s}, !.expected = @ + 1, !.counting = TRUE]>>
  /\ transfers' = transfers \union {Stf(requesting[1].request.tf, s)}
  /\ awaited' = awaited \union {Stf(requesting[1].request.tf, s)}
  /\ UNCHANGED unanswered
AskRefuses(s) ==
  /\ Stf(requesting[1].request.tf, s) \in Refused
  /\ requesting' = <<[requesting[1] EXCEPT !.left = @ \ {s}]>>
  /\ UNCHANGED <<transfers, awaited, unanswered>>
AskUnasked(s) ==
  /\ Stf(requesting[1].request.tf, s) \in Unanswered
  /\ requesting' = <<[requesting[1] EXCEPT !.left = @ \ {s}]>>
  /\ transfers' = transfers \union {Stf(requesting[1].request.tf, s)}
  /\ unanswered' = unanswered \union {Stf(requesting[1].request.tf, s)}
  /\ UNCHANGED awaited

Delivers(s) == AskSends(s) \/ AskUnasked(s)

LEMMA Asks ==
  ASSUME RequestType, AskStfSenders
  PROVE  /\ requesting # <<>> /\ ~requesting[1].counting
         /\ \E s \in requesting[1].left : AskSends(s) \/ AskRefuses(s) \/ AskUnasked(s)
<1> DEFINE tf == requesting[1].request.tf
<1>1. requesting # <<>> /\ ~requesting[1].counting
  BY DEF AskStfSenders
<1>2. PICK s \in requesting[1].left : RequestStf(Stf(tf, s))
  BY DEF AskStfSenders
<1>3. Stf(tf, s).from = s
  BY DEF Stf
<1>4. requesting = <<requesting[1]>>
  BY <1>1, Requesting
<1>5. CASE Sends(Stf(tf, s))
  <2>1. requesting' = [requesting EXCEPT ![1].left = @ \ {s}, ![1].expected = @ + 1,
                                         ![1].counting = TRUE]
    BY <1>3, <1>5 DEF Sends
  <2>2. requesting' =
          <<[requesting[1] EXCEPT !.left = @ \ {s}, !.expected = @ + 1, !.counting = TRUE]>>
    BY <1>4, <2>1
  <2>3. /\ transfers' = transfers \union {Stf(tf, s)} /\ awaited' = awaited \union {Stf(tf, s)}
        /\ UNCHANGED unanswered
    BY <1>5 DEF Sends
  <2>4. AskSends(s)
    BY <2>2, <2>3, Zenon DEF AskSends
  <2>5. QED
    BY <1>1, <2>4
<1>6. CASE Refuses(Stf(tf, s))
  <2>1. requesting' = [requesting EXCEPT ![1].left = @ \ {s}]
    BY <1>3, <1>6 DEF Refuses
  <2>2. requesting' = <<[requesting[1] EXCEPT !.left = @ \ {s}]>>
    BY <1>4, <2>1
  <2>3. QED
    BY <1>1, <1>6, <2>2 DEF AskRefuses, Refuses
<1>7. CASE SendsUnasked(Stf(tf, s))
  <2>1. requesting' = [requesting EXCEPT ![1].left = @ \ {s}]
    BY <1>3, <1>7 DEF SendsUnasked
  <2>2. requesting' = <<[requesting[1] EXCEPT !.left = @ \ {s}]>>
    BY <1>4, <2>1
  <2>3. QED
    BY <1>1, <1>7, <2>2 DEF AskUnasked, SendsUnasked
<1>8. QED
  BY <1>1, <1>2, <1>5, <1>6, <1>7 DEF RequestStf

\* Counting the transfer.
LEMMA Counts ==
  ASSUME RequestType, CountRequest
  PROVE  /\ requesting # <<>> /\ requesting[1].counting
         /\ requesting' = <<[requesting[1] EXCEPT !.counting = FALSE]>>
         /\ mNumReqInFlight' = mNumReqInFlight + 1
<1>1. /\ requesting # <<>> /\ requesting[1].counting
      /\ requesting' = [requesting EXCEPT ![1].counting = FALSE]
      /\ mNumReqInFlight' = mNumReqInFlight + 1
  BY DEF CountRequest
<1>2. requesting' = <<[requesting[1] EXCEPT !.counting = FALSE]>>
  BY <1>1, Requesting
<1>3. QED
  BY <1>1, <1>2

\* The key of a TF that is accepted.
NewKey(tf) == IF Topological(tf) THEN mTopoStfId ELSE tf.id

LEMMA NewKeyType ==
  ASSUME TopoType, NEW tf \in Tfs
  PROVE  NewKey(tf) \in Nat
BY TfParts DEF NewKey, TopoType

LEMMA Accepting ==
  ASSUME RequestType, TopoType, ReceiveType, NEW tf \in Tfs, BuildTfRequest(tf)
  PROVE  /\ accepted' = accepted \union {tf}
         /\ NewKey(tf) \in Nat /\ [tf |-> tf, key |-> NewKey(tf)] \in Request
         /\ mStfRequestQueue' = Append(mStfRequestQueue, [tf |-> tf, key |-> NewKey(tf)])
         /\ mReceivedDataQueue' = Append(mReceivedDataQueue, ADD(NewKey(tf)))
         /\ IF Topological(tf)
              THEN /\ mTopoStfId' = mTopoStfId + 1
                   /\ \E s \in tf.stfs : mTopoTfIdRenameMap' =
                        {e \in mTopoTfIdRenameMap : e.from # s \/ e.id # tf.id}
                          \union {[from |-> s, id |-> tf.id, to |-> NewKey(tf)]}
              ELSE UNCHANGED topoVars
<1>1. NewKey(tf) \in Nat
  BY NewKeyType
<1>2. [tf |-> tf, key |-> NewKey(tf)] \in Request
  BY <1>1 DEF Request
<1>3. QED
  BY <1>1, <1>2 DEF BuildTfRequest, NewKey

LEMMA AskingUpdates ==
  ASSUME NEW r \in Asking
  PROVE  /\ \A s : /\ [r EXCEPT !.left = @ \ {s}, !.expected = @ + 1, !.counting = TRUE] \in Asking
                   /\ [r EXCEPT !.left = @ \ {s}] \in Asking
         /\ [r EXCEPT !.counting = FALSE] \in Asking
         /\ [r EXCEPT !.deleting = TRUE] \in Asking
<1> DEFINE sender == SUBSET StfSenders
           Kind == [request : Request, left : sender, expected : Nat, counting : BOOLEAN,
                    deleting : BOOLEAN]
<1>1. r \in Kind
  BY DEF Asking
<1>2. /\ \A s : r.left \ {s} \in sender
      /\ r.expected + 1 \in Nat /\ TRUE \in BOOLEAN /\ FALSE \in BOOLEAN
  BY <1>1
<1> HIDE DEF sender
<1>3. /\ \A s : [r EXCEPT !.left = @ \ {s}] \in Kind
      /\ [r EXCEPT !.counting = FALSE] \in Kind
      /\ [r EXCEPT !.deleting = TRUE] \in Kind
  BY <1>1, <1>2
<1>4. \A s : [r EXCEPT !.left = @ \ {s}, !.expected = @ + 1, !.counting = TRUE] \in Kind
  BY <1>1, <1>2
<1>5. QED
  BY <1>3, <1>4, Zenon DEF Asking, sender

LEMMA RequestTypeStep ==
  ASSUME RequestType, TopoType, ReceiveType, AskInv, [Next]_vars
  PROVE  RequestType'
<1>1. CASE AcceptTf
  <2>1. PICK tf \in Tfs : BuildTfRequest(tf)
    BY <1>1 DEF AcceptTf
  <2>2. /\ accepted' = accepted \union {tf}
        /\ [tf |-> tf, key |-> NewKey(tf)] \in Request
        /\ mStfRequestQueue' = Append(mStfRequestQueue, [tf |-> tf, key |-> NewKey(tf)])
    BY <2>1, Accepting
  <2>3. mStfRequestQueue' \in Seq(Request)
    BY <2>2, Appended DEF RequestType
  <2>4. UNCHANGED <<gone, requesting>>
    BY <2>1 DEF BuildTfRequest
  <2>5. QED
    BY <2>2, <2>3, <2>4 DEF RequestType
<1>2. CASE TakeRequest
  <2>1. Head(mStfRequestQueue) \in Request /\ Tail(mStfRequestQueue) \in Seq(Request)
    BY <1>2, Tailed DEF RequestType, TakeRequest
  <2>2. Head(mStfRequestQueue).tf \in Tfs
    BY <2>1 DEF Request
  <2>3. [request |-> Head(mStfRequestQueue), left |-> Head(mStfRequestQueue).tf.stfs,
         expected |-> 0, counting |-> FALSE, deleting |-> FALSE] \in Asking
    BY <2>1, <2>2, TfParts DEF Asking
  <2>4. requesting' \in Seq(Asking) /\ Len(requesting') <= 1
    BY <2>3, <1>2, Single DEF TakeRequest
  <2>5. UNCHANGED <<accepted, gone>> /\ mStfRequestQueue' = Tail(mStfRequestQueue)
    BY <1>2 DEF TakeRequest
  <2>6. QED
    BY <2>1, <2>4, <2>5 DEF RequestType
<1>3. CASE AskStfSenders
  <2>1. PICK s \in requesting[1].left : AskSends(s) \/ AskRefuses(s) \/ AskUnasked(s)
    BY <1>3, Asks
  <2>2. requesting[1] \in Asking
    BY <1>3, Asks, Requesting
  <2>3. /\ [requesting[1] EXCEPT !.left = @ \ {s}, !.expected = @ + 1, !.counting = TRUE] \in Asking
        /\ [requesting[1] EXCEPT !.left = @ \ {s}] \in Asking
    BY <2>2, AskingUpdates, Zenon
  <2>4. requesting' \in Seq(Asking) /\ Len(requesting') <= 1
    <3>1. \E a \in Asking : requesting' = <<a>>
      BY <2>1, <2>3 DEF AskSends, AskRefuses, AskUnasked
    <3>2. QED
      BY <3>1, Single
  <2>5. UNCHANGED <<accepted, gone, mStfRequestQueue>>
    BY <1>3 DEF AskStfSenders
  <2>6. QED
    BY <2>4, <2>5 DEF RequestType
<1>4. CASE FinishRequests
  <2>1. requesting[1] \in Asking /\ \A v : [requesting EXCEPT ![1] = v] = <<v>>
    BY <1>4, Requesting DEF FinishRequests
  <2>2. [requesting[1] EXCEPT !.deleting = TRUE] \in Asking
    BY <2>1, AskingUpdates, Zenon
  <2>3. [requesting EXCEPT ![1].deleting = TRUE] = <<[requesting[1] EXCEPT !.deleting = TRUE]>>
    BY <1>4, Requesting DEF FinishRequests
  <2>4. requesting' \in Seq(Asking) /\ Len(requesting') <= 1
    <3>1. requesting' = <<>> \/ requesting' = <<[requesting[1] EXCEPT !.deleting = TRUE]>>
      BY <1>4, <2>3 DEF FinishRequests
    <3>2. CASE requesting' = <<>>
      BY <3>2, EmptySeq
    <3>3. CASE requesting' = <<[requesting[1] EXCEPT !.deleting = TRUE]>>
      BY <3>3, <2>2, Single
    <3>4. QED
      BY <3>1, <3>2, <3>3
  <2>5. UNCHANGED <<accepted, gone, mStfRequestQueue>>
    BY <1>4 DEF FinishRequests
  <2>6. QED
    BY <2>4, <2>5 DEF RequestType
<1>5. CASE DeleteTf
  <2>1. gone' = gone \union {requesting[1].request.tf} /\ requesting' = <<>>
        /\ UNCHANGED <<accepted, mStfRequestQueue>>
    BY <1>5 DEF DeleteTf
  <2>2. requesting[1].request.tf \in accepted
    BY <1>5, AskedTf DEF DeleteTf
  <2>3. QED
    BY <2>1, <2>2, EmptySeq DEF RequestType
<1>11. CASE CountRequest
  <2>1. requesting' = <<[requesting[1] EXCEPT !.counting = FALSE]>> /\ requesting[1] \in Asking
    BY <1>11, Counts, Requesting
  <2>2. [requesting[1] EXCEPT !.counting = FALSE] \in Asking
    BY <2>1, AskingUpdates, Zenon
  <2>3. requesting' \in Seq(Asking) /\ Len(requesting') <= 1
    BY <2>1, <2>2, Single
  <2>4. UNCHANGED <<accepted, gone, mStfRequestQueue>>
    BY <1>11 DEF CountRequest
  <2>5. QED
    BY <2>3, <2>4 DEF RequestType
<1>6. CASE UNCHANGED <<accepted, gone, mStfRequestQueue, requesting>>
  BY <1>6 DEF RequestType
<1>7. CASE RunStep
  BY <1>7, <1>6 DEF RunStep, ResetInput, PreRun, PostRun, requestVars
<1>8. CASE Arrival \/ Failure \/ StfPacingThread \/ StfDeserializingThread \/ MergeTf \/ QueueTf
  BY <1>8, <1>6 DEF requestVars, Arrival, Failure, DataHandlerThread, TransferFails, StfPacingThread,
              StfDeserializingThread, MergeTf, QueueTf
<1>9. CASE TakeTf \/ ForwardStep \/ UNCHANGED vars
  BY <1>9, <1>6 DEF requestVars, vars, TakeTf, ForwardStep, DropTf, ForwardTf, TfForwarded
<1>10. QED
  BY <1>1, <1>2, <1>3, <1>4, <1>5, <1>7, <1>8, <1>9, <1>11, Steps

LEMMA CountTypeStep ==
  ASSUME CountType, RequestType, [Next]_vars
  PROVE  CountType'
<1>1. CASE FinishRequests
  <2>1. requesting[1].request.key \in Nat /\ requesting[1].expected \in Nat
    BY <1>1, Requesting DEF FinishRequests
  <2>2. setNumberOfStfs(requesting[1].request.key, requesting[1].expected)
    BY <1>1 DEF FinishRequests
  <2>3. QED
    BY <2>1, <2>2 DEF CountType, setNumberOfStfs
<1>2. CASE StfDeserializingThread
  <2>1. PICK key \in mergeKeys : mStfsCountMap' = {e \in mStfsCountMap : e.key # key}
    BY <1>2 DEF StfDeserializingThread
  <2>2. QED
    BY <2>1 DEF CountType
<1>3. CASE UNCHANGED mStfsCountMap
  BY <1>3 DEF CountType
<1>4. CASE RunStep
  BY <1>4, <1>3 DEF RunStep, ResetInput, PreRun, PostRun, requestVars
<1>5. CASE AcceptTf \/ TakeRequest \/ AskStfSenders \/ CountRequest \/ DeleteTf
  BY <1>5, <1>3 DEF AcceptTf, BuildTfRequest, TakeRequest, AskStfSenders, CountRequest, DeleteTf
<1>6. CASE Arrival \/ Failure \/ StfPacingThread \/ MergeTf \/ QueueTf
  BY <1>6, <1>3 DEF requestVars, Arrival, Failure, DataHandlerThread, TransferFails, StfPacingThread,
              MergeTf, QueueTf
<1>7. CASE TakeTf \/ ForwardStep \/ UNCHANGED vars
  BY <1>7, <1>3 DEF requestVars, vars, TakeTf, ForwardStep, DropTf, ForwardTf, TfForwarded
<1>8. QED
  BY <1>1, <1>2, <1>4, <1>5, <1>6, <1>7, Steps

LEMMA TopoTypeStep ==
  ASSUME TopoType, RequestType, ReceiveType, [Next]_vars
  PROVE  TopoType'
<1>1. CASE AcceptTf
  <2>1. PICK tf \in Tfs : BuildTfRequest(tf)
    BY <1>1 DEF AcceptTf
  <2>2. CASE Topological(tf)
    <3>1. mTopoStfId' = mTopoStfId + 1
      BY <2>1, <2>2, Accepting
    <3>2. PICK s \in tf.stfs : mTopoTfIdRenameMap' =
                        {e \in mTopoTfIdRenameMap : e.from # s \/ e.id # tf.id}
                          \union {[from |-> s, id |-> tf.id, to |-> NewKey(tf)]}
      BY <2>1, <2>2, Accepting
    <3>3. NewKey(tf) \in Nat /\ s \in StfSenders /\ tf.id \in Nat
      BY <2>1, TfParts, Accepting
    <3>4. QED
      BY <3>1, <3>2, <3>3 DEF TopoType
  <2>3. CASE ~Topological(tf)
    BY <2>1, <2>3, Accepting DEF TopoType, topoVars
  <2>4. QED
    BY <2>2, <2>3
<1>2. CASE mTopoStfId' \in Nat /\ mTopoTfIdRenameMap' \subseteq mTopoTfIdRenameMap
  BY <1>2 DEF TopoType
<1>3. mTopoStfId \in Nat
  BY DEF TopoType
<1>4. CASE RunStep
  <2>1. CASE PreRun
    BY <2>1, <1>2 DEF PreRun, reset_run_counters
  <2>2. CASE ResetInput \/ PostRun
    BY <2>2, <1>2, <1>3 DEF ResetInput, PostRun, topoVars
  <2>3. QED
    BY <1>4, <2>1, <2>2 DEF RunStep
<1>5. CASE TakeRequest \/ AskStfSenders \/ CountRequest \/ FinishRequests
  BY <1>5, <1>2, <1>3 DEF TakeRequest, AskStfSenders, CountRequest, FinishRequests, topoVars
<1>6. CASE DeleteTf
  BY <1>6, <1>2, <1>3 DEF DeleteTf
<1>7. CASE StfPacingThread
  <2>1. mTopoStfId' = mTopoStfId
    BY <1>7 DEF StfPacingThread
  <2>2. mTopoTfIdRenameMap' \subseteq mTopoTfIdRenameMap
    BY <1>7 DEF StfPacingThread
  <2>3. QED
    BY <2>1, <2>2, <1>2, <1>3
<1>8. CASE Arrival \/ Failure \/ StfDeserializingThread \/ MergeTf \/ QueueTf
  BY <1>8, <1>2, <1>3 DEF Arrival, Failure, DataHandlerThread, TransferFails, topoVars,
              StfDeserializingThread, MergeTf, QueueTf
<1>9. CASE TakeTf \/ ForwardStep \/ UNCHANGED vars
  BY <1>9, <1>2, <1>3 DEF topoVars, vars, TakeTf, ForwardStep, DropTf, ForwardTf, TfForwarded
<1>10. QED
  BY <1>1, <1>4, <1>5, <1>6, <1>7, <1>8, <1>9, Steps

LEMMA ReceiveTypeStep ==
  ASSUME ReceiveType, SlotInv, RequestType, TopoType, [Next]_vars
  PROVE  ReceiveType'
<1> DEFINE New == mReceivedDataQueue'
<1>0. UNCHANGED <<transfers, awaited, unanswered, failed, mNumReqInFlight, mThreadPool>>
        /\ New \in Seq(Item) => ReceiveType'
  BY DEF ReceiveType
<1>1. CASE AcceptTf
  <2>1. PICK tf \in Tfs : BuildTfRequest(tf)
    BY <1>1 DEF AcceptTf
  <2>2. NewKey(tf) \in Nat /\ New = Append(mReceivedDataQueue, ADD(NewKey(tf)))
    BY <2>1, Accepting
  <2>3. New \in Seq(Item)
    BY <2>2, Items, Appended DEF ReceiveType
  <2>4. QED
    BY <2>1, <2>3, <1>0 DEF BuildTfRequest, receiveVars
<1>2. CASE AskStfSenders
  <2>1. PICK s \in requesting[1].left : AskSends(s) \/ AskRefuses(s) \/ AskUnasked(s)
    BY <1>2, Asks
  <2>2. requesting[1].request.tf \in Tfs /\ s \in StfSenders
    BY <1>2, <2>1, Requesting, Asks
  <2>3. Stf(requesting[1].request.tf, s) \in Stfs
    BY <2>2, StfParts
  <2>4. transfers' \subseteq Stfs /\ awaited' \subseteq transfers' /\ unanswered' \subseteq Stfs
    BY <2>1, <2>3 DEF AskSends, AskRefuses, AskUnasked, ReceiveType
  <2>5. QED
    BY <1>2, <2>4 DEF AskStfSenders, ReceiveType
<1>3. CASE DeleteTf
  <2>1. requesting[1].request.key \in Nat
    BY <1>3, Requesting DEF DeleteTf
  <2>2. New = Append(mReceivedDataQueue, DELETE(requesting[1].request.key))
    BY <1>3 DEF DeleteTf
  <2>3. New \in Seq(Item)
    BY <2>1, <2>2, Items, Appended DEF ReceiveType
  <2>4. QED
    BY <1>3, <2>3, <1>0 DEF DeleteTf, receiveVars
<1>4. CASE Arrival
  <2>1. PICK stf \in transfers : DataHandlerThread(stf)
    BY <1>4 DEF Arrival
  <2>2. New = Append(mReceivedDataQueue, INFO(stf)) /\ stf \in Stfs
    BY <2>1 DEF DataHandlerThread, ReceiveType
  <2>3. New \in Seq(Item)
    BY <2>2, Items, Appended DEF ReceiveType
  <2>4. PICK call \in Calls(stf) : awaited' = awaited \ {call}
    BY <2>1 DEF DataHandlerThread, TakeCall
  <2>5. call \in awaited /\ (stf \in awaited => call = stf)
    BY DEF Calls
  <2>6. awaited' \subseteq transfers' /\ transfers' \subseteq Stfs
    BY <2>1, <2>4, <2>5 DEF DataHandlerThread, ReceiveType
  <2>7. mNumReqInFlight' \in Nat \union {-1}
    <3>1. /\ Cardinality(awaited) \in Nat /\ Cardinality(failed) \in Nat /\ IsFiniteSet(awaited)
      BY StfSetFinite DEF ReceiveType
    <3>2. Cardinality(awaited) # 0
      BY <2>5, <3>1, FS_EmptySet
    <3>3. mNumReqInFlight \in Nat \union {-1} /\ Uncounted \in {0, 1}
      BY DEF ReceiveType, Uncounted
    <3>4. mNumReqInFlight - 1 \in Nat \union {-1}
      BY <3>1, <3>2, <3>3 DEF SlotInv
    <3>5. QED
      BY <2>1, <3>4 DEF DataHandlerThread
  <2>8. UNCHANGED <<unanswered, failed, mThreadPool>>
    BY <2>1 DEF DataHandlerThread
  <2>9. QED
    BY <2>3, <2>6, <2>7, <2>8 DEF ReceiveType
<1>5. CASE Failure
  <2>1. PICK stf \in transfers : TransferFails(stf)
    BY <1>5 DEF Failure
  <2>2. mThreadPool' \in Nat
    BY <2>1 DEF TransferFails, ReceiveType
  <2>3. PICK call \in Calls(stf) : awaited' = awaited \ {call}
    BY <2>1 DEF TransferFails, TakeCall
  <2>4. call \in awaited /\ (stf \in awaited => call = stf)
    BY DEF Calls
  <2>5. awaited' \subseteq transfers' /\ transfers' \subseteq Stfs /\ failed' \subseteq Stfs
    BY <2>1, <2>3, <2>4 DEF TransferFails, ReceiveType
  <2>6. UNCHANGED <<unanswered, mNumReqInFlight, mReceivedDataQueue>>
    BY <2>1 DEF TransferFails
  <2>7. QED
    BY <2>2, <2>5, <2>6 DEF ReceiveType
<1>13. CASE CountRequest
  <2>1. mNumReqInFlight' \in Nat \union {-1}
    BY <1>13 DEF CountRequest, ReceiveType
  <2>2. UNCHANGED <<transfers, awaited, unanswered, failed, mThreadPool, mReceivedDataQueue>>
    BY <1>13 DEF CountRequest
  <2>3. QED
    BY <2>1, <2>2 DEF ReceiveType
<1>6. CASE StfPacingThread
  BY <1>6, <1>0, Tailed DEF StfPacingThread, ReceiveType, receiveVars
<1>7. CASE UNCHANGED <<receiveVars, mReceivedDataQueue>>
  BY <1>7 DEF ReceiveType, receiveVars
<1>8. CASE RunStep
  <2>1. CASE ResetInput
    BY <2>1, <1>0, EmptySeq DEF ResetInput, receiveVars
  <2>2. CASE PreRun \/ PostRun
    BY <2>2, <1>7 DEF PreRun, PostRun
  <2>3. QED
    BY <1>8, <2>1, <2>2 DEF RunStep
<1>9. CASE TakeRequest \/ FinishRequests
  BY <1>9, <1>7 DEF TakeRequest, FinishRequests
<1>10. CASE StfDeserializingThread \/ MergeTf \/ QueueTf
  BY <1>10, <1>7 DEF StfDeserializingThread, MergeTf, QueueTf
<1>11. CASE TakeTf \/ ForwardStep \/ UNCHANGED vars
  BY <1>11, <1>7 DEF vars, TakeTf, ForwardStep, DropTf, ForwardTf, TfForwarded
<1>12. QED
  BY <1>1, <1>2, <1>3, <1>4, <1>5, <1>6, <1>8, <1>9, <1>10, <1>11, <1>13, Steps

LEMMA KeyType ==
  ASSUME TopoType, NEW stf \in Stfs
  PROVE  KeyOf(stf) \in Nat
<1>1. stf.tf \in Tfs
  BY StfParts
<1>2. stf.tf.id \in Nat
  BY <1>1, TfParts
<1>3. getIdForTopoTf(stf) \in Nat
  <2>1. CASE \E e \in mTopoTfIdRenameMap : e.from = stf.from /\ e.id = stf.tf.id
    <3> DEFINE f == CHOOSE e \in mTopoTfIdRenameMap : e.from = stf.from /\ e.id = stf.tf.id
    <3>1. f \in mTopoTfIdRenameMap
      BY <2>1
    <3>2. getIdForTopoTf(stf) = f.to
      BY <2>1 DEF getIdForTopoTf
    <3>3. QED
      BY <3>1, <3>2 DEF TopoType
  <2>2. CASE ~ \E e \in mTopoTfIdRenameMap : e.from = stf.from /\ e.id = stf.tf.id
    BY <2>2 DEF getIdForTopoTf
  <2>3. QED
    BY <2>1, <2>2
<1>4. QED
  BY <1>2, <1>3 DEF KeyOf

\* What the pacing thread does with the first item of its queue.
LEMMA Pacing ==
  ASSUME ReceiveType, TopoType, StfPacingThread
  PROVE  /\ mReceivedDataQueue # <<>> /\ mReceivedDataQueue' = Tail(mReceivedDataQueue)
         /\ mReceivedDataQueue' \in Seq(Item) /\ Head(mReceivedDataQueue) \in Item
         /\ \/ \E key \in Nat :
                 /\ Head(mReceivedDataQueue) = ADD(key)
                 /\ mergeKeys' = mergeKeys \union {key}
                 /\ UNCHANGED <<mergeStfs, mTopoTfIdRenameMap>>
            \/ \E key \in Nat :
                 /\ Head(mReceivedDataQueue) = DELETE(key)
                 /\ mergeKeys' = mergeKeys \ {key}
                 /\ mergeStfs' = {e \in mergeStfs : e.key # key}
                 /\ UNCHANGED mTopoTfIdRenameMap
            \/ \E stf \in Stfs :
                 /\ Head(mReceivedDataQueue) = INFO(stf)
                 /\ StoreStf(stf)
                 /\ mTopoTfIdRenameMap' =
                      IF Topological(stf.tf)
                        THEN {e \in mTopoTfIdRenameMap : e.from # stf.from \/ e.id # stf.tf.id}
                        ELSE mTopoTfIdRenameMap
<1> DEFINE info == Head(mReceivedDataQueue)
<1>1. mReceivedDataQueue # <<>> /\ mReceivedDataQueue' = Tail(mReceivedDataQueue)
  BY DEF StfPacingThread
<1>2. mReceivedDataQueue' \in Seq(Item) /\ info \in Item
  BY <1>1, Tailed DEF ReceiveType
<1>3. CASE info.type = "ADD" /\ mergeKeys' = mergeKeys \union {info.key}
           /\ UNCHANGED <<mergeStfs, mTopoTfIdRenameMap>>
  <2>1. info.key \in Nat /\ info = ADD(info.key)
    BY <1>2, <1>3, Items
  <2>2. QED
    BY <1>1, <1>2, <1>3, <2>1
<1>4. CASE info.type = "DELETE" /\ mergeKeys' = mergeKeys \ {info.key}
           /\ mergeStfs' = {e \in mergeStfs : e.key # info.key}
           /\ UNCHANGED mTopoTfIdRenameMap
  <2>1. info.key \in Nat /\ info = DELETE(info.key)
    BY <1>2, <1>4, Items
  <2>2. QED
    BY <1>1, <1>2, <1>4, <2>1
<1>5. CASE info.type = "INFO" /\ StoreStf(info.stf)
           /\ mTopoTfIdRenameMap' =
                 IF Topological(info.stf.tf)
                   THEN {e \in mTopoTfIdRenameMap :
                           e.from # info.stf.from \/ e.id # info.stf.tf.id}
                   ELSE mTopoTfIdRenameMap
  <2>1. info.stf \in Stfs /\ info = INFO(info.stf)
    BY <1>2, <1>5, Items
  <2>2. QED
    BY <1>1, <1>2, <1>5, <2>1
<1>6. QED
  BY <1>3, <1>4, <1>5 DEF StfPacingThread

\* The TF that the deserializing thread takes out.
Deserializes(key) ==
  /\ OldestTfComplete(key)
  /\ mStfsForMerging' = Append(mStfsForMerging, [key |-> key, stfs |-> StfsOf(key)])
  /\ mergeKeys' = mergeKeys \ {key}
  /\ mergeStfs' = {e \in mergeStfs : e.key # key}
  /\ mStfsCountMap' = {e \in mStfsCountMap : e.key # key}

LEMMA Deserializing ==
  ASSUME MergeType, StfDeserializingThread
  PROVE  \E key \in mergeKeys : Deserializes(key) /\ [key |-> key, stfs |-> StfsOf(key)] \in KeyedTf
<1>1. PICK key \in mergeKeys : Deserializes(key)
  BY DEF StfDeserializingThread, Deserializes
<1>2. StfsOf(key) \subseteq Stfs
  BY DEF StfsOf, MergeType
<1>3. key \in Nat
  BY DEF MergeType
<1>4. QED
  BY <1>1, <1>2, <1>3 DEF KeyedTf

LEMMA Merger ==
  ASSUME MergeType
  PROVE  /\ merging # <<>> => merging[1].key \in Nat /\ merging[1].stfs \subseteq Stfs /\ merging = <<merging[1]>>
         /\ merged # <<>> => merged[1].key \in Nat /\ merged[1].stfs \subseteq Stfs /\ merged = <<merged[1]>>
<1>1. merging # <<>> => merging[1] \in KeyedTf /\ merging = <<merging[1]>>
  BY Optional DEF MergeType
<1>2. merged # <<>> => merged[1] \in KeyedTf /\ merged = <<merged[1]>>
  BY Optional DEF MergeType
<1>3. \A x \in KeyedTf : x.key \in Nat /\ x.stfs \subseteq Stfs
  BY DEF KeyedTf
<1>4. QED
  BY <1>1, <1>2, <1>3

LEMMA MergeTypeStep ==
  ASSUME MergeType, ReceiveType, TopoType, [Next]_vars
  PROVE  MergeType'
<1>0. mergeStfs \subseteq [key : mergeKeys, stf : Stfs] /\ mergeKeys \subseteq Nat
  BY DEF MergeType
<1>1. CASE StfPacingThread
  <2>1. UNCHANGED <<mMaxMergedTfId, mStfsForMerging, merging, merged>>
    BY <1>1 DEF StfPacingThread, mergerVars
  <2>2. mergeKeys' \subseteq Nat /\ mergeStfs' \subseteq [key : mergeKeys', stf : Stfs]
    <3>1. CASE \E key \in Nat : mergeKeys' = mergeKeys \union {key} /\ UNCHANGED mergeStfs
      BY <3>1, <1>0
    <3>2. CASE \E key \in Nat : mergeKeys' = mergeKeys \ {key}
                                /\ mergeStfs' = {e \in mergeStfs : e.key # key}
      BY <3>2, <1>0
    <3>3. CASE \E stf \in Stfs : StoreStf(stf)
      <4>1. PICK stf \in Stfs : StoreStf(stf)
        BY <3>3
      <4> DEFINE key == KeyOf(stf)
      <4>2. key \in Nat
        BY KeyType
      <4>3. \/ /\ mergeKeys' = mergeKeys \union {key}
               /\ mergeStfs' = mergeStfs \union {[key |-> key, stf |-> stf]}
            \/ /\ mergeKeys' = mergeKeys \ {key}
               /\ mergeStfs' = {e \in mergeStfs : e.key # key}
        BY <4>1 DEF StoreStf
      <4> HIDE DEF key
      <4>4. CASE /\ mergeKeys' = mergeKeys \union {key}
                 /\ mergeStfs' = mergeStfs \union {[key |-> key, stf |-> stf]}
        <5>1. [key |-> key, stf |-> stf] \in [key : mergeKeys', stf : Stfs]
          BY <4>4
        <5>2. [key : mergeKeys, stf : Stfs] \subseteq [key : mergeKeys', stf : Stfs]
          BY <4>4
        <5>3. QED
          BY <4>2, <4>4, <5>1, <5>2, <1>0
      <4>5. CASE /\ mergeKeys' = mergeKeys \ {key}
                 /\ mergeStfs' = {e \in mergeStfs : e.key # key}
        BY <4>5, <1>0
      <4>6. QED
        BY <4>3, <4>4, <4>5
    <3>4. QED
      BY <1>1, <3>1, <3>2, <3>3, Pacing
  <2>3. QED
    BY <2>1, <2>2 DEF MergeType
<1>2. CASE StfDeserializingThread
  <2>1. PICK key \in mergeKeys :
          Deserializes(key) /\ [key |-> key, stfs |-> StfsOf(key)] \in KeyedTf
    BY <1>2, Deserializing
  <2>2. mStfsForMerging' \in Seq(KeyedTf)
    BY <2>1, Appended DEF Deserializes, MergeType
  <2>3. mergeKeys' \subseteq Nat /\ mergeStfs' \subseteq [key : mergeKeys', stf : Stfs]
    BY <2>1, <1>0 DEF Deserializes
  <2>4. UNCHANGED <<mMaxMergedTfId, merging, merged>>
    BY <1>2 DEF StfDeserializingThread, mergerVars
  <2>5. QED
    BY <2>2, <2>3, <2>4 DEF MergeType
<1>3. CASE TakeTf
  <2>1. Head(mStfsForMerging) \in KeyedTf /\ mStfsForMerging' \in Seq(KeyedTf)
    BY <1>3, Tailed DEF TakeTf, MergeType
  <2>2. merging' \in Seq(KeyedTf) /\ Len(merging') <= 1
    <3>1. merging' = merging \/ merging' = <<Head(mStfsForMerging)>>
      BY <1>3 DEF TakeTf
    <3>2. CASE merging' = merging
      BY <3>2 DEF MergeType
    <3>3. CASE merging' = <<Head(mStfsForMerging)>>
      BY <2>1, <3>3, Single
    <3>4. QED
      BY <3>1, <3>2, <3>3
  <2>3. UNCHANGED <<mergeKeys, mergeStfs, mMaxMergedTfId, merged>>
    BY <1>3 DEF TakeTf, mergeVars
  <2>4. QED
    BY <2>1, <2>2, <2>3 DEF MergeType
<1>4. CASE MergeTf
  <2>1. mMaxMergedTfId' \in Nat
    BY <1>4, Merger DEF MergeTf, MergeType
  <2>2. merging' = <<>> /\ merged' = merging /\ UNCHANGED <<mergeKeys, mergeStfs, mStfsForMerging>>
    BY <1>4 DEF MergeTf
  <2>3. QED
    BY <2>1, <2>2, EmptySeq DEF MergeType
<1>5. CASE QueueTf
  BY <1>5, EmptySeq DEF QueueTf, MergeType, mergeVars
<1>6. CASE UNCHANGED <<mergeVars, mStfsForMerging, mergerVars>>
  BY <1>6 DEF MergeType, mergeVars, mergerVars
<1>7. CASE RunStep
  <2>1. CASE ResetInput
    BY <2>1, EmptySeq DEF ResetInput, MergeType, mergerVars
  <2>2. CASE PreRun \/ PostRun
    BY <2>2, <1>6 DEF PreRun, PostRun
  <2>3. QED
    BY <1>7, <2>1, <2>2 DEF RunStep
<1>8. CASE AcceptTf \/ TakeRequest \/ AskStfSenders \/ CountRequest \/ FinishRequests \/ DeleteTf
  BY <1>8, <1>6 DEF AcceptTf, BuildTfRequest, TakeRequest, AskStfSenders, CountRequest, FinishRequests, DeleteTf
<1>9. CASE Arrival \/ Failure \/ ForwardStep \/ UNCHANGED vars
  BY <1>9, <1>6 DEF vars, Arrival, Failure, DataHandlerThread, TransferFails, ForwardStep, DropTf,
                    ForwardTf, TfForwarded
<1>10. QED
  BY <1>1, <1>2, <1>3, <1>4, <1>5, <1>7, <1>8, <1>9, Steps

LEMMA OutTypeStep ==
  ASSUME OutType, MergeType, [Next]_vars
  PROVE  OutType'
<1>1. CASE QueueTf
  <2>1. merged # <<>> /\ mTfFwdIn' = Append(mTfFwdIn, merged[1].key)
        /\ built' = Append(built, merged[1].stfs) /\ forwarding' = forwarding
    BY <1>1 DEF QueueTf
  <2>2. merged[1].key \in Nat /\ merged[1].stfs \subseteq Stfs
    BY <2>1, Merger
  <2>3. mTfFwdIn' \in Seq(Nat) /\ built' \in Seq(SUBSET Stfs)
    BY <2>1, <2>2, Appended DEF OutType
  <2>4. QED
    BY <2>1, <2>3 DEF OutType
<1>2. CASE ForwardStep
  <2>1. CASE DropTf
    BY <2>1, Tailed DEF DropTf, OutType
  <2>2. CASE ForwardTf
    <3>1. mTfFwdIn # <<>> /\ mTfFwdIn' = Tail(mTfFwdIn) /\ forwarding' = <<Head(mTfFwdIn)>>
          /\ built' = built
      BY <2>2 DEF ForwardTf
    <3>2. Head(mTfFwdIn) \in Nat /\ mTfFwdIn' \in Seq(Nat)
      BY <3>1, Tailed DEF OutType
    <3>3. forwarding' \in Seq(Nat) /\ Len(forwarding') <= 1
      BY <3>1, <3>2, Single
    <3>4. QED
      BY <3>1, <3>2, <3>3 DEF OutType
  <2>3. CASE TfForwarded
    BY <2>3, EmptySeq DEF TfForwarded, OutType
  <2>4. QED
    BY <1>2, <2>1, <2>2, <2>3 DEF ForwardStep
<1>3. CASE UNCHANGED outVars
  BY <1>3 DEF OutType, outVars
<1>4. CASE RunStep
  BY <1>4, <1>3 DEF RunStep, ResetInput, PreRun, PostRun
<1>5. CASE AcceptTf \/ TakeRequest \/ AskStfSenders \/ CountRequest \/ FinishRequests \/ DeleteTf
  BY <1>5, <1>3 DEF AcceptTf, BuildTfRequest, TakeRequest, AskStfSenders, CountRequest, FinishRequests, DeleteTf
<1>6. CASE Arrival \/ Failure \/ StfPacingThread \/ StfDeserializingThread
  BY <1>6, <1>3 DEF Arrival, Failure, DataHandlerThread, TransferFails, StfPacingThread,
                    StfDeserializingThread
<1>7. CASE TakeTf \/ MergeTf \/ UNCHANGED vars
  BY <1>7, <1>3 DEF vars, TakeTf, MergeTf
<1>8. QED
  BY <1>1, <1>2, <1>4, <1>5, <1>6, <1>7, Steps

\* The counters of the buffer.
LEMMA BufferStep ==
  ASSUME SizeType, BufferInv, MergeType, OutType, [Next]_vars
  PROVE  SizeType' /\ BufferInv'
<1>1. CASE QueueTf
  <2> DEFINE size == Cardinality(merged[1].stfs)
             item == [id |-> merged[1].key, size |-> size]
             rest == {e \in mTfIdSizes : e.id # merged[1].key}
  <2>1. merged[1].key \in Nat /\ size \in Nat
    BY <1>1, Merger, StfSetFinite DEF QueueTf
  <2>2. recordTfBuilt(merged[1])
    BY <1>1 DEF QueueTf
  <2>3. mCurrentTfBufferSize' \in Nat /\ overrun' \in Nat
    <3>1. \/ mCurrentTfBufferSize >= size /\ mCurrentTfBufferSize' = mCurrentTfBufferSize - size
             /\ overrun' = overrun
          \/ ~(mCurrentTfBufferSize >= size) /\ mCurrentTfBufferSize' = 0
             /\ overrun' = overrun + size - mCurrentTfBufferSize
      BY <2>2 DEF recordTfBuilt
    <3> HIDE DEF size
    <3>2. QED
      BY <2>1, <3>1 DEF SizeType
  <2>4. mNumTfsInBuilding' \in Nat
    BY <2>2 DEF recordTfBuilt, LeaveBuilding, SizeType
  <2>5. mTfIdSizes' = rest \union {item} /\ mNumBufferedTfs' = mNumBufferedTfs + 1
        /\ mLastBuiltTfId' = IF merged[1].key > mLastBuiltTfId THEN merged[1].key ELSE mLastBuiltTfId
    BY <2>2 DEF recordTfBuilt
  <2>6. mLastBuiltTfId' \in Nat /\ mNumBufferedTfs' \in Nat
    BY <2>1, <2>5 DEF SizeType
  <2>7. mTfIdSizes' \subseteq [id : Nat, size : Nat]
        /\ \A d, e \in mTfIdSizes' : d.id = e.id => d = e
    <3>1. item \in [id : Nat, size : Nat] /\ item.id = merged[1].key
      BY <2>1
    <3>2. \A e \in rest : e.id # item.id /\ e \in mTfIdSizes
      BY <3>1
    <3> HIDE DEF item, rest
    <3>3. QED
      BY <2>5, <3>1, <3>2 DEF SizeType
  <2>8. BufferInv'
    <3>1. IsFiniteSet(rest) /\ Cardinality(rest) <= Cardinality(mTfIdSizes)
      BY FS_Subset DEF BufferInv
    <3>2. Cardinality(rest) \in Nat /\ Cardinality(mTfIdSizes) \in Nat
      BY <3>1, FS_CardinalityType DEF BufferInv
    <3> HIDE DEF item, rest
    <3>3. IsFiniteSet(rest \union {item})
          /\ Cardinality(rest \union {item}) = IF item \in rest THEN Cardinality(rest) ELSE Cardinality(rest) + 1
      BY <3>1, FS_AddElement
    <3>4. Cardinality(rest \union {item}) <= Cardinality(rest) + 1
          /\ Cardinality(rest \union {item}) \in Nat
      BY <3>2, <3>3
    <3>5. QED
      BY <2>5, <3>1, <3>2, <3>3, <3>4 DEF BufferInv, SizeType
  <2>9. QED
    BY <2>3, <2>4, <2>6, <2>7, <2>8 DEF SizeType
<1>2. CASE TfForwarded
  <2>1. UNCHANGED <<overrun, mLastBuiltTfId, mNumTfsInBuilding>>
    BY <1>2 DEF TfForwarded
  <2>2. CASE UNCHANGED <<mTfIdSizes, mCurrentTfBufferSize, mNumBufferedTfs>>
    BY <2>1, <2>2 DEF SizeType, BufferInv
  <2>3. CASE recordTfForwarded(forwarding[1])
    <3>1. PICK e \in mTfIdSizes :
            e.id = forwarding[1] /\ mCurrentTfBufferSize' = mCurrentTfBufferSize + e.size
      BY <2>3 DEF recordTfForwarded
    <3>2. mTfIdSizes' \subseteq mTfIdSizes \ {e} /\ mNumBufferedTfs' = mNumBufferedTfs - 1
      BY <2>3, <3>1 DEF recordTfForwarded
    <3>3. /\ IsFiniteSet(mTfIdSizes \ {e})
          /\ Cardinality(mTfIdSizes \ {e}) = Cardinality(mTfIdSizes) - 1
      BY FS_RemoveElement DEF BufferInv
    <3>4. IsFiniteSet(mTfIdSizes') /\ Cardinality(mTfIdSizes') <= Cardinality(mTfIdSizes) - 1
      BY <3>2, <3>3, FS_Subset
    <3>5. Cardinality(mTfIdSizes') \in Nat /\ Cardinality(mTfIdSizes) \in Nat
      BY <3>4, FS_CardinalityType DEF BufferInv
    <3>6. mNumBufferedTfs' \in Nat /\ BufferInv'
      BY <3>2, <3>4, <3>5 DEF BufferInv, SizeType
    <3>7. mCurrentTfBufferSize' \in Nat
      <4>1. e.size \in Nat
        BY DEF SizeType
      <4>2. QED
        BY <3>1, <4>1 DEF SizeType
    <3>8. mTfIdSizes' \subseteq [id : Nat, size : Nat]
          /\ \A d, f \in mTfIdSizes' : d.id = f.id => d = f
      BY <3>2 DEF SizeType
    <3>9. QED
      BY <2>1, <3>6, <3>7, <3>8 DEF SizeType
  <2>4. QED
    BY <1>2, <2>2, <2>3 DEF TfForwarded
<1>3. CASE AcceptTf
  <2>1. UNCHANGED sizeVars /\ mNumTfsInBuilding' = mNumTfsInBuilding + 1
    BY <1>3 DEF AcceptTf, BuildTfRequest
  <2>2. QED
    BY <2>1 DEF SizeType, BufferInv, sizeVars
<1>4. CASE UNCHANGED <<sizeVars, mNumTfsInBuilding>>
  BY <1>4 DEF SizeType, BufferInv, sizeVars
<1>5. CASE RunStep
  <2>1. CASE PreRun
    <3>1. reset_run_counters
      BY <2>1 DEF PreRun
    <3>2. SizeType'
      BY <3>1, TfBuilderAssumption DEF reset_run_counters, SizeType
    <3>3. BufferInv'
      BY <3>1, FS_EmptySet DEF reset_run_counters, BufferInv
    <3>4. QED
      BY <3>2, <3>3
  <2>2. CASE ResetInput \/ PostRun
    BY <2>2, <1>4 DEF ResetInput, PostRun
  <2>3. QED
    BY <1>5, <2>1, <2>2 DEF RunStep
<1>6. CASE TakeRequest \/ AskStfSenders \/ CountRequest \/ FinishRequests \/ DeleteTf
  BY <1>6, <1>4 DEF TakeRequest, AskStfSenders, CountRequest, FinishRequests, DeleteTf
<1>7. CASE Arrival \/ Failure \/ StfPacingThread \/ StfDeserializingThread
  BY <1>7, <1>4 DEF Arrival, Failure, DataHandlerThread, TransferFails, StfPacingThread,
                    StfDeserializingThread
<1>8. CASE TakeTf \/ MergeTf \/ DropTf \/ ForwardTf \/ UNCHANGED vars
  BY <1>8, <1>4 DEF vars, TakeTf, MergeTf, DropTf, ForwardTf
<1>9. QED
  BY <1>1, <1>2, <1>3, <1>5, <1>6, <1>7, <1>8, Steps DEF ForwardStep

-----------------------------------------------------------------------------
\* The queue of the pacing thread has an STF once.
LEMMA OnceAppended ==
  ASSUME NEW q \in Seq(Item), NEW x \in Item, Once(q), x.type = "INFO" => ~In(q, x)
  PROVE  Once(Append(q, x))
<1> DEFINE a == Append(q, x)
           n == Len(q)
<1>1. n \in Nat /\ DOMAIN q = 1 .. n
      /\ \A i \in DOMAIN a : \/ i \in DOMAIN q /\ a[i] = q[i]
                             \/ i = n + 1 /\ a[i] = x
  BY Appended
<1> HIDE DEF a, n
<1>2. ASSUME NEW i \in DOMAIN a, NEW j \in DOMAIN a, a[i].type = "INFO", a[i] = a[j]
      PROVE  i = j
  <2>1. CASE i \in DOMAIN q /\ a[i] = q[i] /\ j \in DOMAIN q /\ a[j] = q[j]
    BY <1>2, <2>1 DEF Once
  <2>2. CASE i \in DOMAIN q /\ a[i] = q[i] /\ j = n + 1 /\ a[j] = x
    BY <1>2, <2>2 DEF In
  <2>3. CASE i = n + 1 /\ a[i] = x /\ j \in DOMAIN q /\ a[j] = q[j]
    BY <1>2, <2>3 DEF In
  <2>4. QED
    BY <1>1, <2>1, <2>2, <2>3
<1>3. QED
  BY <1>2 DEF Once, a

LEMMA OnceTailed ==
  ASSUME NEW q \in Seq(Item), q # <<>>, Once(q)
  PROVE  Once(Tail(q)) /\ (Head(q).type = "INFO" => ~In(Tail(q), Head(q)))
<1> DEFINE t == Tail(q)
<1>1. \A i \in DOMAIN t : i + 1 \in DOMAIN q /\ t[i] = q[i + 1] /\ i \in Nat \ {0}
  BY Tailed
<1>2. Head(q) = q[1] /\ 1 \in DOMAIN q
  BY Tailed
<1> HIDE DEF t
<1>3. ASSUME NEW i \in DOMAIN t, NEW j \in DOMAIN t, t[i].type = "INFO", t[i] = t[j]
      PROVE  i = j
  <2>1. i + 1 = j + 1
    BY <1>1, <1>3 DEF Once
  <2>2. QED
    BY <1>1, <2>1
<1>4. ASSUME Head(q).type = "INFO", NEW i \in DOMAIN t, t[i] = Head(q)
      PROVE  FALSE
  <2>1. i + 1 = 1
    BY <1>1, <1>2, <1>4 DEF Once
  <2>2. QED
    BY <1>1, <2>1
<1>5. QED
  BY <1>3, <1>4 DEF Once, In, t

\* Where the STFs are after a step.
Still ==
  \A stf \in Stfs :
    /\ stf \in transfers' <=> stf \in transfers
    /\ stf \in failed' <=> stf \in failed
    /\ In(mReceivedDataQueue', INFO(stf)) <=> In(mReceivedDataQueue, INFO(stf))
    /\ Stored(stf)' <=> Stored(stf)
Leaves ==
  \A stf \in Stfs :
    /\ stf \in transfers' <=> stf \in transfers
    /\ stf \in failed' <=> stf \in failed
    /\ In(mReceivedDataQueue', INFO(stf)) => In(mReceivedDataQueue, INFO(stf))
    /\ Stored(stf)' => Stored(stf)
SentNow(stf) ==
  /\ AskStfSenders /\ requesting # <<>>
  /\ stf.tf = requesting[1].request.tf /\ stf.from \in requesting[1].left /\ Delivers(stf.from)
Sending ==
  \A stf \in Stfs :
    /\ Sent(stf)' => Sent(stf) \/ SentNow(stf)
    /\ ~SentNow(stf) => (Arriving(stf)' => Arriving(stf)) /\ (Stored(stf)' => Sent(stf))

LEMMA StillPlaces ==
  ASSUME TransferInv, accepted \subseteq accepted', Still \/ Leaves
  PROVE  SentInv' /\ PlaceInv' /\ Sending
<1>1. \A stf \in Stfs :
        /\ stf \in transfers' => stf \in transfers
        /\ stf \in failed' => stf \in failed
        /\ In(mReceivedDataQueue', INFO(stf)) => In(mReceivedDataQueue, INFO(stf))
        /\ Stored(stf)' => Stored(stf)
  BY DEF Still, Leaves
<1>2. \A stf \in Stfs : (Arriving(stf)' => Arriving(stf)) /\ (Sent(stf)' => Sent(stf))
  BY <1>1 DEF Arriving, Sent
<1>3. SentInv'
  BY <1>2 DEF SentInv, TransferInv
<1>4. PlaceInv'
  BY <1>1, <1>2 DEF PlaceInv, TransferInv
<1>5. Sending
  BY <1>1, <1>2 DEF Sending, Sent
<1>6. QED
  BY <1>3, <1>4, <1>5

\* An announcement is not an STF.
LEMMA OtherItem ==
  ASSUME ReceiveType, NEW x \in Item, x.type # "INFO", mReceivedDataQueue' = Append(mReceivedDataQueue, x),
         UNCHANGED <<transfers, failed, mergeStfs>>, Once(mReceivedDataQueue)
  PROVE  Still /\ Once(mReceivedDataQueue')
<1>1. mReceivedDataQueue \in Seq(Item)
  BY DEF ReceiveType
<1>2. \A y : In(mReceivedDataQueue', y) <=> In(mReceivedDataQueue, y) \/ y = x
  BY <1>1, InAppended
<1>3. \A stf \in Stfs : INFO(stf) # x
  BY Items
<1>4. \A stf \in Stfs : Stored(stf)' <=> Stored(stf)
  BY DEF Stored
<1>5. Still
  BY <1>2, <1>3, <1>4 DEF Still
<1>6. QED
  BY <1>1, <1>5, OnceAppended

LEMMA AcceptPlaces ==
  ASSUME ReceiveType, RequestType, TopoType, TransferInv, AcceptTf
  PROVE  Still /\ Once(mReceivedDataQueue')
<1>1. PICK tf \in Tfs : BuildTfRequest(tf)
  BY DEF AcceptTf
<1>2. NewKey(tf) \in Nat /\ mReceivedDataQueue' = Append(mReceivedDataQueue, ADD(NewKey(tf)))
  BY <1>1, Accepting
<1>3. UNCHANGED <<transfers, failed, mergeStfs>>
  BY <1>1 DEF BuildTfRequest, receiveVars, mergeVars
<1>4. ADD(NewKey(tf)) \in Item /\ ADD(NewKey(tf)).type # "INFO"
  BY <1>2, Items
<1>5. QED
  BY <1>2, <1>3, <1>4, OtherItem DEF TransferInv

LEMMA DeletePlaces ==
  ASSUME ReceiveType, RequestType, TransferInv, DeleteTf
  PROVE  Still /\ Once(mReceivedDataQueue')
<1>1. requesting[1].request.key \in Nat
  BY Requesting DEF DeleteTf
<1>2. mReceivedDataQueue' = Append(mReceivedDataQueue, DELETE(requesting[1].request.key))
  BY DEF DeleteTf
<1>3. UNCHANGED <<transfers, failed, mergeStfs>>
  BY DEF DeleteTf, receiveVars, mergeVars
<1>4. DELETE(requesting[1].request.key) \in Item /\ DELETE(requesting[1].request.key).type # "INFO"
  BY <1>1, Items
<1>5. QED
  BY <1>2, <1>3, <1>4, OtherItem DEF TransferInv

LEMMA AskPlaces ==
  ASSUME ReceiveType, RequestType, TransferInv, AskInv, AskStfSenders
  PROVE  TransferInv' /\ Sending
<1>1. PICK s \in requesting[1].left : Delivers(s) \/ AskRefuses(s)
  BY Asks DEF Delivers
<1>2. UNCHANGED <<accepted, failed, mReceivedDataQueue, mergeStfs>>
  BY DEF AskStfSenders, mergeVars
<1>3. Once(mReceivedDataQueue')
  BY <1>2 DEF TransferInv
<1>4. \A stf \in Stfs : Stored(stf)' <=> Stored(stf)
  BY <1>2 DEF Stored
<1>5. CASE AskRefuses(s)
  <2>1. Still
    BY <1>2, <1>4, <1>5 DEF Still, AskRefuses
  <2>2. QED
    BY <1>2, <1>3, <2>1, StillPlaces DEF TransferInv
<1>6. CASE Delivers(s)
  <2> DEFINE new == Stf(requesting[1].request.tf, s)
  <2>1. requesting # <<>> /\ requesting[1].request.tf \in accepted /\ s \in requesting[1].request.tf.stfs
        /\ ~Sent(new)
    BY <1>1, Asks, AskedTf
  <2>2. new \in Stfs /\ new.tf = requesting[1].request.tf /\ new.from = s
    BY <1>1, <2>1, StfParts, Requesting
  <2>3. transfers' = transfers \union {new}
    BY <1>6 DEF Delivers, AskSends, AskUnasked
  <2>4. SentNow(new)
    BY <1>1, <1>6, <2>1, <2>2 DEF SentNow
  <2> HIDE DEF new
  <2>5. \A stf \in Stfs :
          /\ stf \in transfers' <=> stf \in transfers \/ stf = new
          /\ stf \in failed' <=> stf \in failed
          /\ In(mReceivedDataQueue', INFO(stf)) <=> In(mReceivedDataQueue, INFO(stf))
    BY <1>2, <2>3
  <2>6. \A stf \in Stfs : Arriving(stf)' <=> Arriving(stf) \/ stf = new
    BY <2>5 DEF Arriving
  <2>7. \A stf \in Stfs : Sent(stf)' <=> Sent(stf) \/ stf = new
    BY <1>4, <2>6 DEF Sent
  <2>8. SentInv'
    BY <1>2, <2>1, <2>2, <2>7 DEF SentInv, TransferInv
  <2>9. PlaceInv'
    <3>1. new \notin failed /\ ~In(mReceivedDataQueue, INFO(new)) /\ ~Stored(new)
      BY <2>1 DEF Sent, Arriving
    <3>2. QED
      BY <1>4, <2>5, <2>6, <3>1 DEF PlaceInv, TransferInv
  <2>10. Sending
    BY <1>4, <2>4, <2>6, <2>7 DEF Sending, Sent
  <2>11. QED
    BY <1>3, <2>8, <2>9, <2>10 DEF TransferInv
<1>7. QED
  BY <1>1, <1>5, <1>6

LEMMA ArrivalPlaces ==
  ASSUME ReceiveType, TransferInv, Arrival
  PROVE  TransferInv' /\ \A stf \in Stfs : (Arriving(stf)' <=> Arriving(stf)) /\ (Stored(stf)' <=> Stored(stf))
<1>1. PICK new \in transfers : DataHandlerThread(new)
  BY DEF Arrival
<1>2. /\ new \in Stfs /\ mReceivedDataQueue \in Seq(Item)
      /\ transfers' = transfers \ {new} /\ mReceivedDataQueue' = Append(mReceivedDataQueue, INFO(new))
      /\ UNCHANGED <<accepted, failed, mergeStfs>>
  BY <1>1 DEF DataHandlerThread, ReceiveType, mergeVars
<1>3. INFO(new) \in Item /\ INFO(new).type = "INFO"
  BY <1>2, Items
<1>4. \A y : In(mReceivedDataQueue', y) <=> In(mReceivedDataQueue, y) \/ y = INFO(new)
  BY <1>2, <1>3, InAppended
<1>5. \A stf \in Stfs : INFO(stf) = INFO(new) <=> stf = new
  BY <1>2, Items
<1>6. \A stf \in Stfs :
        /\ stf \in transfers' <=> stf \in transfers /\ stf # new
        /\ stf \in failed' <=> stf \in failed
        /\ In(mReceivedDataQueue', INFO(stf)) <=> In(mReceivedDataQueue, INFO(stf)) \/ stf = new
        /\ Stored(stf)' <=> Stored(stf)
  BY <1>2, <1>4, <1>5 DEF Stored
<1>7. \A stf \in Stfs : Arriving(stf)' <=> Arriving(stf)
  BY <1>6 DEF Arriving
<1>8. ~In(mReceivedDataQueue, INFO(new)) /\ new \notin failed
  BY <1>2 DEF TransferInv, PlaceInv
<1>9. Once(mReceivedDataQueue')
  BY <1>2, <1>3, <1>8, OnceAppended DEF TransferInv
<1>10. PlaceInv'
  BY <1>6, <1>7, <1>8 DEF TransferInv, PlaceInv
<1>11. SentInv'
  BY <1>2, <1>6, <1>7 DEF TransferInv, SentInv, Sent
<1>12. QED
  BY <1>6, <1>7, <1>9, <1>10, <1>11 DEF TransferInv

LEMMA FailurePlaces ==
  ASSUME ReceiveType, TransferInv, Failure
  PROVE  TransferInv' /\ \A stf \in Stfs : (Arriving(stf)' <=> Arriving(stf)) /\ (Stored(stf)' <=> Stored(stf))
<1>1. PICK new \in transfers : TransferFails(new)
  BY DEF Failure
<1>2. /\ new \in Stfs
      /\ transfers' = transfers \ {new} /\ failed' = failed \union {new}
      /\ UNCHANGED <<accepted, mReceivedDataQueue, mergeStfs>>
  BY <1>1 DEF TransferFails, ReceiveType, mergeVars
<1>3. \A stf \in Stfs :
        /\ stf \in transfers' <=> stf \in transfers /\ stf # new
        /\ stf \in failed' <=> stf \in failed \/ stf = new
        /\ In(mReceivedDataQueue', INFO(stf)) <=> In(mReceivedDataQueue, INFO(stf))
        /\ Stored(stf)' <=> Stored(stf)
  BY <1>2 DEF Stored
<1>4. \A stf \in Stfs : Arriving(stf)' <=> Arriving(stf)
  BY <1>3 DEF Arriving
<1>5. ~In(mReceivedDataQueue, INFO(new))
  BY <1>2 DEF TransferInv, PlaceInv
<1>6. PlaceInv'
  BY <1>3, <1>4, <1>5 DEF TransferInv, PlaceInv
<1>7. SentInv' /\ Once(mReceivedDataQueue')
  BY <1>2, <1>3, <1>4 DEF TransferInv, SentInv, Sent
<1>8. QED
  BY <1>3, <1>4, <1>6, <1>7 DEF TransferInv

LEMMA PacingPlaces ==
  ASSUME ReceiveType, TopoType, TransferInv, StfPacingThread
  PROVE  TransferInv' /\ Sending
<1> DEFINE q == mReceivedDataQueue
<1>1. /\ q # <<>> /\ q' = Tail(q) /\ q \in Seq(Item)
      /\ UNCHANGED <<accepted, transfers, failed>>
  BY DEF StfPacingThread, ReceiveType, receiveVars
<1>2. Once(q')
  BY <1>1, OnceTailed DEF TransferInv
<1>3. /\ \A y : In(q', y) => In(q, y)
      /\ Head(q).type = "INFO" => ~In(q', Head(q))
  BY <1>1, InTailed, OnceTailed DEF TransferInv
<1>4. CASE mergeStfs' \subseteq mergeStfs
  <2>1. \A stf \in Stfs : Stored(stf)' => Stored(stf)
    BY <1>4 DEF Stored
  <2>2. Leaves
    BY <1>1, <1>3, <2>1 DEF Leaves
  <2>3. QED
    BY <1>1, <1>2, <2>2, StillPlaces DEF TransferInv
<1>5. CASE \E new \in Stfs : Head(q) = INFO(new) /\ StoreStf(new)
  <2>1. PICK new \in Stfs : Head(q) = INFO(new) /\ StoreStf(new)
    BY <1>5
  <2>2. INFO(new).type = "INFO" /\ In(q, INFO(new)) /\ ~In(q', INFO(new))
    BY <1>1, <1>3, <2>1, Items, InTailed
  <2>3. new \notin transfers /\ new \notin failed
    BY <2>2 DEF TransferInv, PlaceInv
  <2>4. \A stf \in Stfs : Stored(stf)' => Stored(stf) \/ stf = new
    <3>1. mergeStfs' \subseteq mergeStfs \union {[key |-> KeyOf(new), stf |-> new]}
      BY <2>1 DEF StoreStf
    <3>2. QED
      BY <3>1 DEF Stored
  <2>5. \A stf \in Stfs : Arriving(stf)' => Arriving(stf) /\ stf # new
    BY <1>1, <1>3, <2>2, <2>3 DEF Arriving
  <2>6. Sent(new)
    BY <2>2 DEF Sent, Arriving
  <2>7. SentInv'
    BY <1>1, <2>4, <2>5, <2>6 DEF TransferInv, SentInv, Sent
  <2>8. PlaceInv'
    BY <1>1, <1>3, <2>4, <2>5 DEF TransferInv, PlaceInv
  <2>9. Sending
    BY <2>4, <2>5, <2>6 DEF Sending, Sent
  <2>10. QED
    BY <1>2, <2>7, <2>8, <2>9 DEF TransferInv
<1>6. QED
  <2>1. CASE \E key \in Nat : Head(q) = ADD(key) /\ UNCHANGED mergeStfs
    BY <2>1, <1>4
  <2>2. CASE \E key \in Nat : mergeStfs' = {e \in mergeStfs : e.key # key}
    BY <2>2, <1>4
  <2>3. QED
    BY <1>5, <2>1, <2>2, Pacing

LEMMA Unmoved ==
  ASSUME TransferInv, UNCHANGED <<accepted, transfers, failed, mReceivedDataQueue, mergeStfs>>
  PROVE  Still /\ TransferInv' /\ Sending
<1>1. \A stf \in Stfs : Stored(stf)' <=> Stored(stf)
  BY DEF Stored
<1>2. Still
  BY <1>1 DEF Still
<1>3. QED
  BY <1>2, StillPlaces DEF TransferInv

LEMMA TransferStep ==
  ASSUME ReceiveType, RequestType, TopoType, MergeType, TransferInv, AskInv, [Next]_vars
  PROVE  TransferInv' /\ Sending
<1>1. CASE AcceptTf
  <2>1. accepted \subseteq accepted'
    BY <1>1 DEF AcceptTf, BuildTfRequest
  <2>2. QED
    BY <1>1, <2>1, AcceptPlaces, StillPlaces DEF TransferInv
<1>2. CASE DeleteTf
  <2>1. accepted \subseteq accepted'
    BY <1>2 DEF DeleteTf
  <2>2. QED
    BY <1>2, <2>1, DeletePlaces, StillPlaces DEF TransferInv
<1>3. CASE AskStfSenders
  BY <1>3, AskPlaces
<1>4. CASE Arrival
  <2>1. TransferInv' /\ \A stf \in Stfs : (Arriving(stf)' <=> Arriving(stf)) /\ (Stored(stf)' <=> Stored(stf))
    BY <1>4, ArrivalPlaces
  <2>2. QED
    BY <2>1 DEF Sending, Sent
<1>5. CASE Failure
  <2>1. TransferInv' /\ \A stf \in Stfs : (Arriving(stf)' <=> Arriving(stf)) /\ (Stored(stf)' <=> Stored(stf))
    BY <1>5, FailurePlaces
  <2>2. QED
    BY <2>1 DEF Sending, Sent
<1>6. CASE StfPacingThread
  BY <1>6, PacingPlaces
<1>7. CASE StfDeserializingThread
  <2>1. mergeStfs' \subseteq mergeStfs
    BY <1>7, Deserializing DEF Deserializes
  <2>2. UNCHANGED <<accepted, transfers, failed, mReceivedDataQueue>>
    BY <1>7 DEF StfDeserializingThread, receiveVars
  <2>3. \A stf \in Stfs : Stored(stf)' => Stored(stf)
    BY <2>1 DEF Stored
  <2>4. Leaves
    BY <2>2, <2>3 DEF Leaves
  <2>5. QED
    BY <2>2, <2>4, StillPlaces DEF TransferInv
<1>8. CASE ResetInput
  <2>1. mergeStfs' = {} /\ mReceivedDataQueue' = <<>> /\ UNCHANGED <<accepted, transfers, failed>>
    BY <1>8 DEF ResetInput, receiveVars
  <2>2. \A y : ~In(mReceivedDataQueue', y)
    BY <2>1 DEF In
  <2>3. Once(mReceivedDataQueue')
    BY <2>1 DEF Once
  <2>4. \A stf \in Stfs : ~Stored(stf)'
    BY <2>1 DEF Stored
  <2>5. Leaves
    BY <2>1, <2>2, <2>4 DEF Leaves
  <2>6. QED
    BY <2>1, <2>3, <2>5, StillPlaces DEF TransferInv
<1>9. CASE PreRun \/ PostRun \/ TakeRequest \/ CountRequest \/ FinishRequests
  BY <1>9, Unmoved DEF PreRun, PostRun, TakeRequest, CountRequest, FinishRequests, receiveVars, mergeVars
<1>10. CASE TakeTf \/ MergeTf \/ QueueTf
  BY <1>10, Unmoved DEF TakeTf, MergeTf, QueueTf, receiveVars, mergeVars
<1>11. CASE ForwardStep \/ UNCHANGED vars
  BY <1>11, Unmoved DEF vars, ForwardStep, DropTf, ForwardTf, TfForwarded, receiveVars, mergeVars
<1>12. QED
  BY <1>1, <1>2, <1>3, <1>4, <1>5, <1>6, <1>7, <1>8, <1>9, <1>10, <1>11, Steps DEF RunStep

\* The transfers that are not counted yet.
LEMMA UncountedNow ==
  /\ Uncounted \in Nat /\ Uncounted' \in Nat
  /\ UNCHANGED requesting => Uncounted' = Uncounted
  /\ requesting = <<>> \/ ~requesting[1].counting => Uncounted = 0
  /\ requesting' = <<>> \/ ~requesting'[1].counting => Uncounted' = 0
  /\ requesting # <<>> /\ requesting[1].counting => Uncounted = 1
  /\ requesting' # <<>> /\ requesting'[1].counting => Uncounted' = 1
BY DEF Uncounted

LEMMA CallTaken ==
  ASSUME ReceiveType, NEW stf \in Stfs, TakeCall(stf)
  PROVE  Cardinality(awaited') = Cardinality(awaited) - 1 /\ Cardinality(awaited) \in Nat
<1>1. PICK call \in Calls(stf) : awaited' = awaited \ {call}
  BY DEF TakeCall
<1>2. call \in awaited
  BY DEF Calls
<1>3. IsFiniteSet(awaited) /\ Cardinality(awaited) \in Nat
  BY StfSetFinite DEF ReceiveType
<1>4. QED
  BY <1>1, <1>2, <1>3, FS_RemoveElement

LEMMA SlotStep ==
  ASSUME ReceiveType, RequestType, SlotInv, TransferInv, AskInv, [Next]_vars
  PROVE  SlotInv'
<1>0. /\ IsFiniteSet(awaited) /\ Cardinality(awaited) \in Nat
      /\ IsFiniteSet(failed) /\ Cardinality(failed) \in Nat
      /\ mNumReqInFlight \in Int
  BY StfSetFinite DEF ReceiveType
<1>1. CASE AskStfSenders
  <2>1. PICK s \in requesting[1].left : AskSends(s) \/ AskRefuses(s) \/ AskUnasked(s)
    BY <1>1, Asks
  <2>2. UNCHANGED <<failed, mNumReqInFlight>> /\ requesting # <<>> /\ ~requesting[1].counting
    BY <1>1 DEF AskStfSenders
  <2>3. PICK old \in Asking : old = requesting[1]
    BY <2>2, Requesting
  <2>4. CASE AskRefuses(s) \/ AskUnasked(s)
    <3> DEFINE r == [old EXCEPT !.left = @ \ {s}]
    <3>1. requesting' = <<r>> /\ awaited' = awaited
      BY <2>3, <2>4 DEF AskRefuses, AskUnasked
    <3>2. r.counting = old.counting
      BY <2>3 DEF Asking
    <3> HIDE DEF r
    <3>3. requesting' # <<>> /\ ~requesting'[1].counting
      BY <2>2, <2>3, <3>1, <3>2
    <3>4. Uncounted = 0 /\ Uncounted' = 0
      BY <2>2, <3>3, UncountedNow
    <3>5. QED
      BY <2>2, <3>1, <3>4 DEF SlotInv
  <2>5. CASE AskSends(s)
    <3> DEFINE new == Stf(requesting[1].request.tf, s)
               r == [old EXCEPT !.left = @ \ {s}, !.expected = @ + 1, !.counting = TRUE]
    <3>1. new \notin awaited
      BY <1>1, <2>1, Asks, AskedTf DEF Sent, Arriving, ReceiveType
    <3>2. awaited' = awaited \union {new} /\ requesting' = <<r>>
      BY <2>3, <2>5 DEF AskSends
    <3>3. r.counting
      BY <2>3 DEF Asking
    <3> HIDE DEF new, r
    <3>4. requesting' # <<>> /\ requesting'[1].counting
      BY <3>2, <3>3
    <3>5. Uncounted = 0 /\ Uncounted' = 1
      BY <2>2, <3>4, UncountedNow
    <3>6. Cardinality(awaited') = Cardinality(awaited) + 1
      BY <1>0, <3>1, <3>2, FS_AddElement
    <3>7. QED
      BY <1>0, <2>2, <3>5, <3>6 DEF SlotInv
  <2>6. QED
    BY <2>1, <2>4, <2>5
<1>2. CASE Arrival
  <2>1. PICK new \in transfers : DataHandlerThread(new)
    BY <1>2 DEF Arrival
  <2>2. TakeCall(new) /\ mNumReqInFlight' = mNumReqInFlight - 1 /\ UNCHANGED <<failed, requesting>>
    BY <2>1 DEF DataHandlerThread, requestVars
  <2>3. Cardinality(awaited') = Cardinality(awaited) - 1
    BY <2>2, CallTaken DEF ReceiveType
  <2>4. Uncounted' = Uncounted /\ Uncounted \in Nat
    BY <2>2, UncountedNow
  <2>5. QED
    <3>1. UNCHANGED failed /\ mNumReqInFlight' = mNumReqInFlight - 1
      BY <2>2
    <3>2. mNumReqInFlight - 1 + Uncounted = Cardinality(awaited) - 1 + Cardinality(failed)
      BY <1>0, <2>4 DEF SlotInv
    <3>3. QED
      BY <2>3, <2>4, <3>1, <3>2 DEF SlotInv
<1>3. CASE Failure
  <2>1. PICK new \in transfers : TransferFails(new)
    BY <1>3 DEF Failure
  <2>2. /\ TakeCall(new) /\ failed' = failed \union {new}
        /\ UNCHANGED <<mNumReqInFlight, requesting>>
    BY <2>1 DEF TransferFails, requestVars
  <2>3. Cardinality(awaited') = Cardinality(awaited) - 1
    BY <2>2, CallTaken DEF ReceiveType
  <2>4. new \notin failed
    BY DEF TransferInv, PlaceInv, ReceiveType
  <2>5. Cardinality(failed') = Cardinality(failed) + 1
    BY <1>0, <2>2, <2>4, FS_AddElement
  <2>6. Uncounted' = Uncounted /\ Uncounted \in Nat
    BY <2>2, UncountedNow
  <2>7. QED
    BY <1>0, <2>2, <2>3, <2>5, <2>6 DEF SlotInv
<1>4. CASE UNCHANGED receiveVars /\ Uncounted' = Uncounted
  BY <1>4 DEF SlotInv, receiveVars
<1>5. CASE UNCHANGED <<receiveVars, requesting>>
  BY <1>4, <1>5, UncountedNow
<1>6. CASE RunStep
  BY <1>6, <1>5 DEF RunStep, ResetInput, PreRun, PostRun, requestVars
<1>7. CASE AcceptTf
  BY <1>7, <1>5 DEF AcceptTf, BuildTfRequest
<1>8. CASE TakeRequest
  <2>1. PICK r : r = [request |-> Head(mStfRequestQueue), left |-> Head(mStfRequestQueue).tf.stfs,
                      expected |-> 0, counting |-> FALSE, deleting |-> FALSE]
    OBVIOUS
  <2>2. requesting = <<>> /\ requesting' = <<r>> /\ UNCHANGED receiveVars
    BY <1>8, <2>1 DEF TakeRequest
  <2>3. ~requesting'[1].counting
    BY <2>1, <2>2
  <2>4. QED
    BY <2>2, <2>3, <1>4, UncountedNow
<1>9. CASE CountRequest
  <2>1. /\ requesting # <<>> /\ requesting[1].counting /\ mNumReqInFlight' = mNumReqInFlight + 1
        /\ requesting' = <<[requesting[1] EXCEPT !.counting = FALSE]>> /\ requesting[1] \in Asking
    BY <1>9, Counts, Requesting
  <2>2. requesting'[1] = [requesting[1] EXCEPT !.counting = FALSE]
    BY <2>1
  <2>3. ~requesting'[1].counting
    BY <2>1, <2>2 DEF Asking
  <2>4. Uncounted = 1 /\ Uncounted' = 0
    BY <2>1, <2>3, UncountedNow
  <2>5. UNCHANGED <<awaited, failed>>
    BY <1>9 DEF CountRequest
  <2>6. QED
    BY <1>0, <2>1, <2>4, <2>5 DEF SlotInv
<1>10. CASE FinishRequests
  <2>1. requesting # <<>> /\ ~requesting[1].counting /\ UNCHANGED receiveVars
    BY <1>10 DEF FinishRequests
  <2>2. PICK old \in Asking : old = requesting[1]
    BY <2>1, Requesting
  <2> DEFINE r == [old EXCEPT !.deleting = TRUE]
  <2>3. r.counting = old.counting
    BY <2>2 DEF Asking
  <2>4. requesting' = <<>> \/ requesting' = <<r>>
    BY <1>10, <2>1, <2>2, Requesting DEF FinishRequests
  <2> HIDE DEF r
  <2>5. requesting' = <<>> \/ ~requesting'[1].counting
    BY <2>1, <2>2, <2>3, <2>4
  <2>6. QED
    BY <2>1, <2>5, <1>4, UncountedNow
<1>11. CASE DeleteTf
  <2>1. requesting # <<>> /\ requesting[1].deleting /\ requesting' = <<>> /\ UNCHANGED receiveVars
    BY <1>11 DEF DeleteTf
  <2>2. ~requesting[1].counting
    BY <2>1, AskedTf
  <2>3. QED
    BY <2>1, <2>2, <1>4, UncountedNow
<1>12. CASE StfPacingThread \/ StfDeserializingThread \/ TakeTf \/ MergeTf \/ QueueTf
  BY <1>12, <1>5 DEF StfPacingThread, StfDeserializingThread, TakeTf, MergeTf, QueueTf, requestVars
<1>13. CASE ForwardStep \/ UNCHANGED vars
  BY <1>13, <1>5 DEF vars, ForwardStep, DropTf, ForwardTf, TfForwarded, requestVars
<1>14. QED
  BY <1>1, <1>2, <1>3, <1>6, <1>7, <1>8, <1>9, <1>10, <1>11, <1>12, <1>13, Steps

\* The queue of requests.
LEMMA HasAppended ==
  ASSUME NEW q \in Seq(Request), NEW x \in Request
  PROVE  /\ \A tf : Has(Append(q, x), tf) <=> Has(q, tf) \/ x.tf = tf
         /\ Alone(q) /\ ~Has(q, x.tf) => Alone(Append(q, x))
<1> DEFINE a == Append(q, x)
           n == Len(q)
<1>1. /\ n \in Nat /\ DOMAIN q = 1 .. n
      /\ n + 1 \in DOMAIN a /\ a[n + 1] = x
      /\ \A i \in DOMAIN q : i \in DOMAIN a /\ a[i] = q[i]
      /\ \A i \in DOMAIN a : \/ i \in DOMAIN q /\ a[i] = q[i]
                             \/ i = n + 1 /\ a[i] = x
  BY Appended
<1> HIDE DEF a, n
<1>2. \A tf : Has(a, tf) <=> Has(q, tf) \/ x.tf = tf
  BY <1>1 DEF Has
<1>3. ASSUME Alone(q), ~Has(q, x.tf), NEW i \in DOMAIN a, NEW j \in DOMAIN a, a[i].tf = a[j].tf
      PROVE  i = j
  <2>1. CASE i \in DOMAIN q /\ a[i] = q[i] /\ j \in DOMAIN q /\ a[j] = q[j]
    BY <1>3, <2>1 DEF Alone
  <2>2. CASE i \in DOMAIN q /\ a[i] = q[i] /\ j = n + 1 /\ a[j] = x
    BY <1>3, <2>2 DEF Has
  <2>3. CASE i = n + 1 /\ a[i] = x /\ j \in DOMAIN q /\ a[j] = q[j]
    BY <1>3, <2>3 DEF Has
  <2>4. QED
    BY <1>1, <2>1, <2>2, <2>3
<1>4. QED
  BY <1>2, <1>3 DEF Alone, a

LEMMA HasTailed ==
  ASSUME NEW q \in Seq(Request), q # <<>>
  PROVE  /\ \A tf : Has(Tail(q), tf) => Has(q, tf)
         /\ \A tf : Has(q, tf) => tf = Head(q).tf \/ Has(Tail(q), tf)
         /\ Has(q, Head(q).tf)
         /\ Alone(q) => Alone(Tail(q)) /\ ~Has(Tail(q), Head(q).tf)
<1> DEFINE t == Tail(q)
<1>1. \A i \in DOMAIN t : i + 1 \in DOMAIN q /\ t[i] = q[i + 1] /\ i \in Nat \ {0}
  BY Tailed
<1>2. Head(q) = q[1] /\ 1 \in DOMAIN q
  BY Tailed
<1>3. \A i \in DOMAIN q : i = 1 \/ (i - 1 \in DOMAIN t /\ t[i - 1] = q[i])
  BY Tailed
<1> HIDE DEF t
<1>4. \A tf : Has(t, tf) => Has(q, tf)
  BY <1>1 DEF Has
<1>5. \A tf : Has(q, tf) => tf = Head(q).tf \/ Has(t, tf)
  BY <1>2, <1>3 DEF Has
<1>6. Has(q, Head(q).tf)
  BY <1>2 DEF Has
<1>7. ASSUME Alone(q), NEW i \in DOMAIN t, NEW j \in DOMAIN t, t[i].tf = t[j].tf
      PROVE  i = j
  <2>1. i + 1 = j + 1
    BY <1>1, <1>7 DEF Alone
  <2>2. QED
    BY <1>1, <2>1
<1>8. ASSUME Alone(q), NEW i \in DOMAIN t, t[i].tf = Head(q).tf
      PROVE  FALSE
  <2>1. i + 1 = 1
    BY <1>1, <1>2, <1>8 DEF Alone
  <2>2. QED
    BY <1>1, <2>1
<1>9. QED
  BY <1>4, <1>5, <1>6, <1>7, <1>8 DEF Alone, Has, t

\* How the set of TFs that wait, and of the one being asked for, changes.
LEMMA AcceptQueued ==
  ASSUME RequestType, TopoType, ReceiveType, AskInv, NEW tf \in Tfs, MayBeRequested(tf), BuildTfRequest(tf)
  PROVE  /\ accepted' = accepted \union {tf} /\ tf \notin accepted /\ UNCHANGED requesting
         /\ \A other : Queued(other)' <=> Queued(other) \/ other = tf
         /\ Alone(mStfRequestQueue')
<1>1. /\ accepted' = accepted \union {tf}
      /\ [tf |-> tf, key |-> NewKey(tf)] \in Request
      /\ mStfRequestQueue' = Append(mStfRequestQueue, [tf |-> tf, key |-> NewKey(tf)])
  BY Accepting
<1>2. tf \notin accepted /\ UNCHANGED requesting
  BY DEF MayBeRequested, BuildTfRequest
<1>3. ~Has(mStfRequestQueue, tf)
  BY <1>2 DEF AskInv, Queued
<1>4. mStfRequestQueue \in Seq(Request) /\ Alone(mStfRequestQueue)
  BY DEF RequestType, AskInv
<1> DEFINE x == [tf |-> tf, key |-> NewKey(tf)]
<1>5. x \in Request /\ x.tf = tf
  BY <1>1
<1> HIDE DEF x
<1>6. /\ \A other : Has(Append(mStfRequestQueue, x), other) <=> Has(mStfRequestQueue, other) \/ x.tf = other
      /\ Alone(Append(mStfRequestQueue, x))
  BY <1>3, <1>4, <1>5, HasAppended
<1>7. mStfRequestQueue' = Append(mStfRequestQueue, x)
  BY <1>1 DEF x
<1>8. QED
  BY <1>1, <1>2, <1>5, <1>6, <1>7 DEF Queued

\* StfRequestThread with the request r in its hands.
Holds(r) ==
  requesting' # <<>> /\ requesting'[1] = r

LEMMA Holding ==
  ASSUME NEW r, Holds(r)
  PROVE  \A tf : Asked(tf)' <=> r.request.tf = tf
BY DEF Holds, Asked

LEMMA TakeQueued ==
  ASSUME RequestType, AskInv, TakeRequest
  PROVE  \E r \in Asking :
           /\ Holds(r) /\ requesting = <<>> /\ UNCHANGED accepted
           /\ ~r.deleting /\ r.left = r.request.tf.stfs /\ r.expected = 0 /\ r.request.tf \in Tfs
           /\ r.request = mStfRequestQueue[1] /\ 1 \in DOMAIN mStfRequestQueue
           /\ Queued(r.request.tf)
           /\ \A tf : Queued(tf)' <=> Queued(tf) /\ tf # r.request.tf
           /\ Alone(mStfRequestQueue')
<1>1. mStfRequestQueue \in Seq(Request) /\ mStfRequestQueue # <<>> /\ Alone(mStfRequestQueue)
      /\ mStfRequestQueue' = Tail(mStfRequestQueue) /\ UNCHANGED accepted
  BY DEF TakeRequest, RequestType, AskInv
<1>2. PICK head \in Request : head = Head(mStfRequestQueue)
  BY <1>1, Tailed
<1>3. head = mStfRequestQueue[1] /\ 1 \in DOMAIN mStfRequestQueue /\ head.tf \in Tfs
  BY <1>1, <1>2, Tailed DEF Request
<1> DEFINE r == [request |-> head, left |-> head.tf.stfs, expected |-> 0, counting |-> FALSE,
              deleting |-> FALSE]
<1>4. requesting = <<>> /\ requesting' = <<r>>
  BY <1>2 DEF TakeRequest
<1>5. r.request = head /\ r.left = head.tf.stfs /\ r.expected = 0 /\ ~r.deleting /\ r \in Asking
  BY <1>3, TfParts DEF Asking
<1> HIDE DEF r
<1>6. Holds(r)
  BY <1>4 DEF Holds
<1>7. /\ \A tf : Has(Tail(mStfRequestQueue), tf) => Has(mStfRequestQueue, tf)
      /\ \A tf : Has(mStfRequestQueue, tf) => tf = head.tf \/ Has(Tail(mStfRequestQueue), tf)
      /\ Has(mStfRequestQueue, head.tf)
      /\ Alone(Tail(mStfRequestQueue)) /\ ~Has(Tail(mStfRequestQueue), head.tf)
  BY <1>1, <1>2, HasTailed
<1>8. /\ \A tf : Queued(tf)' <=> Queued(tf) /\ tf # head.tf
      /\ Queued(head.tf) /\ Alone(mStfRequestQueue')
  BY <1>1, <1>7 DEF Queued
<1>9. QED
  BY <1>1, <1>3, <1>4, <1>5, <1>6, <1>8

LEMMA AskQueued ==
  ASSUME RequestType, AskStfSenders
  PROVE  /\ requesting # <<>>
         /\ \E r \in Asking : \E s \in requesting[1].left :
              /\ Holds(r) /\ r.request = requesting[1].request
              /\ r.left = requesting[1].left \ {s}
              /\ r.deleting = requesting[1].deleting
              /\ \/ AskSends(s) /\ r.expected = requesting[1].expected + 1
                 \/ AskRefuses(s) /\ r.expected = requesting[1].expected
                 \/ AskUnasked(s) /\ r.expected = requesting[1].expected
<1>1. requesting # <<>>
  BY Asks
<1>2. PICK s \in requesting[1].left : AskSends(s) \/ AskRefuses(s) \/ AskUnasked(s)
  BY Asks
<1>3. requesting[1] \in Asking
  BY <1>1, Requesting
<1>4. PICK r \in Asking : r = requesting[1]
  BY <1>3
<1> DEFINE r1 == [r EXCEPT !.left = @ \ {s}, !.expected = @ + 1, !.counting = TRUE]
           r2 == [r EXCEPT !.left = @ \ {s}]
<1>5. /\ r1.request = r.request /\ r1.left = r.left \ {s} /\ r1.deleting = r.deleting
      /\ r1.expected = r.expected + 1
      /\ r2.request = r.request /\ r2.left = r.left \ {s} /\ r2.deleting = r.deleting
      /\ r2.expected = r.expected
  BY <1>3 DEF Asking
<1>6. r1 \in Asking /\ r2 \in Asking
  BY AskingUpdates, Zenon
<1>7. /\ AskSends(s) => requesting' = <<r1>>
      /\ AskRefuses(s) \/ AskUnasked(s) => requesting' = <<r2>>
  BY <1>4 DEF AskSends, AskRefuses, AskUnasked
<1> HIDE DEF r1, r2
<1>8. (AskSends(s) => Holds(r1)) /\ (AskRefuses(s) \/ AskUnasked(s) => Holds(r2))
  BY <1>7 DEF Holds
<1>9. QED
  BY <1>1, <1>2, <1>4, <1>5, <1>6, <1>8

LEMMA FinishQueued ==
  ASSUME RequestType, FinishRequests
  PROVE  /\ requesting # <<>> /\ requesting[1].left = {} /\ ~requesting[1].deleting
         /\ ~requesting[1].counting
         /\ \/ requesting[1].expected # 0 /\ requesting' = <<>>
            \/ /\ requesting[1].expected = 0
               /\ \E r \in Asking : /\ Holds(r) /\ r.request = requesting[1].request
                                    /\ r.left = {} /\ r.expected = 0 /\ r.deleting
                                    /\ ~r.counting
<1>1. /\ requesting # <<>> /\ requesting[1].left = {}
      /\ ~requesting[1].deleting /\ ~requesting[1].counting
  BY DEF FinishRequests
<1>2. requesting[1] \in Asking /\ requesting = <<requesting[1]>>
  BY <1>1, Requesting
<1>3. PICK old \in Asking : old = requesting[1]
  BY <1>2
<1> DEFINE r == [old EXCEPT !.deleting = TRUE]
<1>4. r.request = old.request /\ r.left = old.left /\ r.deleting /\ r.expected = old.expected
      /\ r.counting = old.counting
  BY <1>3 DEF Asking
<1>5. r \in Asking
  BY AskingUpdates, Zenon
<1>6. CASE requesting[1].expected = 0
  <2>1. requesting' = [requesting EXCEPT ![1].deleting = TRUE]
    BY <1>6 DEF FinishRequests
  <2>2. requesting' = <<r>>
    <3>1. [requesting EXCEPT ![1].deleting = TRUE] = <<[requesting[1] EXCEPT !.deleting = TRUE]>>
      BY <1>1, Requesting
    <3>2. QED
      BY <1>3, <2>1, <3>1
  <2> HIDE DEF r
  <2>3. Holds(r)
    BY <2>2 DEF Holds
  <2>4. QED
    BY <1>1, <1>3, <1>4, <1>5, <1>6, <2>3
<1>7. CASE requesting[1].expected # 0
  <2>1. requesting' = <<>>
    BY <1>7 DEF FinishRequests
  <2>2. QED
    BY <1>1, <1>7, <2>1
<1>8. QED
  BY <1>6, <1>7

LEMMA CountQueued ==
  ASSUME RequestType, AskInv, CountRequest
  PROVE  /\ requesting # <<>> /\ ~requesting[1].deleting
         /\ \E r \in Asking :
              /\ Holds(r) /\ r.request = requesting[1].request /\ r.left = requesting[1].left
              /\ r.expected = requesting[1].expected /\ ~r.deleting
<1>1. /\ requesting # <<>> /\ requesting[1].counting
      /\ requesting' = <<[requesting[1] EXCEPT !.counting = FALSE]>> /\ requesting[1] \in Asking
  BY Counts, Requesting
<1>2. ~requesting[1].deleting
  BY <1>1, AskedTf
<1>3. PICK old \in Asking : old = requesting[1]
  BY <1>1
<1> DEFINE r == [old EXCEPT !.counting = FALSE]
<1>4. r.request = old.request /\ r.left = old.left /\ r.expected = old.expected
      /\ r.deleting = old.deleting
  BY <1>3 DEF Asking
<1>5. r \in Asking
  BY AskingUpdates, Zenon
<1>6. requesting' = <<r>>
  BY <1>1, <1>3
<1> HIDE DEF r
<1>7. Holds(r)
  BY <1>6 DEF Holds
<1>8. QED
  BY <1>1, <1>2, <1>3, <1>4, <1>5, <1>7

LEMMA AskStep ==
  ASSUME ReceiveType, RequestType, TopoType, MergeType, TransferInv, AskInv, Sending, [Next]_vars
  PROVE  AskInv'
<1>1. CASE AcceptTf
  <2>1. PICK tf \in Tfs : MayBeRequested(tf) /\ BuildTfRequest(tf)
    BY <1>1 DEF AcceptTf
  <2>2. /\ accepted' = accepted \union {tf} /\ tf \notin accepted /\ UNCHANGED requesting
        /\ \A other : Queued(other)' <=> Queued(other) \/ other = tf
        /\ Alone(mStfRequestQueue')
    BY <2>1, AcceptQueued
  <2>3. \A stf \in Stfs : Sent(stf)' <=> Sent(stf)
    BY <1>1, AcceptPlaces DEF Still, Sent, Arriving
  <2>4. Unsent(tf)
    <3>1. ASSUME NEW s \in StfSenders PROVE ~Sent(Stf(tf, s))
      <4>1. Stf(tf, s) \in Stfs /\ Stf(tf, s).tf = tf
        BY StfParts
      <4>2. QED
        BY <4>1, <2>2 DEF TransferInv, SentInv
    <3>2. QED
      BY <3>1 DEF Unsent
  <2>5. \A other \in Tfs : Unsent(other) => Unsent(other)'
    BY <2>3, StfParts DEF Unsent
  <2>6. ~Asked(tf) /\ \A other : Asked(other)' <=> Asked(other)
    BY <2>2 DEF Asked, AskInv
  <2>7. \A other \in Tfs : Queued(other)' => other \in accepted' /\ Unsent(other)' /\ ~Asked(other)'
    BY <2>2, <2>4, <2>5, <2>6 DEF AskInv
  <2>8. \A other \in Tfs : Asked(other) =>
          \A s \in StfSenders : s \in requesting[1].left => ~Sent(Stf(other, s))'
    BY <2>3, StfParts DEF AskInv
  <2>9. QED
    BY <2>2, <2>6, <2>7, <2>8 DEF AskInv
<1>2. CASE TakeRequest
  <2>1. PICK r \in Asking :
           /\ Holds(r) /\ requesting = <<>> /\ UNCHANGED accepted
           /\ ~r.deleting /\ r.left = r.request.tf.stfs /\ r.request.tf \in Tfs
           /\ Queued(r.request.tf)
           /\ \A tf : Queued(tf)' <=> Queued(tf) /\ tf # r.request.tf
           /\ Alone(mStfRequestQueue')
    BY <1>2, TakeQueued
  <2>2. UNCHANGED <<transfers, failed, mReceivedDataQueue, mergeStfs>>
    BY <1>2 DEF TakeRequest, receiveVars, mergeVars
  <2>3. \A stf \in Stfs : Sent(stf)' <=> Sent(stf)
    BY <2>1, <2>2, Unmoved DEF Still, Sent, Arriving
  <2>4. \A tf \in Tfs : Unsent(tf) => Unsent(tf)'
    BY <2>3, StfParts DEF Unsent
  <2>5. \A tf : Asked(tf)' <=> r.request.tf = tf
    BY <2>1, Holding
  <2>6. \A tf \in Tfs : Queued(tf)' => tf \in accepted' /\ Unsent(tf)' /\ ~Asked(tf)'
    BY <2>1, <2>4, <2>5 DEF AskInv
  <2>7. \A tf \in Tfs : Asked(tf)' => tf \in accepted' /\ Unsent(tf)'
    BY <2>1, <2>4, <2>5 DEF AskInv
  <2>8. \A tf \in Tfs : Asked(tf)' =>
       /\ requesting'[1].left \subseteq tf.stfs
       /\ \A s \in StfSenders : s \in requesting'[1].left => ~Sent(Stf(tf, s))'
       /\ requesting'[1].deleting => requesting'[1].left = {} /\ ~requesting'[1].counting
    BY <2>1, <2>5, <2>7 DEF Holds, Unsent
  <2>9. QED
    BY <2>1, <2>6, <2>7, <2>8 DEF AskInv
<1>3. CASE AskStfSenders
  <2>1. PICK r \in Asking, s \in StfSenders :
              /\ s \in requesting[1].left /\ Holds(r) /\ r.request = requesting[1].request
              /\ r.left = requesting[1].left \ {s} /\ r.deleting = requesting[1].deleting
              /\ AskSends(s) \/ AskRefuses(s) \/ AskUnasked(s)
    BY <1>3, AskQueued, Requesting
  <2>2. UNCHANGED <<accepted, mStfRequestQueue>> /\ requesting # <<>>
    BY <1>3 DEF AskStfSenders
  <2>3. \A other : (Asked(other)' <=> Asked(other)) /\ (Queued(other)' <=> Queued(other))
    BY <2>1, <2>2, Holding DEF Asked, Queued
  <2>4. \A stf \in Stfs : Sent(stf)' => Sent(stf) \/ (Asked(stf.tf) /\ stf.from \notin r.left)
    <3>1. ASSUME NEW stf \in Stfs, Delivers(stf.from), stf.from \in r.left PROVE FALSE
      <4>1. PICK t \in StfSenders : t = stf.from
        BY StfParts
      <4>2. PICK old \in Asking : old = requesting[1]
        BY <2>2, Requesting
      <4> DEFINE r1 == [old EXCEPT !.left = @ \ {t}, !.expected = @ + 1, !.counting = TRUE]
                 r2 == [old EXCEPT !.left = @ \ {t}]
      <4>3. r1.left = old.left \ {t} /\ r2.left = old.left \ {t}
        BY <4>2 DEF Asking
      <4>4. requesting' = <<r1>> \/ requesting' = <<r2>>
        BY <3>1, <4>1, <4>2 DEF Delivers, AskSends, AskUnasked
      <4> HIDE DEF r1, r2
      <4>5. r = r1 \/ r = r2
        BY <2>1, <4>4 DEF Holds
      <4>6. QED
        BY <3>1, <4>1, <4>3, <4>5
    <3>2. QED
      BY <3>1 DEF Sending, SentNow, Asked
  <2>5. \A other \in Tfs : Unsent(other) /\ ~Asked(other) => Unsent(other)'
    BY <2>4, StfParts DEF Unsent
  <2>6. \A other \in Tfs : Queued(other)' => other \in accepted' /\ Unsent(other)' /\ ~Asked(other)'
    BY <2>2, <2>3, <2>5 DEF AskInv
  <2>7. Alone(mStfRequestQueue')
    BY <2>2 DEF AskInv
  <2>8. \A other \in Tfs : Asked(other)' =>
          \A t \in StfSenders : t \in r.left => ~Sent(Stf(other, t))'
    BY <2>1, <2>3, <2>4, StfParts DEF AskInv
  <2>9. \A other \in Tfs : Asked(other)' =>
          other \in accepted' /\ r.left \subseteq other.stfs /\ ~r.deleting
    BY <2>1, <2>2, <2>3 DEF AskInv
  <2>10. requesting'[1] = r
    BY <2>1 DEF Holds
  <2>11. QED
    BY <2>6, <2>7, <2>8, <2>9, <2>10 DEF AskInv
<1>4. ASSUME UNCHANGED <<accepted, mStfRequestQueue>>, ~AskStfSenders,
             \A tf : Asked(tf)' =>
               /\ Asked(tf)
               /\ requesting'[1].left = requesting[1].left
               /\ requesting'[1].deleting => requesting[1].left = {} /\ ~requesting'[1].counting
      PROVE  AskInv'
  <2>1. \A stf \in Stfs : Sent(stf)' => Sent(stf)
    BY <1>4 DEF Sending, SentNow
  <2>2. \A tf \in Tfs : Unsent(tf) => Unsent(tf)'
    BY <2>1, StfParts DEF Unsent
  <2>3. \A tf : Queued(tf)' <=> Queued(tf)
    BY <1>4 DEF Queued
  <2>4. \A tf \in Tfs : Queued(tf)' => tf \in accepted' /\ Unsent(tf)' /\ ~Asked(tf)'
    BY <1>4, <2>2, <2>3 DEF AskInv
  <2>5. \A tf \in Tfs : Asked(tf) =>
          \A s \in StfSenders : s \in requesting[1].left => ~Sent(Stf(tf, s))'
    BY <2>1, StfParts DEF AskInv
  <2>6. QED
    BY <1>4, <2>4, <2>5 DEF AskInv
<1>5. CASE FinishRequests
  <2>1. UNCHANGED <<accepted, mStfRequestQueue>>
    BY <1>5 DEF FinishRequests
  <2>2. requesting # <<>> /\ requesting[1].left = {} /\ ~AskStfSenders
    BY <1>5, FinishQueued, Asks
  <2>3. CASE requesting' = <<>>
    BY <2>1, <2>2, <2>3, <1>4 DEF Asked
  <2>4. CASE \E r \in Asking :
               Holds(r) /\ r.request = requesting[1].request /\ r.left = {} /\ ~r.counting
    <3>1. PICK r \in Asking :
            Holds(r) /\ r.request = requesting[1].request /\ r.left = {} /\ ~r.counting
      BY <2>4
    <3>2. \A tf : Asked(tf)' => Asked(tf)
      BY <2>2, <3>1, Holding DEF Asked
    <3>3. requesting'[1].left = {} /\ ~requesting'[1].counting
      BY <3>1 DEF Holds
    <3>4. QED
      BY <2>1, <2>2, <3>2, <3>3, <1>4
  <2>5. QED
    BY <1>5, <2>3, <2>4, FinishQueued
<1>6. CASE UNCHANGED <<accepted, mStfRequestQueue, requesting>>
  <2>1. CASE AskStfSenders
    BY <2>1, <1>3
  <2>2. CASE ~AskStfSenders
    <3>1. \A tf : Asked(tf) /\ requesting[1].deleting =>
            requesting[1].left = {} /\ ~requesting[1].counting
      BY AskedTf DEF Asked
    <3>2. \A tf : Asked(tf)' <=> Asked(tf)
      BY <1>6 DEF Asked
    <3>3. QED
      BY <1>6, <2>2, <3>1, <3>2, <1>4
  <2>3. QED
    BY <2>1, <2>2
<1>7. CASE DeleteTf
  <2>1. UNCHANGED <<accepted, mStfRequestQueue>> /\ requesting' = <<>>
    BY <1>7 DEF DeleteTf
  <2>2. CASE AskStfSenders
    BY <2>2, <1>3
  <2>3. CASE ~AskStfSenders
    BY <2>1, <2>3, <1>4 DEF Asked
  <2>4. QED
    BY <2>2, <2>3
<1>12. CASE CountRequest
  <2>1. PICK r \in Asking :
          /\ Holds(r) /\ r.request = requesting[1].request /\ r.left = requesting[1].left
          /\ ~r.deleting
    BY <1>12, CountQueued
  <2>2. requesting # <<>> /\ requesting[1].counting /\ UNCHANGED <<accepted, mStfRequestQueue>>
    BY <1>12 DEF CountRequest
  <2>3. ~AskStfSenders
    BY <2>2, Asks
  <2>4. \A tf : Asked(tf)' => Asked(tf)
    BY <2>1, <2>2, Holding DEF Asked
  <2>5. requesting'[1] = r
    BY <2>1 DEF Holds
  <2>6. QED
    BY <2>1, <2>2, <2>3, <2>4, <2>5, <1>4
<1>8. CASE RunStep
  BY <1>8, <1>6 DEF RunStep, ResetInput, PreRun, PostRun, requestVars
<1>9. CASE Arrival \/ Failure \/ StfPacingThread \/ StfDeserializingThread \/ MergeTf \/ QueueTf
  BY <1>9, <1>6 DEF requestVars, Arrival, Failure, DataHandlerThread, TransferFails, StfPacingThread,
              StfDeserializingThread, MergeTf, QueueTf
<1>10. CASE TakeTf \/ ForwardStep \/ UNCHANGED vars
  BY <1>10, <1>6 DEF requestVars, vars, TakeTf, ForwardStep, DropTf, ForwardTf, TfForwarded
<1>11. QED
  BY <1>1, <1>2, <1>3, <1>5, <1>7, <1>8, <1>9, <1>10, <1>12, Steps

-----------------------------------------------------------------------------
\* What holds in all runs.
Base ==
  /\ RunType /\ RequestType /\ CountType /\ TopoType /\ ReceiveType /\ MergeType /\ OutType /\ SizeType
  /\ TransferInv /\ AskInv /\ SlotInv /\ BufferInv

LEMMA BaseInit ==
  ASSUME Init
  PROVE  Base
<1>1. RunType /\ CountType /\ SizeType /\ TopoType
  <2>1. RunType
    <3>1. run \in 0 .. MaxRuns
      BY TfBuilderAssumption DEF Init
    <3>2. mInRunningState = FALSE /\ resetting = FALSE /\ crashed = FALSE
      BY DEF Init
    <3>3. QED
      BY <3>1, <3>2, Zenon DEF RunType
  <2>2. CountType /\ TopoType
    BY DEF Init, CountType, TopoType
  <2>3. SizeType
    BY TfBuilderAssumption DEF Init, SizeType
  <2>4. QED
    BY <2>1, <2>2, <2>3
<1>2. RequestType /\ ReceiveType /\ MergeType /\ OutType
  BY TfBuilderAssumption, EmptySeq DEF Init, RequestType, ReceiveType, MergeType, OutType
<1>3. \A stf : ~Sent(stf)
  BY DEF Init, Sent, Arriving, Stored, In
<1>4. TransferInv
  BY <1>3 DEF Init, TransferInv, SentInv, PlaceInv, Once, Sent
<1>5. AskInv
  BY DEF Init, AskInv, Queued, Has, Asked, Alone
<1>6. SlotInv /\ BufferInv
  BY FS_EmptySet DEF Init, SlotInv, BufferInv, Uncounted
<1>7. QED
  BY <1>1, <1>2, <1>4, <1>5, <1>6 DEF Base

LEMMA BaseStep ==
  ASSUME Base, [Next]_vars
  PROVE  Base' /\ Sending
<1>1. RunType' /\ RequestType' /\ CountType' /\ TopoType'
  BY RunTypeStep, RequestTypeStep, CountTypeStep, TopoTypeStep DEF Base
<1>2. ReceiveType' /\ MergeType' /\ OutType' /\ SizeType' /\ BufferInv'
  BY ReceiveTypeStep, MergeTypeStep, OutTypeStep, BufferStep DEF Base
<1>3. TransferInv' /\ Sending
  BY TransferStep DEF Base
<1>4. AskInv' /\ SlotInv'
  BY <1>3, AskStep, SlotStep DEF Base
<1>5. QED
  BY <1>1, <1>2, <1>3, <1>4 DEF Base

\* TypeOK: the variables keep their types, the maps have one entry of a key, and the counters
\* never wrap below zero, through all the runs and resets of TfBuilder.  mNumReqInFlight is at
\* least -1: a receiving thread may end a transfer that StfRequestThread has queued and not yet
\* counted, but not more than that one.
THEOREM TypesAreKept == Spec => []TypeOK
<1>1. Init => Base
  BY BaseInit
<1>2. Base /\ [Next]_vars => Base'
  BY BaseStep
<1>3. Base => TypeOK
  BY TypeParts DEF Base
<1>4. QED
  BY <1>1, <1>2, <1>3, PTL DEF Spec

-----------------------------------------------------------------------------
\* What Append and Tail keep of the queue of the pacing thread.
LEMMA RisingAppended ==
  ASSUME NEW q \in Seq(Item), NEW x \in Item, Rising(q),
         x.type = "ADD" => \A key \in Nat : In(q, ADD(key)) => key < x.key
  PROVE  Rising(Append(q, x))
<1> DEFINE a == Append(q, x)
           n == Len(q)
<1>1. /\ n \in Nat /\ DOMAIN q = 1 .. n
      /\ \A i \in DOMAIN a : \/ i \in DOMAIN q /\ a[i] = q[i]
                             \/ i = n + 1 /\ a[i] = x
  BY Appended
<1> HIDE DEF a, n
<1>2. ASSUME NEW i \in DOMAIN a, NEW j \in DOMAIN a, i < j, a[i].type = "ADD", a[j].type = "ADD"
      PROVE  a[i].key < a[j].key
  <2>1. i \in DOMAIN q /\ a[i] = q[i]
    BY <1>1, <1>2
  <2>2. CASE j \in DOMAIN q /\ a[j] = q[j]
    BY <1>2, <2>1, <2>2 DEF Rising
  <2>3. CASE a[j] = x
    <3>1. q[i] \in Item /\ q[i].type = "ADD"
      BY <1>2, <2>1, ElementOfSeq, <1>1, LenProperties
    <3>2. q[i].key \in Nat /\ q[i] = ADD(q[i].key)
      BY <3>1, Items
    <3>3. In(q, ADD(q[i].key))
      BY <2>1, <3>2 DEF In
    <3>4. QED
      BY <1>2, <2>1, <2>3, <3>2, <3>3
  <2>4. QED
    BY <1>1, <2>2, <2>3
<1>3. QED
  BY <1>2 DEF Rising, a

LEMMA RisingTailed ==
  ASSUME NEW q \in Seq(Item), q # <<>>, Rising(q)
  PROVE  /\ Rising(Tail(q))
         /\ \A n \in Nat : Head(q) = ADD(n) => Behind(Tail(q), n)
<1> DEFINE t == Tail(q)
<1>1. /\ \A i \in DOMAIN t : i + 1 \in DOMAIN q /\ t[i] = q[i + 1] /\ i \in Nat \ {0}
      /\ Head(q) = q[1] /\ 1 \in DOMAIN q
  BY Tailed
<1> HIDE DEF t
<1>2. ASSUME NEW i \in DOMAIN t, NEW j \in DOMAIN t, i < j, t[i].type = "ADD", t[j].type = "ADD"
      PROVE  t[i].key < t[j].key
  <2>1. i + 1 < j + 1
    BY <1>1, <1>2
  <2>2. QED
    BY <1>1, <1>2, <2>1 DEF Rising
<1>3. ASSUME NEW n \in Nat, Head(q) = ADD(n), NEW key \in Nat, NEW i \in DOMAIN t, t[i] = ADD(key)
      PROVE  n < key
  <2>1. 1 < i + 1
    BY <1>1
  <2>2. q[1].type = "ADD" /\ q[1].key = n /\ q[i + 1].type = "ADD" /\ q[i + 1].key = key
    BY <1>1, <1>3, Items
  <2>3. QED
    BY <1>1, <2>1, <2>2 DEF Rising
<1>4. QED
  BY <1>2, <1>3 DEF Rising, Behind, In, t

LEMMA AnnouncedAppended ==
  ASSUME NEW q \in Seq(Item), NEW x \in Item, NEW k, Announced(q, k),
         x.type = "ADD" => \A stf \in Stfs : In(q, INFO(stf)) => x.key # k[stf.tf]
  PROVE  Announced(Append(q, x), k)
<1> DEFINE a == Append(q, x)
           n == Len(q)
<1>1. /\ n \in Nat /\ DOMAIN q = 1 .. n
      /\ \A i \in DOMAIN a : \/ i \in DOMAIN q /\ a[i] = q[i]
                             \/ i = n + 1 /\ a[i] = x
  BY Appended
<1> HIDE DEF a, n
<1>2. ASSUME NEW i \in DOMAIN a, NEW j \in DOMAIN a, i < j, a[i].type = "INFO", a[j].type = "ADD"
      PROVE  a[j].key # k[a[i].stf.tf]
  <2>1. i \in DOMAIN q /\ a[i] = q[i]
    BY <1>1, <1>2
  <2>2. CASE j \in DOMAIN q /\ a[j] = q[j]
    BY <1>2, <2>1, <2>2 DEF Announced
  <2>3. CASE a[j] = x
    <3>1. q[i] \in Item /\ q[i].type = "INFO"
      BY <1>2, <2>1, ElementOfSeq, <1>1, LenProperties
    <3>2. q[i].stf \in Stfs /\ q[i] = INFO(q[i].stf)
      BY <3>1, Items
    <3>3. In(q, INFO(q[i].stf))
      BY <2>1, <3>2 DEF In
    <3>4. QED
      BY <1>2, <2>1, <2>3, <3>2, <3>3
  <2>4. QED
    BY <1>1, <2>2, <2>3
<1>3. QED
  BY <1>2 DEF Announced, a

LEMMA AnnouncedTailed ==
  ASSUME NEW q \in Seq(Item), q # <<>>, NEW k, Announced(q, k)
  PROVE  /\ Announced(Tail(q), k)
         /\ \A stf \in Stfs : \A key \in Nat :
              Head(q) = INFO(stf) /\ In(Tail(q), ADD(key)) => key # k[stf.tf]
<1> DEFINE t == Tail(q)
<1>1. /\ \A i \in DOMAIN t : i + 1 \in DOMAIN q /\ t[i] = q[i + 1] /\ i \in Nat \ {0}
      /\ Head(q) = q[1] /\ 1 \in DOMAIN q
  BY Tailed
<1> HIDE DEF t
<1>2. ASSUME NEW i \in DOMAIN t, NEW j \in DOMAIN t, i < j, t[i].type = "INFO", t[j].type = "ADD"
      PROVE  t[j].key # k[t[i].stf.tf]
  <2>1. i + 1 < j + 1
    BY <1>1, <1>2
  <2>2. QED
    BY <1>1, <1>2, <2>1 DEF Announced
<1>3. ASSUME NEW stf \in Stfs, NEW key \in Nat, Head(q) = INFO(stf), NEW i \in DOMAIN t, t[i] = ADD(key)
      PROVE  key # k[stf.tf]
  <2>1. 1 < i + 1
    BY <1>1
  <2>2. q[1].type = "INFO" /\ q[1].stf = stf /\ q[i + 1].type = "ADD" /\ q[i + 1].key = key
    BY <1>1, <1>3, Items
  <2>3. QED
    BY <1>1, <2>1, <2>2 DEF Announced
<1>4. QED
  BY <1>2, <1>3 DEF Announced, In, t

LEMMA AnnouncedByOther ==
  ASSUME NEW q \in Seq(Item), NEW k, NEW l, Announced(q, k),
         \A stf \in Stfs : In(q, INFO(stf)) => k[stf.tf] = l[stf.tf]
  PROVE  Announced(q, l)
<1>1. ASSUME NEW i \in DOMAIN q, q[i].type = "INFO"
      PROVE  k[q[i].stf.tf] = l[q[i].stf.tf]
  <2>1. q[i] \in Item
    BY ElementOfSeq, LenProperties
  <2>2. q[i].stf \in Stfs /\ q[i] = INFO(q[i].stf)
    BY <1>1, <2>1, Items
  <2>3. QED
    BY <2>2 DEF In
<1>2. QED
  BY <1>1 DEF Announced

LEMMA ItemsDiffer ==
  /\ \A key, other \in Nat : ADD(key) = ADD(other) <=> key = other
  /\ \A key, other \in Nat : DELETE(key) = DELETE(other) <=> key = other
  /\ \A stf, other \in Stfs : INFO(stf) = INFO(other) <=> stf = other
  /\ \A key, other \in Nat : ADD(key) # DELETE(other)
  /\ \A key \in Nat : \A stf \in Stfs : ADD(key) # INFO(stf) /\ DELETE(key) # INFO(stf)
BY Items

\* The queue of the TFs to merge.
LEMMA ClimbingAppended ==
  ASSUME NEW q \in Seq(KeyedTf), NEW x \in KeyedTf, Climbing(q), \A i \in DOMAIN q : q[i].key < x.key
  PROVE  Climbing(Append(q, x))
<1> DEFINE a == Append(q, x)
           n == Len(q)
<1>1. /\ n \in Nat /\ DOMAIN q = 1 .. n
      /\ \A i \in DOMAIN a : \/ i \in DOMAIN q /\ a[i] = q[i]
                             \/ i = n + 1 /\ a[i] = x
  BY Appended
<1> HIDE DEF a, n
<1>2. ASSUME NEW i \in DOMAIN a, NEW j \in DOMAIN a, i < j
      PROVE  a[i].key < a[j].key
  <2>1. i \in DOMAIN q /\ a[i] = q[i]
    BY <1>1, <1>2
  <2>2. CASE j \in DOMAIN q /\ a[j] = q[j]
    BY <1>2, <2>1, <2>2 DEF Climbing
  <2>3. CASE a[j] = x
    BY <2>1, <2>3
  <2>4. QED
    BY <1>1, <2>2, <2>3
<1>3. QED
  BY <1>2 DEF Climbing, a

LEMMA ClimbingTailed ==
  ASSUME NEW q \in Seq(KeyedTf), q # <<>>, Climbing(q)
  PROVE  /\ Climbing(Tail(q)) /\ Over(Tail(q), Head(q).key)
         /\ \A n \in Nat : Over(q, n) => Over(Tail(q), n) /\ n < Head(q).key
<1> DEFINE t == Tail(q)
<1>1. /\ \A i \in DOMAIN t : i + 1 \in DOMAIN q /\ t[i] = q[i + 1] /\ i \in Nat \ {0}
      /\ Head(q) = q[1] /\ 1 \in DOMAIN q
  BY Tailed
<1> HIDE DEF t
<1>2. ASSUME NEW i \in DOMAIN t, NEW j \in DOMAIN t, i < j
      PROVE  t[i].key < t[j].key
  <2>1. i + 1 < j + 1
    BY <1>1, <1>2
  <2>2. QED
    BY <1>1, <1>2, <2>1 DEF Climbing
<1>3. ASSUME NEW i \in DOMAIN t
      PROVE  Head(q).key < t[i].key
  <2>1. 1 < i + 1
    BY <1>1
  <2>2. QED
    BY <1>1, <2>1 DEF Climbing
<1>4. \A n \in Nat : Over(q, n) => Over(t, n) /\ n < Head(q).key
  BY <1>1 DEF Over
<1>5. QED
  BY <1>2, <1>3, <1>4 DEF Climbing, Over, t

-----------------------------------------------------------------------------
\* A TF that is accepted never waits again, and what is closed stays closed.
Down ==
  /\ accepted \subseteq accepted'
  /\ \A tf \in accepted : (Waiting(tf)' => Waiting(tf)) /\ (Closed(tf) => Closed(tf)')

LEMMA WaitingStep ==
  ASSUME Base, [Next]_vars
  PROVE  \A tf \in accepted : Waiting(tf)' => Waiting(tf)
<1>0. accepted \subseteq Tfs
  BY DEF Base, RequestType
<1>1. CASE UNCHANGED <<mStfRequestQueue, requesting>>
  BY <1>1 DEF Waiting, Queued, Asked
<1>2. CASE AcceptTf
  <2>1. PICK tf \in Tfs : MayBeRequested(tf) /\ BuildTfRequest(tf)
    BY <1>2 DEF AcceptTf
  <2>2. /\ tf \notin accepted /\ UNCHANGED requesting
        /\ \A other : Queued(other)' <=> Queued(other) \/ other = tf
    BY <2>1, AcceptQueued DEF Base
  <2>3. QED
    BY <2>2 DEF Waiting, Asked
<1>3. CASE TakeRequest
  <2>1. PICK r \in Asking :
           /\ Holds(r) /\ Queued(r.request.tf)
           /\ \A tf : Queued(tf)' <=> Queued(tf) /\ tf # r.request.tf
    BY <1>3, TakeQueued DEF Base
  <2>2. \A tf : Asked(tf)' <=> r.request.tf = tf
    BY <2>1, Holding
  <2>3. QED
    BY <2>1, <2>2 DEF Waiting
<1>4. CASE AskStfSenders
  <2>1. mStfRequestQueue' = mStfRequestQueue /\ requesting # <<>>
    BY <1>4 DEF AskStfSenders
  <2>2. PICK r \in Asking :
           Holds(r) /\ r.request = requesting[1].request /\ r.deleting = requesting[1].deleting
    BY <1>4, AskQueued DEF Base
  <2>3. \A tf : (Asked(tf)' <=> Asked(tf)) /\ (Queued(tf)' <=> Queued(tf))
    BY <2>1, <2>2, Holding DEF Asked, Queued
  <2>4. QED
    BY <2>2, <2>3 DEF Waiting, Holds
<1>5. CASE FinishRequests
  <2>1. mStfRequestQueue' = mStfRequestQueue
    BY <1>5 DEF FinishRequests
  <2>2. \A tf : Queued(tf)' <=> Queued(tf)
    BY <2>1 DEF Queued
  <2>3. \A tf : Asked(tf)' => requesting'[1].deleting
    BY <1>5, FinishQueued DEF Base, Asked, Holds
  <2>4. QED
    BY <2>2, <2>3 DEF Waiting
<1>11. CASE CountRequest
  <2>1. mStfRequestQueue' = mStfRequestQueue /\ requesting # <<>>
    BY <1>11 DEF CountRequest
  <2>2. PICK r \in Asking : Holds(r) /\ r.request = requesting[1].request
    BY <1>11, CountQueued DEF Base
  <2>3. ~requesting[1].deleting
    BY <1>11, CountQueued DEF Base
  <2>4. \A tf : (Asked(tf)' => Asked(tf)) /\ (Queued(tf)' => Queued(tf))
    BY <2>1, <2>2, Holding DEF Asked, Queued
  <2>5. QED
    BY <2>3, <2>4 DEF Waiting
<1>6. CASE DeleteTf
  BY <1>6 DEF DeleteTf, Waiting, Queued, Asked
<1>7. CASE RunStep
  BY <1>7, <1>1 DEF RunStep, ResetInput, PreRun, PostRun, requestVars
<1>8. CASE Arrival \/ Failure \/ StfPacingThread \/ StfDeserializingThread \/ MergeTf \/ QueueTf
  BY <1>8, <1>1 DEF requestVars, Arrival, Failure, DataHandlerThread, TransferFails, StfPacingThread,
              StfDeserializingThread, MergeTf, QueueTf
<1>9. CASE TakeTf \/ ForwardStep \/ UNCHANGED vars
  BY <1>9, <1>1 DEF requestVars, vars, TakeTf, ForwardStep, DropTf, ForwardTf, TfForwarded
<1>10. QED
  BY <1>2, <1>3, <1>4, <1>5, <1>6, <1>7, <1>8, <1>9, <1>11, Steps

LEMMA AcceptedGrows ==
  ASSUME [Next]_vars
  PROVE  accepted \subseteq accepted' /\ (~AcceptTf => accepted' = accepted)
<1>1. CASE RunStep
  BY <1>1 DEF RunStep, ResetInput, PreRun, PostRun
<1>2. CASE AcceptTf
  BY <1>2 DEF AcceptTf, BuildTfRequest
<1>3. CASE TakeRequest \/ AskStfSenders \/ CountRequest \/ FinishRequests \/ DeleteTf
  BY <1>3 DEF TakeRequest, AskStfSenders, CountRequest, FinishRequests, DeleteTf
<1>4. CASE Arrival \/ Failure \/ StfPacingThread \/ StfDeserializingThread \/ MergeTf \/ QueueTf
  BY <1>4 DEF Arrival, Failure, DataHandlerThread, TransferFails, StfPacingThread,
              StfDeserializingThread, MergeTf, QueueTf
<1>5. CASE TakeTf \/ ForwardStep \/ UNCHANGED vars
  BY <1>5 DEF vars, TakeTf, ForwardStep, DropTf, ForwardTf, TfForwarded
<1>6. QED
  BY <1>1, <1>2, <1>3, <1>4, <1>5, Steps

LEMMA UnansweredGrows ==
  ASSUME [Next]_vars
  PROVE  unanswered \subseteq unanswered'
<1>1. CASE RunStep
  BY <1>1 DEF RunStep, ResetInput, PreRun, PostRun, receiveVars
<1>2. CASE AcceptTf
  BY <1>2 DEF AcceptTf, BuildTfRequest, receiveVars
<1>3. CASE AskStfSenders
  BY <1>3 DEF AskStfSenders, RequestStf, Sends, Refuses, SendsUnasked
<1>4. CASE TakeRequest \/ CountRequest \/ FinishRequests \/ DeleteTf
  BY <1>4 DEF TakeRequest, CountRequest, FinishRequests, DeleteTf, receiveVars
<1>5. CASE Arrival \/ Failure
  BY <1>5 DEF Arrival, Failure, DataHandlerThread, TransferFails
<1>6. CASE StfPacingThread \/ StfDeserializingThread \/ TakeTf \/ MergeTf \/ QueueTf
  BY <1>6 DEF StfPacingThread, StfDeserializingThread, TakeTf, MergeTf, QueueTf, receiveVars
<1>7. CASE ForwardStep \/ UNCHANGED vars
  BY <1>7 DEF vars, ForwardStep, DropTf, ForwardTf, TfForwarded, receiveVars
<1>8. QED
  BY <1>1, <1>2, <1>3, <1>4, <1>5, <1>6, <1>7, Steps

\* Only a TF that waits has STFs sent.
LEMMA SendsWaiting ==
  ASSUME Base, NEW stf \in Stfs, SentNow(stf)
  PROVE  Waiting(stf.tf) /\ Asked(stf.tf) /\ stf.tf \in accepted /\ ~Sent(stf)
<1>1. requesting # <<>> /\ stf.tf = requesting[1].request.tf /\ stf.from \in requesting[1].left
  BY DEF SentNow
<1>2. /\ Asked(requesting[1].request.tf) /\ requesting[1].request.tf \in accepted
      /\ ~Sent(Stf(requesting[1].request.tf, stf.from)) /\ ~requesting[1].deleting
  BY <1>1, AskedTf DEF Base
<1>3. stf = Stf(requesting[1].request.tf, stf.from)
  BY <1>1, StfParts
<1>4. QED
  BY <1>1, <1>2, <1>3 DEF Waiting

LEMMA DownStep ==
  ASSUME Base, [Next]_vars
  PROVE  Down
<1>1. \A stf \in Stfs : Sent(stf)' => Sent(stf) \/ SentNow(stf)
  BY BaseStep DEF Sending
<1>2. ASSUME NEW tf \in accepted, Closed(tf) PROVE Closed(tf)'
  <2>1. tf \in Tfs
    BY DEF Base, RequestType
  <2>2. ~Waiting(tf)'
    BY <1>2, WaitingStep DEF Closed
  <2>3. ASSUME NEW s \in StfSenders PROVE ~Sent(Stf(tf, s))'
    <3>1. Stf(tf, s) \in Stfs /\ Stf(tf, s).tf = tf /\ ~Sent(Stf(tf, s))
      BY <1>2, <2>1, StfParts DEF Closed, Unsent
    <3>2. ~SentNow(Stf(tf, s))
      <4>1. PICK stf \in Stfs : stf = Stf(tf, s)
        BY <3>1
      <4>2. ~SentNow(stf)
        BY <1>2, <3>1, <4>1, SendsWaiting DEF Closed
      <4>3. QED
        BY <4>1, <4>2
    <3>3. QED
      BY <1>1, <3>1, <3>2
  <2>4. QED
    BY <2>2, <2>3 DEF Closed, Unsent
<1>3. QED
  BY <1>2, WaitingStep, AcceptedGrows DEF Down

-----------------------------------------------------------------------------
\* A part of the invariant on which a step has no effect.
LEMMA KeyFrame ==
  ASSUME NEW k, KeyPart(k), UNCHANGED <<accepted, mTopoStfId, mStfRequestQueue, requesting, mergeStfs>>
  PROVE  KeyPart(k)'
BY DEF KeyPart

LEMMA NameFrame ==
  ASSUME NEW k, NamePart(k), Base, Down, UNCHANGED <<accepted, mTopoTfIdRenameMap>>,
         \A stf \in Stfs : (Arriving(stf)' => Arriving(stf)) /\ (Stored(stf) => Stored(stf)')
  PROVE  NamePart(k)'
<1>1. ASSUME NEW tf \in accepted, NEW s \in tf.stfs
      PROVE  /\ Waiting(tf)' => Waiting(tf)
             /\ Arriving(Stf(tf, s))' => Arriving(Stf(tf, s))
             /\ Stored(Stf(tf, s)) => Stored(Stf(tf, s))'
  <2>1. tf \in Tfs
    BY DEF Base, RequestType
  <2>2. Stf(tf, s) \in Stfs
    BY <2>1, TfParts, StfParts
  <2>3. QED
    BY <2>2 DEF Down
<1>2. QED
  BY <1>1 DEF NamePart

Counted(k, e) ==
  \E tf \in accepted : /\ e.key = k[tf] /\ ~Waiting(tf)
                       /\ e.count = Cardinality(SentOf(tf))
                       /\ \A s \in tf.stfs : Accounted(tf, s)
Counting(tf) ==
  /\ requesting[1].expected = Cardinality(SentOf(tf))
  /\ \A s \in tf.stfs : s \in requesting[1].left \/ Accounted(tf, s)
  /\ requesting[1].deleting => requesting[1].expected = 0

LEMMA CountParts ==
  ASSUME NEW k
  PROVE  CountPart(k) <=> /\ \A e \in mStfsCountMap : Counted(k, e)
                          /\ \A tf \in Tfs : Asked(tf) => Counting(tf)
BY DEF CountPart, Counted, Counting

\* The same STFs are sent.
SameOf(tf) ==
  /\ SentOf(tf)' = SentOf(tf)
  /\ \A s \in StfSenders : Accounted(tf, s) <=> Accounted(tf, s)'

LEMMA SameSent ==
  ASSUME NEW tf \in Tfs, \A s \in StfSenders : Sent(Stf(tf, s))' <=> Sent(Stf(tf, s))
  PROVE  SameOf(tf)
BY DEF SameOf, SentOf, Accounted

LEMMA SameSentAll ==
  ASSUME \A stf \in Stfs : Sent(stf)' <=> Sent(stf)
  PROVE  \A tf \in Tfs : SameOf(tf)
BY StfParts, SameSent

LEMMA CountedFrame ==
  ASSUME Base, Down, NEW k, NEW e, NEW tf \in accepted,
         e.key = k[tf], ~Waiting(tf), e.count = Cardinality(SentOf(tf)), \A s \in tf.stfs : Accounted(tf, s),
         SameOf(tf)
  PROVE  Counted(k, e)'
<1>1. tf \in Tfs /\ tf \in accepted' /\ ~Waiting(tf)'
  BY DEF Down, Base, RequestType
<1>2. tf.stfs \subseteq StfSenders
  BY <1>1, TfParts
<1>3. \A s \in tf.stfs : Accounted(tf, s)'
  BY <1>2 DEF SameOf
<1>4. e.count = Cardinality(SentOf(tf))'
  BY DEF SameOf
<1>5. QED
  BY <1>1, <1>3, <1>4 DEF Counted

LEMMA CountingFrame ==
  ASSUME NEW tf \in Tfs, Counting(tf), SameOf(tf), UNCHANGED requesting
  PROVE  Counting(tf)'
<1>1. tf.stfs \subseteq StfSenders
  BY TfParts
<1>2. QED
  BY <1>1 DEF SameOf, Counting

LEMMA CountFrame ==
  ASSUME Base, Down, NEW k, CountPart(k), UNCHANGED <<accepted, requesting>>,
         mStfsCountMap' \subseteq mStfsCountMap,
         \A stf \in Stfs : Sent(stf)' <=> Sent(stf)
  PROVE  CountPart(k)'
<1>1. \A tf \in Tfs : SameOf(tf)
  BY SameSentAll
<1>2. accepted \subseteq Tfs
  BY DEF Base, RequestType
<1>3. ASSUME NEW e \in mStfsCountMap' PROVE Counted(k, e)'
  <2>1. Counted(k, e)
    BY CountParts
  <2>2. PICK tf \in accepted : e.key = k[tf] /\ ~Waiting(tf)
                       /\ e.count = Cardinality(SentOf(tf))
                       /\ \A s \in tf.stfs : Accounted(tf, s)
    BY <2>1 DEF Counted
  <2>3. QED
    BY <1>1, <1>2, <2>2, CountedFrame
<1>4. ASSUME NEW tf \in Tfs, Asked(tf)' PROVE Counting(tf)'
  <2>1. Asked(tf)
    BY <1>4 DEF Asked
  <2>2. QED
    BY <1>1, <2>1, CountParts, CountingFrame
<1>5. QED
  BY <1>3, <1>4 DEF CountPart, Counted, Counting

LEMMA HomeFrame ==
  ASSUME Down, NEW k, HomePart(k), UNCHANGED <<accepted, mergeKeys, mReceivedDataQueue>>
  PROVE  HomePart(k)'
BY DEF HomePart, Down

LEMMA OrderFrame ==
  ASSUME NEW k, OrderPart(k),
         UNCHANGED <<accepted, mReceivedDataQueue, mergeKeys, mStfsForMerging, merging, merged,
                     mMaxMergedTfId>>
  PROVE  OrderPart(k)'
BY DEF OrderPart

LEMMA BuiltFrame ==
  ASSUME NEW k, BuiltPart(k), UNCHANGED <<built, merged, mMaxMergedTfId>>
  PROVE  BuiltPart(k)'
BY DEF BuiltPart

LEMMA CompleteFrame ==
  ASSUME Down, NEW k, CompletePart(k), UNCHANGED <<accepted, mStfsForMerging, merging, merged, built>>
  PROVE  CompletePart(k)'
BY DEF CompletePart, Down

-----------------------------------------------------------------------------
\* The steps of an undisturbed run.
LEMMA SameTf ==
  ASSUME Base, Calm
  PROVE  \A a, b \in accepted : a.stfs = b.stfs /\ a.id = b.id => a = b
<1>1. \A tf \in accepted : tf \in Tfs /\ tf.run = 1
  BY DEF Base, RequestType, Calm
<1>2. QED
  BY <1>1, TfParts

LEMMA UnsentOf ==
  ASSUME NEW tf
  PROVE  /\ Unsent(tf) => SentOf(tf) = {} /\ Cardinality(SentOf(tf)) = 0
         /\ Cardinality(SentOf(tf)) = 0 => Unsent(tf)
         /\ IsFiniteSet(SentOf(tf)) /\ Cardinality(SentOf(tf)) \in Nat
<1>1. IsFiniteSet(SentOf(tf)) /\ Cardinality(SentOf(tf)) \in Nat
  BY SendersFinite DEF SentOf
<1>2. Unsent(tf) <=> SentOf(tf) = {}
  BY DEF Unsent, SentOf
<1>3. Cardinality(SentOf(tf)) = 0 <=> SentOf(tf) = {}
  BY <1>1, FS_EmptySet
<1>4. QED
  BY <1>1, <1>2, <1>3

LEMMA QuietPipeline ==
  ASSUME Base, Down, NEW k, Pipeline(k),
         UNCHANGED <<accepted, mTopoStfId, mTopoTfIdRenameMap, requestVars, transfers, failed,
                     mReceivedDataQueue, mergeVars, mStfsForMerging, merging, merged, built>>
  PROVE  Pipeline(k)'
<1>1. UNCHANGED <<mStfRequestQueue, requesting, mStfsCountMap, mergeKeys, mergeStfs, mMaxMergedTfId>>
  BY DEF requestVars, mergeVars
<1>2. \A stf \in Stfs : (Arriving(stf)' <=> Arriving(stf)) /\ (Stored(stf)' <=> Stored(stf))
  BY <1>1 DEF Arriving, Stored
<1>3. \A stf \in Stfs : Sent(stf)' <=> Sent(stf)
  BY <1>2 DEF Sent
<1>4. KeyPart(k)' /\ NamePart(k)' /\ CountPart(k)'
  BY <1>1, <1>2, <1>3, KeyFrame, NameFrame, CountFrame DEF Pipeline
<1>5. HomePart(k)' /\ OrderPart(k)' /\ BuiltPart(k)' /\ CompletePart(k)'
  BY <1>1, HomeFrame, OrderFrame, BuiltFrame, CompleteFrame DEF Pipeline
<1>6. QED
  BY <1>4, <1>5 DEF Pipeline

LEMMA TakePipeline ==
  ASSUME Base, Down, NEW k, Pipeline(k), TakeRequest
  PROVE  Pipeline(k)'
<1>1. PICK r \in Asking :
         /\ Holds(r) /\ requesting = <<>> /\ UNCHANGED accepted
         /\ ~r.deleting /\ r.left = r.request.tf.stfs /\ r.expected = 0 /\ r.request.tf \in Tfs
         /\ r.request = mStfRequestQueue[1] /\ 1 \in DOMAIN mStfRequestQueue
         /\ Queued(r.request.tf)
         /\ \A tf : Queued(tf)' <=> Queued(tf) /\ tf # r.request.tf
  BY TakeQueued DEF Base
<1>2. /\ UNCHANGED <<mTopoStfId, mTopoTfIdRenameMap, mStfsCountMap, transfers, failed, mReceivedDataQueue,
                    mergeKeys, mergeStfs, mMaxMergedTfId, mStfsForMerging, merging, merged, built>>
      /\ mStfRequestQueue # <<>> /\ mStfRequestQueue' = Tail(mStfRequestQueue)
  BY DEF TakeRequest, receiveVars, mergeVars, mergerVars, outVars, topoVars
<1>3. \A stf \in Stfs : (Arriving(stf)' <=> Arriving(stf)) /\ (Stored(stf)' <=> Stored(stf))
  BY <1>2 DEF Arriving, Stored
<1>4. \A stf \in Stfs : Sent(stf)' <=> Sent(stf)
  BY <1>3 DEF Sent
<1>5. KeyPart(k)'
  <2>1. \A i \in DOMAIN mStfRequestQueue' : mStfRequestQueue'[i].key = k[mStfRequestQueue'[i].tf]
    <3>1. \A i \in DOMAIN Tail(mStfRequestQueue) :
            i + 1 \in DOMAIN mStfRequestQueue /\ Tail(mStfRequestQueue)[i] = mStfRequestQueue[i + 1]
      BY <1>2, Tailed DEF Base, RequestType
    <3>2. QED
      BY <1>2, <3>1 DEF Pipeline, KeyPart
  <2>2. r.request.key = k[r.request.tf]
    BY <1>1 DEF Pipeline, KeyPart
  <2>3. requesting'[1].request.key = k[requesting'[1].request.tf]
    BY <1>1, <2>2 DEF Holds
  <2>4. QED
    BY <1>1, <1>2, <2>1, <2>3 DEF Pipeline, KeyPart
<1>6. NamePart(k)'
  BY <1>1, <1>2, <1>3, NameFrame DEF Pipeline
<1>7. CountPart(k)'
  <2>1. \A tf \in Tfs : SameOf(tf)
    BY <1>4, SameSentAll
  <2>2. ASSUME NEW e \in mStfsCountMap' PROVE Counted(k, e)'
    <3>1. Counted(k, e)
      BY <1>2, CountParts DEF Pipeline
    <3>2. PICK tf \in accepted : e.key = k[tf] /\ ~Waiting(tf)
                         /\ e.count = Cardinality(SentOf(tf))
                         /\ \A s \in tf.stfs : Accounted(tf, s)
      BY <3>1 DEF Counted
    <3>3. tf \in Tfs
      BY DEF Base, RequestType
    <3>4. QED
      BY <2>1, <3>2, <3>3, CountedFrame
  <2>3. ASSUME NEW tf \in Tfs, Asked(tf)' PROVE Counting(tf)'
    <3>1. tf = r.request.tf
      BY <1>1, <2>3, Holding
    <3>2. Unsent(tf)
      BY <1>1, <3>1 DEF Base, AskInv
    <3>3. Cardinality(SentOf(tf))' = 0
      BY <2>1, <3>2, UnsentOf DEF SameOf
    <3>4. requesting'[1].expected = 0 /\ requesting'[1].left = tf.stfs
      BY <1>1, <3>1 DEF Holds
    <3>5. QED
      BY <3>3, <3>4 DEF Counting
  <2>4. QED
    BY <2>2, <2>3 DEF CountPart, Counted, Counting
<1>8. HomePart(k)' /\ OrderPart(k)' /\ BuiltPart(k)' /\ CompletePart(k)'
  BY <1>1, <1>2, HomeFrame, OrderFrame, BuiltFrame, CompleteFrame DEF Pipeline
<1>9. QED
  BY <1>5, <1>6, <1>7, <1>8 DEF Pipeline

LEMMA AskPipeline ==
  ASSUME Base, Down, NEW k, Pipeline(k), AskStfSenders, unanswered' = {}
  PROVE  Pipeline(k)'
<1>1. PICK r \in Asking, s \in StfSenders :
            /\ s \in requesting[1].left /\ Holds(r) /\ r.request = requesting[1].request
            /\ r.left = requesting[1].left \ {s} /\ r.deleting = requesting[1].deleting
            /\ \/ AskSends(s) /\ r.expected = requesting[1].expected + 1
               \/ AskRefuses(s) /\ r.expected = requesting[1].expected
  <2>1. \A s : ~AskUnasked(s)
    BY DEF AskUnasked
  <2>2. QED
    BY <2>1, AskQueued, Requesting DEF Base
<1>2. /\ UNCHANGED <<accepted, mTopoStfId, mTopoTfIdRenameMap, mStfRequestQueue, mStfsCountMap, failed,
                    mReceivedDataQueue, mergeKeys, mergeStfs, mMaxMergedTfId, mStfsForMerging, merging,
                    merged, built>>
      /\ requesting # <<>>
  BY DEF AskStfSenders, mergeVars, mergerVars, outVars, topoVars
<1>3. PICK tf \in Tfs : tf = requesting[1].request.tf
  BY <1>2, Requesting DEF Base
<1> DEFINE new == Stf(tf, s)
<1>4. /\ Asked(tf) /\ tf \in accepted /\ s \in tf.stfs /\ ~Sent(new) /\ ~requesting[1].deleting
      /\ Waiting(tf)
  BY <1>1, <1>2, <1>3, AskedTf DEF Base, Waiting
<1>5. new \in Stfs /\ new.tf = tf /\ new.from = s
  BY StfParts
<1>6. \/ AskRefuses(s) /\ new \in Refused /\ r.expected = requesting[1].expected /\ UNCHANGED transfers
      \/ AskSends(s) /\ r.expected = requesting[1].expected + 1 /\ transfers' = transfers \union {new}
  BY <1>1, <1>3 DEF AskSends, AskRefuses
<1>7. \A stf \in Stfs : (Stored(stf)' <=> Stored(stf))
  BY <1>2 DEF Stored
<1> HIDE DEF new
<1>8. /\ \A stf \in Stfs : stf # new => (Sent(stf)' <=> Sent(stf)) /\ (Arriving(stf)' <=> Arriving(stf))
      /\ AskRefuses(s) => \A stf \in Stfs : Arriving(stf)' <=> Arriving(stf)
      /\ ~AskRefuses(s) => Sent(new)'
  BY <1>2, <1>6, <1>7 DEF Sent, Arriving, AskRefuses
<1>9. KeyPart(k)'
  <2>1. requesting'[1].request.key = k[requesting'[1].request.tf]
    BY <1>1, <1>2 DEF Holds, Pipeline, KeyPart
  <2>2. QED
    BY <1>2, <2>1 DEF Pipeline, KeyPart
<1>10. NamePart(k)'
  <2>1. ASSUME NEW a \in accepted, NEW t \in a.stfs, Topological(a), Waiting(a)' \/ Arriving(Stf(a, t))',
               ~Stored(Stf(a, t))'
        PROVE  [from |-> t, id |-> a.id, to |-> k[a]] \in mTopoTfIdRenameMap
    <3>1. a \in Tfs /\ t \in StfSenders
      BY TfParts DEF Base, RequestType
    <3>2. Stf(a, t) \in Stfs /\ (Stf(a, t) = new => a = tf)
      BY <3>1, <1>5, StfParts
    <3>3. Waiting(a) \/ Arriving(Stf(a, t))
      <4>1. Waiting(a)' => Waiting(a)
        BY DEF Down
      <4>2. CASE Stf(a, t) = new
        BY <1>4, <3>2, <4>2
      <4>3. CASE Stf(a, t) # new
        BY <2>1, <1>8, <3>2, <4>1, <4>3
      <4>4. QED
        BY <4>2, <4>3
    <3>4. ~Stored(Stf(a, t))
      BY <2>1, <1>7, <3>2
    <3>5. QED
      BY <2>1, <3>3, <3>4 DEF Pipeline, NamePart
  <2>2. QED
    BY <1>2, <2>1 DEF Pipeline, NamePart
<1>11. CountPart(k)'
  <2>1. \A other \in Tfs : other # tf => SameOf(other)
    <3>1. ASSUME NEW other \in Tfs, other # tf, NEW t \in StfSenders
          PROVE  Sent(Stf(other, t))' <=> Sent(Stf(other, t))
      <4>1. Stf(other, t) \in Stfs /\ Stf(other, t) # new
        BY <1>5, <3>1, StfParts
      <4>2. QED
        BY <1>8, <4>1
    <3>2. QED
      BY <3>1, SameSent
  <2>2. ASSUME NEW e \in mStfsCountMap' PROVE Counted(k, e)'
    <3>1. Counted(k, e)
      BY <1>2, CountParts DEF Pipeline
    <3>2. PICK a \in accepted : e.key = k[a] /\ ~Waiting(a)
                         /\ e.count = Cardinality(SentOf(a))
                         /\ \A t \in a.stfs : Accounted(a, t)
      BY <3>1 DEF Counted
    <3>3. a \in Tfs /\ a # tf
      BY <1>4, <3>2 DEF Base, RequestType
    <3>4. QED
      BY <2>1, <3>2, <3>3, CountedFrame
  <2>3. ASSUME NEW a \in Tfs, Asked(a)' PROVE Counting(a)'
    <3>1. a = tf /\ Counting(tf)
      BY <1>1, <1>3, <1>4, <2>3, Holding, CountParts DEF Pipeline
    <3>2. /\ requesting'[1].expected = r.expected /\ requesting'[1].left = requesting[1].left \ {s}
          /\ requesting'[1].deleting = requesting[1].deleting
      BY <1>1 DEF Holds
    <3>3. \A t \in StfSenders : t # s => (Sent(Stf(tf, t))' <=> Sent(Stf(tf, t)))
      <4>1. ASSUME NEW t \in StfSenders, t # s PROVE Stf(tf, t) \in Stfs /\ Stf(tf, t) # new
        BY <4>1, <1>5, StfParts
      <4>2. QED
        BY <1>8, <4>1
    <3>4. \A t \in tf.stfs : t \in requesting'[1].left \/ Accounted(tf, t)'
      <4>1. ASSUME NEW t \in tf.stfs, t # s PROVE t \in requesting'[1].left \/ Accounted(tf, t)'
        <5>1. t \in StfSenders
          BY TfParts
        <5>2. t \in requesting[1].left \/ Accounted(tf, t)
          BY <3>1 DEF Counting
        <5>3. QED
          BY <3>2, <3>3, <4>1, <5>1, <5>2 DEF Accounted
      <4>2. Accounted(tf, s)'
        <5>1. CASE AskRefuses(s)
          BY <1>3, <5>1 DEF Accounted, AskRefuses
        <5>2. CASE ~AskRefuses(s)
          <6>1. Sent(Stf(tf, s))'
            BY <1>8, <5>2 DEF new
          <6>2. QED
            BY <6>1 DEF Accounted
        <5>3. QED
          BY <5>1, <5>2
      <4>3. QED
        BY <4>1, <4>2
    <3>5. requesting'[1].expected = Cardinality(SentOf(tf))'
      <4>1. CASE AskRefuses(s) /\ r.expected = requesting[1].expected
        <5>1. Sent(new)' <=> Sent(new)
          BY <1>5, <1>7, <1>8, <4>1 DEF Sent
        <5>2. \A t \in StfSenders : Sent(Stf(tf, t))' <=> Sent(Stf(tf, t))
          BY <3>3, <5>1 DEF new
        <5>3. SentOf(tf)' = SentOf(tf)
          BY <5>2 DEF SentOf
        <5>4. QED
          BY <3>1, <3>2, <4>1, <5>3 DEF Counting
      <4>2. CASE ~AskRefuses(s) /\ r.expected = requesting[1].expected + 1
        <5>1. Sent(Stf(tf, s))' /\ ~Sent(Stf(tf, s))
          BY <1>4, <1>8, <4>2 DEF new
        <5>2. SentOf(tf)' = SentOf(tf) \union {s} /\ s \notin SentOf(tf)
          BY <3>3, <5>1 DEF SentOf
        <5>3. Cardinality(SentOf(tf))' = Cardinality(SentOf(tf)) + 1
          BY <5>2, UnsentOf, FS_AddElement
        <5>4. QED
          BY <3>1, <3>2, <4>2, <5>3 DEF Counting
      <4>3. ~(AskRefuses(s) /\ AskSends(s))
        BY <1>4, <1>3 DEF AskRefuses, AskSends, Sent, Arriving, new
      <4>4. QED
        BY <1>1, <4>1, <4>2, <4>3
    <3>6. QED
      BY <3>1, <3>2, <3>4, <3>5, <1>4 DEF Counting
  <2>4. QED
    BY <2>2, <2>3 DEF CountPart, Counted, Counting
<1>12. HomePart(k)' /\ OrderPart(k)' /\ BuiltPart(k)' /\ CompletePart(k)'
  BY <1>2, HomeFrame, OrderFrame, BuiltFrame, CompleteFrame DEF Pipeline
<1>13. QED
  BY <1>9, <1>10, <1>11, <1>12 DEF Pipeline

LEMMA CountedAll ==
  ASSUME Base, Down, NEW k, CountPart(k), \A stf \in Stfs : Sent(stf)' <=> Sent(stf)
  PROVE  \A e \in mStfsCountMap : Counted(k, e)'
<1>1. \A tf \in Tfs : SameOf(tf)
  BY SameSentAll
<1>2. ASSUME NEW e \in mStfsCountMap PROVE Counted(k, e)'
  <2>1. Counted(k, e)
    BY CountParts
  <2>2. PICK tf \in accepted : e.key = k[tf] /\ ~Waiting(tf)
                       /\ e.count = Cardinality(SentOf(tf))
                       /\ \A s \in tf.stfs : Accounted(tf, s)
    BY <2>1 DEF Counted
  <2>3. tf \in Tfs
    BY DEF Base, RequestType
  <2>4. QED
    BY <1>1, <2>2, <2>3, CountedFrame
<1>3. QED
  BY <1>2

LEMMA CountPipeline ==
  ASSUME Base, Down, NEW k, Pipeline(k), CountRequest
  PROVE  Pipeline(k)'
<1>1. PICK r \in Asking :
        /\ Holds(r) /\ r.request = requesting[1].request /\ r.left = requesting[1].left
        /\ r.expected = requesting[1].expected /\ ~r.deleting
  BY CountQueued DEF Base
<1>2. /\ UNCHANGED <<accepted, mTopoStfId, mTopoTfIdRenameMap, mStfRequestQueue, mStfsCountMap,
                    transfers, failed, mReceivedDataQueue, mergeKeys, mergeStfs, mMaxMergedTfId,
                    mStfsForMerging, merging, merged, built>>
      /\ requesting # <<>>
  BY DEF CountRequest, mergeVars, mergerVars, outVars, topoVars
<1>3. \A stf \in Stfs : (Arriving(stf)' <=> Arriving(stf)) /\ (Stored(stf)' <=> Stored(stf))
  BY <1>2 DEF Arriving, Stored
<1>4. \A stf \in Stfs : Sent(stf)' <=> Sent(stf)
  BY <1>3 DEF Sent
<1>5. KeyPart(k)'
  <2>1. requesting'[1].request.key = k[requesting'[1].request.tf]
    BY <1>1, <1>2 DEF Holds, Pipeline, KeyPart
  <2>2. QED
    BY <1>2, <2>1 DEF Pipeline, KeyPart
<1>6. NamePart(k)'
  BY <1>2, <1>3, NameFrame DEF Pipeline
<1>7. CountPart(k)'
  <2>1. ASSUME NEW e \in mStfsCountMap' PROVE Counted(k, e)'
    BY <1>2, <1>4, <2>1, CountedAll DEF Pipeline
  <2>2. ASSUME NEW tf \in Tfs, Asked(tf)' PROVE Counting(tf)'
    <3>1. Asked(tf)
      BY <1>1, <1>2, <2>2, Holding DEF Asked
    <3>2. SameOf(tf) /\ Counting(tf)
      BY <1>4, <3>1, SameSentAll, CountParts DEF Pipeline
    <3>3. /\ requesting'[1].expected = requesting[1].expected
          /\ requesting'[1].left = requesting[1].left /\ ~requesting'[1].deleting
      BY <1>1 DEF Holds
    <3>4. requesting'[1].expected = Cardinality(SentOf(tf))'
      BY <3>2, <3>3 DEF SameOf, Counting
    <3>5. \A s \in tf.stfs : s \in requesting'[1].left \/ Accounted(tf, s)'
      <4>1. tf.stfs \subseteq StfSenders
        BY TfParts
      <4>2. QED
        BY <3>2, <3>3, <4>1 DEF SameOf, Counting
    <3>6. QED
      BY <3>3, <3>4, <3>5 DEF Counting
  <2>3. QED
    BY <2>1, <2>2 DEF CountPart, Counted, Counting
<1>8. HomePart(k)' /\ OrderPart(k)' /\ BuiltPart(k)' /\ CompletePart(k)'
  BY <1>2, HomeFrame, OrderFrame, BuiltFrame, CompleteFrame DEF Pipeline
<1>9. QED
  BY <1>5, <1>6, <1>7, <1>8 DEF Pipeline

LEMMA FinishPipeline ==
  ASSUME Base, Down, NEW k, Pipeline(k), FinishRequests
  PROVE  Pipeline(k)'
<1>1. /\ UNCHANGED <<accepted, mTopoStfId, mTopoTfIdRenameMap, mStfRequestQueue, transfers, failed,
                    mReceivedDataQueue, mergeKeys, mergeStfs, mMaxMergedTfId, mStfsForMerging, merging,
                    merged, built>>
      /\ setNumberOfStfs(requesting[1].request.key, requesting[1].expected)
  BY DEF FinishRequests, receiveVars, mergeVars, mergerVars, outVars, topoVars
<1>2. /\ requesting # <<>> /\ requesting[1].left = {} /\ ~requesting[1].deleting
      /\ \/ requesting[1].expected # 0 /\ requesting' = <<>>
         \/ /\ requesting[1].expected = 0
            /\ \E r \in Asking : /\ Holds(r) /\ r.request = requesting[1].request
                                 /\ r.left = {} /\ r.expected = 0 /\ r.deleting
  BY FinishQueued DEF Base
<1>3. PICK tf \in Tfs : tf = requesting[1].request.tf
  BY <1>2, Requesting DEF Base
<1>4. Asked(tf) /\ tf \in accepted /\ ~Queued(tf)
  BY <1>2, <1>3, AskedTf DEF Base, AskInv
<1>5. /\ \A other : Asked(other)' => other = tf
      /\ Asked(tf)' => /\ requesting'[1].left = {} /\ requesting'[1].expected = 0
                       /\ requesting'[1].deleting /\ requesting[1].expected = 0
  BY <1>2, <1>3, Holding DEF Asked, Holds
<1>6. ~Waiting(tf)'
  BY <1>1, <1>4, <1>5 DEF Waiting, Queued
<1>7. \A stf \in Stfs : (Arriving(stf)' <=> Arriving(stf)) /\ (Stored(stf)' <=> Stored(stf))
  BY <1>1 DEF Arriving, Stored
<1>8. \A stf \in Stfs : Sent(stf)' <=> Sent(stf)
  BY <1>7 DEF Sent
<1>9. KeyPart(k)'
  <2>1. requesting' # <<>> => requesting'[1].request = requesting[1].request
    BY <1>2 DEF Holds
  <2>2. QED
    BY <1>1, <1>2, <2>1 DEF Pipeline, KeyPart
<1>10. NamePart(k)'
  BY <1>1, <1>7, NameFrame DEF Pipeline
<1>11. CountPart(k)'
  <2>1. SameOf(tf)
    BY <1>8, SameSentAll
  <2>2. Counting(tf)
    BY <1>4, CountParts DEF Pipeline
  <2>3. \A s \in tf.stfs : Accounted(tf, s)'
    <3>1. tf.stfs \subseteq StfSenders
      BY TfParts
    <3>2. QED
      BY <1>2, <2>1, <2>2, <3>1 DEF SameOf, Counting
  <2>4. requesting[1].expected = Cardinality(SentOf(tf))'
    BY <2>1, <2>2 DEF SameOf, Counting
  <2>5. ASSUME NEW e \in mStfsCountMap' PROVE Counted(k, e)'
    <3>1. CASE e \in mStfsCountMap
      BY <1>8, <3>1, CountedAll DEF Pipeline
    <3>2. CASE e = [key |-> requesting[1].request.key, count |-> requesting[1].expected]
      <4>1. e.key = k[tf] /\ e.count = Cardinality(SentOf(tf))'
        BY <1>2, <1>3, <2>4, <3>2 DEF Pipeline, KeyPart
      <4>2. tf \in accepted'
        BY <1>1, <1>4
      <4>3. QED
        BY <1>6, <2>3, <4>1, <4>2 DEF Counted
    <3>3. QED
      BY <1>1, <3>1, <3>2 DEF setNumberOfStfs
  <2>6. ASSUME NEW a \in Tfs, Asked(a)' PROVE Counting(a)'
    BY <1>5, <2>3, <2>4, <2>6 DEF Counting
  <2>7. QED
    BY <2>5, <2>6 DEF CountPart, Counted, Counting
<1>12. HomePart(k)' /\ OrderPart(k)' /\ BuiltPart(k)' /\ CompletePart(k)'
  BY <1>1, HomeFrame, OrderFrame, BuiltFrame, CompleteFrame DEF Pipeline
<1>13. QED
  BY <1>9, <1>10, <1>11, <1>12 DEF Pipeline

LEMMA NotAnAdd ==
  ASSUME NEW q \in Seq(Item), NEW x \in Item, x.type # "ADD"
  PROVE  /\ \A key \in Nat : In(Append(q, x), ADD(key)) <=> In(q, ADD(key))
         /\ \A n : Behind(Append(q, x), n) <=> Behind(q, n)
<1>1. \A key \in Nat : x # ADD(key)
  BY Items
<1>2. \A key \in Nat : In(Append(q, x), ADD(key)) <=> In(q, ADD(key))
  BY <1>1, InAppended
<1>3. QED
  BY <1>2 DEF Behind

LEMMA OrderQueue ==
  ASSUME NEW k, OrderPart(k), Rising(mReceivedDataQueue'),
         \A n : Behind(mReceivedDataQueue, n) => Behind(mReceivedDataQueue', n),
         UNCHANGED <<accepted, mergeKeys, mStfsForMerging, merging, merged, mMaxMergedTfId>>
  PROVE  OrderPart(k)'
BY DEF OrderPart, Below

LEMMA DeletePipeline ==
  ASSUME Base, Down, Calm, NEW k, Pipeline(k), DeleteTf
  PROVE  Pipeline(k)'
<1>1. /\ UNCHANGED <<accepted, mTopoStfId, mStfRequestQueue, transfers, failed, mStfsCountMap,
                    mergeKeys, mergeStfs, mMaxMergedTfId, mStfsForMerging, merging, merged, built>>
      /\ requesting # <<>> /\ requesting[1].deleting /\ requesting' = <<>>
      /\ mReceivedDataQueue' = Append(mReceivedDataQueue, DELETE(requesting[1].request.key))
  BY DEF DeleteTf, receiveVars, mergeVars, mergerVars, outVars
<1>2. PICK tf \in Tfs, key \in Nat : tf = requesting[1].request.tf /\ key = requesting[1].request.key
  BY <1>1, Requesting DEF Base
<1>3. Asked(tf) /\ tf \in accepted /\ ~Queued(tf)
  BY <1>1, <1>2, AskedTf DEF Base, AskInv
<1>4. key = k[tf]
  BY <1>1, <1>2 DEF Pipeline, KeyPart
<1>5. Closed(tf)
  <2>1. Counting(tf)
    BY <1>3, CountParts DEF Pipeline
  <2>2. Unsent(tf)
    BY <1>1, <2>1, UnsentOf DEF Counting
  <2>3. QED
    BY <1>1, <1>3, <2>2 DEF Closed, Waiting
<1>6. \A stf \in Stfs : (Arriving(stf)' <=> Arriving(stf)) /\ (Stored(stf)' <=> Stored(stf))
  BY DeletePlaces DEF Base, Still, Arriving
<1>7. \A stf \in Stfs : Sent(stf)' <=> Sent(stf)
  BY <1>6 DEF Sent
<1>8. KeyPart(k)'
  BY <1>1 DEF Pipeline, KeyPart
<1>9. NamePart(k)'
  <2>1. mTopoTfIdRenameMap' =
              IF Topological(tf)
                THEN {e \in mTopoTfIdRenameMap : e.from \notin tf.stfs \/ e.id # tf.id}
                ELSE mTopoTfIdRenameMap
    BY <1>2 DEF DeleteTf
  <2>2. ASSUME NEW e \in mTopoTfIdRenameMap'
        PROVE  \E a \in accepted : a.stfs = {e.from} /\ a.id = e.id /\ k[a] = e.to
    <3>1. e \in mTopoTfIdRenameMap
      BY <2>1
    <3>2. QED
      BY <3>1 DEF Pipeline, NamePart
  <2>3. ASSUME NEW a \in accepted, NEW s \in a.stfs,
               Topological(a), Waiting(a)' \/ Arriving(Stf(a, s))', ~Stored(Stf(a, s))'
        PROVE  [from |-> s, id |-> a.id, to |-> k[a]] \in mTopoTfIdRenameMap'
    <3>1. a \in Tfs /\ s \in StfSenders /\ Stf(a, s) \in Stfs
      BY TfParts, StfParts DEF Base, RequestType
    <3>2. (Waiting(a) \/ Arriving(Stf(a, s))) /\ ~Stored(Stf(a, s))
      BY <1>6, <2>3, <3>1 DEF Down
    <3> DEFINE e == [from |-> s, id |-> a.id, to |-> k[a]]
    <3>3. e \in mTopoTfIdRenameMap /\ e.from = s /\ e.id = a.id
      BY <2>3, <3>2 DEF Pipeline, NamePart
    <3>4. a # tf
      <4>1. SUFFICES ASSUME a = tf PROVE FALSE
        OBVIOUS
      <4>2. ~Waiting(a) /\ ~Sent(Stf(a, s))
        BY <1>5, <3>1, <4>1 DEF Closed, Unsent
      <4>3. QED
        BY <3>2, <4>2 DEF Sent
    <3>5. ASSUME Topological(tf), s \in tf.stfs, a.id = tf.id PROVE FALSE
      <4>1. tf.stfs = {s} /\ a.stfs = {s}
        <5>1. \A S \in SUBSET StfSenders : Cardinality(S) = 1 /\ s \in S => S = {s}
          <6>1. ASSUME NEW S \in SUBSET StfSenders, Cardinality(S) = 1, s \in S PROVE S = {s}
            <7>1. IsFiniteSet(S)
              BY SendersFinite
            <7>2. PICK x : S = {x}
              BY <6>1, <7>1, FS_Singleton
            <7>3. QED
              BY <6>1, <7>2
          <6>2. QED
            BY <6>1
        <5>2. /\ tf.stfs \in SUBSET StfSenders /\ Cardinality(tf.stfs) = 1
              /\ a.stfs \in SUBSET StfSenders /\ Cardinality(a.stfs) = 1
          BY <2>3, <3>1, <3>5, TfParts
        <5>3. QED
          BY <3>5, <5>1, <5>2
      <4>2. QED
        BY <1>3, <3>4, <3>5, <4>1, SameTf
    <3>6. QED
      BY <2>1, <3>3, <3>5
  <2>4. QED
    BY <1>1, <2>2, <2>3 DEF NamePart
<1>10. CountPart(k)'
  <2>1. \A e \in mStfsCountMap' : Counted(k, e)'
    BY <1>1, <1>7, CountedAll DEF Pipeline
  <2>2. \A a : ~Asked(a)'
    BY <1>1 DEF Asked
  <2>3. QED
    BY <2>1, <2>2 DEF CountPart, Counted
<1>11. /\ mReceivedDataQueue \in Seq(Item)
       /\ DELETE(key) \in Item /\ DELETE(key).type = "DELETE"
       /\ mReceivedDataQueue' = Append(mReceivedDataQueue, DELETE(key))
  BY <1>1, <1>2, Items DEF Base, ReceiveType
<1>12. /\ \A other \in Nat : In(mReceivedDataQueue', ADD(other)) <=> In(mReceivedDataQueue, ADD(other))
       /\ \A n : Behind(mReceivedDataQueue', n) <=> Behind(mReceivedDataQueue, n)
  BY <1>11, NotAnAdd
<1>13. OrderPart(k)'
  <2>1. Rising(mReceivedDataQueue')
    BY <1>11, RisingAppended DEF Pipeline, OrderPart
  <2>2. QED
    BY <1>1, <1>12, <2>1, OrderQueue DEF Pipeline
<1>14. HomePart(k)'
  <2>1. Announced(mReceivedDataQueue', k)
    BY <1>11, AnnouncedAppended DEF Pipeline, HomePart
  <2>2. \A other \in Nat : In(mReceivedDataQueue', DELETE(other)) =>
           other = key \/ In(mReceivedDataQueue, DELETE(other))
    <3>1. \A y : In(mReceivedDataQueue', y) => In(mReceivedDataQueue, y) \/ y = DELETE(key)
      BY <1>11, InAppended
    <3>2. QED
      BY <3>1, ItemsDiffer
  <2>3. \A a \in accepted : k[a] \in Nat
    BY DEF Pipeline, KeyPart
  <2>4. \A a \in accepted' :
       k[a] \in mergeKeys' \/ In(mReceivedDataQueue', ADD(k[a])) \/ Closed(a)'
    BY <1>1, <1>12, <2>3 DEF Pipeline, HomePart, Down
  <2>5. \A other \in Nat : In(mReceivedDataQueue', DELETE(other)) =>
          \E a \in accepted' : k[a] = other /\ Closed(a)'
    BY <1>1, <1>3, <1>4, <1>5, <2>2 DEF Pipeline, HomePart, Down
  <2>6. QED
    BY <1>1, <1>12, <2>1, <2>4, <2>5 DEF Pipeline, HomePart
<1>15. BuiltPart(k)' /\ CompletePart(k)'
  BY <1>1, BuiltFrame, CompleteFrame DEF Pipeline
<1>16. QED
  BY <1>8, <1>9, <1>10, <1>13, <1>14, <1>15 DEF Pipeline

\* An STF that comes, or whose transfer fails, is still on its way.
LEMMA ArrivalPipeline ==
  ASSUME Base, Down, NEW k, Pipeline(k), Arrival
  PROVE  Pipeline(k)'
<1>1. PICK new \in transfers : DataHandlerThread(new)
  BY DEF Arrival
<1>2. /\ UNCHANGED <<accepted, mTopoStfId, mTopoTfIdRenameMap, mStfRequestQueue, requesting,
                    mStfsCountMap, mergeKeys, mergeStfs, mMaxMergedTfId, mStfsForMerging, merging,
                    merged, built>>
      /\ mReceivedDataQueue' = Append(mReceivedDataQueue, INFO(new))
  BY <1>1 DEF DataHandlerThread, requestVars, mergeVars, mergerVars, outVars, topoVars
<1>3. new \in Stfs /\ mReceivedDataQueue \in Seq(Item) /\ INFO(new) \in Item /\ INFO(new).type = "INFO"
  BY Items DEF Base, ReceiveType
<1>4. \A stf \in Stfs : (Arriving(stf)' <=> Arriving(stf)) /\ (Stored(stf)' <=> Stored(stf))
  BY ArrivalPlaces DEF Base
<1>5. \A stf \in Stfs : Sent(stf)' <=> Sent(stf)
  BY <1>4 DEF Sent
<1>6. KeyPart(k)' /\ NamePart(k)' /\ CountPart(k)'
  BY <1>2, <1>4, <1>5, KeyFrame, NameFrame, CountFrame DEF Pipeline
<1>7. /\ \A key \in Nat : In(mReceivedDataQueue', ADD(key)) <=> In(mReceivedDataQueue, ADD(key))
      /\ \A n : Behind(mReceivedDataQueue', n) <=> Behind(mReceivedDataQueue, n)
  BY <1>2, <1>3, NotAnAdd
<1>8. OrderPart(k)'
  <2>1. Rising(mReceivedDataQueue')
    BY <1>2, <1>3, RisingAppended DEF Pipeline, OrderPart
  <2>2. QED
    BY <1>2, <1>7, <2>1, OrderQueue DEF Pipeline
<1>9. HomePart(k)'
  <2>1. Announced(mReceivedDataQueue', k)
    BY <1>2, <1>3, AnnouncedAppended DEF Pipeline, HomePart
  <2>2. \A key \in Nat : In(mReceivedDataQueue', DELETE(key)) => In(mReceivedDataQueue, DELETE(key))
    BY <1>2, <1>3, InAppended, ItemsDiffer
  <2>3. \A a \in accepted : k[a] \in Nat
    BY DEF Pipeline, KeyPart
  <2>4. \A a \in accepted' :
       k[a] \in mergeKeys' \/ In(mReceivedDataQueue', ADD(k[a])) \/ Closed(a)'
    BY <1>2, <1>7, <2>3 DEF Pipeline, HomePart, Down
  <2>5. \A other \in Nat : In(mReceivedDataQueue', DELETE(other)) =>
          \E a \in accepted' : k[a] = other /\ Closed(a)'
    BY <1>2, <2>2 DEF Pipeline, HomePart, Down
  <2>6. QED
    BY <1>2, <1>7, <2>1, <2>4, <2>5 DEF Pipeline, HomePart
<1>10. BuiltPart(k)' /\ CompletePart(k)'
  BY <1>2, BuiltFrame, CompleteFrame DEF Pipeline
<1>11. QED
  BY <1>6, <1>8, <1>9, <1>10 DEF Pipeline

LEMMA FailurePipeline ==
  ASSUME Base, Down, NEW k, Pipeline(k), Failure
  PROVE  Pipeline(k)'
<1>1. PICK new \in transfers : TransferFails(new)
  BY DEF Failure
<1>2. UNCHANGED <<accepted, mTopoStfId, mTopoTfIdRenameMap, mStfRequestQueue, requesting,
                  mStfsCountMap, mReceivedDataQueue, mergeKeys, mergeStfs, mMaxMergedTfId,
                  mStfsForMerging, merging, merged, built>>
  BY <1>1 DEF TransferFails, requestVars, mergeVars, mergerVars, outVars, topoVars
<1>3. \A stf \in Stfs : (Arriving(stf)' <=> Arriving(stf)) /\ (Stored(stf)' <=> Stored(stf))
  BY FailurePlaces DEF Base
<1>4. \A stf \in Stfs : Sent(stf)' <=> Sent(stf)
  BY <1>3 DEF Sent
<1>5. KeyPart(k)' /\ NamePart(k)' /\ CountPart(k)'
  BY <1>2, <1>3, <1>4, KeyFrame, NameFrame, CountFrame DEF Pipeline
<1>6. HomePart(k)' /\ OrderPart(k)' /\ BuiltPart(k)' /\ CompletePart(k)'
  BY <1>2, HomeFrame, OrderFrame, BuiltFrame, CompleteFrame DEF Pipeline
<1>7. QED
  BY <1>5, <1>6 DEF Pipeline

\* The pacing thread: what every item does, and that the key of an STF is its TF's.
LEMMA OneStf ==
  ASSUME NEW tf \in Tfs, Topological(tf), NEW s \in tf.stfs
  PROVE  tf.stfs = {s}
<1>1. IsFiniteSet(tf.stfs) /\ Cardinality(tf.stfs) = 1
  BY TfParts, SendersFinite
<1>2. PICK x : tf.stfs = {x}
  BY <1>1, FS_Singleton
<1>3. QED
  BY <1>2

LEMMA PacingFrame ==
  ASSUME Base, StfPacingThread, NEW k, Pipeline(k)
  PROVE  /\ UNCHANGED <<accepted, mTopoStfId, mStfRequestQueue, requesting, mStfsCountMap, transfers,
                        failed, mMaxMergedTfId, mStfsForMerging, merging, merged, built>>
         /\ mReceivedDataQueue \in Seq(Item) /\ mReceivedDataQueue # <<>>
         /\ mReceivedDataQueue' = Tail(mReceivedDataQueue)
         /\ \A y : In(mReceivedDataQueue', y) => In(mReceivedDataQueue, y)
         /\ \A y : In(mReceivedDataQueue, y) =>
              y = Head(mReceivedDataQueue) \/ In(mReceivedDataQueue', y)
         /\ In(mReceivedDataQueue, Head(mReceivedDataQueue))
         /\ Rising(mReceivedDataQueue') /\ Announced(mReceivedDataQueue', k)
         /\ \A n : Behind(mReceivedDataQueue, n) => Behind(mReceivedDataQueue', n)
<1>1. /\ UNCHANGED <<accepted, mTopoStfId, mStfRequestQueue, requesting, mStfsCountMap, transfers,
                     failed, mMaxMergedTfId, mStfsForMerging, merging, merged, built>>
      /\ mReceivedDataQueue # <<>> /\ mReceivedDataQueue' = Tail(mReceivedDataQueue)
  BY DEF StfPacingThread, requestVars, receiveVars, mergerVars, outVars
<1>2. mReceivedDataQueue \in Seq(Item)
  BY DEF Base, ReceiveType
<1>3. /\ \A y : In(mReceivedDataQueue', y) => In(mReceivedDataQueue, y)
      /\ \A y : In(mReceivedDataQueue, y) =>
              y = Head(mReceivedDataQueue) \/ In(mReceivedDataQueue', y)
      /\ In(mReceivedDataQueue, Head(mReceivedDataQueue))
  BY <1>1, <1>2, InTailed
<1>4. Rising(mReceivedDataQueue')
  BY <1>1, <1>2, RisingTailed DEF Pipeline, OrderPart
<1>5. Announced(mReceivedDataQueue', k)
  BY <1>1, <1>2, AnnouncedTailed DEF Pipeline, HomePart
<1>6. \A n : Behind(mReceivedDataQueue, n) => Behind(mReceivedDataQueue', n)
  BY <1>3 DEF Behind
<1>7. QED
  BY <1>1, <1>2, <1>3, <1>4, <1>5, <1>6

\* Nothing but the keys of the map changes.
LEMMA PacedKeys ==
  ASSUME Base, Down, NEW k, Pipeline(k), StfPacingThread, UNCHANGED <<mergeStfs, mTopoTfIdRenameMap>>,
         \A stf \in Stfs : Head(mReceivedDataQueue) # INFO(stf)
  PROVE  KeyPart(k)' /\ NamePart(k)' /\ CountPart(k)' /\ BuiltPart(k)' /\ CompletePart(k)'
<1>1. \A stf \in Stfs : (Arriving(stf)' <=> Arriving(stf)) /\ (Stored(stf)' <=> Stored(stf))
  BY PacingFrame DEF Arriving, Stored
<1>2. \A stf \in Stfs : Sent(stf)' <=> Sent(stf)
  BY <1>1 DEF Sent
<1>3. UNCHANGED <<accepted, mTopoStfId, mStfRequestQueue, requesting, mStfsCountMap, mMaxMergedTfId,
                  mStfsForMerging, merging, merged, built>>
  BY PacingFrame
<1>4. QED
  BY <1>1, <1>2, <1>3, KeyFrame, NameFrame, CountFrame, BuiltFrame, CompleteFrame DEF Pipeline

LEMMA AddPipeline ==
  ASSUME Base, Down, NEW k, Pipeline(k), StfPacingThread,
         NEW key \in Nat, Head(mReceivedDataQueue) = ADD(key), mergeKeys' = mergeKeys \union {key},
         UNCHANGED <<mergeStfs, mTopoTfIdRenameMap>>
  PROVE  Pipeline(k)'
<1>1. KeyPart(k)' /\ NamePart(k)' /\ CountPart(k)' /\ BuiltPart(k)' /\ CompletePart(k)'
  BY PacedKeys, ItemsDiffer
<1>2. UNCHANGED <<accepted, mMaxMergedTfId, mStfsForMerging, merging, merged>>
  BY PacingFrame
<1>3. /\ In(mReceivedDataQueue, ADD(key)) /\ Behind(mReceivedDataQueue', key)
      /\ Rising(mReceivedDataQueue') /\ Announced(mReceivedDataQueue', k)
      /\ \A n : Behind(mReceivedDataQueue, n) => Behind(mReceivedDataQueue', n)
  BY PacingFrame, RisingTailed DEF Pipeline, OrderPart
<1>4. HomePart(k)'
  <2>1. \A tf \in accepted : k[tf] \in Nat
    BY DEF Pipeline, KeyPart
  <2>2. \A tf \in accepted : k[tf] \in mergeKeys' \/ In(mReceivedDataQueue', ADD(k[tf])) \/ Closed(tf)'
    <3>1. ASSUME NEW tf \in accepted, In(mReceivedDataQueue, ADD(k[tf]))
          PROVE  k[tf] = key \/ In(mReceivedDataQueue', ADD(k[tf]))
      BY <2>1, <3>1, PacingFrame, ItemsDiffer
    <3>2. QED
      BY <3>1 DEF Down, Pipeline, HomePart
  <2>3. \E tf \in accepted : k[tf] = key
    BY <1>3 DEF Pipeline, HomePart
  <2>4. \A x \in mergeKeys' : \E tf \in accepted : k[tf] = x
    BY <2>3 DEF Pipeline, HomePart
  <2>5. \A x \in Nat : In(mReceivedDataQueue', ADD(x)) => \E tf \in accepted : k[tf] = x
    BY PacingFrame DEF Pipeline, HomePart
  <2>6. \A x \in Nat : In(mReceivedDataQueue', DELETE(x)) => \E tf \in accepted : k[tf] = x /\ Closed(tf)'
    BY PacingFrame DEF Pipeline, HomePart, Down
  <2>7. QED
    BY <1>2, <1>3, <2>2, <2>4, <2>5, <2>6 DEF HomePart
<1>5. OrderPart(k)'
  <2>1. \A x \in mergeKeys' : Behind(mReceivedDataQueue', x)
    BY <1>3 DEF Pipeline, OrderPart
  <2>2. \A n : Below(n, mergeKeys, mReceivedDataQueue) => Below(n, mergeKeys', mReceivedDataQueue')
    BY <1>3 DEF Below, Behind
  <2>3. QED
    BY <1>2, <1>3, <2>1, <2>2 DEF Pipeline, OrderPart
<1>6. QED
  BY <1>1, <1>4, <1>5 DEF Pipeline

\* A TF that is given up has no STF in the map.
LEMMA RemovePipeline ==
  ASSUME Base, Down, NEW k, Pipeline(k), StfPacingThread,
         NEW key \in Nat, Head(mReceivedDataQueue) = DELETE(key), mergeKeys' = mergeKeys \ {key},
         mergeStfs' = {e \in mergeStfs : e.key # key}, UNCHANGED mTopoTfIdRenameMap
  PROVE  Pipeline(k)'
<1>1. PICK tf \in accepted : k[tf] = key /\ Closed(tf)
  <2>1. In(mReceivedDataQueue, DELETE(key))
    BY PacingFrame
  <2>2. QED
    BY <2>1 DEF Pipeline, HomePart
<1>2. UNCHANGED mergeStfs
  <2>1. ASSUME NEW e \in mergeStfs, e.key = key PROVE FALSE
    <3>1. e.stf \in Stfs /\ Stored(e.stf)
      BY DEF Base, MergeType, Stored
    <3>2. e.stf.tf \in accepted /\ e.stf = Stf(e.stf.tf, e.stf.from) /\ e.stf.from \in StfSenders
      BY <3>1, StfParts DEF Base, TransferInv, SentInv, Sent
    <3>3. e.stf.tf = tf
      BY <1>1, <2>1, <3>2 DEF Pipeline, KeyPart
    <3>4. QED
      BY <1>1, <3>1, <3>2, <3>3 DEF Closed, Unsent, Sent
  <2>2. QED
    BY <2>1
<1>3. KeyPart(k)' /\ NamePart(k)' /\ CountPart(k)' /\ BuiltPart(k)' /\ CompletePart(k)'
  BY <1>2, PacedKeys, ItemsDiffer
<1>4. UNCHANGED <<accepted, mMaxMergedTfId, mStfsForMerging, merging, merged>>
  BY PacingFrame
<1>5. /\ Rising(mReceivedDataQueue') /\ Announced(mReceivedDataQueue', k)
      /\ \A n : Behind(mReceivedDataQueue, n) => Behind(mReceivedDataQueue', n)
  BY PacingFrame
<1>6. HomePart(k)'
  <2>1. \A a \in accepted : k[a] \in Nat
    BY DEF Pipeline, KeyPart
  <2>2. \A a \in accepted : k[a] \in mergeKeys' \/ In(mReceivedDataQueue', ADD(k[a])) \/ Closed(a)'
    <3>1. ASSUME NEW a \in accepted, In(mReceivedDataQueue, ADD(k[a]))
          PROVE  In(mReceivedDataQueue', ADD(k[a]))
      BY <2>1, <3>1, PacingFrame, ItemsDiffer
    <3>2. ASSUME NEW a \in accepted, k[a] = key PROVE Closed(a)'
      BY <1>1, <3>2 DEF Pipeline, KeyPart, Down
    <3>3. QED
      BY <3>1, <3>2 DEF Down, Pipeline, HomePart
  <2>3. \A x \in mergeKeys' : \E a \in accepted : k[a] = x
    BY DEF Pipeline, HomePart
  <2>4. \A x \in Nat : In(mReceivedDataQueue', ADD(x)) => \E a \in accepted : k[a] = x
    BY PacingFrame DEF Pipeline, HomePart
  <2>5. \A x \in Nat : In(mReceivedDataQueue', DELETE(x)) => \E a \in accepted : k[a] = x /\ Closed(a)'
    BY PacingFrame DEF Pipeline, HomePart, Down
  <2>6. QED
    BY <1>4, <1>5, <2>2, <2>3, <2>4, <2>5 DEF HomePart
<1>7. OrderPart(k)'
  <2>1. \A x \in mergeKeys' : Behind(mReceivedDataQueue', x)
    BY <1>5 DEF Pipeline, OrderPart
  <2>2. \A n : Below(n, mergeKeys, mReceivedDataQueue) => Below(n, mergeKeys', mReceivedDataQueue')
    BY <1>5 DEF Below
  <2>3. QED
    BY <1>4, <1>5, <2>1, <2>2 DEF Pipeline, OrderPart
<1>8. QED
  BY <1>3, <1>6, <1>7 DEF Pipeline

LEMMA KeyOfTf ==
  ASSUME Base, Calm, NEW k, Pipeline(k), NEW new \in Stfs, Arriving(new)
  PROVE  new.tf \in accepted /\ new.from \in new.tf.stfs /\ KeyOf(new) = k[new.tf]
<1>1. /\ new.tf \in accepted /\ new.tf \in Tfs /\ new.from \in new.tf.stfs
      /\ new = Stf(new.tf, new.from) /\ ~Stored(new)
  BY StfParts DEF Base, TransferInv, SentInv, PlaceInv, Sent
<1>2. CASE ~Topological(new.tf)
  BY <1>1, <1>2 DEF KeyOf, Pipeline, KeyPart
<1>3. CASE Topological(new.tf)
  <2> DEFINE Entry(e) == e \in mTopoTfIdRenameMap /\ e.from = new.from /\ e.id = new.tf.id
  <2>1. \E e \in mTopoTfIdRenameMap : e.from = new.from /\ e.id = new.tf.id
    <3> DEFINE f == [from |-> new.from, id |-> new.tf.id, to |-> k[new.tf]]
    <3>1. f \in mTopoTfIdRenameMap
      BY <1>1, <1>3 DEF Pipeline, NamePart
    <3>2. f.from = new.from /\ f.id = new.tf.id
      OBVIOUS
    <3>3. QED
      BY <3>1, <3>2
  <2>2. ASSUME NEW e \in mTopoTfIdRenameMap, e.from = new.from, e.id = new.tf.id PROVE e.to = k[new.tf]
    <3>1. PICK a \in accepted : a.stfs = {e.from} /\ a.id = e.id /\ k[a] = e.to
      BY DEF Pipeline, NamePart
    <3>2. new.tf.stfs = {new.from}
      BY <1>1, <1>3, OneStf
    <3>3. a.stfs = new.tf.stfs /\ a.id = new.tf.id
      BY <2>2, <3>1, <3>2
    <3>4. \A x, y \in accepted : x.stfs = y.stfs /\ x.id = y.id => x = y
      BY SameTf
    <3>5. a = new.tf
      BY <1>1, <3>3, <3>4
    <3>6. QED
      BY <3>1, <3>5
  <2>3. getIdForTopoTf(new) = k[new.tf]
    <3> DEFINE f == CHOOSE e \in mTopoTfIdRenameMap : e.from = new.from /\ e.id = new.tf.id
    <3>1. f \in mTopoTfIdRenameMap /\ f.from = new.from /\ f.id = new.tf.id
      BY <2>1
    <3>2. getIdForTopoTf(new) = f.to
      BY <2>1 DEF getIdForTopoTf
    <3> HIDE DEF f
    <3>3. QED
      BY <2>2, <3>1, <3>2
  <2>4. KeyOf(new) = getIdForTopoTf(new)
    BY <1>3 DEF KeyOf
  <2>5. QED
    BY <1>1, <2>3, <2>4
<1>4. QED
  BY <1>1, <1>2, <1>3

LEMMA StorePipeline ==
  ASSUME Base, Down, Calm, NEW k, Pipeline(k), StfPacingThread,
         NEW new \in Stfs, Head(mReceivedDataQueue) = INFO(new), StoreStf(new),
         mTopoTfIdRenameMap' =
           IF Topological(new.tf)
             THEN {e \in mTopoTfIdRenameMap : e.from # new.from \/ e.id # new.tf.id}
             ELSE mTopoTfIdRenameMap
  PROVE  Pipeline(k)'
<1>1. /\ Arriving(new) /\ In(mReceivedDataQueue, INFO(new)) /\ new \notin transfers /\ new \notin failed
      /\ ~In(mReceivedDataQueue', INFO(new))
  <2>1. /\ mReceivedDataQueue \in Seq(Item) /\ mReceivedDataQueue # <<>>
        /\ mReceivedDataQueue' = Tail(mReceivedDataQueue)
        /\ In(mReceivedDataQueue, INFO(new))
    BY PacingFrame
  <2>2. INFO(new).type = "INFO" /\ Once(mReceivedDataQueue)
    BY Items DEF Base, TransferInv
  <2>3. ~In(mReceivedDataQueue', INFO(new))
    BY <2>1, <2>2, OnceTailed
  <2>4. new \notin transfers /\ new \notin failed
    BY <2>1 DEF Base, TransferInv, PlaceInv
  <2>5. QED
    BY <2>1, <2>3, <2>4 DEF Arriving
<1>2. PICK tf \in accepted : tf = new.tf /\ tf \in Tfs /\ new.from \in tf.stfs /\ KeyOf(new) = k[tf]
                      /\ new = Stf(tf, new.from) /\ new.from \in StfSenders
  BY <1>1, KeyOfTf, StfParts
<1>3. k[tf] \in mergeKeys /\ k[tf] \in Nat
  <2>1. ~Closed(tf)
    BY <1>1, <1>2 DEF Closed, Unsent, Sent
  <2>2. k[tf] \in Nat
    BY DEF Pipeline, KeyPart
  <2>3. ~In(mReceivedDataQueue', ADD(k[tf]))
    <3>1. Announced(mReceivedDataQueue, k) /\ mReceivedDataQueue \in Seq(Item) /\ mReceivedDataQueue # <<>>
          /\ mReceivedDataQueue' = Tail(mReceivedDataQueue)
      BY PacingFrame DEF Pipeline, HomePart
    <3>2. QED
      BY <1>2, <2>2, <3>1, AnnouncedTailed
  <2>4. ~In(mReceivedDataQueue, ADD(k[tf]))
    BY <2>2, <2>3, PacingFrame, ItemsDiffer
  <2>5. QED
    BY <2>1, <2>2, <2>4 DEF Pipeline, HomePart
<1>4. KeyOf(new) > mMaxMergedTfId
  <2>1. mMaxMergedTfId < k[tf]
    BY <1>3 DEF Pipeline, OrderPart, Below
  <2>2. QED
    BY <1>2, <1>3, <2>1 DEF Base, MergeType
<1>5. mergeKeys' = mergeKeys /\ mergeStfs' = mergeStfs \union {[key |-> k[tf], stf |-> new]}
  BY <1>2, <1>3, <1>4 DEF StoreStf
<1>6. \A stf \in Stfs : Stored(stf)' <=> Stored(stf) \/ stf = new
  <2> DEFINE f == [key |-> k[tf], stf |-> new]
  <2>1. f.stf = new /\ mergeStfs' = mergeStfs \union {f}
    BY <1>5
  <2> HIDE DEF f
  <2>2. QED
    BY <2>1 DEF Stored
<1>7. \A stf \in Stfs : Arriving(stf)' <=> Arriving(stf) /\ stf # new
  <2>1. \A stf \in Stfs : In(mReceivedDataQueue', INFO(stf)) <=>
          In(mReceivedDataQueue, INFO(stf)) /\ stf # new
    BY <1>1, PacingFrame, ItemsDiffer
  <2>2. UNCHANGED <<transfers, failed>>
    BY PacingFrame
  <2>3. QED
    BY <1>1, <2>1, <2>2 DEF Arriving
<1>8. \A stf \in Stfs : Sent(stf)' <=> Sent(stf)
  BY <1>1, <1>6, <1>7 DEF Sent
<1>9. UNCHANGED <<accepted, mTopoStfId, mStfRequestQueue, requesting, mStfsCountMap, mMaxMergedTfId,
                  mStfsForMerging, merging, merged, built>>
  BY PacingFrame
<1>10. KeyPart(k)'
  <2>1. \A e \in mergeStfs' : e.key = k[e.stf.tf]
    BY <1>2, <1>5 DEF Pipeline, KeyPart
  <2>2. QED
    BY <1>9, <2>1 DEF Pipeline, KeyPart
<1>11. NamePart(k)'
  <2>1. ASSUME NEW e \in mTopoTfIdRenameMap'
        PROVE  \E a \in accepted : a.stfs = {e.from} /\ a.id = e.id /\ k[a] = e.to
    <3>1. e \in mTopoTfIdRenameMap
      BY <2>1
    <3>2. QED
      BY <3>1 DEF Pipeline, NamePart
  <2>2. ASSUME NEW a \in accepted, NEW s \in a.stfs,
               Topological(a), Waiting(a)' \/ Arriving(Stf(a, s))', ~Stored(Stf(a, s))'
        PROVE  [from |-> s, id |-> a.id, to |-> k[a]] \in mTopoTfIdRenameMap'
    <3>1. a \in Tfs /\ s \in StfSenders /\ Stf(a, s) \in Stfs
      BY TfParts, StfParts DEF Base, RequestType
    <3>2. (Waiting(a) \/ Arriving(Stf(a, s))) /\ ~Stored(Stf(a, s)) /\ Stf(a, s) # new
      BY <1>6, <1>7, <2>2, <3>1 DEF Down
    <3> DEFINE e == [from |-> s, id |-> a.id, to |-> k[a]]
    <3>3. e \in mTopoTfIdRenameMap /\ e.from = s /\ e.id = a.id
      BY <2>2, <3>2 DEF Pipeline, NamePart
    <3>4. ASSUME Topological(tf), s = new.from, a.id = tf.id PROVE FALSE
      <4>1. tf.stfs = {s} /\ a.stfs = {s}
        BY <1>2, <2>2, <3>1, <3>4, OneStf
      <4>2. a = tf
        BY <3>4, <4>1, SameTf
      <4>3. QED
        BY <1>2, <3>2, <3>4, <4>2
    <3>5. QED
      BY <1>2, <3>3, <3>4
  <2>3. QED
    BY <1>9, <2>1, <2>2 DEF NamePart
<1>12. CountPart(k)' /\ BuiltPart(k)' /\ CompletePart(k)'
  BY <1>8, <1>9, CountFrame, BuiltFrame, CompleteFrame DEF Pipeline
<1>13. OrderPart(k)'
  BY <1>5, <1>9, PacingFrame, OrderQueue DEF Pipeline
<1>14. HomePart(k)'
  <2>1. \A a \in accepted : k[a] \in Nat
    BY DEF Pipeline, KeyPart
  <2>2. \A a \in accepted : k[a] \in mergeKeys' \/ In(mReceivedDataQueue', ADD(k[a])) \/ Closed(a)'
    <3>1. ASSUME NEW a \in accepted, In(mReceivedDataQueue, ADD(k[a]))
          PROVE  In(mReceivedDataQueue', ADD(k[a]))
      BY <2>1, <3>1, PacingFrame, ItemsDiffer
    <3>2. QED
      BY <1>5, <3>1 DEF Down, Pipeline, HomePart
  <2>3. \A x \in Nat : In(mReceivedDataQueue', ADD(x)) => \E a \in accepted : k[a] = x
    BY PacingFrame DEF Pipeline, HomePart
  <2>4. \A x \in Nat : In(mReceivedDataQueue', DELETE(x)) => \E a \in accepted : k[a] = x /\ Closed(a)'
    BY PacingFrame DEF Pipeline, HomePart, Down
  <2>5. Announced(mReceivedDataQueue', k)
    BY PacingFrame
  <2>6. QED
    BY <1>5, <1>9, <2>2, <2>3, <2>4, <2>5 DEF Pipeline, HomePart
<1>15. QED
  BY <1>10, <1>11, <1>12, <1>13, <1>14 DEF Pipeline

LEMMA PacingPipeline ==
  ASSUME Base, Down, Calm, NEW k, Pipeline(k), StfPacingThread
  PROVE  Pipeline(k)'
<1>1. CASE \E key \in Nat : /\ Head(mReceivedDataQueue) = ADD(key)
                            /\ mergeKeys' = mergeKeys \union {key}
                            /\ UNCHANGED <<mergeStfs, mTopoTfIdRenameMap>>
  BY <1>1, AddPipeline
<1>2. CASE \E key \in Nat : /\ Head(mReceivedDataQueue) = DELETE(key)
                            /\ mergeKeys' = mergeKeys \ {key}
                            /\ mergeStfs' = {e \in mergeStfs : e.key # key}
                            /\ UNCHANGED mTopoTfIdRenameMap
  BY <1>2, RemovePipeline
<1>3. CASE \E stf \in Stfs :
             /\ Head(mReceivedDataQueue) = INFO(stf)
             /\ StoreStf(stf)
             /\ mTopoTfIdRenameMap' =
                  IF Topological(stf.tf)
                    THEN {e \in mTopoTfIdRenameMap : e.from # stf.from \/ e.id # stf.tf.id}
                    ELSE mTopoTfIdRenameMap
  BY <1>3, StorePipeline
<1>4. QED
  BY <1>1, <1>2, <1>3, Pacing DEF Base

-----------------------------------------------------------------------------
\* The oldest TF, when it has as many STFs in the map as were sent, has all of them.
StoredOf(tf) == {s \in StfSenders : Stored(Stf(tf, s))}

LEMMA KeyedStfs ==
  ASSUME Base, NEW k, Pipeline(k), NEW tf \in accepted
  PROVE  /\ StfsOf(k[tf]) = {Stf(tf, s) : s \in StoredOf(tf)}
         /\ Cardinality(StfsOf(k[tf])) = Cardinality(StoredOf(tf))
<1>1. tf \in Tfs
  BY DEF Base, RequestType
<1>2. \A e \in mergeStfs : e.key = k[tf] <=> e.stf.tf = tf
  <2>1. ASSUME NEW e \in mergeStfs PROVE e.key = k[e.stf.tf] /\ e.stf.tf \in accepted
    <3>1. e.stf \in Stfs /\ Stored(e.stf)
      BY DEF Base, MergeType, Stored
    <3>2. e.stf.tf \in accepted
      BY <3>1 DEF Base, TransferInv, SentInv, Sent
    <3>3. QED
      BY <3>2 DEF Pipeline, KeyPart
  <2>2. QED
    BY <2>1 DEF Pipeline, KeyPart
<1>3. \A stf : stf \in StfsOf(k[tf]) <=> stf \in Stfs /\ Stored(stf) /\ stf.tf = tf
  BY <1>2 DEF StfsOf, Stored, Base, MergeType
<1>4. StfsOf(k[tf]) = {Stf(tf, s) : s \in StoredOf(tf)}
  BY <1>1, <1>3, StfParts DEF StoredOf
<1>5. Cardinality(StoredOf(tf)) = Cardinality({Stf(tf, s) : s \in StoredOf(tf)})
  <2> DEFINE f == [s \in StoredOf(tf) |-> Stf(tf, s)]
             T == {Stf(tf, s) : s \in StoredOf(tf)}
  <2>1. IsFiniteSet(StoredOf(tf))
    BY SendersFinite DEF StoredOf
  <2>2. \A s, t \in StoredOf(tf) : Stf(tf, s) = Stf(tf, t) => s = t
    BY <1>1, StfEqual DEF StoredOf
  <2>3. f \in [StoredOf(tf) -> T]
    OBVIOUS
  <2>4. \A s, t \in StoredOf(tf) : f[s] = f[t] => s = t
    BY <2>2
  <2>5. \A y \in T : \E s \in StoredOf(tf) : f[s] = y
    OBVIOUS
  <2> HIDE DEF f, T
  <2>6. f \in Bijection(StoredOf(tf), T)
    BY <2>3, <2>4, <2>5 DEF Bijection, Injection, Surjection, IsInjective
  <2>7. Cardinality(T) = Cardinality(StoredOf(tf))
    BY <2>1, <2>6, FS_Bijection DEF ExistsBijection
  <2>8. QED
    BY <2>7 DEF T
<1>6. QED
  BY <1>4, <1>5

LEMMA AllStored ==
  ASSUME Base, NEW k, Pipeline(k), NEW tf \in accepted,
         [key |-> k[tf], count |-> Cardinality(StfsOf(k[tf]))] \in mStfsCountMap
  PROVE  /\ ~Waiting(tf) /\ \A s \in tf.stfs : Accounted(tf, s)
         /\ \A s \in StfSenders : Sent(Stf(tf, s)) <=> Stored(Stf(tf, s))
         /\ \A s \in StfSenders : ~Arriving(Stf(tf, s))
<1> DEFINE e == [key |-> k[tf], count |-> Cardinality(StfsOf(k[tf]))]
<1>1. Counted(k, e)
  BY CountParts DEF Pipeline
<1>2. e.key = k[tf] /\ e.count = Cardinality(StoredOf(tf))
  BY KeyedStfs
<1> HIDE DEF e
<1>3. /\ ~Waiting(tf) /\ \A s \in tf.stfs : Accounted(tf, s)
      /\ Cardinality(StoredOf(tf)) = Cardinality(SentOf(tf))
  <2>1. PICK a \in accepted : /\ e.key = k[a] /\ ~Waiting(a)
                        /\ e.count = Cardinality(SentOf(a))
                        /\ \A s \in a.stfs : Accounted(a, s)
    BY <1>1 DEF Counted
  <2>2. a = tf
    BY <1>2, <2>1 DEF Pipeline, KeyPart
  <2>3. QED
    BY <1>2, <2>1, <2>2
<1>4. StoredOf(tf) \subseteq SentOf(tf) /\ IsFiniteSet(SentOf(tf))
  BY UnsentOf DEF StoredOf, SentOf, Sent
<1>5. StoredOf(tf) = SentOf(tf)
  BY <1>3, <1>4, FS_Subset
<1>6. \A s \in StfSenders : Sent(Stf(tf, s)) <=> Stored(Stf(tf, s))
  BY <1>5 DEF StoredOf, SentOf
<1>7. \A s \in StfSenders : Stf(tf, s) \in Stfs
  BY StfParts DEF Base, RequestType
<1>8. \A s \in StfSenders : ~Arriving(Stf(tf, s))
  BY <1>6, <1>7 DEF Base, TransferInv, PlaceInv, Sent
<1>9. QED
  BY <1>3, <1>6, <1>8

LEMMA DeserializePipeline ==
  ASSUME Base, Down, NEW k, Pipeline(k), StfDeserializingThread
  PROVE  Pipeline(k)'
<1>1. PICK key \in mergeKeys : Deserializes(key) /\ [key |-> key, stfs |-> StfsOf(key)] \in KeyedTf
  BY Deserializing DEF Base
<1>2. UNCHANGED <<accepted, mTopoStfId, mTopoTfIdRenameMap, mStfRequestQueue, requesting, transfers,
                  failed, mReceivedDataQueue, mMaxMergedTfId, merging, merged, built>>
  BY DEF StfDeserializingThread, receiveVars, mergerVars, outVars, topoVars
<1>3. PICK tf \in accepted : k[tf] = key
  BY DEF Pipeline, HomePart
<1>4. tf \in Tfs /\ tf.stfs \subseteq StfSenders /\ key \in Nat
  BY TfParts DEF Base, RequestType, MergeType
<1>5. /\ ~Waiting(tf) /\ \A s \in tf.stfs : Accounted(tf, s)
      /\ \A s \in StfSenders : Sent(Stf(tf, s)) <=> Stored(Stf(tf, s))
      /\ \A s \in StfSenders : ~Arriving(Stf(tf, s))
  BY <1>1, <1>3, AllStored DEF Deserializes, OldestTfComplete
<1> DEFINE x == [key |-> key, stfs |-> StfsOf(key)]
<1>6. /\ x \in KeyedTf /\ x.key = key /\ x.stfs = {Stf(tf, s) : s \in StoredOf(tf)}
      /\ mStfsForMerging' = Append(mStfsForMerging, x)
      /\ mergeKeys' = mergeKeys \ {key} /\ mergeStfs' = {e \in mergeStfs : e.key # key}
      /\ mStfsCountMap' = {e \in mStfsCountMap : e.key # key}
      /\ \A other \in mergeKeys : key <= other
  BY <1>1, <1>3, KeyedStfs DEF Deserializes, OldestTfComplete
<1> HIDE DEF x
<1>7. \A e \in mergeStfs : e.stf \in Stfs /\ e.stf.tf \in accepted /\ e.key = k[e.stf.tf]
  <2>1. \A e \in mergeStfs : e.stf \in Stfs /\ Stored(e.stf)
    BY DEF Base, MergeType, Stored
  <2>2. QED
    BY <2>1 DEF Pipeline, KeyPart, Base, TransferInv, SentInv, Sent
<1>8. \A stf \in Stfs : Stored(stf)' <=> Stored(stf) /\ stf.tf # tf
  <2>1. \A e \in mergeStfs : e.key = key <=> e.stf.tf = tf
    BY <1>3, <1>7 DEF Pipeline, KeyPart
  <2>2. QED
    BY <1>6, <2>1 DEF Stored
<1>9. \A stf \in Stfs : Arriving(stf)' <=> Arriving(stf)
  BY <1>2 DEF Arriving
<1>10. Closed(tf)'
  <2>1. ~Waiting(tf)'
    BY <1>5 DEF Down
  <2>2. \A s \in StfSenders : ~Sent(Stf(tf, s))'
    BY <1>4, <1>5, <1>8, <1>9, StfParts DEF Sent
  <2>3. QED
    BY <2>1, <2>2 DEF Closed, Unsent
<1>11. \A a \in Tfs : a # tf \/ Unsent(tf) => SameOf(a)
  <2>1. ASSUME NEW a \in Tfs, a # tf \/ Unsent(tf), NEW s \in StfSenders
        PROVE  Sent(Stf(a, s))' <=> Sent(Stf(a, s))
    <3>1. Stf(a, s) \in Stfs /\ Stf(a, s).tf = a
      BY StfParts
    <3>2. CASE a # tf
      BY <1>8, <1>9, <3>1, <3>2 DEF Sent
    <3>3. CASE a = tf /\ Unsent(tf)
      BY <1>8, <1>9, <3>1, <3>3 DEF Sent, Unsent
    <3>4. QED
      BY <2>1, <3>2, <3>3
  <2>2. QED
    BY <2>1, SameSent
<1>12. KeyPart(k)'
  BY <1>2, <1>6 DEF Pipeline, KeyPart
<1>13. NamePart(k)'
  <2>1. ASSUME NEW a \in accepted, NEW s \in a.stfs,
               Topological(a), Waiting(a)' \/ Arriving(Stf(a, s))', ~Stored(Stf(a, s))'
        PROVE  [from |-> s, id |-> a.id, to |-> k[a]] \in mTopoTfIdRenameMap
    <3>1. a \in Tfs /\ s \in StfSenders /\ Stf(a, s) \in Stfs /\ Stf(a, s).tf = a
      BY TfParts, StfParts DEF Base, RequestType
    <3>2. Waiting(a) \/ Arriving(Stf(a, s))
      BY <1>9, <2>1, <3>1 DEF Down
    <3>3. a # tf
      BY <1>5, <3>1, <3>2
    <3>4. ~Stored(Stf(a, s))
      BY <1>8, <2>1, <3>1, <3>3
    <3>5. QED
      BY <2>1, <3>2, <3>4 DEF Pipeline, NamePart
  <2>2. QED
    BY <1>2, <2>1 DEF Pipeline, NamePart
<1>14. CountPart(k)'
  <2>1. ASSUME NEW e \in mStfsCountMap' PROVE Counted(k, e)'
    <3>1. Counted(k, e) /\ e.key # key
      BY <1>6, CountParts DEF Pipeline
    <3>2. PICK a \in accepted : e.key = k[a] /\ ~Waiting(a)
                         /\ e.count = Cardinality(SentOf(a))
                         /\ \A t \in a.stfs : Accounted(a, t)
      BY <3>1 DEF Counted
    <3>3. a \in Tfs /\ a # tf
      BY <1>3, <3>1, <3>2 DEF Base, RequestType
    <3>4. QED
      BY <1>11, <3>2, <3>3, CountedFrame
  <2>2. ASSUME NEW a \in Tfs, Asked(a)' PROVE Counting(a)'
    <3>1. Asked(a) /\ Counting(a)
      BY <1>2, <2>2, CountParts DEF Pipeline, Asked
    <3>2. CASE a = tf
      <4>1. requesting[1].expected = 0 /\ Cardinality(SentOf(tf)) = 0
        BY <1>5, <3>1, <3>2 DEF Waiting, Counting
      <4>2. Unsent(tf)
        BY <4>1, UnsentOf
      <4>3. QED
        BY <1>2, <1>11, <3>1, <4>2, CountingFrame
    <3>3. CASE a # tf
      BY <1>2, <1>11, <3>1, <3>3, CountingFrame
    <3>4. QED
      BY <3>2, <3>3
  <2>3. QED
    BY <2>1, <2>2 DEF CountPart, Counted, Counting
<1>15. HomePart(k)'
  <2>1. \A a \in accepted : k[a] \in mergeKeys' \/ In(mReceivedDataQueue', ADD(k[a])) \/ Closed(a)'
    <3>1. \A a \in accepted : k[a] = key => a = tf
      BY <1>3 DEF Pipeline, KeyPart
    <3>2. QED
      BY <1>2, <1>6, <1>10, <3>1 DEF Pipeline, HomePart, Down
  <2>2. QED
    BY <1>2, <1>6, <2>1 DEF Pipeline, HomePart, Down
<1>16. OrderPart(k)'
  <2>1. mStfsForMerging \in Seq(KeyedTf)
    BY DEF Base, MergeType
  <2>2. \A i \in DOMAIN mStfsForMerging' : \/ /\ i \in DOMAIN mStfsForMerging
                                              /\ mStfsForMerging'[i] = mStfsForMerging[i]
                                           \/ mStfsForMerging'[i] = x
    BY <1>6, <2>1, Appended
  <2>3. \A n : Below(n, mergeKeys, mReceivedDataQueue) =>
               n < key /\ Below(n, mergeKeys', mReceivedDataQueue')
    BY <1>2, <1>6 DEF Below
  <2>4. Below(key, mergeKeys', mReceivedDataQueue')
    <3>1. Behind(mReceivedDataQueue, key)
      BY DEF Pipeline, OrderPart
    <3>2. ASSUME NEW other \in mergeKeys' PROVE key < other
      <4>1. other \in Nat /\ other # key /\ key <= other
        BY <1>6 DEF Base, MergeType
      <4>2. QED
        BY <1>4, <4>1
    <3>3. QED
      BY <1>2, <3>1, <3>2 DEF Below
  <2>5. Climbing(mStfsForMerging')
    <3>1. \A i \in DOMAIN mStfsForMerging : mStfsForMerging[i].key < x.key
      BY <1>6, <2>3 DEF Pipeline, OrderPart
    <3>2. QED
      BY <1>6, <2>1, <3>1, ClimbingAppended DEF Pipeline, OrderPart
  <2>6. \A n : Below(n, mergeKeys, mReceivedDataQueue) /\ Over(mStfsForMerging, n) =>
               Over(mStfsForMerging', n)
    BY <1>6, <2>2, <2>3 DEF Over
  <2>7. \A i \in DOMAIN mStfsForMerging' :
          Below(mStfsForMerging'[i].key, mergeKeys', mReceivedDataQueue')
    BY <1>6, <2>2, <2>3, <2>4 DEF Pipeline, OrderPart
  <2>8. Rising(mReceivedDataQueue') /\ \A other \in mergeKeys' : Behind(mReceivedDataQueue', other)
    BY <1>2, <1>6 DEF Pipeline, OrderPart
  <2>9. Over(mStfsForMerging', mMaxMergedTfId')
    BY <1>2, <2>6 DEF Pipeline, OrderPart
  <2>10. Below(mMaxMergedTfId', mergeKeys', mReceivedDataQueue')
    BY <1>2, <2>3 DEF Pipeline, OrderPart
  <2>11. merging' # <<>> =>
            /\ Below(merging'[1].key, mergeKeys', mReceivedDataQueue')
            /\ Over(mStfsForMerging', merging'[1].key)
            /\ mMaxMergedTfId' < merging'[1].key /\ merged' = <<>>
    BY <1>2, <2>3, <2>6 DEF Pipeline, OrderPart
  <2>12. /\ merged' # <<>> => merged'[1].key = mMaxMergedTfId'
         /\ mMaxMergedTfId' = 0 \/ \E a \in accepted' : k[a] = mMaxMergedTfId'
    BY <1>2 DEF Pipeline, OrderPart
  <2>13. QED
    BY <2>5, <2>7, <2>8, <2>9, <2>10, <2>11, <2>12 DEF OrderPart
<1>17. CompletePart(k)'
  <2>1. Whole(tf, x.stfs)
    <3>1. \A s \in StoredOf(tf) : s \in tf.stfs
      <4>1. ASSUME NEW s \in StoredOf(tf) PROVE s \in tf.stfs
        <5>1. Stf(tf, s) \in Stfs /\ Stf(tf, s).tf = tf /\ Stf(tf, s).from = s /\ Sent(Stf(tf, s))
          BY <1>4, StfParts DEF StoredOf, Sent
        <5>2. QED
          BY <5>1 DEF Base, TransferInv, SentInv
      <4>2. QED
        BY <4>1
    <3>2. \A s \in tf.stfs : s \in StoredOf(tf) \/ Stf(tf, s) \in Refused
      BY <1>4, <1>5 DEF StoredOf, Accounted
    <3>3. QED
      BY <1>6, <3>1, <3>2 DEF Whole
  <2>2. \A i \in DOMAIN mStfsForMerging' : \/ /\ i \in DOMAIN mStfsForMerging
                                              /\ mStfsForMerging'[i] = mStfsForMerging[i]
                                           \/ mStfsForMerging'[i] = x
    BY <1>6, Appended DEF Base, MergeType
  <2>3. \A i \in DOMAIN mStfsForMerging' : \E a \in accepted :
          k[a] = mStfsForMerging'[i].key /\ Whole(a, mStfsForMerging'[i].stfs) /\ Closed(a)'
    <3>1. ASSUME NEW i \in DOMAIN mStfsForMerging
          PROVE  \E a \in accepted :
                   k[a] = mStfsForMerging[i].key /\ Whole(a, mStfsForMerging[i].stfs) /\ Closed(a)'
      BY DEF Pipeline, CompletePart, Down
    <3>2. QED
      BY <1>3, <1>6, <1>10, <2>1, <2>2, <3>1
  <2>4. QED
    BY <1>2, <2>3 DEF Pipeline, CompletePart, Down
<1>18. BuiltPart(k)'
  BY <1>2, BuiltFrame DEF Pipeline
<1>19. QED
  BY <1>12, <1>13, <1>14, <1>15, <1>16, <1>17, <1>18 DEF Pipeline

-----------------------------------------------------------------------------
\* The merger thread.
LEMMA TakeTfPipeline ==
  ASSUME Base, Down, NEW k, Pipeline(k), TakeTf
  PROVE  Pipeline(k)'
<1>1. /\ UNCHANGED <<accepted, mTopoStfId, mTopoTfIdRenameMap, mStfRequestQueue, requesting,
                     mStfsCountMap, transfers, failed, mReceivedDataQueue, mergeKeys, mergeStfs,
                     mMaxMergedTfId, merged, built>>
      /\ merging = <<>> /\ merged = <<>> /\ mStfsForMerging # <<>>
      /\ mStfsForMerging' = Tail(mStfsForMerging)
  BY DEF TakeTf, requestVars, receiveVars, mergeVars, outVars, topoVars
<1>2. mStfsForMerging \in Seq(KeyedTf) /\ mMaxMergedTfId \in Nat
  BY DEF Base, MergeType
<1>3. PICK x \in KeyedTf : x = Head(mStfsForMerging) /\ x = mStfsForMerging[1] /\ 1 \in DOMAIN mStfsForMerging
  BY <1>1, <1>2, Tailed
<1>4. merging' = <<>> \/ (merging' = <<x>> /\ x.stfs # {})
  BY <1>1, <1>3 DEF TakeTf
<1>5. merging' # <<>> => merging'[1] = x /\ x.stfs # {}
  BY <1>4
<1>6. \A i \in DOMAIN mStfsForMerging' :
        i + 1 \in DOMAIN mStfsForMerging /\ mStfsForMerging'[i] = mStfsForMerging[i + 1]
  BY <1>1, <1>2, Tailed
<1>7. \A stf \in Stfs : (Arriving(stf)' <=> Arriving(stf)) /\ (Stored(stf)' <=> Stored(stf))
  BY <1>1 DEF Arriving, Stored
<1>8. \A stf \in Stfs : Sent(stf)' <=> Sent(stf)
  BY <1>7 DEF Sent
<1>9. KeyPart(k)' /\ NamePart(k)' /\ CountPart(k)' /\ HomePart(k)' /\ BuiltPart(k)'
  BY <1>1, <1>7, <1>8, KeyFrame, NameFrame, CountFrame, HomeFrame, BuiltFrame DEF Pipeline
<1>10. OrderPart(k)'
  <2>1. /\ Climbing(mStfsForMerging') /\ Over(mStfsForMerging', x.key)
        /\ Over(mStfsForMerging', mMaxMergedTfId) /\ mMaxMergedTfId < x.key
    BY <1>1, <1>2, <1>3, ClimbingTailed DEF Pipeline, OrderPart
  <2>2. \A i \in DOMAIN mStfsForMerging' : Below(mStfsForMerging'[i].key, mergeKeys, mReceivedDataQueue)
    BY <1>6 DEF Pipeline, OrderPart
  <2>3. Below(x.key, mergeKeys, mReceivedDataQueue)
    BY <1>3 DEF Pipeline, OrderPart
  <2>4. QED
    BY <1>1, <1>5, <2>1, <2>2, <2>3 DEF Pipeline, OrderPart
<1>11. CompletePart(k)'
  <2>1. \A i \in DOMAIN mStfsForMerging : \E tf \in accepted :
          k[tf] = mStfsForMerging[i].key /\ Whole(tf, mStfsForMerging[i].stfs) /\ Closed(tf)'
    BY DEF Pipeline, CompletePart, Down
  <2>2. \A i \in DOMAIN mStfsForMerging' : \E tf \in accepted :
          k[tf] = mStfsForMerging'[i].key /\ Whole(tf, mStfsForMerging'[i].stfs) /\ Closed(tf)'
    BY <1>6, <2>1
  <2>3. \E tf \in accepted : k[tf] = x.key /\ Whole(tf, x.stfs) /\ Closed(tf)'
    BY <1>3, <2>1
  <2>4. merging' # <<>> =>
          /\ merging'[1].stfs # {}
          /\ \E tf \in accepted' : k[tf] = merging'[1].key /\ Whole(tf, merging'[1].stfs) /\ Closed(tf)'
    BY <1>1, <1>5, <2>3
  <2>5. \A i \in DOMAIN built' : built'[i] # {} /\ \E tf \in accepted' : Whole(tf, built'[i]) /\ Closed(tf)'
    BY <1>1 DEF Pipeline, CompletePart, Down
  <2>6. QED
    BY <1>1, <2>2, <2>4, <2>5 DEF CompletePart
<1>12. QED
  BY <1>9, <1>10, <1>11 DEF Pipeline

\* A TF of STFs has the key of their TF.
LEMMA WholeKeys ==
  ASSUME Base, NEW k, Pipeline(k), NEW tf \in accepted, NEW stfs, Whole(tf, stfs), NEW stf \in stfs
  PROVE  stf.tf = tf /\ k[stf.tf] \in Nat
<1>1. stf.tf = tf
  BY DEF Whole, Stf
<1>2. QED
  BY <1>1 DEF Pipeline, KeyPart

LEMMA BuiltKeys ==
  ASSUME Base, NEW k, Pipeline(k)
  PROVE  \A i \in DOMAIN built : \A stf \in built[i] : stf.tf \in accepted /\ k[stf.tf] \in Nat
<1>1. ASSUME NEW i \in DOMAIN built, NEW stf \in built[i]
      PROVE  stf.tf \in accepted /\ k[stf.tf] \in Nat
  <2>1. PICK tf \in accepted : Whole(tf, built[i])
    BY DEF Pipeline, CompletePart
  <2>2. QED
    BY <2>1, WholeKeys
<1>2. QED
  BY <1>1

LEMMA MergePipeline ==
  ASSUME Base, Down, NEW k, Pipeline(k), MergeTf
  PROVE  Pipeline(k)'
<1>1. /\ UNCHANGED <<accepted, mTopoStfId, mTopoTfIdRenameMap, mStfRequestQueue, requesting,
                     mStfsCountMap, transfers, failed, mReceivedDataQueue, mergeKeys, mergeStfs,
                     mStfsForMerging, built>>
      /\ merging # <<>> /\ merging' = <<>> /\ merged' = merging
  BY DEF MergeTf, requestVars, receiveVars, outVars, topoVars
<1>2. PICK key \in Nat : key = merging[1].key
  BY <1>1, Merger DEF Base
<1>3. /\ Below(key, mergeKeys, mReceivedDataQueue) /\ Over(mStfsForMerging, key)
      /\ mMaxMergedTfId < key /\ merged = <<>> /\ mMaxMergedTfId \in Nat
  BY <1>1, <1>2 DEF Pipeline, OrderPart, Base, MergeType
<1>4. mMaxMergedTfId' = key
  BY <1>2, <1>3 DEF MergeTf
<1>5. \A stf \in Stfs : (Arriving(stf)' <=> Arriving(stf)) /\ (Stored(stf)' <=> Stored(stf))
  BY <1>1 DEF Arriving, Stored
<1>6. \A stf \in Stfs : Sent(stf)' <=> Sent(stf)
  BY <1>5 DEF Sent
<1>7. KeyPart(k)' /\ NamePart(k)' /\ CountPart(k)' /\ HomePart(k)'
  BY <1>1, <1>5, <1>6, KeyFrame, NameFrame, CountFrame, HomeFrame DEF Pipeline
<1>8. CompletePart(k)'
  BY <1>1 DEF Pipeline, CompletePart, Down
<1>9. OrderPart(k)'
  <2>1. \E tf \in accepted : k[tf] = key
    BY <1>1, <1>2 DEF Pipeline, CompletePart
  <2>2. QED
    BY <1>1, <1>2, <1>3, <1>4, <2>1 DEF Pipeline, OrderPart
<1>10. BuiltPart(k)'
  <2>1. \A i \in DOMAIN built : \A stf \in built[i] : k[stf.tf] < key
    <3>1. ASSUME NEW i \in DOMAIN built, NEW stf \in built[i] PROVE k[stf.tf] < key
      <4>1. k[stf.tf] \in Nat /\ k[stf.tf] <= mMaxMergedTfId
        BY BuiltKeys DEF Pipeline, BuiltPart
      <4>2. QED
        BY <1>3, <4>1
    <3>2. QED
      BY <3>1
  <2>2. \A i \in DOMAIN built : \A stf \in built[i] : k[stf.tf] <= key
    <3>1. ASSUME NEW i \in DOMAIN built, NEW stf \in built[i] PROVE k[stf.tf] <= key
      <4>1. k[stf.tf] \in Nat /\ k[stf.tf] < key
        BY <2>1, BuiltKeys
      <4>2. QED
        BY <4>1
    <3>2. QED
      BY <3>1
  <2>3. QED
    BY <1>1, <1>4, <2>1, <2>2 DEF Pipeline, BuiltPart
<1>11. QED
  BY <1>7, <1>8, <1>9, <1>10 DEF Pipeline

LEMMA QueuePipeline ==
  ASSUME Base, Down, NEW k, Pipeline(k), QueueTf
  PROVE  Pipeline(k)'
<1>1. /\ UNCHANGED <<accepted, mTopoStfId, mTopoTfIdRenameMap, mStfRequestQueue, requesting,
                     mStfsCountMap, transfers, failed, mReceivedDataQueue, mergeKeys, mergeStfs,
                     mMaxMergedTfId, mStfsForMerging, merging>>
      /\ merged # <<>> /\ merged' = <<>> /\ built' = Append(built, merged[1].stfs)
  BY DEF QueueTf, requestVars, receiveVars, mergeVars, topoVars
<1>2. PICK stfs \in SUBSET Stfs : stfs = merged[1].stfs
  BY <1>1, Merger DEF Base
<1>3. mMaxMergedTfId \in Nat /\ merged[1].key = mMaxMergedTfId /\ built \in Seq(SUBSET Stfs)
  BY <1>1 DEF Base, MergeType, OutType, Pipeline, OrderPart
<1>4. PICK tf \in accepted : k[tf] = mMaxMergedTfId /\ Whole(tf, stfs) /\ Closed(tf)
  BY <1>1, <1>2, <1>3 DEF Pipeline, CompletePart
<1>5. \A stf \in stfs : k[stf.tf] = mMaxMergedTfId
  BY <1>4, WholeKeys
<1>6. /\ Len(built) \in Nat /\ DOMAIN built = 1 .. Len(built)
      /\ \A i \in DOMAIN built' : \/ i \in DOMAIN built /\ built'[i] = built[i]
                                  \/ i = Len(built) + 1 /\ built'[i] = stfs
  BY <1>1, <1>2, <1>3, Appended
<1>7. \A stf \in Stfs : (Arriving(stf)' <=> Arriving(stf)) /\ (Stored(stf)' <=> Stored(stf))
  BY <1>1 DEF Arriving, Stored
<1>8. \A stf \in Stfs : Sent(stf)' <=> Sent(stf)
  BY <1>7 DEF Sent
<1>9. KeyPart(k)' /\ NamePart(k)' /\ CountPart(k)' /\ HomePart(k)'
  BY <1>1, <1>7, <1>8, KeyFrame, NameFrame, CountFrame, HomeFrame DEF Pipeline
<1>10. OrderPart(k)'
  BY <1>1 DEF Pipeline, OrderPart
<1>11. CompletePart(k)'
  <2>1. stfs # {}
    BY <1>1, <1>2 DEF Pipeline, CompletePart
  <2>2. \A i \in DOMAIN built' : built'[i] # {} /\ \E a \in accepted' : Whole(a, built'[i]) /\ Closed(a)'
    <3>1. \A i \in DOMAIN built : built[i] # {} /\ \E a \in accepted : Whole(a, built[i]) /\ Closed(a)'
      BY DEF Pipeline, CompletePart, Down
    <3>2. QED
      BY <1>1, <1>4, <1>6, <2>1, <3>1 DEF Down
  <2>3. QED
    BY <1>1, <2>2 DEF Pipeline, CompletePart, Down
<1>12. BuiltPart(k)'
  <2>1. \A i \in DOMAIN built : \A stf \in built[i] :
          k[stf.tf] < mMaxMergedTfId /\ k[stf.tf] <= mMaxMergedTfId
    BY <1>1 DEF Pipeline, BuiltPart
  <2>2. \A i \in DOMAIN built' : \A stf \in built'[i] : k[stf.tf] <= mMaxMergedTfId
    BY <1>3, <1>5, <1>6, <2>1
  <2>3. ASSUME NEW i \in DOMAIN built', NEW j \in DOMAIN built', i < j,
               NEW stf \in built'[i], NEW other \in built'[j]
        PROVE  k[stf.tf] < k[other.tf]
    <3>1. i \in DOMAIN built /\ built'[i] = built[i]
      BY <1>6, <2>3
    <3>2. CASE j \in DOMAIN built /\ built'[j] = built[j]
      BY <2>3, <3>1, <3>2 DEF Pipeline, BuiltPart
    <3>3. CASE built'[j] = stfs
      BY <1>5, <2>1, <2>3, <3>1, <3>3
    <3>4. QED
      BY <1>6, <3>2, <3>3
  <2>4. QED
    BY <1>1, <2>2, <2>3 DEF BuiltPart
<1>13. QED
  BY <1>9, <1>10, <1>11, <1>12 DEF Pipeline

-----------------------------------------------------------------------------
\* A TF that is accepted gets a key above all others.
WithKey(k, tf) == [a \in accepted \union {tf} |-> IF a = tf THEN NewKey(tf) ELSE k[a]]

LEMMA FreshKey ==
  ASSUME Base, Calm, Calm', NEW k, Pipeline(k), NEW tf \in Tfs, MayBeRequested(tf), BuildTfRequest(tf)
  PROVE  /\ run = 1 /\ ~resetting
         /\ NewKey(tf) \in Nat \ {0} /\ \A a \in accepted : k[a] \in Nat /\ k[a] < NewKey(tf)
         /\ \A a \in accepted : ~(a.stfs = tf.stfs /\ a.id = tf.id) /\ (Topological(a) <=> Topological(tf))
<1>1. tf \notin accepted /\ tf \in accepted' /\ run' = run
  BY DEF MayBeRequested, BuildTfRequest, runVars
<1>2. tf.run = 1 /\ tf \notin EarlyTfs /\ run <= 1 /\ run \in Nat
  BY <1>1 DEF Calm, Base, RunType
<1>3. run = 1 /\ ~resetting
  BY <1>2 DEF MayBeRequested
<1>4. /\ \A a \in accepted : a \in Tfs /\ a.run = 1 /\ a.id \in Nat
      /\ tf.id \in Nat \ {0} /\ mTopoStfId \in Nat \ {0}
  BY TfParts DEF Calm, Base, RequestType, TopoType, Pipeline, KeyPart
<1>5. \A a \in accepted : Topological(a) <=> Topological(tf)
  BY <1>2, <1>4 DEF Topological
<1>6. \A a \in accepted : a.id < tf.id \/ (Topological(tf) /\ a.stfs # tf.stfs)
  BY <1>2, <1>4 DEF MayBeRequested
<1>7. \A a \in accepted : ~(a.stfs = tf.stfs /\ a.id = tf.id)
  BY <1>4, <1>6
<1>8. NewKey(tf) \in Nat \ {0}
  BY <1>4 DEF NewKey
<1>9. ASSUME NEW a \in accepted PROVE k[a] \in Nat /\ k[a] < NewKey(tf)
  <2>1. k[a] \in Nat
    BY DEF Pipeline, KeyPart
  <2>2. CASE Topological(tf)
    BY <1>5, <2>1, <2>2 DEF NewKey, Pipeline, KeyPart
  <2>3. CASE ~Topological(tf)
    <3>1. k[a] = a.id
      BY <1>5, <2>3 DEF Pipeline, KeyPart
    <3>2. QED
      BY <1>6, <2>1, <2>3, <3>1 DEF NewKey
  <2>4. QED
    BY <2>2, <2>3
<1>10. QED
  BY <1>3, <1>5, <1>7, <1>8, <1>9

LEMMA AcceptFrame ==
  ASSUME Base, NEW tf \in Tfs, MayBeRequested(tf), BuildTfRequest(tf)
  PROVE  /\ tf \notin accepted /\ accepted' = accepted \union {tf}
         /\ UNCHANGED <<requesting, mStfsCountMap, transfers, failed, mergeKeys, mergeStfs,
                        mMaxMergedTfId, mStfsForMerging, merging, merged, built>>
         /\ \A stf \in Stfs : (Arriving(stf)' <=> Arriving(stf)) /\ (Stored(stf)' <=> Stored(stf))
         /\ \A stf \in Stfs : Sent(stf)' <=> Sent(stf)
         /\ Unsent(tf)
<1>1. /\ tf \notin accepted /\ accepted' = accepted \union {tf}
      /\ UNCHANGED <<requesting, mStfsCountMap, transfers, failed, mergeKeys, mergeStfs,
                     mMaxMergedTfId, mStfsForMerging, merging, merged, built>>
  BY DEF MayBeRequested, BuildTfRequest, receiveVars, mergeVars, mergerVars, outVars
<1>2. Still
  BY AcceptPlaces DEF AcceptTf, Base
<1>3. \A stf \in Stfs : (Arriving(stf)' <=> Arriving(stf)) /\ (Stored(stf)' <=> Stored(stf))
  BY <1>2 DEF Still, Arriving
<1>4. \A stf \in Stfs : Sent(stf)' <=> Sent(stf)
  BY <1>3 DEF Sent
<1>5. Unsent(tf)
  BY <1>1, StfParts DEF Unsent, Base, TransferInv, SentInv
<1>6. QED
  BY <1>1, <1>3, <1>4, <1>5

LEMMA AcceptKeys ==
  ASSUME Base, Calm, Calm', NEW k, Pipeline(k), NEW tf \in Tfs, MayBeRequested(tf), BuildTfRequest(tf),
         NEW l, l = WithKey(k, tf)
  PROVE  KeyPart(l)'
<1> DEFINE new == NewKey(tf)
<1>1. tf \notin accepted /\ accepted' = accepted \union {tf}
  BY AcceptFrame
<1>2. /\ new \in Nat \ {0} /\ \A a \in accepted : k[a] \in Nat /\ k[a] < new
      /\ \A a \in accepted : Topological(a) <=> Topological(tf)
  BY FreshKey
<1>3. /\ DOMAIN l = accepted \union {tf} /\ l[tf] = new /\ \A a \in accepted : l[a] = k[a]
      /\ l = [a \in accepted' |-> l[a]]
  BY <1>1 DEF WithKey
<1> HIDE DEF new
<1>4. \A a, b \in accepted : k[a] = k[b] => a = b
  BY DEF Pipeline, KeyPart
<1>5. \A a \in accepted : k[a] \in Nat \ {0}
  BY DEF Pipeline, KeyPart
<1>6. l \in [accepted' -> Nat \ {0}]
  BY <1>1, <1>2, <1>3, <1>5
<1>7. ASSUME NEW a \in accepted', NEW b \in accepted', l[a] = l[b] PROVE a = b
  <2>1. CASE a \in accepted /\ b \in accepted
    BY <1>3, <1>4, <1>7, <2>1
  <2>2. CASE a = tf /\ b \in accepted
    BY <1>2, <1>3, <1>7, <2>2
  <2>3. CASE b = tf /\ a \in accepted
    BY <1>2, <1>3, <1>7, <2>3
  <2>4. QED
    BY <1>1, <2>1, <2>2, <2>3
<1>8. mTopoStfId \in Nat \ {0} /\ mTopoStfId' = (IF Topological(tf) THEN mTopoStfId + 1 ELSE mTopoStfId)
  BY Accepting DEF Base, TopoType, Pipeline, KeyPart, topoVars
<1>9. mTopoStfId' # 0 /\ mTopoStfId' \in Nat
  BY <1>8
<1>10. ASSUME NEW a \in accepted' PROVE IF Topological(a) THEN l[a] < mTopoStfId' ELSE l[a] = a.id
  <2>1. CASE a = tf /\ Topological(tf)
    BY <1>3, <1>8, <2>1 DEF NewKey, new
  <2>2. CASE a = tf /\ ~Topological(tf)
    BY <1>3, <2>2 DEF NewKey, new
  <2>3. CASE a \in accepted /\ Topological(tf)
    <3>1. k[a] < mTopoStfId /\ Topological(a)
      BY <1>2, <2>3 DEF Pipeline, KeyPart
    <3>2. QED
      BY <1>2, <1>3, <1>8, <2>3, <3>1
  <2>4. CASE a \in accepted /\ ~Topological(tf)
    BY <1>2, <1>3, <2>4 DEF Pipeline, KeyPart
  <2>5. QED
    BY <1>1, <2>1, <2>2, <2>3, <2>4
<1>11. \A i \in DOMAIN mStfRequestQueue' : mStfRequestQueue'[i].key = l[mStfRequestQueue'[i].tf]
  <2> DEFINE x == [tf |-> tf, key |-> new]
  <2>1. /\ mStfRequestQueue \in Seq(Request) /\ x \in Request /\ x.tf = tf /\ x.key = new
        /\ mStfRequestQueue' = Append(mStfRequestQueue, x)
    BY Accepting DEF Base, RequestType, new
  <2> HIDE DEF x
  <2>2. \A i \in DOMAIN mStfRequestQueue' :
           \/ i \in DOMAIN mStfRequestQueue /\ mStfRequestQueue'[i] = mStfRequestQueue[i]
           \/ mStfRequestQueue'[i] = x
    BY <2>1, Appended
  <2>3. ASSUME NEW i \in DOMAIN mStfRequestQueue
        PROVE  mStfRequestQueue[i].key = l[mStfRequestQueue[i].tf]
    <3>1. mStfRequestQueue[i] \in Request
      BY <2>1, ElementOfSeq, LenProperties
    <3>2. mStfRequestQueue[i].tf \in Tfs
      BY <3>1 DEF Request
    <3>3. mStfRequestQueue[i].tf \in accepted
      BY <3>2 DEF Base, AskInv, Queued, Has
    <3>4. QED
      BY <1>3, <3>3 DEF Pipeline, KeyPart
  <2>4. QED
    BY <1>3, <2>1, <2>2, <2>3
<1>12. requesting' # <<>> => requesting'[1].request.key = l[requesting'[1].request.tf]
  <2>1. requesting' = requesting
    BY AcceptFrame
  <2>2. requesting # <<>> => requesting[1].request.tf \in accepted
    BY AskedTf DEF Base
  <2>3. QED
    BY <1>3, <2>1, <2>2 DEF Pipeline, KeyPart
<1>13. \A e \in mergeStfs' : e.key = l[e.stf.tf]
  <2>1. \A e \in mergeStfs : e.stf \in Stfs /\ Stored(e.stf)
    BY DEF Base, MergeType, Stored
  <2>2. \A e \in mergeStfs : e.stf.tf \in accepted
    BY <2>1 DEF Base, TransferInv, SentInv, Sent
  <2>3. QED
    BY <1>3, <2>2, AcceptFrame DEF Pipeline, KeyPart
<1>14. QED
  BY <1>6, <1>7, <1>9, <1>10, <1>11, <1>12, <1>13 DEF KeyPart

LEMMA AcceptNames ==
  ASSUME Base, Calm, Calm', Down, NEW k, Pipeline(k), NEW tf \in Tfs, MayBeRequested(tf), BuildTfRequest(tf),
         NEW l, l = WithKey(k, tf)
  PROVE  NamePart(l)'
<1>1. tf \notin accepted /\ accepted' = accepted \union {tf}
  BY AcceptFrame
<1>2. l[tf] = NewKey(tf) /\ \A a \in accepted : l[a] = k[a]
  BY <1>1 DEF WithKey
<1>3. \A a \in accepted : ~(a.stfs = tf.stfs /\ a.id = tf.id) /\ (Topological(a) <=> Topological(tf))
  BY FreshKey
<1>4. \/ Topological(tf) /\ \E s \in tf.stfs : mTopoTfIdRenameMap' =
                        {e \in mTopoTfIdRenameMap : e.from # s \/ e.id # tf.id}
                          \union {[from |-> s, id |-> tf.id, to |-> NewKey(tf)]}
      \/ ~Topological(tf) /\ mTopoTfIdRenameMap' = mTopoTfIdRenameMap
  BY Accepting DEF Base, topoVars
<1>5. ASSUME NEW e \in mTopoTfIdRenameMap'
      PROVE  \E a \in accepted' : a.stfs = {e.from} /\ a.id = e.id /\ l[a] = e.to
  <2>1. CASE e \in mTopoTfIdRenameMap
    BY <1>1, <1>2, <2>1 DEF Pipeline, NamePart
  <2>2. CASE e \notin mTopoTfIdRenameMap
    <3>1. PICK s \in tf.stfs : Topological(tf) /\ e = [from |-> s, id |-> tf.id, to |-> NewKey(tf)]
      BY <1>4, <1>5, <2>2
    <3>2. tf.stfs = {s}
      BY <3>1, OneStf
    <3>3. QED
      BY <1>1, <1>2, <3>1, <3>2
  <2>3. QED
    BY <2>1, <2>2
<1>6. ASSUME NEW a \in accepted', NEW s \in a.stfs,
             Topological(a), Waiting(a)' \/ Arriving(Stf(a, s))', ~Stored(Stf(a, s))'
      PROVE  [from |-> s, id |-> a.id, to |-> l[a]] \in mTopoTfIdRenameMap'
  <2>1. CASE a = tf
    <3>1. PICK t \in tf.stfs : mTopoTfIdRenameMap' =
                        {e \in mTopoTfIdRenameMap : e.from # t \/ e.id # tf.id}
                          \union {[from |-> t, id |-> tf.id, to |-> NewKey(tf)]}
      BY <1>4, <1>6, <2>1
    <3>2. tf.stfs = {t}
      BY <1>6, <2>1, OneStf
    <3>3. s = t
      BY <2>1, <3>2
    <3>4. QED
      BY <1>2, <2>1, <3>1, <3>3
  <2>2. CASE a \in accepted
    <3>1. a \in Tfs /\ s \in StfSenders /\ Stf(a, s) \in Stfs
      BY <2>2, TfParts, StfParts DEF Base, RequestType
    <3>2. (Waiting(a) \/ Arriving(Stf(a, s))) /\ ~Stored(Stf(a, s))
      BY <1>6, <2>2, <3>1, AcceptFrame DEF Down
    <3> DEFINE e == [from |-> s, id |-> a.id, to |-> l[a]]
    <3>3. e \in mTopoTfIdRenameMap /\ e.from = s /\ e.id = a.id
      BY <1>2, <1>6, <2>2, <3>2 DEF Pipeline, NamePart
    <3> HIDE DEF e
    <3>4. PICK t \in tf.stfs : mTopoTfIdRenameMap' =
                        {x \in mTopoTfIdRenameMap : x.from # t \/ x.id # tf.id}
                          \union {[from |-> t, id |-> tf.id, to |-> NewKey(tf)]}
      BY <1>3, <1>4, <1>6, <2>2
    <3>5. ~(s = t /\ a.id = tf.id)
      <4>1. Topological(tf) /\ a.stfs = {s} /\ tf.stfs = {t}
        BY <1>3, <1>6, <2>2, <3>1, OneStf
      <4>2. QED
        BY <1>3, <2>2, <4>1
    <3>6. e \in mTopoTfIdRenameMap'
      BY <3>3, <3>4, <3>5
    <3>7. QED
      BY <3>6 DEF e
  <2>3. QED
    BY <1>1, <2>1, <2>2
<1>7. QED
  BY <1>5, <1>6 DEF NamePart

LEMMA AcceptCounts ==
  ASSUME Base, Calm, Calm', Down, NEW k, Pipeline(k), NEW tf \in Tfs, MayBeRequested(tf), BuildTfRequest(tf),
         NEW l, l = WithKey(k, tf)
  PROVE  CountPart(l)'
<1>1. tf \notin accepted /\ UNCHANGED <<requesting, mStfsCountMap>>
  BY AcceptFrame
<1>2. \A a \in accepted : l[a] = k[a] /\ a \in Tfs
  BY <1>1 DEF WithKey, Base, RequestType
<1>3. \A a \in Tfs : SameOf(a)
  BY AcceptFrame, SameSentAll
<1>4. ASSUME NEW e \in mStfsCountMap' PROVE Counted(l, e)'
  <2>1. Counted(k, e)
    BY <1>1, CountParts DEF Pipeline
  <2>2. PICK a \in accepted : e.key = l[a] /\ ~Waiting(a)
                        /\ e.count = Cardinality(SentOf(a))
                        /\ \A s \in a.stfs : Accounted(a, s)
    BY <1>2, <2>1 DEF Counted
  <2>3. QED
    BY <1>2, <1>3, <2>2, CountedFrame
<1>5. ASSUME NEW a \in Tfs, Asked(a)' PROVE Counting(a)'
  <2>1. Asked(a) /\ Counting(a)
    BY <1>1, <1>5, CountParts DEF Pipeline, Asked
  <2>2. QED
    BY <1>1, <1>3, <2>1, CountingFrame
<1>6. QED
  BY <1>4, <1>5 DEF CountPart, Counted, Counting

\* The announcement comes after all others, and no STF of the TF is there yet.
LEMMA AcceptQueue ==
  ASSUME Base, Calm, Calm', NEW k, Pipeline(k), NEW tf \in Tfs, MayBeRequested(tf), BuildTfRequest(tf),
         NEW l, l = WithKey(k, tf)
  PROVE  /\ Rising(mReceivedDataQueue') /\ Announced(mReceivedDataQueue', l)
         /\ \A n \in Nat : n < NewKey(tf) /\ Behind(mReceivedDataQueue, n) => Behind(mReceivedDataQueue', n)
         /\ \A key \in Nat :
              /\ In(mReceivedDataQueue', ADD(key)) <=> In(mReceivedDataQueue, ADD(key)) \/ key = NewKey(tf)
              /\ In(mReceivedDataQueue', DELETE(key)) => In(mReceivedDataQueue, DELETE(key))
<1> DEFINE new == NewKey(tf)
           x == ADD(new)
<1>1. /\ tf \notin accepted /\ new \in Nat /\ \A a \in accepted : k[a] \in Nat /\ k[a] < new
      /\ mReceivedDataQueue' = Append(mReceivedDataQueue, x)
      /\ \A a \in accepted : l[a] = k[a]
  BY FreshKey, AcceptFrame, Accepting DEF Base, WithKey
<1>2. mReceivedDataQueue \in Seq(Item) /\ x \in Item /\ x.type = "ADD" /\ x.key = new
  BY <1>1, Items DEF Base, ReceiveType
<1>3. /\ \A key \in Nat : x = ADD(key) <=> key = new
      /\ \A key \in Nat : x # DELETE(key)
  BY <1>1, ItemsDiffer
<1> HIDE DEF new, x
<1>4. \A y : In(mReceivedDataQueue', y) <=> In(mReceivedDataQueue, y) \/ y = x
  BY <1>1, <1>2, InAppended
<1>5. \A key \in Nat :
        /\ In(mReceivedDataQueue', ADD(key)) <=> In(mReceivedDataQueue, ADD(key)) \/ key = new
        /\ In(mReceivedDataQueue', DELETE(key)) => In(mReceivedDataQueue, DELETE(key))
  BY <1>3, <1>4
<1>6. Rising(mReceivedDataQueue')
  <2>1. \A key \in Nat : In(mReceivedDataQueue, ADD(key)) => key < x.key
    BY <1>1, <1>2 DEF Pipeline, HomePart
  <2>2. QED
    BY <1>1, <1>2, <2>1, RisingAppended DEF Pipeline, OrderPart
<1>7. \A stf \in Stfs : In(mReceivedDataQueue, INFO(stf)) => stf.tf \in accepted
  BY DEF Base, TransferInv, SentInv, Sent, Arriving
<1>8. Announced(mReceivedDataQueue', l)
  <2>1. Announced(mReceivedDataQueue, l)
    <3>1. Announced(mReceivedDataQueue, k)
      BY DEF Pipeline, HomePart
    <3>2. \A stf \in Stfs : In(mReceivedDataQueue, INFO(stf)) => k[stf.tf] = l[stf.tf]
      BY <1>1, <1>7
    <3>3. QED
      BY <1>2, <3>1, <3>2, AnnouncedByOther
  <2>2. \A stf \in Stfs : In(mReceivedDataQueue, INFO(stf)) => x.key # l[stf.tf]
    BY <1>1, <1>2, <1>7
  <2>3. QED
    BY <1>1, <1>2, <2>1, <2>2, AnnouncedAppended
<1>9. \A n \in Nat : n < new /\ Behind(mReceivedDataQueue, n) => Behind(mReceivedDataQueue', n)
  BY <1>5 DEF Behind
<1>10. QED
  BY <1>5, <1>6, <1>8, <1>9 DEF new

LEMMA AcceptPipeline ==
  ASSUME Base, Calm, Calm', Down, NEW k, Pipeline(k), AcceptTf
  PROVE  run = 1 /\ ~resetting /\ \E l : Pipeline(l)'
<1>1. PICK tf \in Tfs : MayBeRequested(tf) /\ BuildTfRequest(tf)
  BY DEF AcceptTf
<1>2. PICK l : l = WithKey(k, tf)
  OBVIOUS
<1>3. PICK new \in Nat : new = NewKey(tf)
  BY <1>1, FreshKey
<1>4. /\ tf \notin accepted /\ accepted' = accepted \union {tf}
      /\ UNCHANGED <<mergeKeys, mMaxMergedTfId, mStfsForMerging, merging, merged, built>>
      /\ l[tf] = new /\ \A a \in accepted : l[a] = k[a]
  BY <1>1, <1>2, <1>3, AcceptFrame DEF WithKey
<1>5. /\ run = 1 /\ ~resetting /\ 0 < new
      /\ \A a \in accepted : k[a] \in Nat /\ k[a] < new
  BY <1>1, <1>3, FreshKey
<1>6. /\ Rising(mReceivedDataQueue') /\ Announced(mReceivedDataQueue', l)
      /\ \A n \in Nat : n < new /\ Behind(mReceivedDataQueue, n) => Behind(mReceivedDataQueue', n)
      /\ \A key \in Nat :
           /\ In(mReceivedDataQueue', ADD(key)) <=> In(mReceivedDataQueue, ADD(key)) \/ key = new
           /\ In(mReceivedDataQueue', DELETE(key)) => In(mReceivedDataQueue, DELETE(key))
  BY <1>1, <1>2, <1>3, AcceptQueue
<1>7. KeyPart(l)' /\ NamePart(l)' /\ CountPart(l)'
  BY <1>1, <1>2, AcceptKeys, AcceptNames, AcceptCounts
<1>8. HomePart(l)'
  <2>1. \A a \in accepted' :
          l[a] \in mergeKeys' \/ In(mReceivedDataQueue', ADD(l[a])) \/ Closed(a)'
    <3>1. In(mReceivedDataQueue', ADD(l[tf]))
      BY <1>4, <1>6
    <3>2. ASSUME NEW a \in accepted
          PROVE  l[a] \in mergeKeys' \/ In(mReceivedDataQueue', ADD(l[a])) \/ Closed(a)'
      BY <1>4, <1>5, <1>6 DEF Pipeline, HomePart, Down
    <3>3. QED
      BY <1>4, <3>1, <3>2
  <2>2. \A key \in mergeKeys' : \E a \in accepted' : l[a] = key
    BY <1>4 DEF Pipeline, HomePart
  <2>3. \A key \in Nat : In(mReceivedDataQueue', ADD(key)) => \E a \in accepted' : l[a] = key
    BY <1>4, <1>6 DEF Pipeline, HomePart
  <2>4. \A key \in Nat : In(mReceivedDataQueue', DELETE(key)) =>
          \E a \in accepted' : l[a] = key /\ Closed(a)'
    BY <1>4, <1>6 DEF Pipeline, HomePart, Down
  <2>5. QED
    BY <1>6, <2>1, <2>2, <2>3, <2>4 DEF HomePart
<1>9. OrderPart(l)'
  <2> DEFINE Old(n) == n \in Nat /\ n < new
  <2>1. \A n : Old(n) /\ Below(n, mergeKeys, mReceivedDataQueue) =>
               Below(n, mergeKeys', mReceivedDataQueue')
    BY <1>4, <1>6 DEF Below
  <2>2. \A key \in mergeKeys : Old(key)
    BY <1>5 DEF Pipeline, HomePart
  <2>3. \A i \in DOMAIN mStfsForMerging : Old(mStfsForMerging[i].key)
    BY <1>5 DEF Pipeline, CompletePart
  <2>4. merging # <<>> => Old(merging[1].key)
    BY <1>5 DEF Pipeline, CompletePart
  <2>5. Old(mMaxMergedTfId)
    BY <1>5 DEF Pipeline, OrderPart
  <2> HIDE DEF Old
  <2>6. \A key \in mergeKeys' : Behind(mReceivedDataQueue', key)
    BY <1>4, <1>6, <2>2 DEF Pipeline, OrderPart, Old
  <2>7. \A i \in DOMAIN mStfsForMerging' :
          Below(mStfsForMerging'[i].key, mergeKeys', mReceivedDataQueue')
    BY <1>4, <2>1, <2>3 DEF Pipeline, OrderPart
  <2>8. /\ Below(mMaxMergedTfId', mergeKeys', mReceivedDataQueue')
        /\ merging' # <<>> => Below(merging'[1].key, mergeKeys', mReceivedDataQueue')
    BY <1>4, <2>1, <2>4, <2>5 DEF Pipeline, OrderPart
  <2>9. mMaxMergedTfId' = 0 \/ \E a \in accepted' : l[a] = mMaxMergedTfId'
    BY <1>4 DEF Pipeline, OrderPart
  <2>10. QED
    BY <1>4, <1>6, <2>6, <2>7, <2>8, <2>9 DEF Pipeline, OrderPart
<1>10. BuiltPart(l)'
  <2>1. \A i \in DOMAIN built : \A stf \in built[i] : l[stf.tf] = k[stf.tf]
    BY <1>4, BuiltKeys
  <2>2. QED
    BY <1>4, <2>1 DEF Pipeline, BuiltPart
<1>11. CompletePart(l)'
  <2>1. \A i \in DOMAIN mStfsForMerging' : \E a \in accepted' :
          l[a] = mStfsForMerging'[i].key /\ Whole(a, mStfsForMerging'[i].stfs) /\ Closed(a)'
    BY <1>4 DEF Pipeline, CompletePart, Down
  <2>2. merging' # <<>> =>
          /\ merging'[1].stfs # {}
          /\ \E a \in accepted' : l[a] = merging'[1].key /\ Whole(a, merging'[1].stfs) /\ Closed(a)'
    BY <1>4 DEF Pipeline, CompletePart, Down
  <2>3. merged' # <<>> =>
          /\ merged'[1].stfs # {}
          /\ \E a \in accepted' : l[a] = merged'[1].key /\ Whole(a, merged'[1].stfs) /\ Closed(a)'
    BY <1>4 DEF Pipeline, CompletePart, Down
  <2>4. \A i \in DOMAIN built' : built'[i] # {} /\ \E a \in accepted' : Whole(a, built'[i]) /\ Closed(a)'
    BY <1>4 DEF Pipeline, CompletePart, Down
  <2>5. QED
    BY <2>1, <2>2, <2>3, <2>4 DEF CompletePart
<1>12. Pipeline(l)'
  BY <1>7, <1>8, <1>9, <1>10, <1>11 DEF Pipeline
<1>13. QED
  BY <1>5, <1>12

-----------------------------------------------------------------------------
\* Before the run, and while it is being reset, no TF is there and nothing is under way.
LEMMA NothingThere ==
  ASSUME Base, NEW k, Pipeline(k), accepted = {}
  PROVE  /\ mReceivedDataQueue = <<>> /\ mStfsForMerging = <<>> /\ merging = <<>> /\ merged = <<>>
         /\ mStfRequestQueue = <<>> /\ requesting = <<>>
         /\ mergeKeys = {} /\ mergeStfs = {} /\ mMaxMergedTfId = 0 /\ mTopoTfIdRenameMap = {}
<1>1. \A stf \in Stfs : ~Sent(stf)
  BY DEF Base, TransferInv, SentInv
<1>2. mReceivedDataQueue = <<>>
  <2>1. mReceivedDataQueue \in Seq(Item)
    BY DEF Base, ReceiveType
  <2>2. SUFFICES ASSUME mReceivedDataQueue # <<>> PROVE FALSE
    OBVIOUS
  <2>3. PICK x \in Item : In(mReceivedDataQueue, x)
    BY <2>1, <2>2, InTailed, Tailed
  <2>4. CASE x.type = "INFO" /\ x.stf \in Stfs /\ x = INFO(x.stf)
    BY <1>1, <2>3, <2>4 DEF Sent, Arriving
  <2>5. CASE x.key \in Nat /\ (x = ADD(x.key) \/ x = DELETE(x.key))
    BY <2>3, <2>5 DEF Pipeline, HomePart
  <2>6. QED
    BY <2>4, <2>5, Items
<1>3. mStfsForMerging = <<>>
  <2>1. mStfsForMerging \in Seq(KeyedTf)
    BY DEF Base, MergeType
  <2>2. \A i \in DOMAIN mStfsForMerging : FALSE
    BY DEF Pipeline, CompletePart
  <2>3. QED
    BY <2>1, <2>2, Tailed
<1>4. merging = <<>> /\ merged = <<>>
  BY DEF Pipeline, CompletePart
<1>5. mStfRequestQueue = <<>> /\ requesting = <<>>
  <2>1. mStfRequestQueue \in Seq(Request)
    BY DEF Base, RequestType
  <2>2. ASSUME mStfRequestQueue # <<>> PROVE FALSE
    <3>1. mStfRequestQueue[1] \in Request /\ 1 \in DOMAIN mStfRequestQueue
      BY <2>1, <2>2, Tailed
    <3>2. mStfRequestQueue[1].tf \in Tfs
      BY <3>1 DEF Request
    <3>3. QED
      BY <3>1, <3>2 DEF Base, AskInv, Queued, Has
  <2>3. ASSUME requesting # <<>> PROVE FALSE
    BY <2>3, AskedTf DEF Base
  <2>4. QED
    BY <2>2, <2>3
<1>6. mergeKeys = {} /\ mMaxMergedTfId = 0 /\ mTopoTfIdRenameMap = {}
  BY DEF Pipeline, HomePart, OrderPart, NamePart
<1>7. mergeStfs = {}
  <2>1. \A e \in mergeStfs : e.key \in mergeKeys
    BY DEF Base, MergeType
  <2>2. QED
    BY <1>6, <2>1
<1>8. QED
  BY <1>2, <1>3, <1>4, <1>5, <1>6, <1>7

LEMMA ResetPipeline ==
  ASSUME Base, Down, NEW k, Pipeline(k), accepted = {}, ResetInput
  PROVE  Pipeline(k)'
<1>1. UNCHANGED <<mReceivedDataQueue, mStfsForMerging, mergeKeys, mergeStfs, mMaxMergedTfId>>
  BY NothingThere DEF ResetInput
<1>2. UNCHANGED <<accepted, mTopoStfId, mTopoTfIdRenameMap, requestVars, transfers, failed, mergeVars,
                  merging, merged, built>>
  BY <1>1 DEF ResetInput, receiveVars, mergeVars, mergerVars, outVars, topoVars
<1>3. QED
  BY <1>1, <1>2, QuietPipeline

LEMMA PreRunPipeline ==
  ASSUME Base, Down, NEW k, Pipeline(k), accepted = {}, PreRun
  PROVE  Pipeline(k)'
<1>1. /\ UNCHANGED <<accepted, mTopoTfIdRenameMap, mStfRequestQueue, requesting, mStfsCountMap,
                     transfers, failed, mReceivedDataQueue, mergeKeys, mergeStfs, mMaxMergedTfId,
                     mStfsForMerging, merging, merged, built>>
      /\ mTopoStfId' = 1
  BY NothingThere DEF PreRun, reset_run_counters, requestVars, receiveVars, mergeVars, mergerVars, outVars
<1>2. \A stf \in Stfs : (Arriving(stf)' <=> Arriving(stf)) /\ (Stored(stf)' <=> Stored(stf))
  BY <1>1 DEF Arriving, Stored
<1>3. \A stf \in Stfs : Sent(stf)' <=> Sent(stf)
  BY <1>2 DEF Sent
<1>4. KeyPart(k)'
  <2>1. k \in [accepted' -> Nat \ {0}]
    BY <1>1 DEF Pipeline, KeyPart
  <2>2. accepted' = {} /\ mStfRequestQueue' = <<>> /\ requesting' = <<>> /\ mergeStfs' = {}
    BY <1>1, NothingThere
  <2>3. QED
    BY <1>1, <2>1, <2>2 DEF KeyPart
<1>5. NamePart(k)' /\ CountPart(k)'
  BY <1>1, <1>2, <1>3, NameFrame, CountFrame DEF Pipeline
<1>6. HomePart(k)' /\ OrderPart(k)' /\ BuiltPart(k)' /\ CompletePart(k)'
  BY <1>1, HomeFrame, OrderFrame, BuiltFrame, CompleteFrame DEF Pipeline
<1>7. QED
  BY <1>4, <1>5, <1>6 DEF Pipeline

-----------------------------------------------------------------------------
(* The inductive invariant of an undisturbed run: Pipeline for the keys that the *)
(* accepted TFs were given.                                                *)
CalmInv ==
  Calm => /\ run = 0 \/ resetting => accepted = {}
          /\ \E k : Pipeline(k)

LEMMA CalmBefore ==
  ASSUME Base, [Next]_vars, Calm'
  PROVE  Calm /\ (ResetInput => run = 0)
<1>1. run \in Nat
  BY DEF Base, RunType
<1>2. \/ UNCHANGED run
      \/ ResetInput /\ run' = run + 1
  <2>1. CASE RunStep
    BY <2>1 DEF RunStep, ResetInput, PreRun, PostRun
  <2>2. CASE AcceptTf
    BY <2>2 DEF AcceptTf, BuildTfRequest, runVars
  <2>3. CASE TakeRequest \/ AskStfSenders \/ CountRequest \/ FinishRequests \/ DeleteTf
    BY <2>3 DEF TakeRequest, AskStfSenders, CountRequest, FinishRequests, DeleteTf, runVars
  <2>4. CASE Arrival \/ Failure \/ StfPacingThread \/ StfDeserializingThread \/ MergeTf \/ QueueTf
    BY <2>4 DEF Arrival, Failure, DataHandlerThread, TransferFails, StfPacingThread,
                StfDeserializingThread, MergeTf, QueueTf, runVars
  <2>5. CASE TakeTf \/ ForwardStep \/ UNCHANGED vars
    BY <2>5 DEF vars, TakeTf, ForwardStep, DropTf, ForwardTf, TfForwarded, runVars
  <2>6. QED
    BY <2>1, <2>2, <2>3, <2>4, <2>5, Steps
<1>3. run <= 1
  BY <1>1, <1>2 DEF Calm
<1>4. Calm
  BY <1>3, AcceptedGrows, UnansweredGrows DEF Calm
<1>5. ResetInput => run = 0
  BY <1>1 DEF ResetInput, Calm
<1>6. QED
  BY <1>4, <1>5

LEMMA CalmInit ==
  ASSUME Init
  PROVE  CalmInv
<1> DEFINE k == [tf \in {} |-> 1]
<1>1. /\ accepted = {} /\ mStfRequestQueue = <<>> /\ requesting = <<>> /\ mStfsCountMap = {}
      /\ mReceivedDataQueue = <<>> /\ mergeKeys = {} /\ mergeStfs = {} /\ mMaxMergedTfId = 0
      /\ mStfsForMerging = <<>> /\ merging = <<>> /\ merged = <<>> /\ built = <<>>
      /\ mTopoStfId = 1 /\ mTopoTfIdRenameMap = {}
  BY DEF Init
<1>2. k \in [accepted -> Nat \ {0}]
  BY <1>1
<1> HIDE DEF k
<1>3. KeyPart(k) /\ NamePart(k)
  BY <1>1, <1>2 DEF KeyPart, NamePart
<1>4. CountPart(k) /\ HomePart(k)
  BY <1>1 DEF CountPart, HomePart, Asked, Announced, In
<1>5. OrderPart(k) /\ BuiltPart(k) /\ CompletePart(k)
  BY <1>1 DEF OrderPart, BuiltPart, CompletePart, Rising, Climbing, Over, Below, Behind, In
<1>6. QED
  BY <1>1, <1>3, <1>4, <1>5 DEF CalmInv, Pipeline

LEMMA CalmStep ==
  ASSUME Base, CalmInv, [Next]_vars
  PROVE  CalmInv'
<1>1. SUFFICES ASSUME Calm'
               PROVE  /\ run' = 0 \/ resetting' => accepted' = {}
                      /\ \E k : Pipeline(k)'
  BY DEF CalmInv
<1>2. Calm /\ Down /\ (ResetInput => run = 0) /\ (run = 0 \/ resetting => accepted = {})
  <2>1. Calm /\ (ResetInput => run = 0)
    BY <1>1, CalmBefore
  <2>2. Down
    BY DownStep
  <2>3. QED
    BY <2>1, <2>2 DEF CalmInv
<1>3. PICK k : Pipeline(k)
  BY <1>2 DEF CalmInv
<1>4. CASE ResetInput
  <2>1. accepted = {} /\ accepted' = accepted
    BY <1>2, <1>4 DEF ResetInput
  <2>2. Pipeline(k)'
    BY <1>2, <1>3, <1>4, <2>1, ResetPipeline
  <2>3. QED
    BY <2>1, <2>2
<1>5. CASE PreRun
  <2>1. accepted = {} /\ accepted' = accepted
    BY <1>2, <1>5 DEF PreRun
  <2>2. Pipeline(k)'
    BY <1>2, <1>3, <1>5, <2>1, PreRunPipeline
  <2>3. QED
    BY <2>1, <2>2
<1>6. CASE AcceptTf
  <2>1. run = 1 /\ ~resetting /\ \E l : Pipeline(l)'
    BY <1>1, <1>2, <1>3, <1>6, AcceptPipeline
  <2>2. UNCHANGED <<run, resetting>>
    BY <1>6 DEF AcceptTf, BuildTfRequest, runVars
  <2>3. QED
    BY <2>1, <2>2
<1>7. CASE PostRun \/ ForwardStep \/ UNCHANGED vars
  <2>1. UNCHANGED <<accepted, mTopoStfId, mTopoTfIdRenameMap, requestVars, transfers, failed,
                     mReceivedDataQueue, mergeVars, mStfsForMerging, merging, merged, built,
                     run, resetting>>
    <3>1. CASE PostRun
      BY <3>1 DEF PostRun, receiveVars, mergerVars, outVars, topoVars
    <3>2. CASE ForwardStep
      BY <3>2 DEF ForwardStep, DropTf, ForwardTf, TfForwarded, runVars, receiveVars, mergerVars, topoVars
    <3>3. CASE UNCHANGED vars
      BY <3>3 DEF vars, runVars, receiveVars, mergerVars, outVars, topoVars
    <3>4. QED
      BY <1>7, <3>1, <3>2, <3>3
  <2>2. Pipeline(k)'
    BY <1>2, <1>3, <2>1, QuietPipeline
  <2>3. QED
    BY <1>2, <2>1, <2>2
<1>8. CASE TakeRequest \/ AskStfSenders \/ CountRequest \/ FinishRequests \/ DeleteTf
  <2>1. UNCHANGED <<accepted, run, resetting>>
    BY <1>8 DEF TakeRequest, AskStfSenders, CountRequest, FinishRequests, DeleteTf, runVars
  <2>2. Pipeline(k)'
    <3>1. unanswered' = {}
      BY <1>1 DEF Calm
    <3>2. QED
      BY <1>2, <1>3, <1>8, <3>1, TakePipeline, AskPipeline, CountPipeline, FinishPipeline,
         DeletePipeline
  <2>3. QED
    BY <1>2, <2>1, <2>2
<1>9. CASE Arrival \/ Failure \/ StfPacingThread
  <2>1. UNCHANGED <<accepted, run, resetting>>
    BY <1>9 DEF Arrival, Failure, DataHandlerThread, TransferFails, StfPacingThread, runVars
  <2>2. Pipeline(k)'
    BY <1>2, <1>3, <1>9, ArrivalPipeline, FailurePipeline, PacingPipeline
  <2>3. QED
    BY <1>2, <2>1, <2>2
<1>10. CASE StfDeserializingThread \/ TakeTf \/ MergeTf \/ QueueTf
  <2>1. UNCHANGED <<accepted, run, resetting>>
    BY <1>10 DEF StfDeserializingThread, TakeTf, MergeTf, QueueTf, runVars
  <2>2. Pipeline(k)'
    BY <1>2, <1>3, <1>10, DeserializePipeline, TakeTfPipeline, MergePipeline, QueuePipeline
  <2>3. QED
    BY <1>2, <2>1, <2>2
<1>11. QED
  BY <1>4, <1>5, <1>6, <1>7, <1>8, <1>9, <1>10, Steps DEF RunStep

-----------------------------------------------------------------------------
LEMMA PipelineBuilds ==
  ASSUME Base, CalmInv
  PROVE  BuiltIsComplete /\ BuiltInOrder
<1>1. SUFFICES ASSUME Undisturbed
               PROVE  /\ \A i \in DOMAIN built : \E tf \in accepted :
                           /\ built[i] \subseteq {Stf(tf, s) : s \in tf.stfs}
                           /\ \A s \in tf.stfs : Stf(tf, s) \in built[i] \/ Stf(tf, s) \in Refused
                           /\ \A stf \in transfers \union failed : stf.tf # tf
                      /\ \A i, j \in DOMAIN built : \A stf \in built[i], other \in built[j] :
                           i < j /\ ~Topological(stf.tf) => stf.tf.id < other.tf.id
  BY DEF BuiltIsComplete, BuiltInOrder
<1>2. Calm
  BY <1>1 DEF Undisturbed, Calm
<1>3. PICK k : Pipeline(k)
  BY <1>2 DEF CalmInv
<1>4. ASSUME NEW i \in DOMAIN built
      PROVE  \E tf \in accepted :
               /\ built[i] \subseteq {Stf(tf, s) : s \in tf.stfs}
               /\ \A s \in tf.stfs : Stf(tf, s) \in built[i] \/ Stf(tf, s) \in Refused
               /\ \A stf \in transfers \union failed : stf.tf # tf
  <2>1. PICK tf \in accepted : Whole(tf, built[i]) /\ Closed(tf)
    BY <1>3 DEF Pipeline, CompletePart
  <2>2. ASSUME NEW stf \in transfers \union failed PROVE stf.tf # tf
    <3>1. stf \in Stfs
      BY DEF Base, ReceiveType
    <3>2. Sent(stf) /\ stf = Stf(stf.tf, stf.from) /\ stf.from \in StfSenders
      BY <3>1, StfParts DEF Sent, Arriving
    <3>3. QED
      BY <2>1, <3>2 DEF Closed, Unsent
  <2>3. QED
    BY <2>1, <2>2 DEF Whole
<1>5. ASSUME NEW i \in DOMAIN built, NEW j \in DOMAIN built, NEW stf \in built[i], NEW other \in built[j],
             i < j, ~Topological(stf.tf)
      PROVE  stf.tf.id < other.tf.id
  <2>1. stf.tf \in accepted /\ other.tf \in accepted /\ k[stf.tf] < k[other.tf]
    BY <1>3, <1>5, BuiltKeys DEF Pipeline, BuiltPart
  <2>2. ~Topological(other.tf)
    BY <1>2, <1>5, <2>1 DEF Calm, Topological
  <2>3. k[stf.tf] = stf.tf.id /\ k[other.tf] = other.tf.id
    BY <1>3, <1>5, <2>1, <2>2 DEF Pipeline, KeyPart
  <2>4. QED
    BY <2>1, <2>3
<1>6. QED
  BY <1>4, <1>5

LEMMA RunInvariant == Spec => [](Base /\ CalmInv)
<1>1. Init => Base /\ CalmInv
  BY BaseInit, CalmInit
<1>2. Base /\ CalmInv /\ [Next]_vars => Base' /\ CalmInv'
  BY BaseStep, CalmStep
<1>3. QED
  BY <1>1, <1>2, PTL DEF Spec

\* BuiltIsComplete: in an undisturbed run a TF is built of all the STFs that were sent for
\* it and of no other TF's, although STFs overtake each other, requests are refused (but not
\* served by a StfSender that cannot say so), transfers end before they are counted, and the
\* pacing, the deserializing and the merger threads pass it on one after the other.
THEOREM TfsAreComplete == Spec => []BuiltIsComplete
<1>1. Base /\ CalmInv => BuiltIsComplete
  BY PipelineBuilds
<1>2. QED
  BY <1>1, RunInvariant, PTL

\* BuiltInOrder: in an undisturbed run TFs are built in the order in which they were
\* requested, whatever order their STFs come in and whichever TFs are given up.
THEOREM TfsAreInOrder == Spec => []BuiltInOrder
<1>1. Base /\ CalmInv => BuiltInOrder
  BY PipelineBuilds
<1>2. QED
  BY <1>1, RunInvariant, PTL

-----------------------------------------------------------------------------
(* The counters.  The free buffer and the buffer that TFs hold are at most the *)
(* buffer and what overran it; the TFs in building are those not yet built. *)
HeldInv ==
  /\ IsFiniteSet(BufferHeld)
  /\ mCurrentTfBufferSize + Cardinality(BufferHeld) <= BufferSize + overrun

Held(e) == {e.id} \X (1 .. e.size)

LEMMA HeldOf ==
  ASSUME NEW e \in [id : Nat, size : Nat]
  PROVE  IsFiniteSet(Held(e)) /\ Cardinality(Held(e)) = e.size
<1>1. e.size \in Nat
  OBVIOUS
<1>2. IsFiniteSet({e.id}) /\ Cardinality({e.id}) = 1
  BY FS_Singleton
<1>3. IsFiniteSet(1 .. e.size) /\ Cardinality(1 .. e.size) = e.size
  BY <1>1, FS_Interval
<1>4. IsFiniteSet(Held(e)) /\ Cardinality(Held(e)) = Cardinality({e.id}) * Cardinality(1 .. e.size)
  BY <1>2, <1>3, FS_Product DEF Held
<1>5. QED
  BY <1>1, <1>2, <1>3, <1>4

LEMMA HeldQueued ==
  ASSUME SizeType, MergeType, HeldInv, QueueTf
  PROVE  HeldInv'
<1> DEFINE size == Cardinality(merged[1].stfs)
           item == [id |-> merged[1].key, size |-> size]
<1>1. merged[1].key \in Nat /\ size \in Nat
  BY Merger, StfSetFinite DEF QueueTf
<1>2. recordTfBuilt(merged[1])
  BY DEF QueueTf
<1>3. \/ mCurrentTfBufferSize >= size /\ mCurrentTfBufferSize' = mCurrentTfBufferSize - size
         /\ overrun' = overrun
      \/ ~(mCurrentTfBufferSize >= size) /\ mCurrentTfBufferSize' = 0
         /\ overrun' = overrun + size - mCurrentTfBufferSize
  BY <1>2 DEF recordTfBuilt
<1>4. mTfIdSizes' = {e \in mTfIdSizes : e.id # merged[1].key} \union {item}
  BY <1>2 DEF recordTfBuilt
<1> HIDE DEF size
<1>5. item \in [id : Nat, size : Nat] /\ item.size = size
  BY <1>1
<1> HIDE DEF item
<1>6. IsFiniteSet(Held(item)) /\ Cardinality(Held(item)) = size
  BY <1>5, HeldOf
<1>7. BufferHeld' \in SUBSET (BufferHeld \union Held(item))
  BY <1>4 DEF BufferHeld, Held
<1>8. /\ IsFiniteSet(BufferHeld \union Held(item))
      /\ Cardinality(BufferHeld \union Held(item)) =
           Cardinality(BufferHeld) + Cardinality(Held(item)) - Cardinality(BufferHeld \cap Held(item))
  BY <1>6, FS_Union DEF HeldInv
<1>9. IsFiniteSet(BufferHeld \cap Held(item))
  BY FS_Subset DEF HeldInv
<1>10. /\ IsFiniteSet(BufferHeld')
       /\ Cardinality(BufferHeld') <= Cardinality(BufferHeld \union Held(item))
  BY <1>7, <1>8, FS_Subset
<1>11. /\ Cardinality(BufferHeld \cap Held(item)) \in Nat /\ Cardinality(BufferHeld) \in Nat
       /\ Cardinality(BufferHeld') \in Nat /\ Cardinality(BufferHeld \union Held(item)) \in Nat
  BY <1>8, <1>9, <1>10, FS_CardinalityType DEF HeldInv
<1>12. Cardinality(BufferHeld') <= Cardinality(BufferHeld) + size
  BY <1>1, <1>6, <1>8, <1>10, <1>11
<1>13. mCurrentTfBufferSize' + Cardinality(BufferHeld') <= BufferSize + overrun'
  <2>1. /\ BufferSize \in Nat /\ mCurrentTfBufferSize \in Nat /\ overrun \in Nat
        /\ mCurrentTfBufferSize + Cardinality(BufferHeld) <= BufferSize + overrun
    BY TfBuilderAssumption DEF SizeType, HeldInv
  <2>2. QED
    BY <1>1, <1>3, <1>11, <1>12, <2>1
<1>14. QED
  BY <1>10, <1>13 DEF HeldInv

LEMMA HeldForwarded ==
  ASSUME SizeType, HeldInv, recordTfForwarded(forwarding[1]), UNCHANGED overrun
  PROVE  HeldInv'
<1>1. PICK e \in mTfIdSizes : e.id = forwarding[1] /\ mCurrentTfBufferSize' = mCurrentTfBufferSize + e.size
  BY DEF recordTfForwarded
<1>2. mTfIdSizes' = {d \in mTfIdSizes : d.id # e.id}
  BY <1>1 DEF recordTfForwarded
<1>3. /\ e \in [id : Nat, size : Nat] /\ e.size \in Nat
      /\ \A d \in mTfIdSizes : d.id = e.id => d = e
  BY DEF SizeType
<1>4. IsFiniteSet(Held(e)) /\ Cardinality(Held(e)) = e.size
  BY <1>3, HeldOf
<1>5. \A d \in mTfIdSizes : d = e \/ d \in mTfIdSizes'
  BY <1>2, <1>3
<1>6. BufferHeld = BufferHeld' \union Held(e)
  BY <1>2, <1>5 DEF BufferHeld, Held
<1>7. BufferHeld' \cap Held(e) = {}
  <2>1. ASSUME NEW d \in mTfIdSizes', NEW p, p \in {d.id} \X (1 .. d.size), p \in {e.id} \X (1 .. e.size)
        PROVE  FALSE
    <3>1. p[1] = d.id /\ p[1] = e.id
      BY <2>1
    <3>2. QED
      BY <1>2, <3>1
  <2>2. QED
    BY <2>1 DEF BufferHeld, Held
<1>8. IsFiniteSet(BufferHeld')
  BY <1>6, FS_Subset DEF HeldInv
<1>9. Cardinality(BufferHeld) = Cardinality(BufferHeld') + Cardinality(Held(e))
  <2>1. Cardinality(BufferHeld' \union Held(e)) =
          Cardinality(BufferHeld') + Cardinality(Held(e)) - Cardinality(BufferHeld' \cap Held(e))
    BY <1>4, <1>8, FS_Union
  <2>2. Cardinality(BufferHeld' \cap Held(e)) = 0
    BY <1>7, FS_EmptySet
  <2>3. Cardinality(BufferHeld') \in Nat
    BY <1>8, FS_CardinalityType
  <2>4. QED
    BY <1>3, <1>4, <1>6, <2>1, <2>2, <2>3
<1>10. QED
  <2>1. /\ BufferSize \in Nat /\ mCurrentTfBufferSize \in Nat /\ overrun \in Nat
        /\ mCurrentTfBufferSize + Cardinality(BufferHeld) <= BufferSize + overrun
        /\ Cardinality(BufferHeld') \in Nat
    BY <1>8, FS_CardinalityType, TfBuilderAssumption DEF SizeType, HeldInv
  <2>2. mCurrentTfBufferSize' + Cardinality(BufferHeld') <= BufferSize + overrun'
    BY <1>1, <1>3, <1>4, <1>9, <2>1
  <2>3. QED
    BY <1>8, <2>2 DEF HeldInv

LEMMA HeldStep ==
  ASSUME SizeType, MergeType, HeldInv, [Next]_vars
  PROVE  HeldInv'
<1>1. CASE UNCHANGED sizeVars
  BY <1>1 DEF HeldInv, BufferHeld, sizeVars
<1>2. CASE RunStep
  <2>1. CASE PreRun
    <3>1. mTfIdSizes' = {} /\ mCurrentTfBufferSize' = BufferSize /\ overrun' = 0
      BY <2>1 DEF PreRun, reset_run_counters
    <3>2. BufferHeld' = {}
      BY <3>1 DEF BufferHeld
    <3>3. BufferSize \in Nat
      BY TfBuilderAssumption
    <3>4. QED
      BY <3>1, <3>2, <3>3, FS_EmptySet DEF HeldInv
  <2>2. CASE ResetInput \/ PostRun
    BY <2>2, <1>1 DEF ResetInput, PostRun
  <2>3. QED
    BY <1>2, <2>1, <2>2 DEF RunStep
<1>3. CASE ForwardStep
  <2>1. CASE TfForwarded
    <3>1. UNCHANGED overrun
      BY <2>1 DEF TfForwarded
    <3>2. CASE recordTfForwarded(forwarding[1])
      BY <3>1, <3>2, HeldForwarded
    <3>3. CASE UNCHANGED <<mTfIdSizes, mCurrentTfBufferSize, mNumBufferedTfs>>
      BY <3>1, <3>3 DEF HeldInv, BufferHeld
    <3>4. QED
      BY <2>1, <3>2, <3>3 DEF TfForwarded
  <2>2. CASE DropTf \/ ForwardTf
    BY <2>2, <1>1 DEF DropTf, ForwardTf
  <2>3. QED
    BY <1>3, <2>1, <2>2 DEF ForwardStep
<1>4. CASE AcceptTf
  BY <1>4, <1>1 DEF AcceptTf, BuildTfRequest
<1>5. CASE TakeRequest \/ AskStfSenders \/ CountRequest \/ FinishRequests \/ DeleteTf
  BY <1>5, <1>1 DEF TakeRequest, AskStfSenders, CountRequest, FinishRequests, DeleteTf
<1>6. CASE Arrival \/ Failure \/ StfPacingThread \/ StfDeserializingThread
  BY <1>6, <1>1 DEF Arrival, Failure, DataHandlerThread, TransferFails, StfPacingThread,
                    StfDeserializingThread
<1>7. CASE TakeTf \/ MergeTf \/ UNCHANGED vars
  BY <1>7, <1>1 DEF vars, TakeTf, MergeTf
<1>8. QED
  BY <1>2, <1>3, <1>4, <1>5, <1>6, <1>7, HeldQueued, Steps

\* Every TF that is built, and the merged one, is another TF.
LEMMA BuiltAreFew ==
  ASSUME Base, NEW k, Pipeline(k)
  PROVE  /\ IsFiniteSet(accepted) /\ Len(built) \in Nat /\ Cardinality(accepted) \in Nat
         /\ merged # <<>> => Len(built) < Cardinality(accepted)
<1>1. IsFiniteSet(accepted) /\ Cardinality(accepted) \in Nat
  BY TfBuilderAssumption, FS_Subset, FS_CardinalityType DEF Base, RequestType
<1>2. Len(built) \in Nat /\ DOMAIN built = 1 .. Len(built)
  BY LenProperties DEF Base, OutType
<1>3. ASSUME merged # <<>> PROVE Len(built) < Cardinality(accepted)
  <2> DEFINE n == Len(built)
             Of(i) == CHOOSE tf \in accepted : Whole(tf, built[i])
  <2>1. PICK last \in accepted : k[last] = mMaxMergedTfId
    BY <1>3 DEF Pipeline, CompletePart, OrderPart
  <2>2. \A i \in 1 .. n : Of(i) \in accepted /\ Whole(Of(i), built[i]) /\ built[i] # {}
    <3>1. \A i \in 1 .. n : built[i] # {} /\ \E tf \in accepted : Whole(tf, built[i])
      BY <1>2 DEF Pipeline, CompletePart
    <3>2. QED
      BY <3>1
  <2> HIDE DEF Of
  <2>3. \A i \in 1 .. n : \E stf \in built[i] : stf.tf = Of(i)
    BY <2>2, WholeKeys
  <2>4. ASSUME NEW i \in 1 .. n PROVE k[Of(i)] \in Nat /\ k[Of(i)] < mMaxMergedTfId
    BY <1>2, <1>3, <2>3, BuiltKeys DEF Pipeline, BuiltPart
  <2>5. ASSUME NEW i \in 1 .. n, NEW j \in 1 .. n, i < j PROVE k[Of(i)] < k[Of(j)]
    <3>1. PICK stf \in built[i] : stf.tf = Of(i)
      BY <2>3
    <3>2. PICK other \in built[j] : other.tf = Of(j)
      BY <2>3
    <3>3. QED
      BY <1>2, <2>5, <3>1, <3>2 DEF Pipeline, BuiltPart
  <2> DEFINE f == [i \in 1 .. (n + 1) |-> IF i = n + 1 THEN last ELSE Of(i)]
  <2>6. f \in [1 .. (n + 1) -> accepted]
    BY <1>2, <2>1, <2>2
  <2>7. \A i \in 1 .. (n + 1) : i \in 1 .. n \/ i = n + 1
    BY <1>2
  <2>8. /\ \A i \in 1 .. n : f[i] = Of(i) /\ i # n + 1
        /\ f[n + 1] = last
    BY <1>2
  <2> HIDE DEF f
  <2>9. ASSUME NEW i \in 1 .. (n + 1), NEW j \in 1 .. (n + 1), i < j PROVE f[i] # f[j]
    <3>1. i \in 1 .. n
      BY <1>2, <2>9
    <3>2. k[f[i]] \in Nat /\ k[f[i]] < k[f[j]]
      <4>1. CASE j \in 1 .. n
        BY <2>4, <2>5, <2>8, <2>9, <3>1, <4>1
      <4>2. CASE j = n + 1
        BY <2>1, <2>4, <2>8, <3>1, <4>2
      <4>3. QED
        BY <2>7, <4>1, <4>2
    <3>3. QED
      BY <3>2
  <2>10. \A i, j \in 1 .. (n + 1) : f[i] = f[j] => i = j
    <3>1. ASSUME NEW i \in 1 .. (n + 1), NEW j \in 1 .. (n + 1), f[i] = f[j] PROVE i = j
      <4>1. i \in Int /\ j \in Int /\ ~(i < j) /\ ~(j < i)
        BY <2>9, <3>1
      <4>2. QED
        BY <4>1
    <3>2. QED
      BY <3>1
  <2>11. f \in Injection(1 .. (n + 1), accepted)
    BY <2>6, <2>10 DEF Injection, IsInjective
  <2>12. Cardinality(1 .. (n + 1)) <= Cardinality(accepted)
    BY <1>1, <2>11, FS_Injection
  <2>13. Cardinality(1 .. (n + 1)) = n + 1
    BY <1>2, FS_Interval
  <2>14. QED
    BY <1>1, <1>2, <2>12, <2>13
<1>4. QED
  BY <1>1, <1>2, <1>3

BuildingInv == Calm => mNumTfsInBuilding + Len(built) = Cardinality(accepted)

LEMMA BuildingStep ==
  ASSUME Base, CalmInv, BuildingInv, [Next]_vars
  PROVE  BuildingInv'
<1>1. SUFFICES ASSUME Calm' PROVE mNumTfsInBuilding' + Len(built') = Cardinality(accepted')
  BY DEF BuildingInv
<1>2. /\ Calm /\ (run = 0 \/ resetting => accepted = {})
      /\ mNumTfsInBuilding + Len(built) = Cardinality(accepted)
  <2>1. Calm
    BY <1>1, CalmBefore
  <2>2. QED
    BY <2>1 DEF CalmInv, BuildingInv
<1>3. PICK k : Pipeline(k)
  BY <1>2 DEF CalmInv
<1>4. /\ IsFiniteSet(accepted) /\ Len(built) \in Nat /\ Cardinality(accepted) \in Nat
      /\ merged # <<>> => Len(built) < Cardinality(accepted)
      /\ mNumTfsInBuilding \in Nat
  BY <1>3, BuiltAreFew DEF Base, SizeType
<1>5. CASE UNCHANGED <<accepted, built, mNumTfsInBuilding>>
  BY <1>2, <1>5
<1>6. CASE QueueTf
  <2>1. merged # <<>> /\ LeaveBuilding /\ UNCHANGED accepted /\ built' = Append(built, merged[1].stfs)
    BY <1>6 DEF QueueTf, recordTfBuilt
  <2>2. Len(built') = Len(built) + 1
    <3>1. merged[1].stfs \in SUBSET Stfs /\ built \in Seq(SUBSET Stfs)
      BY <2>1, Merger DEF Base, OutType
    <3>2. QED
      BY <2>1, <3>1, Appended
  <2>3. mNumTfsInBuilding > 0
    BY <1>2, <1>4, <2>1
  <2>4. mNumTfsInBuilding' = mNumTfsInBuilding - 1
    BY <2>1, <2>3 DEF LeaveBuilding
  <2>5. QED
    BY <1>2, <1>4, <2>1, <2>2, <2>4
<1>7. CASE AcceptTf
  <2>1. PICK tf \in Tfs : MayBeRequested(tf) /\ BuildTfRequest(tf)
    BY <1>7 DEF AcceptTf
  <2>2. /\ tf \notin accepted /\ accepted' = accepted \union {tf} /\ UNCHANGED built
        /\ mNumTfsInBuilding' = mNumTfsInBuilding + 1
    BY <2>1 DEF MayBeRequested, BuildTfRequest, outVars
  <2>3. Cardinality(accepted') = Cardinality(accepted) + 1
    BY <1>4, <2>2, FS_AddElement
  <2>4. QED
    BY <1>2, <1>4, <2>2, <2>3
<1>8. CASE RunStep
  <2>1. CASE PreRun
    <3>1. accepted = {} /\ UNCHANGED <<accepted, built>> /\ mNumTfsInBuilding' = 0
      BY <1>2, <2>1 DEF PreRun, reset_run_counters, outVars
    <3>2. Cardinality(accepted') = 0
      BY <3>1, FS_EmptySet
    <3>3. QED
      BY <1>2, <1>4, <3>1, <3>2
  <2>2. CASE ResetInput \/ PostRun
    BY <2>2, <1>5 DEF ResetInput, PostRun, outVars
  <2>3. QED
    BY <1>8, <2>1, <2>2 DEF RunStep
<1>9. CASE TakeRequest \/ AskStfSenders \/ CountRequest \/ FinishRequests \/ DeleteTf
  BY <1>9, <1>5 DEF TakeRequest, AskStfSenders, CountRequest, FinishRequests, DeleteTf, outVars
<1>10. CASE Arrival \/ Failure \/ StfPacingThread \/ StfDeserializingThread
  BY <1>10, <1>5 DEF Arrival, Failure, DataHandlerThread, TransferFails, StfPacingThread,
                     StfDeserializingThread, outVars
<1>11. CASE TakeTf \/ MergeTf \/ ForwardStep \/ UNCHANGED vars
  BY <1>11, <1>5 DEF vars, TakeTf, MergeTf, ForwardStep, DropTf, ForwardTf, TfForwarded, outVars
<1>12. QED
  BY <1>6, <1>7, <1>8, <1>9, <1>10, <1>11, Steps

LEMMA CountsInit ==
  ASSUME Init
  PROVE  HeldInv /\ BuildingInv
<1>1. BufferHeld = {} /\ mCurrentTfBufferSize = BufferSize /\ overrun = 0 /\ BufferSize \in Nat
  BY TfBuilderAssumption DEF Init, BufferHeld
<1>2. accepted = {} /\ built = <<>> /\ mNumTfsInBuilding = 0
  BY DEF Init
<1>3. QED
  BY <1>1, <1>2, FS_EmptySet DEF HeldInv, BuildingInv

\* CountersAccounted: the transfers counted, and the one that is queued and not yet counted,
\* are those that no receiving thread has ended and those that failed; the free buffer and the
\* buffer that TFs hold are at most the buffer and what overran it, through all the runs and
\* resets, and also when an STF is sent although the call has failed; in an undisturbed run a
\* TF is in building until it is built.
THEOREM CountersAreRight == Spec => []CountersAccounted
<1>1. Init => Base /\ CalmInv /\ HeldInv /\ BuildingInv
  BY BaseInit, CalmInit, CountsInit
<1>2. Base /\ CalmInv /\ HeldInv /\ BuildingInv /\ [Next]_vars =>
        Base' /\ CalmInv' /\ HeldInv' /\ BuildingInv'
  BY BaseStep, CalmStep, HeldStep, BuildingStep DEF Base
<1>3. Base /\ CalmInv /\ HeldInv /\ BuildingInv => CountersAccounted
  <2>1. Base => TypeOK
    BY TypeParts DEF Base
  <2>2. Undisturbed => Calm
    BY DEF Undisturbed, Calm
  <2>3. QED
    BY <2>1, <2>2 DEF Base, SlotInv, BufferInv, HeldInv, BuildingInv, CountersAccounted
<1>4. QED
  BY <1>1, <1>2, <1>3, PTL DEF Spec
=============================================================================

------------------------------ MODULE TfBuilder ------------------------------
(***************************************************************************)
(* TfBuilder with the UCX input.  The scheduler's BuildTfRequest announces *)
(* a TF to the pacing thread and queues the requests for its STFs; the     *)
(* request thread asks the StfSenders, the receiving threads fetch the     *)
(* STFs, the pacing thread sorts them into mStfMergeMap, the deserializing *)
(* thread takes out the oldest TF when all its STFs are there, the merger  *)
(* thread counts it as built, and the forwarding thread sends it to DPL    *)
(* and gives its buffer back.  TFs are accepted within and between runs;   *)
(* a new run resets the input first and the counters afterwards, while all *)
(* the threads go on.                                                      *)
(*                                                                         *)
(* The environment: the scheduler asks for the TFs of a run in the order   *)
(* of their ids, or of the ids of one StfSender in a topological run.  An  *)
(* StfSender answers a request with an error, or sends the STF; a call may *)
(* fail before or after that; STFs may overtake each other; a transfer may *)
(* fail.                                                                   *)
(*                                                                         *)
(* The size of an STF is 1.  Assertions are compiled out (NDEBUG), as in   *)
(* the default build.  The process runs and no termination is requested: a *)
(* BuildTfRequest is refused for want of memory only, and then changes     *)
(* nothing.                                                                *)
(***************************************************************************)
EXTENDS Integers, Sequences, FiniteSets

CONSTANTS
  StfSenders,
  Tfs,              \* bound: the TFs that may be requested, with their run and id
  TopologicalRuns,  \* the runs whose TFs are single, renamed STFs
  EarlyTfs,         \* TFs that may be requested before the run starts here
  LateTfs,          \* TFs that may be requested when the next run has started here
  Refused,          \* STFs whose request may be answered with an error, or fail
  Unanswered,       \* STFs that may be sent although the call fails
  Unreliable,       \* STFs whose transfer may fail
  BufferSize,       \* mBufferSize
  MaxNumReqInFlight,
  ThreadPoolSize,
  MaxRuns           \* bound: runs

Stf(tf, stfSender) == [tf |-> tf, from |-> stfSender]
Stfs == {Stf(tf, s) : tf \in Tfs, s \in StfSenders}
Topological(tf) == tf.run \in TopologicalRuns

ASSUME TfBuilderAssumption ==
  /\ IsFiniteSet(StfSenders)
  /\ IsFiniteSet(Tfs)
  /\ Tfs \subseteq [run : Nat \ {0}, id : Nat \ {0}, stfs : (SUBSET StfSenders) \ {{}}]
  /\ \A tf \in Tfs : Topological(tf) => Cardinality(tf.stfs) = 1
  /\ EarlyTfs \subseteq Tfs /\ LateTfs \subseteq Tfs
  /\ Refused \subseteq Stfs /\ Unanswered \subseteq Stfs /\ Unreliable \subseteq Stfs
  /\ BufferSize \in Nat /\ MaxNumReqInFlight \in Nat /\ ThreadPoolSize \in Nat
  /\ MaxRuns \in Nat

VARIABLES
  run,                \* the run that started last
  mInRunningState,
  resetting,          \* PreRun has reset the input, but not the counters
  crashed,            \* the merger thread has used an element of an empty vector
  accepted,           \* history: the TFs accepted
  mStfRequestQueue,   \* requests [tf, key]: the key is the renamed id
  requesting,         \* <<the request in the hands of StfRequestThread>>, or <<>>
  mStfsCountMap,      \* [key, count], at most one of a key
  transfers,          \* the STFs that StfSenders will send
  awaited,            \* mStfInputQueue: it holds StfSenders, here the STFs asked of them
  unanswered,         \* history: the STFs that are sent although the call has failed
  mNumReqInFlight,
  failed,             \* history: the STFs whose transfer failed
  mThreadPool,        \* the number of receiving threads left
  mReceivedDataQueue,
  mergeKeys,          \* the keys of mStfMergeMap
  mergeStfs,          \* the STFs in mStfMergeMap, as [key, stf]
  mMaxMergedTfId,
  mStfsForMerging,    \* TFs [key, stfs]
  merging,            \* <<the TF that StfMergerThread merges>>, or <<>>
  merged,             \* <<the TF that it has merged>>, or <<>>
  mTfFwdIn,           \* the pipeline queue eTfFwdIn
  forwarding,         \* <<the TF in the hands of TfForwardThread>>, or <<>>
  built,              \* history: the STFs merged into TFs, in this order
  gone,               \* history: the TFs given up by DELETE
  mTfIdSizes,         \* [id, size], at most one of an id
  mCurrentTfBufferSize,
  overrun,            \* history: what mCurrentTfBufferSize could not take
  mNumBufferedTfs,
  mNumTfsInBuilding,
  mLastBuiltTfId,
  mTopoStfId,
  mTopoTfIdRenameMap  \* [from, id, to], at most one of a sender and an id

runVars == <<run, mInRunningState, resetting>>
requestVars == <<mStfRequestQueue, requesting, mStfsCountMap>>
receiveVars == <<transfers, awaited, unanswered, mNumReqInFlight, failed, mThreadPool>>
mergeVars == <<mergeKeys, mergeStfs, mMaxMergedTfId>>
sizeVars == <<mTfIdSizes, mCurrentTfBufferSize, overrun, mNumBufferedTfs, mLastBuiltTfId>>
topoVars == <<mTopoStfId, mTopoTfIdRenameMap>>
outVars == <<mTfFwdIn, forwarding, built>>
mergerVars == <<merging, merged>>
vars == <<runVars, crashed, accepted, requestVars, receiveVars, mReceivedDataQueue, mergeVars,
          mStfsForMerging, mergerVars, outVars, gone, sizeVars, mNumTfsInBuilding, topoVars>>

Init ==
  /\ run = 0 /\ mInRunningState = FALSE /\ resetting = FALSE /\ crashed = FALSE
  /\ accepted = {} /\ mStfRequestQueue = <<>> /\ requesting = <<>> /\ mStfsCountMap = {}
  /\ transfers = {} /\ awaited = {} /\ unanswered = {} /\ failed = {}
  /\ mNumReqInFlight = 0 /\ mThreadPool = ThreadPoolSize
  /\ mReceivedDataQueue = <<>>
  /\ mergeKeys = {} /\ mergeStfs = {} /\ mMaxMergedTfId = 0
  /\ mStfsForMerging = <<>> /\ merging = <<>> /\ merged = <<>> /\ mTfFwdIn = <<>> /\ forwarding = <<>>
  /\ built = <<>> /\ gone = {}
  /\ mTfIdSizes = {} /\ mCurrentTfBufferSize = BufferSize /\ overrun = 0
  /\ mNumBufferedTfs = 0 /\ mNumTfsInBuilding = 0 /\ mLastBuiltTfId = 0
  /\ mTopoStfId = 1 /\ mTopoTfIdRenameMap = {}

ADD(key) == [type |-> "ADD", key |-> key]
DELETE(key) == [type |-> "DELETE", key |-> key]
INFO(stf) == [type |-> "INFO", stf |-> stf]

-----------------------------------------------------------------------------
\* PreRun, first half: TfBuilderInput::reset.
ResetInput ==
  /\ ~mInRunningState /\ ~resetting /\ run < MaxRuns
  /\ run' = run + 1 /\ resetting' = TRUE
  /\ mReceivedDataQueue' = <<>> /\ mStfsForMerging' = <<>>
  /\ mergeKeys' = {} /\ mergeStfs' = {} /\ mMaxMergedTfId' = 0
  /\ UNCHANGED <<mInRunningState, crashed, accepted, requestVars, receiveVars, mergerVars, outVars, gone,
                 sizeVars, mNumTfsInBuilding, topoVars>>

\* Deviation: the sizes of the buffered TFs are kept.
ResetKeepingSizes ==
  /\ mCurrentTfBufferSize' = BufferSize /\ overrun' = 0
  /\ mLastBuiltTfId' = 0 /\ mNumBufferedTfs' = 0 /\ mNumTfsInBuilding' = 0
  /\ mTopoStfId' = 1 /\ mTopoTfIdRenameMap' = {}
  /\ UNCHANGED mTfIdSizes

reset_run_counters ==
  /\ mTfIdSizes' = {}
  /\ mCurrentTfBufferSize' = BufferSize /\ overrun' = 0
  /\ mLastBuiltTfId' = 0 /\ mNumBufferedTfs' = 0 /\ mNumTfsInBuilding' = 0
  /\ mTopoStfId' = 1 /\ mTopoTfIdRenameMap' = {}

\* PreRun, second half.  mTfBuildRequests, which it flushes, is not used.
PreRun ==
  /\ resetting
  /\ resetting' = FALSE /\ mInRunningState' = TRUE
  /\ reset_run_counters
  /\ UNCHANGED <<run, crashed, accepted, requestVars, receiveVars, mReceivedDataQueue, mergeVars,
                 mStfsForMerging, mergerVars, outVars, gone>>

PostRun ==
  /\ mInRunningState
  /\ mInRunningState' = FALSE
  /\ UNCHANGED <<run, resetting, crashed, accepted, requestVars, receiveVars, mReceivedDataQueue,
                 mergeVars, mStfsForMerging, mergerVars, outVars, gone, sizeVars, mNumTfsInBuilding, topoVars>>

-----------------------------------------------------------------------------
\* The order in which the scheduler requests TFs.
MayBeRequested(tf) ==
  /\ tf \notin accepted
  /\ \/ tf.run = run /\ ~resetting
     \/ tf \in LateTfs /\ tf.run < run
     \/ tf \in EarlyTfs /\ tf.run <= run + 1
  /\ \A other \in accepted :
       \/ other.run < tf.run
       \/ other.run = tf.run /\ other.id < tf.id
       \/ other.run = tf.run /\ Topological(tf) /\ other.stfs # tf.stfs

BuildTfRequest(tf) ==
  /\ Cardinality(tf.stfs) <= mCurrentTfBufferSize
  /\ accepted' = accepted \union {tf}
  /\ mNumTfsInBuilding' = mNumTfsInBuilding + 1
  /\ LET key == IF Topological(tf) THEN mTopoStfId ELSE tf.id
     IN  /\ mReceivedDataQueue' = Append(mReceivedDataQueue, ADD(key))
         /\ mStfRequestQueue' = Append(mStfRequestQueue, [tf |-> tf, key |-> key])
         /\ IF Topological(tf)
              THEN /\ mTopoStfId' = mTopoStfId + 1
                   /\ \E s \in tf.stfs : mTopoTfIdRenameMap' =
                        {e \in mTopoTfIdRenameMap : e.from # s \/ e.id # tf.id}
                          \union {[from |-> s, id |-> tf.id, to |-> key]}
              ELSE UNCHANGED topoVars
  /\ UNCHANGED <<runVars, crashed, requesting, mStfsCountMap, receiveVars, mergeVars,
                 mStfsForMerging, mergerVars, outVars, gone, sizeVars>>

-----------------------------------------------------------------------------
\* StfRequestThread takes the requests of a TF,
TakeRequest ==
  /\ requesting = <<>> /\ mStfRequestQueue # <<>>
  /\ requesting' = <<[request |-> Head(mStfRequestQueue), left |-> Head(mStfRequestQueue).tf.stfs,
                      expected |-> 0, counting |-> FALSE, deleting |-> FALSE]>>
  /\ mStfRequestQueue' = Tail(mStfRequestQueue)
  /\ UNCHANGED <<runVars, crashed, accepted, mStfsCountMap, receiveVars, mReceivedDataQueue,
                 mergeVars, mStfsForMerging, mergerVars, outVars, gone, sizeVars, mNumTfsInBuilding, topoVars>>

\* asks the StfSenders one by one in any order, while there is room for another
\* transfer: the STF will be sent, and a receiving thread may fetch it at once,
Sends(stf) ==
  /\ transfers' = transfers \union {stf} /\ awaited' = awaited \union {stf}
  /\ requesting' = [requesting EXCEPT ![1].left = @ \ {stf.from},
                                      ![1].expected = @ + 1, ![1].counting = TRUE]
  /\ UNCHANGED unanswered

\* or the StfSender refuses, or is not reached,
Refuses(stf) ==
  /\ stf \in Refused
  /\ requesting' = [requesting EXCEPT ![1].left = @ \ {stf.from}]
  /\ UNCHANGED <<transfers, awaited, unanswered>>

\* or it serves the request and the call fails: the STF is sent and nobody expects it,
SendsUnasked(stf) ==
  /\ stf \in Unanswered
  /\ requesting' = [requesting EXCEPT ![1].left = @ \ {stf.from}]
  /\ transfers' = transfers \union {stf} /\ unanswered' = unanswered \union {stf}
  /\ UNCHANGED awaited

\* Deviation: an STF whose request was refused is expected too.
RequestExpectingAll(stf) ==
  /\ mNumReqInFlight < MaxNumReqInFlight
  /\ \/ Sends(stf) \/ SendsUnasked(stf)
     \/ /\ stf \in Refused
        /\ requesting' = [requesting EXCEPT ![1].left = @ \ {stf.from}, ![1].expected = @ + 1]
        /\ UNCHANGED <<transfers, awaited, unanswered>>

RequestStf(stf) ==
  /\ mNumReqInFlight < MaxNumReqInFlight
  /\ Sends(stf) \/ Refuses(stf) \/ SendsUnasked(stf)

AskStfSenders ==
  /\ requesting # <<>> /\ ~requesting[1].counting
  /\ \E s \in requesting[1].left : RequestStf(Stf(requesting[1].request.tf, s))
  /\ UNCHANGED <<runVars, crashed, accepted, mStfRequestQueue, mStfsCountMap, mNumReqInFlight, failed,
                 mThreadPool, mReceivedDataQueue, mergeVars, mStfsForMerging, mergerVars, outVars, gone,
                 sizeVars, mNumTfsInBuilding, topoVars>>

\* counts the transfer, which may have ended already,
CountRequest ==
  /\ requesting # <<>> /\ requesting[1].counting
  /\ requesting' = [requesting EXCEPT ![1].counting = FALSE]
  /\ mNumReqInFlight' = mNumReqInFlight + 1
  /\ UNCHANGED <<runVars, crashed, accepted, mStfRequestQueue, mStfsCountMap, transfers, awaited,
                 unanswered, failed, mThreadPool, mReceivedDataQueue, mergeVars, mStfsForMerging,
                 mergerVars, outVars, gone, sizeVars, mNumTfsInBuilding, topoVars>>

\* sets the number of STFs to expect,
setNumberOfStfs(key, count) ==
  mStfsCountMap' = {e \in mStfsCountMap : e.key # key} \union {[key |-> key, count |-> count]}

FinishRequests ==
  /\ requesting # <<>> /\ requesting[1].left = {}
  /\ ~requesting[1].counting /\ ~requesting[1].deleting
  /\ setNumberOfStfs(requesting[1].request.key, requesting[1].expected)
  /\ requesting' = IF requesting[1].expected = 0
                     THEN [requesting EXCEPT ![1].deleting = TRUE]
                     ELSE <<>>
  /\ UNCHANGED <<runVars, crashed, accepted, mStfRequestQueue, receiveVars, mReceivedDataQueue,
                 mergeVars, mStfsForMerging, mergerVars, outVars, gone, sizeVars, mNumTfsInBuilding, topoVars>>

\* and gives the TF up when it is none.
DeleteTf ==
  /\ requesting # <<>> /\ requesting[1].deleting
  /\ requesting' = <<>>
  /\ LET request == requesting[1].request
     IN  /\ mReceivedDataQueue' = Append(mReceivedDataQueue, DELETE(request.key))
         /\ gone' = gone \union {request.tf}
         /\ mTopoTfIdRenameMap' =
              IF Topological(request.tf)
                THEN {e \in mTopoTfIdRenameMap :
                        e.from \notin request.tf.stfs \/ e.id # request.tf.id}
                ELSE mTopoTfIdRenameMap
  /\ UNCHANGED <<runVars, crashed, accepted, mStfRequestQueue, mStfsCountMap, receiveVars,
                 mergeVars, mStfsForMerging, mergerVars, outVars, sizeVars, mNumTfsInBuilding, mTopoStfId>>

-----------------------------------------------------------------------------
\* A receiving thread takes a StfSender from mStfInputQueue and receives the next STF of
\* it, the one that was asked for or another one.
Calls(stf) ==
  IF stf \in awaited THEN {stf} ELSE {call \in awaited : call.from = stf.from}

TakeCall(stf) == \E call \in Calls(stf) : awaited' = awaited \ {call}

\* DataHandlerThread: an STF has come, and recordStfReceived.
DataHandlerThread(stf) ==
  /\ mThreadPool > 0
  /\ TakeCall(stf)
  /\ transfers' = transfers \ {stf}
  /\ mNumReqInFlight' = mNumReqInFlight - 1
  /\ mReceivedDataQueue' = Append(mReceivedDataQueue, INFO(stf))
  /\ UNCHANGED <<runVars, crashed, accepted, requestVars, unanswered, failed, mThreadPool, mergeVars,
                 mStfsForMerging, mergerVars, outVars, gone, sizeVars, mNumTfsInBuilding, topoVars>>

\* DataHandlerThread when the connection is gone, when there is no metadata, or when
\* a get fails: the STF is forgotten, and in the last case the thread ends.
TransferFails(stf) ==
  /\ mThreadPool > 0 /\ stf \in Unreliable
  /\ TakeCall(stf)
  /\ transfers' = transfers \ {stf}
  /\ failed' = failed \union {stf}
  /\ mThreadPool' \in {mThreadPool, mThreadPool - 1}
  /\ UNCHANGED <<runVars, crashed, accepted, requestVars, unanswered, mNumReqInFlight,
                 mReceivedDataQueue, mergeVars, mStfsForMerging, mergerVars, outVars, gone, sizeVars,
                 mNumTfsInBuilding, topoVars>>

-----------------------------------------------------------------------------
\* getIdForTopoTf: an id that is not in the map becomes 0.
getIdForTopoTf(stf) ==
  IF \E e \in mTopoTfIdRenameMap : e.from = stf.from /\ e.id = stf.tf.id
    THEN (CHOOSE e \in mTopoTfIdRenameMap : e.from = stf.from /\ e.id = stf.tf.id).to
    ELSE 0

KeyOf(stf) == IF Topological(stf.tf) THEN getIdForTopoTf(stf) ELSE stf.tf.id

\* StfPacingThread for an STF: an entry that is not there is made, and one
\* that should not be there any more is removed.
StoreStf(stf) ==
  IF KeyOf(stf) > mMaxMergedTfId
    THEN /\ mergeKeys' = mergeKeys \union {KeyOf(stf)}
         /\ mergeStfs' = mergeStfs \union {[key |-> KeyOf(stf), stf |-> stf]}
    ELSE /\ mergeKeys' = mergeKeys \ {KeyOf(stf)}
         /\ mergeStfs' = {e \in mergeStfs : e.key # KeyOf(stf)}

StfPacingThread ==
  /\ mReceivedDataQueue # <<>>
  /\ mReceivedDataQueue' = Tail(mReceivedDataQueue)
  /\ LET info == Head(mReceivedDataQueue)
     IN  \/ /\ info.type = "ADD"
            /\ mergeKeys' = mergeKeys \union {info.key}
            /\ UNCHANGED <<mergeStfs, mTopoTfIdRenameMap>>
         \/ /\ info.type = "DELETE"
            /\ mergeKeys' = mergeKeys \ {info.key}
            /\ mergeStfs' = {e \in mergeStfs : e.key # info.key}
            /\ UNCHANGED mTopoTfIdRenameMap
         \/ /\ info.type = "INFO"
            /\ StoreStf(info.stf)
            /\ mTopoTfIdRenameMap' =
                 IF Topological(info.stf.tf)
                   THEN {e \in mTopoTfIdRenameMap :
                           e.from # info.stf.from \/ e.id # info.stf.tf.id}
                   ELSE mTopoTfIdRenameMap
  /\ UNCHANGED <<runVars, crashed, accepted, requestVars, receiveVars, mMaxMergedTfId,
                 mStfsForMerging, mergerVars, outVars, gone, sizeVars, mNumTfsInBuilding, mTopoStfId>>

-----------------------------------------------------------------------------
StfsOf(key) == {e.stf : e \in {x \in mergeStfs : x.key = key}}

\* Deviation: any TF is taken, not only the oldest.
TakeAnyCompleteTf(key) ==
  /\ key \in mergeKeys
  /\ [key |-> key, count |-> Cardinality(StfsOf(key))] \in mStfsCountMap

\* Deviation: the oldest TF is taken when some STF is there.
OldestTfStarted(key) ==
  /\ key \in mergeKeys /\ \A other \in mergeKeys : key <= other
  /\ StfsOf(key) # {} /\ \E e \in mStfsCountMap : e.key = key

\* The oldest TF is complete when as many STFs are there as were sent.
OldestTfComplete(key) ==
  /\ key \in mergeKeys /\ \A other \in mergeKeys : key <= other
  /\ [key |-> key, count |-> Cardinality(StfsOf(key))] \in mStfsCountMap

StfDeserializingThread ==
  /\ \E key \in mergeKeys :
       /\ OldestTfComplete(key)
       /\ mStfsForMerging' = Append(mStfsForMerging, [key |-> key, stfs |-> StfsOf(key)])
       /\ mergeKeys' = mergeKeys \ {key}
       /\ mergeStfs' = {e \in mergeStfs : e.key # key}
       /\ mStfsCountMap' = {e \in mStfsCountMap : e.key # key}
  /\ UNCHANGED <<runVars, crashed, accepted, mStfRequestQueue, requesting, receiveVars,
                 mReceivedDataQueue, mMaxMergedTfId, mergerVars, outVars, gone, sizeVars, mNumTfsInBuilding,
                 topoVars>>

\* StfMergerThread takes a TF: without STFs, it reads beyond the end of a vector.
TakeTf ==
  /\ merging = <<>> /\ merged = <<>> /\ mStfsForMerging # <<>>
  /\ mStfsForMerging' = Tail(mStfsForMerging)
  /\ IF Head(mStfsForMerging).stfs = {}
       THEN crashed' = TRUE /\ UNCHANGED merging
       ELSE merging' = <<Head(mStfsForMerging)>> /\ UNCHANGED crashed
  /\ UNCHANGED <<runVars, accepted, requestVars, receiveVars, mReceivedDataQueue, mergeVars,
                 merged, outVars, gone, sizeVars, mNumTfsInBuilding, topoVars>>

\* It merges the STFs, and makes the TF the last merged one.
MergeTf ==
  /\ merging # <<>>
  /\ merging' = <<>> /\ merged' = merging
  /\ mMaxMergedTfId' = IF merging[1].key > mMaxMergedTfId THEN merging[1].key ELSE mMaxMergedTfId
  /\ UNCHANGED <<runVars, crashed, accepted, requestVars, receiveVars, mReceivedDataQueue,
                 mergeKeys, mergeStfs, mStfsForMerging, outVars, gone, sizeVars,
                 mNumTfsInBuilding, topoVars>>

\* A reset between the request and the merge of a TF has counted it out already.
LeaveBuilding ==
  mNumTfsInBuilding' = IF mNumTfsInBuilding > 0 THEN mNumTfsInBuilding - 1 ELSE 0

recordTfBuilt(tf) ==
  LET size == Cardinality(tf.stfs)
  IN  /\ IF mCurrentTfBufferSize >= size
           THEN mCurrentTfBufferSize' = mCurrentTfBufferSize - size /\ UNCHANGED overrun
           ELSE mCurrentTfBufferSize' = 0 /\ overrun' = overrun + size - mCurrentTfBufferSize
      /\ LeaveBuilding
      /\ mTfIdSizes' = {e \in mTfIdSizes : e.id # tf.key} \union {[id |-> tf.key, size |-> size]}
      /\ mNumBufferedTfs' = mNumBufferedTfs + 1
      /\ mLastBuiltTfId' = IF tf.key > mLastBuiltTfId THEN tf.key ELSE mLastBuiltTfId

\* StfMergerThread counts the TF and queues it.
QueueTf ==
  /\ merged # <<>>
  /\ recordTfBuilt(merged[1])
  /\ mTfFwdIn' = Append(mTfFwdIn, merged[1].key)
  /\ built' = Append(built, merged[1].stfs)
  /\ merged' = <<>>
  /\ UNCHANGED <<runVars, crashed, accepted, requestVars, receiveVars, mReceivedDataQueue,
                 mergeVars, mStfsForMerging, merging, forwarding, gone, topoVars>>

-----------------------------------------------------------------------------
\* TfForwardThread: outside of a run a TF is dropped, and its buffer not given back.
DropTf ==
  /\ forwarding = <<>> /\ mTfFwdIn # <<>> /\ ~mInRunningState
  /\ mTfFwdIn' = Tail(mTfFwdIn)
  /\ UNCHANGED <<runVars, crashed, accepted, requestVars, receiveVars, mReceivedDataQueue,
                 mergeVars, mStfsForMerging, mergerVars, forwarding, built, gone, sizeVars,
                 mNumTfsInBuilding, topoVars>>

ForwardTf ==
  /\ forwarding = <<>> /\ mTfFwdIn # <<>> /\ mInRunningState
  /\ mTfFwdIn' = Tail(mTfFwdIn)
  /\ forwarding' = <<Head(mTfFwdIn)>>
  /\ UNCHANGED <<runVars, crashed, accepted, requestVars, receiveVars, mReceivedDataQueue,
                 mergeVars, mStfsForMerging, mergerVars, built, gone, sizeVars, mNumTfsInBuilding,
                 topoVars>>

recordTfForwarded(id) ==
  /\ \E e \in mTfIdSizes : e.id = id /\ mCurrentTfBufferSize' = mCurrentTfBufferSize + e.size
  /\ mTfIdSizes' = {e \in mTfIdSizes : e.id # id}
  /\ mNumBufferedTfs' = mNumBufferedTfs - 1

\* TfForwardThread when DPL has the TF; one built before a reset is not known.
TfForwarded ==
  /\ forwarding # <<>>
  /\ forwarding' = <<>>
  /\ IF \E e \in mTfIdSizes : e.id = forwarding[1]
       THEN recordTfForwarded(forwarding[1])
       ELSE UNCHANGED <<mTfIdSizes, mCurrentTfBufferSize, mNumBufferedTfs>>
  /\ UNCHANGED <<runVars, crashed, accepted, requestVars, receiveVars, mReceivedDataQueue,
                 mergeVars, mStfsForMerging, mergerVars, mTfFwdIn, built, gone, overrun,
                 mLastBuiltTfId, mNumTfsInBuilding, topoVars>>

-----------------------------------------------------------------------------
RunStep == ResetInput \/ PreRun \/ PostRun

StfRequestThread == TakeRequest \/ AskStfSenders \/ CountRequest \/ FinishRequests \/ DeleteTf

RequestStep ==
  \/ \E tf \in Tfs : MayBeRequested(tf) /\ BuildTfRequest(tf)
  \/ StfRequestThread

ReceiveStep == \E stf \in transfers : DataHandlerThread(stf) \/ TransferFails(stf)

BuildStep == StfPacingThread \/ StfDeserializingThread \/ TakeTf \/ MergeTf \/ QueueTf

ForwardStep == DropTf \/ ForwardTf \/ TfForwarded

\* A crashed process does nothing.
Next == ~crashed /\ (RunStep \/ RequestStep \/ ReceiveStep \/ BuildStep \/ ForwardStep)

Spec == Init /\ [][Next]_vars

\* The threads run, every STF that was sent comes or fails, and DPL takes the TFs.
Fairness ==
  /\ WF_vars(~crashed /\ PreRun)
  /\ WF_vars(~crashed /\ StfRequestThread)
  /\ \A stf \in Stfs : WF_vars(~crashed /\ stf \in transfers /\ (DataHandlerThread(stf) \/ TransferFails(stf)))
  /\ WF_vars(~crashed /\ StfPacingThread)
  /\ WF_vars(~crashed /\ StfDeserializingThread)
  /\ WF_vars(~crashed /\ (TakeTf \/ MergeTf \/ QueueTf))
  /\ WF_vars(~crashed /\ ForwardStep)

FairSpec == Spec /\ Fairness

-----------------------------------------------------------------------------
KeyedTf == [key : Nat, stfs : SUBSET Stfs]
Request == [tf : Tfs, key : Nat]

\* Type invariant: the maps have one entry of a key, and the counters do not fall below
\* zero, but for mNumReqInFlight: a transfer that ends before it is counted makes it -1.
TypeOK ==
  /\ run \in 0 .. MaxRuns
  /\ mInRunningState \in BOOLEAN /\ resetting \in BOOLEAN /\ crashed \in BOOLEAN
  /\ accepted \subseteq Tfs /\ gone \subseteq accepted
  /\ mStfRequestQueue \in Seq(Request)
  /\ requesting \in
       Seq([request : Request, left : SUBSET StfSenders, expected : Nat, counting : BOOLEAN,
            deleting : BOOLEAN])
  /\ Len(requesting) <= 1 /\ Len(merging) <= 1 /\ Len(merged) <= 1 /\ Len(forwarding) <= 1
  /\ mStfsCountMap \subseteq [key : Nat, count : Nat]
  /\ \A d, e \in mStfsCountMap : d.key = e.key => d = e
  /\ transfers \subseteq Stfs /\ failed \subseteq Stfs
  /\ awaited \subseteq transfers /\ unanswered \subseteq Stfs
  /\ mNumReqInFlight \in Nat \union {-1} /\ mThreadPool \in Nat
  /\ mReceivedDataQueue \in
       Seq([type : {"ADD", "DELETE"}, key : Nat] \union [type : {"INFO"}, stf : Stfs])
  /\ mergeKeys \subseteq Nat /\ mergeStfs \subseteq [key : mergeKeys, stf : Stfs]
  /\ mMaxMergedTfId \in Nat
  /\ mStfsForMerging \in Seq(KeyedTf)
  /\ merging \in Seq(KeyedTf) /\ merged \in Seq(KeyedTf)
  /\ mTfFwdIn \in Seq(Nat) /\ forwarding \in Seq(Nat)
  /\ built \in Seq(SUBSET Stfs)
  /\ mTfIdSizes \subseteq [id : Nat, size : Nat]
  /\ \A d, e \in mTfIdSizes : d.id = e.id => d = e
  /\ mCurrentTfBufferSize \in Nat /\ overrun \in Nat
  /\ mNumBufferedTfs \in Nat /\ mNumTfsInBuilding \in Nat /\ mLastBuiltTfId \in Nat
  /\ mTopoStfId \in Nat
  /\ mTopoTfIdRenameMap \subseteq [from : StfSenders, id : Nat, to : Nat]

\* The first run is under way, no TF of it or of the next one came too early, and no STF was
\* sent unasked: what a second PreRun does to the counters is in CountersAccounted.
Undisturbed ==
  /\ run = 1 /\ \A tf \in accepted : tf.run = 1 /\ tf \notin EarlyTfs
  /\ unanswered = {}

\* The transfer that was asked for and is not yet counted
Uncounted == IF requesting # <<>> /\ requesting[1].counting THEN 1 ELSE 0

\* The parts of the buffer that TFs hold.
BufferHeld == UNION {{e.id} \X (1 .. e.size) : e \in mTfIdSizes}

\* The counters count what they stand for, although runs are reset while TFs are built and
\* forwarded, and transfers end before they are counted.  A slot is taken by every request
\* that no receiving thread has worked off, also when the STF that came was another one's,
\* and those of failed transfers never come back.  The free buffer that the scheduler is
\* told of and the TFs that hold buffer are never more than the buffer and what overran it.
\* In an undisturbed run a TF is in building until it is built: one that was given up stays.
CountersAccounted ==
  /\ TypeOK
  /\ mNumReqInFlight + Uncounted = Cardinality(awaited) + Cardinality(failed)
  /\ mCurrentTfBufferSize + Cardinality(BufferHeld) <= BufferSize + overrun
  /\ Cardinality(mTfIdSizes) <= mNumBufferedTfs
  /\ Undisturbed => mNumTfsInBuilding + Len(built) = Cardinality(accepted)

\* In an undisturbed run a TF is built of all STFs that were sent for it, and of no
\* other TF's.
BuiltIsComplete ==
  Undisturbed =>
    \A i \in DOMAIN built :
      \E tf \in accepted :
        /\ built[i] \subseteq {Stf(tf, s) : s \in tf.stfs}
        /\ \A s \in tf.stfs : Stf(tf, s) \in built[i] \/ Stf(tf, s) \in Refused
        /\ \A stf \in transfers \union failed : stf.tf # tf

\* In an undisturbed run TFs are built in the order in which they were requested,
\* whatever order their STFs come in.
BuiltInOrder ==
  Undisturbed =>
    \A i, j \in DOMAIN built : \A stf \in built[i], other \in built[j] :
      i < j /\ ~Topological(stf.tf) => stf.tf.id < other.tf.id

\* The TFs that no StfSender sends an STF of, from the moment when the expected number is
\* set to 0 and before DELETE is queued.
GivenUp ==
  gone \union {requesting[i].request.tf : i \in {j \in DOMAIN requesting : requesting[j].deleting}}

\* A TF that was accepted is built or given up, unless a transfer failed: then it and all
\* later ones wait forever.  A TF that is given up may take the process with it: the
\* deserializing thread finds 0 of 0 STFs before it sees DELETE, and the merger thread
\* uses the first of no STFs.  The process crashes for no other reason.
EveryTfLeaves ==
  \A tf \in Tfs :
    []<>( \/ tf \notin accepted \/ tf \in gone
          \/ \E i \in DOMAIN built : \E stf \in built[i] : stf.tf = tf
          \/ failed # {} \/ (crashed /\ GivenUp # {}) \/ ~Undisturbed )

\* TfBuilderInput.cxx:157: a TF that is announced comes after all TFs in the map.
AddedLast ==
  [][\A key \in mergeKeys' \ mergeKeys :
       mReceivedDataQueue # <<>> /\ Head(mReceivedDataQueue) = ADD(key) =>
         \A other \in mergeKeys : other < key]_vars

\* TfBuilderInput.cxx:167: a TF that is given up is still in the map.
DeletedIsThere ==
  [][ /\ mReceivedDataQueue # <<>> /\ Head(mReceivedDataQueue).type = "DELETE"
      /\ mReceivedDataQueue' = Tail(mReceivedDataQueue)
      => Head(mReceivedDataQueue).key \in mergeKeys ]_vars
=============================================================================

----------------------------- MODULE StfBuilder -----------------------------
(***************************************************************************)
(* StfBuilder building physics STFs from readout: the receiver, builder    *)
(* and sequencer threads of StfInputInterface, the limited pipeline and    *)
(* the output thread of StfBuilderDevice, with runs that start and stop    *)
(* under them.  The flags and the id marks are shared without a lock, so a *)
(* thread that has checked a flag and not yet acted is a state of its own: *)
(* receiving, sequencing and sending hold what such a thread has in hand.  *)
(*                                                                         *)
(* Readout is free: any id may come at any time.  The content of a message *)
(* is what the builder makes of it.  The file source and the file sink are *)
(* disabled, and the task is not reset.                                    *)
(***************************************************************************)
EXTENDS Integers, Sequences

CONSTANTS
  StfIds,            \* the STF ids readout may use
  MaxStfId,          \* the largest of them
  MaxRuns,           \* bound: runs
  MaxMessages,       \* bound: messages received in all runs
  MaxMissingStfs,    \* sMaxMissingStfsForSeq, 87
  MaxStfsInPipeline  \* mMaxStfsInPipeline, at least 4

ASSUME StfBuilderAssumption ==
  /\ MaxStfId \in Nat \ {0} /\ StfIds \subseteq 1 .. MaxStfId
  /\ MaxRuns \in Nat /\ MaxMessages \in Nat /\ MaxMissingStfs \in Nat
  /\ MaxStfsInPipeline \in Nat /\ MaxStfsInPipeline >= 4

VARIABLES
  phase,               \* the device: ready, starting, running, stopping
  run,                 \* history: the run that started last
  received,            \* counts the messages, for MaxMessages
  mAcceptingData,
  mInRunningState,
  mStfIdReceiving,
  receiving,           \* the message the receiver accepted, or <<>>
  mBuilderInputQueue,
  mStf,                \* the STF being built, as <<stf>>, or <<>>
  mSeqStfQueue,
  sequencing,          \* the STF the sequencer took, as <<stf>>, or <<>>
  next,                \* the next id it will queue, 0 before it decided
  mLastSeqStfId,
  marked,              \* the run in which it set the mark to the STF it has, 0 before that
  mStfSendIn,          \* the pipeline queue of the output thread
  sending,             \* how many STFs the output thread has in hand, 0 or 1
  mNumStfs,
  queuedStfs           \* history: what the sequencer queued since the run started

flagVars == <<phase, run, mAcceptingData, mInRunningState>>
inputVars == <<received, mStfIdReceiving, receiving>>
seqVars == <<sequencing, next, mLastSeqStfId, marked>>
outVars == <<mStfSendIn, sending, mNumStfs>>
vars == <<flagVars, inputVars, mBuilderInputQueue, mStf, mSeqStfQueue, seqVars, outVars,
          queuedStfs>>

\* A message, and an STF; run is the run in which its (first) data was accepted.
Messages == [run : 1 .. MaxRuns, id : StfIds, last : BOOLEAN]
Stfs     == [run : 1 .. MaxRuns, id : 1 .. MaxStfId, null : BOOLEAN]
\* A queued STF also has the run in which the sequencer counted it: moved the mark to it, or
\* queued it in the place of a missing one.
QueuedStfs == [stf : Stfs, at : 1 .. MaxRuns]

Init ==
  /\ phase = "ready" /\ run = 0 /\ received = 0
  /\ mAcceptingData = FALSE /\ mInRunningState = FALSE
  /\ mStfIdReceiving = 0 /\ receiving = <<>>
  /\ mBuilderInputQueue = <<>> /\ mStf = <<>> /\ mSeqStfQueue = <<>>
  /\ sequencing = <<>> /\ next = 0 /\ mLastSeqStfId = 0 /\ marked = 0
  /\ mStfSendIn = <<>> /\ sending = 0 /\ mNumStfs = 0
  /\ queuedStfs = {}

-----------------------------------------------------------------------------
\* Deviation: the sequencer's mark is not reset.
PreRunKeepingSeqMark ==
  \/ /\ phase = "ready" /\ run < MaxRuns
     /\ phase' = "starting" /\ run' = run + 1
     /\ mAcceptingData' = TRUE
     /\ mStfIdReceiving' = 0
     /\ queuedStfs' = {}
     /\ UNCHANGED <<received, receiving, mInRunningState, mLastSeqStfId>>
  \/ /\ phase = "starting"
     /\ phase' = "running"
     /\ mInRunningState' = TRUE
     /\ UNCHANGED <<run, inputVars, mAcceptingData, mLastSeqStfId, queuedStfs>>

\* PreRun: setRunningState(true) and, after the other start-up, mInRunningState.
PreRun ==
  \/ /\ phase = "ready" /\ run < MaxRuns
     /\ phase' = "starting" /\ run' = run + 1
     /\ mAcceptingData' = TRUE
     /\ mStfIdReceiving' = 0 /\ mLastSeqStfId' = 0
     /\ queuedStfs' = {}
     /\ UNCHANGED <<received, receiving, mInRunningState>>
  \/ /\ phase = "starting"
     /\ phase' = "running"
     /\ mInRunningState' = TRUE
     /\ UNCHANGED <<run, inputVars, mAcceptingData, mLastSeqStfId, queuedStfs>>

\* PostRun: mInRunningState and then setRunningState(false).
PostRun ==
  \/ /\ phase = "running"
     /\ phase' = "stopping"
     /\ mInRunningState' = FALSE
     /\ UNCHANGED mAcceptingData
  \/ /\ phase = "stopping"
     /\ phase' = "ready"
     /\ mAcceptingData' = FALSE
     /\ UNCHANGED mInRunningState

RunControl ==
  /\ \/ PreRun
     \/ PostRun /\ UNCHANGED <<run, inputVars, mLastSeqStfId, queuedStfs>>
  /\ UNCHANGED <<mBuilderInputQueue, mStf, mSeqStfQueue, sequencing, next, marked,
                 outVars>>

-----------------------------------------------------------------------------
\* StfReceiverThread receives a message while data is accepted; others it discards.
Receive(id, last) ==
  /\ receiving = <<>> /\ mAcceptingData /\ received < MaxMessages
  /\ received' = received + 1
  /\ receiving' = <<[run |-> run, id |-> id, last |-> last]>>
  /\ UNCHANGED <<flagVars, mStfIdReceiving, mBuilderInputQueue, mStf, mSeqStfQueue, seqVars,
                 outVars, queuedStfs>>

\* Deviation: a message is passed on whatever its id.
ReceiverQueueAny ==
  /\ receiving # <<>>
  /\ receiving' = <<>>
  /\ mStfIdReceiving' = receiving[1].id
  /\ mBuilderInputQueue' = mBuilderInputQueue \o receiving
  /\ UNCHANGED <<flagVars, received, mStf, mSeqStfQueue, seqVars, outVars, queuedStfs>>

\* StfReceiverThread: an id that decreased is rejected, others go to the builder.
ReceiverQueue ==
  /\ receiving # <<>>
  /\ receiving' = <<>>
  /\ IF receiving[1].id < mStfIdReceiving
       THEN UNCHANGED <<mStfIdReceiving, mBuilderInputQueue>>
       ELSE /\ mStfIdReceiving' = receiving[1].id
            /\ mBuilderInputQueue' = mBuilderInputQueue \o receiving
  /\ UNCHANGED <<flagVars, received, mStf, mSeqStfQueue, seqVars, outVars, queuedStfs>>

\* What a message turns out to be: "ignored" is a lone header without the stop
\* flag or a bad RDH found at once, "unreadable" a bad RDH found later, "header"
\* the stop flag alone, and "rejected" data for which no header can be allocated.
Contents == {"ignored", "unreadable", "header", "data", "rejected"}

\* The STF that is open when the message is looked at, and the one that the
\* message closes because it has another id.
Closed(message, content) ==
  IF content # "ignored" /\ mStf # <<>> /\ mStf[1].id # message.id THEN mStf ELSE <<>>

\* addHbFrames: once data was rejected the rest of that STF is, too.
WithData(message, open, content) ==
  LET null == content = "rejected" \/ (open # <<>> /\ open[1].null)
  IN  IF content \notin {"data", "rejected"} THEN open
      ELSE <<[run  |-> IF open = <<>> THEN message.run ELSE open[1].run,
              id   |-> message.id,
              null |-> null]>>

\* StfBuilderThread handles a message.
BuilderTake(content) ==
  /\ mBuilderInputQueue # <<>>
  /\ LET message == Head(mBuilderInputQueue)
         closed  == Closed(message, content)
         built   == WithData(message, IF closed # <<>> THEN <<>> ELSE mStf, content)
         finish  == message.last /\ content \notin {"ignored", "unreadable"}
     IN  /\ content = "header" => message.last
         /\ mStf' = IF finish THEN <<>> ELSE built
         /\ mSeqStfQueue' = mSeqStfQueue \o closed \o (IF finish THEN built ELSE <<>>)
  /\ mBuilderInputQueue' = Tail(mBuilderInputQueue)
  /\ UNCHANGED <<flagVars, inputVars, seqVars, outVars, queuedStfs>>

\* Deviation: the timeout only logs.
BuilderTimeoutWithoutFinish ==
  /\ mBuilderInputQueue = <<>> /\ mStf # <<>>
  /\ UNCHANGED vars

\* StfBuilderThread, no message for two seconds: the open STF is finished.
BuilderTimeout ==
  /\ mBuilderInputQueue = <<>> /\ mStf # <<>>
  /\ mStf' = <<>>
  /\ mSeqStfQueue' = mSeqStfQueue \o mStf
  /\ UNCHANGED <<flagVars, inputVars, mBuilderInputQueue, seqVars, outVars, queuedStfs>>

-----------------------------------------------------------------------------
\* StfSequencerThread takes an STF, and discards it when no data is accepted.
SequencerTake ==
  /\ sequencing = <<>> /\ mSeqStfQueue # <<>>
  /\ sequencing' = IF mAcceptingData THEN <<Head(mSeqStfQueue)>> ELSE <<>>
  /\ mSeqStfQueue' = Tail(mSeqStfQueue)
  /\ UNCHANGED <<flagVars, inputVars, mBuilderInputQueue, mStf, next, mLastSeqStfId, marked,
                 outVars, queuedStfs>>

\* StfSequencerThread rejects a repeated STF.
SequencerReject ==
  /\ sequencing # <<>> /\ next = 0
  /\ sequencing[1].id <= mLastSeqStfId
  /\ sequencing' = <<>>
  /\ UNCHANGED <<flagVars, inputVars, mBuilderInputQueue, mStf, mSeqStfQueue, next,
                 mLastSeqStfId, marked, outVars, queuedStfs>>

\* StfSequencerThread decides where to go on: a small gap is filled.
SequencerAccept ==
  /\ sequencing # <<>> /\ next = 0
  /\ sequencing[1].id > mLastSeqStfId
  /\ next' = IF sequencing[1].id - (mLastSeqStfId + 1) < MaxMissingStfs
               THEN mLastSeqStfId + 1
               ELSE sequencing[1].id
  /\ UNCHANGED <<flagVars, inputVars, mBuilderInputQueue, mStf, mSeqStfQueue, sequencing,
                 mLastSeqStfId, marked, outVars, queuedStfs>>

\* StfSequencerThread, no STF missing any more: the mark moves to the STF in hand, which is
\* queued only after that.  A run that starts in between resets the mark again.
SequencerMark ==
  /\ sequencing # <<>> /\ next = sequencing[1].id /\ marked = 0
  /\ mLastSeqStfId' = next
  /\ marked' = run
  /\ UNCHANGED <<flagVars, inputVars, mBuilderInputQueue, mStf, mSeqStfQueue, sequencing, next,
                 outVars, queuedStfs>>

\* The pipeline is at its limit with one more STF.
LimitReached == mNumStfs + 1 >= MaxStfsInPipeline

\* Deviation: the limit is compared with the count before the new STF.
QueueComparingOldCount(stf, at) ==
  LET drop == mNumStfs > MaxStfsInPipeline /\ mStfSendIn # <<>>
  IN  /\ mNumStfs' = IF drop THEN mNumStfs ELSE mNumStfs + 1
      /\ mStfSendIn' = Append(IF drop THEN Tail(mStfSendIn) ELSE mStfSendIn,
                              [stf |-> stf, at |-> at])

\* queue(eStfBuilderOut) with getNextPipelineStage: at the limit the oldest STF
\* makes room.
QueueStf(stf, at) ==
  LET drop == LimitReached /\ mStfSendIn # <<>>
  IN  /\ mNumStfs' = IF drop THEN mNumStfs ELSE mNumStfs + 1
      /\ mStfSendIn' = Append(IF drop THEN Tail(mStfSendIn) ELSE mStfSendIn,
                              [stf |-> stf, at |-> at])

\* StfSequencerThread queues an empty STF for a missing one, or the STF itself.
SequencerQueueMissing ==
  /\ sequencing # <<>> /\ next # 0 /\ next < sequencing[1].id
  /\ LET stf == [run |-> run, id |-> next, null |-> TRUE]
     IN  QueueStf(stf, run) /\ queuedStfs' = queuedStfs \cup {stf}
  /\ next' = next + 1
  /\ UNCHANGED <<sequencing, mLastSeqStfId, marked>>

SequencerQueueMarked ==
  /\ marked # 0
  /\ QueueStf(sequencing[1], marked) /\ queuedStfs' = queuedStfs \cup {sequencing[1]}
  /\ sequencing' = <<>> /\ next' = 0 /\ marked' = 0
  /\ UNCHANGED mLastSeqStfId

SequencerQueue ==
  /\ SequencerQueueMissing \/ SequencerQueueMarked
  /\ UNCHANGED <<flagVars, inputVars, mBuilderInputQueue, mStf, mSeqStfQueue, sending>>

-----------------------------------------------------------------------------
\* StfOutputThread takes an STF; outside of a run it drops it, uncounted.
OutputTake ==
  /\ sending = 0 /\ mStfSendIn # <<>>
  /\ sending' = IF mInRunningState THEN 1 ELSE 0
  /\ mStfSendIn' = Tail(mStfSendIn)
  /\ UNCHANGED <<flagVars, inputVars, mBuilderInputQueue, mStf, mSeqStfQueue, seqVars, mNumStfs,
                 queuedStfs>>

\* StfOutputThread counts the STF out and sends it.
OutputSend ==
  /\ sending = 1
  /\ sending' = 0
  /\ mNumStfs' = mNumStfs - 1
  /\ UNCHANGED <<flagVars, inputVars, mBuilderInputQueue, mStf, mSeqStfQueue, seqVars,
                 mStfSendIn, queuedStfs>>

-----------------------------------------------------------------------------
Builder == BuilderTimeout \/ \E content \in Contents : BuilderTake(content)
Sequencer == SequencerTake \/ SequencerReject \/ SequencerAccept \/ SequencerMark \/ SequencerQueue
Output == OutputTake \/ OutputSend

Next ==
  \/ RunControl
  \/ \E id \in StfIds, last \in BOOLEAN : Receive(id, last)
  \/ ReceiverQueue
  \/ Builder
  \/ Sequencer
  \/ Output

Spec == Init /\ [][Next]_vars

\* The threads keep running.  Readout and the run control owe nothing.
Fairness == WF_vars(ReceiverQueue) /\ WF_vars(Builder) /\ WF_vars(Sequencer) /\ WF_vars(Output)

FairSpec == Spec /\ Fairness

-----------------------------------------------------------------------------
Elements(queue) == {queue[i] : i \in DOMAIN queue}

TypeOK ==
  /\ phase \in {"ready", "starting", "running", "stopping"}
  /\ run \in 0 .. MaxRuns /\ received \in 0 .. MaxMessages
  /\ mAcceptingData = (phase # "ready") /\ mInRunningState = (phase = "running")
  /\ mStfIdReceiving \in 0 .. MaxStfId
  /\ receiving \in Seq(Messages) /\ Len(receiving) <= 1
  /\ mBuilderInputQueue \in Seq(Messages)
  /\ mStf \in Seq(Stfs) /\ Len(mStf) <= 1
  /\ mSeqStfQueue \in Seq(Stfs)
  /\ sequencing \in Seq(Stfs) /\ Len(sequencing) <= 1
  /\ next \in 0 .. MaxStfId /\ mLastSeqStfId \in 0 .. MaxStfId
  /\ next # 0 => sequencing # <<>> /\ next <= sequencing[1].id
  /\ marked \in 0 .. run /\ (marked # 0 => next # 0 /\ next = sequencing[1].id)
  /\ mStfSendIn \in Seq(QueuedStfs)
  /\ sending \in {0, 1}
  /\ mNumStfs \in Int
  /\ queuedStfs \subseteq Stfs

\* mNumStfs never counts less than what the pipeline holds, so the limit is
\* kept, whatever the output thread drops or has in hand.
PipelineBounded ==
  /\ mNumStfs >= Len(mStfSendIn) + sending
  /\ Len(mStfSendIn) < MaxStfsInPipeline

\* What an STF of the current run can find in its way: an STF of an earlier run
\* that was sequenced in this one, or that the sequencer has just counted.
Leftover ==
  \/ \E stf \in queuedStfs : stf.run < run
  \/ marked # 0 /\ sequencing[1].run < run

\* The sequencer rejects an STF of the current run only if that id already went
\* out, or an STF left over from an earlier run went out first.
RejectedWentOutOrLeftover ==
  [][SequencerReject =>
       \/ \E stf \in queuedStfs : stf.id = sequencing[1].id
       \/ Leftover
       \/ sequencing[1].run < run]_vars

\* The gaps are filled, and only the gaps.  Two neighbours in the pipeline that the sequencer
\* counted in one run have consecutive ids, unless as many are missing as to be not filled,
\* also when the limit has dropped STFs.  (What it counted before a run started and queued after
\* that goes out in the new run all the same, in front of ids that begin at 1 again: setting the
\* mark and queueing are two steps, and the reset of the mark may fall between them.)  And an
\* empty STF stands for one that is not on its way: no data of its id is behind it in the
\* receiver, the builder or the sequencer's queue.
OnlyGapsAreFilled ==
  /\ \A i \in 1 .. Len(mStfSendIn) - 1 :
       LET a == mStfSendIn[i]
           b == mStfSendIn[i + 1]
       IN  a.at = b.at => b.stf.id = a.stf.id + 1 \/ b.stf.id - (a.stf.id + 1) >= MaxMissingStfs
  /\ \A stf \in queuedStfs :
       (stf.run = run /\ stf.null /\ stf.id < mLastSeqStfId /\ ~Leftover) =>
         \A other \in Elements(mBuilderInputQueue \o mStf \o mSeqStfQueue) :
           other.run = run => other.id # stf.id

Idle ==
  /\ receiving = <<>> /\ mBuilderInputQueue = <<>> /\ mStf = <<>> /\ mSeqStfQueue = <<>>
  /\ sequencing = <<>> /\ mStfSendIn = <<>> /\ sending = 0

\* When readout goes quiet everything received leaves the StfBuilder, also the
\* STF whose stop flag never came, and also when the run is over by then.
EverythingLeaves == []<>Idle

-----------------------------------------------------------------------------
(***************************************************************************)
(* What the code says in its messages, and does not keep.                  *)
(***************************************************************************)
\* "Repeated STF will be rejected": the id of a rejected STF of the current run
\* was queued before in this run.
RejectedIsRepeated ==
  [][SequencerReject /\ sequencing[1].run = run =>
       \E stf \in queuedStfs : stf.id = sequencing[1].id]_vars

\* "Dropping oldest STF due to reaching the maximum number of buffered STFs":
\* with the new STF the process buffers that many.
LimitDropsOnlyWhenFull ==
  [][mNumStfs' = mNumStfs /\ queuedStfs' # queuedStfs =>
       Len(mStfSendIn) + sending + 1 >= MaxStfsInPipeline]_vars
=============================================================================

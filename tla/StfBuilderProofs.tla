-------------------------- MODULE StfBuilderProofs --------------------------
(***************************************************************************)
(* Proofs about StfBuilder, for any number of runs, messages and ids: its  *)
(* state is well formed, the pipeline keeps its limit, only gaps of a run  *)
(* are filled, and what the sequencer rejects went out or has something    *)
(* left over from an earlier run in front of it.                           *)
(***************************************************************************)
EXTENDS StfBuilder, SequenceTheorems, TLAPS

\* What the sequence operators do to the short sequences that stand for an
\* optional value.
LEMMA OptionalType ==
  ASSUME NEW S
  PROVE  /\ <<>> \in Seq(S) /\ Len(<<>>) = 0
         /\ \A x \in S : <<x>> \in Seq(S) /\ Len(<<x>>) = 1 /\ <<x>>[1] = x
OBVIOUS

\* Head and Tail of a queue that is not empty.
LEMMA QueueType ==
  ASSUME NEW S, NEW queue \in Seq(S), queue # <<>>
  PROVE  /\ Head(queue) \in S /\ Tail(queue) \in Seq(S)
         /\ Len(Tail(queue)) = Len(queue) - 1 /\ Len(queue) \in Nat /\ Len(queue) >= 1
         /\ queue[1] \in S
BY HeadTailProperties, EmptySeq

LEMMA StfIdRange == \A id \in StfIds : id \in 1 .. MaxStfId /\ id \in 0 .. MaxStfId
BY StfBuilderAssumption

LEMMA AppendType ==
  ASSUME NEW S, NEW queue \in Seq(S), NEW x \in S
  PROVE  Append(queue, x) \in Seq(S) /\ Len(Append(queue, x)) = Len(queue) + 1
BY AppendProperties

LEMMA ConcatType ==
  ASSUME NEW S, NEW left \in Seq(S), NEW right \in Seq(S)
  PROVE  left \o right \in Seq(S)
BY ConcatProperties

-----------------------------------------------------------------------------
\* The device and its flags.
FlagType ==
  /\ phase \in {"ready", "starting", "running", "stopping"}
  /\ mAcceptingData = (phase # "ready") /\ mInRunningState = (phase = "running")

\* The messages.
InputType ==
  /\ run \in 0 .. MaxRuns /\ received \in 0 .. MaxMessages
  /\ mStfIdReceiving \in 0 .. MaxStfId
  /\ receiving \in Seq(Messages) /\ Len(receiving) <= 1
  /\ mBuilderInputQueue \in Seq(Messages)

\* The STFs being built and sequenced.
BuilderType ==
  /\ mStf \in Seq(Stfs) /\ Len(mStf) <= 1
  /\ mSeqStfQueue \in Seq(Stfs)
  /\ sequencing \in Seq(Stfs) /\ Len(sequencing) <= 1
  /\ next \in 0 .. MaxStfId /\ mLastSeqStfId \in 0 .. MaxStfId
  /\ next # 0 => sequencing # <<>> /\ next <= sequencing[1].id
  /\ marked \in 0 .. run /\ (marked # 0 => next # 0 /\ next = sequencing[1].id)

\* The pipeline.
OutputType ==
  /\ mStfSendIn \in Seq(QueuedStfs)
  /\ sending \in {0, 1}
  /\ mNumStfs \in Int
  /\ queuedStfs \subseteq Stfs

LEMMA TypeParts == TypeOK <=> FlagType /\ InputType /\ BuilderType /\ OutputType
BY DEF TypeOK, FlagType, InputType, BuilderType, OutputType

\* A run has started when the device is not ready or the sequencer has an STF.
RunStarted == phase # "ready" \/ sequencing # <<>> => run # 0

inputTypeVars   == <<flagVars, inputVars, mBuilderInputQueue>>
builderTypeVars == <<run, mStf, mSeqStfQueue, seqVars>>
outputTypeVars  == <<outVars, queuedStfs>>

\* Each part of the type depends on its own variables only.
LEMMA PartsUnchanged ==
  /\ FlagType /\ UNCHANGED flagVars => FlagType'
  /\ InputType /\ UNCHANGED inputTypeVars => InputType'
  /\ BuilderType /\ UNCHANGED builderTypeVars => BuilderType'
  /\ OutputType /\ UNCHANGED outputTypeVars => OutputType'
  /\ PipelineBounded /\ UNCHANGED outVars => PipelineBounded'
<1>0. FlagType /\ UNCHANGED flagVars => FlagType'
  BY DEF FlagType, flagVars
<1>1. InputType /\ UNCHANGED inputTypeVars => InputType'
  BY DEF InputType, inputTypeVars, flagVars, inputVars
<1>2. BuilderType /\ UNCHANGED builderTypeVars => BuilderType'
  BY DEF BuilderType, builderTypeVars, seqVars
<1>3. OutputType /\ UNCHANGED outputTypeVars => OutputType'
  BY DEF OutputType, outputTypeVars, outVars
<1>4. PipelineBounded /\ UNCHANGED outVars => PipelineBounded'
  BY DEF PipelineBounded, outVars
<1> QED BY <1>0, <1>1, <1>2, <1>3, <1>4

\* What every step starts from.
Parts == FlagType /\ InputType /\ BuilderType /\ OutputType /\ PipelineBounded /\ RunStarted

LEMMA InitParts == Init => Parts
<1> SUFFICES ASSUME Init PROVE Parts
  OBVIOUS
<1>1. <<>> \in Seq(Messages) /\ <<>> \in Seq(Stfs) /\ <<>> \in Seq(QueuedStfs) /\ Len(<<>>) = 0
  BY OptionalType
<1>0. FlagType
  BY Zenon DEF Init, FlagType
<1>2. InputType
  BY <1>1, StfBuilderAssumption DEF Init, InputType
<1>3. BuilderType
  BY <1>1, StfBuilderAssumption DEF Init, BuilderType
<1>4. OutputType /\ PipelineBounded
  BY <1>1, StfBuilderAssumption DEF Init, OutputType, PipelineBounded
<1>5. RunStarted
  BY DEF Init, RunStarted
<1> QED BY <1>0, <1>2, <1>3, <1>4, <1>5 DEF Parts

-----------------------------------------------------------------------------
LEMMA RunControlParts == Parts /\ RunControl => Parts'
<1> SUFFICES ASSUME Parts, RunControl PROVE Parts'
  OBVIOUS
<1>0. FlagType'
  <2>1. CASE PreRun
    BY <2>1, Zenon DEF Parts, FlagType, PreRun
  <2>2. CASE PostRun
    BY <2>2, Zenon DEF Parts, FlagType, PostRun
  <2> QED BY <2>1, <2>2 DEF RunControl
<1>1. InputType'
  BY StfBuilderAssumption DEF Parts, InputType, RunControl, PreRun, PostRun, inputVars
<1>2. BuilderType'
  BY StfBuilderAssumption DEF Parts, InputType, BuilderType, RunControl, PreRun, PostRun
<1>3. OutputType' /\ PipelineBounded'
  BY DEF Parts, OutputType, PipelineBounded, RunControl, PreRun, PostRun, outVars
<1>4. RunStarted'
  BY DEF Parts, InputType, RunStarted, RunControl, PreRun, PostRun
<1> QED BY <1>0, <1>1, <1>2, <1>3, <1>4 DEF Parts

LEMMA ReceiverParts ==
  ASSUME Parts, (\E id \in StfIds, last \in BOOLEAN : Receive(id, last)) \/ ReceiverQueue
  PROVE  Parts'
<1>1. UNCHANGED <<builderTypeVars, outputTypeVars, flagVars>>
  BY DEF Receive, ReceiverQueue, builderTypeVars, outputTypeVars, flagVars
<1>2. InputType'
  <2>1. CASE \E id \in StfIds, last \in BOOLEAN : Receive(id, last)
    <3>1. PICK id \in StfIds, last \in BOOLEAN : Receive(id, last)
      BY <2>1
    <3> DEFINE message == [run |-> run, id |-> id, last |-> last]
    <3>2. message \in Messages
      <4>1. phase # "ready"
        BY <3>1, Zenon DEF Parts, FlagType, Receive
      <4>2. run \in 1 .. MaxRuns
        BY <4>1, StfBuilderAssumption DEF Parts, InputType, RunStarted
      <4> QED BY <4>2 DEF Messages
    <3>3. receiving' \in Seq(Messages) /\ Len(receiving') <= 1
      BY <3>1, <3>2, OptionalType DEF Receive
    <3>4. received' \in 0 .. MaxMessages
      BY <3>1, StfBuilderAssumption DEF Parts, InputType, Receive
    <3> QED BY <3>1, <3>3, <3>4 DEF Parts, InputType, Receive, flagVars
  <2>2. CASE ReceiverQueue
    <3>1. receiving[1] \in Messages
      BY <2>2, QueueType DEF Parts, InputType, ReceiverQueue
    <3>2. receiving' \in Seq(Messages) /\ Len(receiving') <= 1
      BY <2>2, OptionalType DEF ReceiverQueue
    <3>3. mBuilderInputQueue' \in Seq(Messages)
      BY <2>2, ConcatType DEF Parts, InputType, ReceiverQueue
    <3>4. mStfIdReceiving' \in 0 .. MaxStfId
      <4>1. receiving[1].id \in 0 .. MaxStfId
        <5>1. receiving[1].id \in StfIds
          BY <3>1 DEF Messages
        <5> QED BY <5>1, StfIdRange
      <4> QED BY <2>2, <4>1 DEF Parts, InputType, ReceiverQueue
    <3> QED BY <2>2, <3>2, <3>3, <3>4 DEF Parts, InputType, ReceiverQueue, flagVars
  <2> QED BY <2>1, <2>2
<1>3. RunStarted'
  BY <1>1 DEF Parts, RunStarted, flagVars, builderTypeVars, seqVars
<1>4. UNCHANGED outVars
  BY <1>1 DEF outputTypeVars
<1> QED BY <1>1, <1>2, <1>3, <1>4, PartsUnchanged DEF Parts

LEMMA BuilderParts ==
  ASSUME Parts, Builder
  PROVE  Parts'
<1>1. UNCHANGED <<outputTypeVars, flagVars, inputVars, seqVars>>
  BY DEF Builder, BuilderTake, BuilderTimeout, outputTypeVars
<1>2. /\ mBuilderInputQueue' \in Seq(Messages)
      /\ mStf' \in Seq(Stfs) /\ Len(mStf') <= 1
      /\ mSeqStfQueue' \in Seq(Stfs)
  <2>1. CASE BuilderTimeout
    BY <2>1, OptionalType, ConcatType DEF BuilderTimeout, Parts, InputType, BuilderType
  <2>2. CASE \E content \in Contents : BuilderTake(content)
    <3>1. PICK content \in Contents : BuilderTake(content)
      BY <2>2
    <3> DEFINE message == Head(mBuilderInputQueue)
               closed  == Closed(message, content)
               open    == IF closed # <<>> THEN <<>> ELSE mStf
               built   == WithData(message, open, content)
               finish  == message.last /\ content \notin {"ignored", "unreadable"}
    <3>2. message \in Messages /\ mBuilderInputQueue' \in Seq(Messages)
      BY <3>1, QueueType DEF BuilderTake, Parts, InputType
    <3>3. closed \in Seq(Stfs) /\ open \in Seq(Stfs) /\ Len(open) <= 1
      BY OptionalType DEF Closed, Parts, BuilderType
    <3>4. built \in Seq(Stfs) /\ Len(built) <= 1
      <4>1. CASE content \notin {"data", "rejected"}
        BY <4>1, <3>3 DEF WithData
      <4>2. CASE content \in {"data", "rejected"}
        <5> DEFINE stf == [run  |-> IF open = <<>> THEN message.run ELSE open[1].run,
                           id   |-> message.id,
                           null |-> content = "rejected" \/ (open # <<>> /\ open[1].null)]
        <5>1. open # <<>> => open[1] \in Stfs
          BY <3>3, QueueType
        <5>2. stf.run \in 1 .. MaxRuns
          BY <5>1, <3>2 DEF Messages, Stfs
        <5>3. message.id \in 1 .. MaxStfId
          BY <3>2, StfBuilderAssumption DEF Messages
        <5>4. stf.null \in BOOLEAN
          OBVIOUS
        <5>5. stf \in Stfs
          BY <5>2, <5>3, <5>4 DEF Stfs
        <5>6. built = <<stf>>
          BY <4>2 DEF WithData
        <5> HIDE DEF stf, built
        <5>7. <<stf>> \in Seq(Stfs) /\ Len(<<stf>>) = 1
          BY <5>5, OptionalType
        <5> QED BY <5>6, <5>7
      <4> QED BY <4>1, <4>2
    <3>5. mStf' = (IF finish THEN <<>> ELSE built)
      BY <3>1 DEF BuilderTake
    <3>6. mSeqStfQueue' = mSeqStfQueue \o closed \o (IF finish THEN built ELSE <<>>)
      BY <3>1 DEF BuilderTake
    <3>7. (IF finish THEN built ELSE <<>>) \in Seq(Stfs)
      BY <3>4, OptionalType
    <3>8. mStf' \in Seq(Stfs) /\ Len(mStf') <= 1
      BY <3>4, <3>5, OptionalType
    <3>9. mSeqStfQueue \o closed \in Seq(Stfs)
      BY <3>3, ConcatType DEF Parts, BuilderType
    <3>10. mSeqStfQueue' \in Seq(Stfs)
      BY <3>6, <3>7, <3>9, ConcatType
    <3> QED BY <3>2, <3>8, <3>10
  <2> QED BY <2>1, <2>2 DEF Builder
<1>3. InputType' /\ BuilderType'
  BY <1>1, <1>2 DEF Parts, InputType, BuilderType, flagVars, inputVars, seqVars
<1>4. RunStarted'
  BY <1>1 DEF Parts, RunStarted, flagVars, seqVars
<1>5. UNCHANGED outVars
  BY <1>1 DEF outputTypeVars
<1> QED BY <1>1, <1>3, <1>4, <1>5, PartsUnchanged DEF Parts

LEMMA SequencerTakeParts ==
  ASSUME Parts, SequencerTake
  PROVE  Parts'
<1>1. UNCHANGED <<inputTypeVars, outputTypeVars, flagVars, outVars>>
  BY DEF SequencerTake, inputTypeVars, outputTypeVars
<1>2. Head(mSeqStfQueue) \in Stfs /\ mSeqStfQueue' \in Seq(Stfs)
  BY QueueType DEF SequencerTake, Parts, BuilderType
<1>3. sequencing' \in Seq(Stfs) /\ Len(sequencing') <= 1
  BY <1>2, OptionalType DEF SequencerTake
<1>4. next = 0
  BY DEF SequencerTake, Parts, BuilderType
<1>5. BuilderType'
  BY <1>2, <1>3, <1>4 DEF SequencerTake, flagVars, Parts, BuilderType
<1>6. RunStarted'
  <2>1. mAcceptingData => phase # "ready"
    BY Zenon DEF Parts, FlagType
  <2> QED BY <2>1 DEF SequencerTake, Parts, RunStarted, flagVars
<1> QED BY <1>1, <1>5, <1>6, PartsUnchanged DEF Parts

LEMMA SequencerDecisionParts ==
  ASSUME Parts, SequencerReject \/ SequencerAccept
  PROVE  Parts'
<1>1. UNCHANGED <<inputTypeVars, outputTypeVars, flagVars, outVars>>
  BY DEF SequencerReject, SequencerAccept, inputTypeVars, outputTypeVars
<1>2. sequencing[1] \in Stfs
  BY QueueType DEF Parts, BuilderType, SequencerReject, SequencerAccept
<1>3. sequencing[1].id \in 1 .. MaxStfId
  BY <1>2 DEF Stfs
<1>4. BuilderType'
  <2>1. CASE SequencerReject
    BY <2>1, OptionalType DEF Parts, BuilderType, SequencerReject, flagVars
  <2>2. CASE SequencerAccept
    <3>1. next' \in 0 .. MaxStfId /\ next' <= sequencing[1].id
      BY <2>2, <1>3, StfBuilderAssumption DEF Parts, BuilderType, SequencerAccept
    <3> QED BY <2>2, <3>1 DEF Parts, BuilderType, SequencerAccept, flagVars
  <2> QED BY <2>1, <2>2
<1>5. RunStarted'
  BY <1>1 DEF Parts, RunStarted, SequencerReject, SequencerAccept, flagVars
<1> QED BY <1>1, <1>4, <1>5, PartsUnchanged DEF Parts

\* The limit: one more STF is queued, and the oldest one leaves when the count
\* says that the pipeline would be full.  The count covers what the pipeline
\* holds, so the queue itself stays below the limit.
LEMMA QueueStfBounded ==
  ASSUME Parts, NEW stf \in Stfs, NEW at \in 1 .. MaxRuns, QueueStf(stf, at), sending' = sending
  PROVE  PipelineBounded' /\ mStfSendIn' \in Seq(QueuedStfs) /\ mNumStfs' \in Int
<1> DEFINE item == [stf |-> stf, at |-> at]
           drop == LimitReached /\ mStfSendIn # <<>>
           rest == IF drop THEN Tail(mStfSendIn) ELSE mStfSendIn
<1>1. item \in QueuedStfs
  BY DEF QueuedStfs
<1>2. mStfSendIn \in Seq(QueuedStfs) /\ Len(mStfSendIn) \in Nat /\ sending \in Nat
  BY LenProperties DEF Parts, OutputType
<1>3. /\ rest \in Seq(QueuedStfs)
      /\ Len(rest) = IF drop THEN Len(mStfSendIn) - 1 ELSE Len(mStfSendIn)
  BY <1>2, QueueType
<1>4. mStfSendIn' = Append(rest, item) /\ mNumStfs' = (IF drop THEN mNumStfs ELSE mNumStfs + 1)
  BY DEF QueueStf
<1>5. mStfSendIn' \in Seq(QueuedStfs) /\ Len(mStfSendIn') = Len(rest) + 1
  <2> HIDE DEF item, rest
  <2> QED BY <1>1, <1>3, <1>4, AppendType
<1>6. mStfSendIn = <<>> => Len(mStfSendIn) = 0
  BY OptionalType
<1>7. CASE drop
  <2>1. Len(mStfSendIn') = Len(mStfSendIn) /\ mNumStfs' = mNumStfs
    BY <1>2, <1>3, <1>4, <1>5, <1>7
  <2> QED BY <2>1, <1>5 DEF Parts, PipelineBounded, OutputType
<1>8. CASE ~drop
  <2>1. Len(mStfSendIn') = Len(mStfSendIn) + 1 /\ mNumStfs' = mNumStfs + 1
    BY <1>2, <1>3, <1>4, <1>5, <1>8
  <2>2. Len(mStfSendIn) + 1 < MaxStfsInPipeline
    <3>1. CASE mStfSendIn = <<>>
      BY <3>1, <1>6, StfBuilderAssumption
    <3>2. CASE ~LimitReached
      BY <3>2, <1>2, StfBuilderAssumption DEF LimitReached, Parts, PipelineBounded, OutputType
    <3> QED BY <3>1, <3>2, <1>8
  <2>3. mNumStfs + 1 \in Int /\ mNumStfs + 1 >= Len(mStfSendIn) + 1 + sending
    BY <1>2 DEF Parts, PipelineBounded, OutputType
  <2> QED BY <2>1, <2>2, <2>3, <1>5 DEF PipelineBounded
<1> QED BY <1>7, <1>8

LEMMA SequencerMarkParts ==
  ASSUME Parts, SequencerMark
  PROVE  Parts'
<1>1. UNCHANGED <<inputTypeVars, outputTypeVars, flagVars, outVars>>
  BY DEF SequencerMark, inputTypeVars, outputTypeVars
<1>2. sequencing[1] \in Stfs
  BY QueueType DEF Parts, BuilderType, SequencerMark
<1>3. next # 0
  BY <1>2 DEF SequencerMark, Stfs
<1>4. run \in 0 .. MaxRuns
  BY DEF Parts, InputType
<1>5. BuilderType'
  BY <1>1, <1>3, <1>4, StfBuilderAssumption DEF SequencerMark, Parts, BuilderType, flagVars
<1>6. RunStarted'
  BY <1>1 DEF SequencerMark, Parts, RunStarted, flagVars
<1> QED BY <1>1, <1>5, <1>6, PartsUnchanged DEF Parts

LEMMA SequencerQueueParts ==
  ASSUME Parts, SequencerQueue
  PROVE  Parts'
<1>1. UNCHANGED <<inputTypeVars, flagVars, sending, mStf, mSeqStfQueue>>
  BY DEF SequencerQueue, inputTypeVars
<1>2. sequencing # <<>> /\ next # 0
  BY DEF SequencerQueue, SequencerQueueMissing, SequencerQueueMarked, Parts, BuilderType
<1>3. sequencing[1] \in Stfs /\ run \in 1 .. MaxRuns
  BY <1>2, QueueType, StfBuilderAssumption DEF Parts, BuilderType, InputType, RunStarted
<1>4. next \in 1 .. MaxStfId /\ sequencing[1].id \in 1 .. MaxStfId /\ next <= sequencing[1].id
  BY <1>2, <1>3, StfBuilderAssumption DEF Parts, BuilderType, Stfs
<1>5. CASE SequencerQueueMissing
  <2> DEFINE stf == [run |-> run, id |-> next, null |-> TRUE]
  <2>1. stf \in Stfs
    BY <1>3, <1>4 DEF Stfs
  <2>2. /\ QueueStf(stf, run) /\ queuedStfs' = queuedStfs \cup {stf}
        /\ next < sequencing[1].id /\ next' = next + 1
        /\ UNCHANGED <<sequencing, mLastSeqStfId, marked>>
    BY <1>5 DEF SequencerQueueMissing
  <2> HIDE DEF stf
  <2>3. PipelineBounded' /\ mStfSendIn' \in Seq(QueuedStfs) /\ mNumStfs' \in Int
    BY <1>1, <1>3, <2>1, <2>2, QueueStfBounded
  <2>4. OutputType'
    BY <1>1, <2>1, <2>2, <2>3 DEF Parts, OutputType
  <2>5. marked = 0
    BY <1>4, <2>2 DEF Parts, BuilderType
  <2>6. BuilderType'
    BY <1>1, <1>4, <2>2, <2>5, StfBuilderAssumption DEF Parts, BuilderType, flagVars
  <2>7. RunStarted'
    BY <1>1, <1>3 DEF RunStarted, flagVars
  <2> QED BY <1>1, <2>3, <2>4, <2>6, <2>7, PartsUnchanged DEF Parts
<1>6. CASE SequencerQueueMarked
  <2>1. /\ QueueStf(sequencing[1], marked) /\ queuedStfs' = queuedStfs \cup {sequencing[1]}
        /\ marked # 0 /\ sequencing' = <<>> /\ next' = 0 /\ marked' = 0
        /\ UNCHANGED mLastSeqStfId
    BY <1>6 DEF SequencerQueueMarked
  <2>2. marked \in 1 .. MaxRuns
    BY <1>3, <2>1, StfBuilderAssumption DEF Parts, BuilderType
  <2>3. PipelineBounded' /\ mStfSendIn' \in Seq(QueuedStfs) /\ mNumStfs' \in Int
    BY <1>1, <1>3, <2>1, <2>2, QueueStfBounded
  <2>4. OutputType'
    BY <1>1, <1>3, <2>1, <2>3 DEF Parts, OutputType
  <2>5. BuilderType'
    BY <1>1, <1>3, <2>1, OptionalType, StfBuilderAssumption DEF Parts, BuilderType, flagVars
  <2>6. RunStarted'
    BY <1>1, <1>3 DEF RunStarted, flagVars
  <2> QED BY <1>1, <2>3, <2>4, <2>5, <2>6, PartsUnchanged DEF Parts
<1> QED BY <1>5, <1>6 DEF SequencerQueue

LEMMA OutputParts ==
  ASSUME Parts, Output
  PROVE  Parts'
<1>1. UNCHANGED <<inputTypeVars, builderTypeVars, flagVars>> /\ queuedStfs' = queuedStfs
  BY DEF Output, OutputTake, OutputSend, inputTypeVars, builderTypeVars, flagVars
<1>2. Len(mStfSendIn) \in Nat /\ sending \in Nat
  BY LenProperties DEF Parts, OutputType
<1>3. OutputType' /\ PipelineBounded'
  <2>1. CASE OutputTake
    <3>1. /\ Head(mStfSendIn) \in QueuedStfs /\ mStfSendIn' \in Seq(QueuedStfs)
          /\ Len(mStfSendIn') = Len(mStfSendIn) - 1
      BY <2>1, QueueType DEF OutputTake, Parts, OutputType
    <3>3. sending = 0 /\ sending' \in {0, 1} /\ mNumStfs' = mNumStfs
      BY <2>1 DEF OutputTake
    <3>5. OutputType'
      BY <1>1, <3>1, <3>3 DEF Parts, OutputType
    <3>6. mNumStfs >= Len(mStfSendIn) /\ Len(mStfSendIn) < MaxStfsInPipeline /\ mNumStfs \in Int
      BY <1>2, <3>3 DEF Parts, OutputType, PipelineBounded
    <3>7. mNumStfs' >= Len(mStfSendIn') + sending'
      BY <1>2, <3>1, <3>3, <3>6
    <3>8. Len(mStfSendIn') < MaxStfsInPipeline
      BY <1>2, <3>1, <3>6, StfBuilderAssumption
    <3> QED BY <3>5, <3>7, <3>8 DEF PipelineBounded
  <2>2. CASE OutputSend
    <3>1. /\ sending = 1 /\ sending' = 0 /\ mNumStfs' = mNumStfs - 1
          /\ mStfSendIn' = mStfSendIn
      BY <2>2 DEF OutputSend
    <3> QED BY <1>1, <1>2, <3>1 DEF Parts, OutputType, PipelineBounded
  <2> QED BY <2>1, <2>2 DEF Output
<1>4. RunStarted'
  BY <1>1 DEF Parts, RunStarted, flagVars, builderTypeVars, seqVars
<1> QED BY <1>1, <1>3, <1>4, PartsUnchanged DEF Parts

-----------------------------------------------------------------------------
LEMMA NextParts == Parts /\ [Next]_vars => Parts'
<1> SUFFICES ASSUME Parts, [Next]_vars PROVE Parts'
  OBVIOUS
<1>1. CASE RunControl
  BY <1>1, RunControlParts
<1>2. CASE (\E id \in StfIds, last \in BOOLEAN : Receive(id, last)) \/ ReceiverQueue
  BY <1>2, ReceiverParts
<1>3. CASE Builder
  BY <1>3, BuilderParts
<1>4. CASE Sequencer
  BY <1>4, SequencerTakeParts, SequencerDecisionParts, SequencerMarkParts, SequencerQueueParts
     DEF Sequencer
<1>5. CASE Output
  BY <1>5, OutputParts
<1>6. CASE UNCHANGED vars
  <2>1. UNCHANGED <<flagVars, inputTypeVars, builderTypeVars, outputTypeVars, outVars>>
    BY <1>6 DEF vars, inputTypeVars, builderTypeVars, outputTypeVars, flagVars
  <2>2. RunStarted'
    BY <2>1 DEF Parts, RunStarted, flagVars, builderTypeVars, seqVars
  <2> QED BY <2>1, <2>2, PartsUnchanged DEF Parts
<1> QED BY <1>1, <1>2, <1>3, <1>4, <1>5, <1>6 DEF Next

LEMMA PartsInvariant == Spec => []Parts
<1> QED BY InitParts, NextParts, PTL DEF Spec

\* The state of StfBuilder is well formed in every reachable state.
THEOREM StfBuilderTypeCorrect == Spec => []TypeOK
<1>1. Parts => TypeOK
  BY TypeParts DEF Parts
<1> QED BY <1>1, PartsInvariant, PTL

\* The pipeline of StfBuilder keeps its limit: its count never falls below
\* what it holds, and its queue stays shorter than mMaxStfsInPipeline.
THEOREM LimitKept == Spec => []PipelineBounded
<1>1. Parts => PipelineBounded
  BY DEF Parts
<1> QED BY <1>1, PartsInvariant, PTL

-----------------------------------------------------------------------------
(* The order of the STFs of a run.  Data of a run keeps its order on its way *)
(* from the receiver to the sequencer; data of earlier runs may lie between. *)

UpToRun(queue, r) == \A i \in DOMAIN queue : queue[i].run <= r

Ordered(queue, r) ==
  \A i, j \in DOMAIN queue :
    i < j /\ queue[i].run = r /\ queue[j].run = r => queue[i].id <= queue[j].id

Before(left, right, r) ==
  \A i \in DOMAIN left, j \in DOMAIN right :
    left[i].run = r /\ right[j].run = r => left[i].id <= right[j].id

UpTo(queue, r, id) == \A i \in DOMAIN queue : queue[i].run = r => queue[i].id <= id
From(queue, r, id) == \A i \in DOMAIN queue : queue[i].run = r => id <= queue[i].id

\* Nothing is of a later run.
RunsInv ==
  /\ UpToRun(receiving, run) /\ UpToRun(mBuilderInputQueue, run) /\ UpToRun(mStf, run)
  /\ UpToRun(mSeqStfQueue, run) /\ UpToRun(sequencing, run)
  /\ \A stf \in queuedStfs : stf.run <= run

\* What is nearer to the sequencer has the lower ids.
ChainInv ==
  /\ Ordered(mSeqStfQueue, run) /\ Ordered(mBuilderInputQueue, run)
  /\ Before(sequencing, mSeqStfQueue, run) /\ Before(sequencing, mStf, run)
  /\ Before(sequencing, mBuilderInputQueue, run)
  /\ Before(mSeqStfQueue, mStf, run) /\ Before(mSeqStfQueue, mBuilderInputQueue, run)
  /\ Before(mStf, mBuilderInputQueue, run)
  /\ UpTo(sequencing, run, mStfIdReceiving) /\ UpTo(mSeqStfQueue, run, mStfIdReceiving)
  /\ UpTo(mStf, run, mStfIdReceiving) /\ UpTo(mBuilderInputQueue, run, mStfIdReceiving)

\* The mark of the sequencer is behind all of it, unless it comes from an earlier run.
MarkInv ==
  /\ marked = 0 /\ mLastSeqStfId # 0 => \E stf \in queuedStfs : stf.id = mLastSeqStfId
  /\ marked # 0 /\ mLastSeqStfId # 0 => mLastSeqStfId = sequencing[1].id
  /\ ~Leftover =>
       /\ mLastSeqStfId <= mStfIdReceiving
       /\ From(sequencing, run, mLastSeqStfId) /\ From(mSeqStfQueue, run, mLastSeqStfId)
       /\ From(mStf, run, mLastSeqStfId) /\ From(mBuilderInputQueue, run, mLastSeqStfId)

\* An STF with this id may follow one with the other.
Follows(id, other) == id = other + 1 \/ id - (other + 1) >= MaxMissingStfs

\* Neighbours in the pipeline that were queued in one run.
Gaps(queue) ==
  \A i \in DOMAIN queue :
    i + 1 \in DOMAIN queue /\ queue[i].at = queue[i + 1].at
      => Follows(queue[i + 1].stf.id, queue[i].stf.id)

\* The run in which the STF that goes out next is counted.
InRun == IF marked # 0 THEN marked ELSE run

\* What the sequencer will add follows the last one.
GapInv ==
  /\ \A i \in DOMAIN mStfSendIn : mStfSendIn[i].at <= run
  /\ Gaps(mStfSendIn)
  /\ marked = run /\ run # 0 => next = mLastSeqStfId
  /\ mStfSendIn # <<>> /\ mStfSendIn[Len(mStfSendIn)].at = run /\ next = 0 =>
       mStfSendIn[Len(mStfSendIn)].stf.id = mLastSeqStfId
  /\ mStfSendIn # <<>> /\ mStfSendIn[Len(mStfSendIn)].at = InRun /\ next # 0 =>
       Follows(next, mStfSendIn[Len(mStfSendIn)].stf.id)

Chain == RunsInv /\ ChainInv /\ MarkInv

chainVars == <<run, receiving, mBuilderInputQueue, mStf, mSeqStfQueue, sequencing, mStfIdReceiving,
               mLastSeqStfId, marked, queuedStfs>>

LEMMA EmptyOrder ==
  \A r, id, queue : /\ UpToRun(<<>>, r) /\ Ordered(<<>>, r) /\ Before(<<>>, queue, r)
                    /\ Before(queue, <<>>, r) /\ UpTo(<<>>, r, id) /\ From(<<>>, r, id)
BY DEF UpToRun, Ordered, Before, UpTo, From

\* The first element, and what is left.
LEMMA HeadOrder ==
  ASSUME NEW S, NEW queue \in Seq(S), queue # <<>>, NEW r
  PROVE  /\ UpToRun(queue, r) => UpToRun(<<Head(queue)>>, r) /\ UpToRun(Tail(queue), r)
         /\ Ordered(queue, r) => Before(<<Head(queue)>>, Tail(queue), r) /\ Ordered(Tail(queue), r)
         /\ \A left : Before(left, queue, r) =>
              Before(left, <<Head(queue)>>, r) /\ Before(left, Tail(queue), r)
         /\ \A right : Before(queue, right, r) =>
              Before(<<Head(queue)>>, right, r) /\ Before(Tail(queue), right, r)
         /\ \A id : UpTo(queue, r, id) => UpTo(<<Head(queue)>>, r, id) /\ UpTo(Tail(queue), r, id)
         /\ \A id : From(queue, r, id) => From(<<Head(queue)>>, r, id) /\ From(Tail(queue), r, id)
<1> DEFINE h == <<Head(queue)>>
           t == Tail(queue)
<1>1. /\ Len(queue) \in Nat /\ Len(queue) >= 1 /\ Len(t) = Len(queue) - 1
      /\ Head(queue) = queue[1] /\ \A i \in 1 .. Len(t) : t[i] = queue[i + 1]
      /\ t \in Seq(S)
  BY QueueType, HeadTailProperties
<1>2. DOMAIN queue = 1 .. Len(queue) /\ DOMAIN t = 1 .. Len(t)
  BY <1>1
<1>3. 1 \in DOMAIN queue
      /\ \A i \in DOMAIN t : i \in Nat /\ i >= 1 /\ i + 1 \in DOMAIN queue /\ t[i] = queue[i + 1]
  BY <1>1, <1>2
<1>4. \A i \in DOMAIN h : i = 1 /\ h[i] = queue[1]
  BY <1>1
<1> HIDE DEF h, t
<1>5. Ordered(queue, r) => Before(h, t, r) /\ Ordered(t, r)
  <2> SUFFICES ASSUME Ordered(queue, r) PROVE Before(h, t, r) /\ Ordered(t, r)
    OBVIOUS
  <2>1. Before(h, t, r)
    <3>1. ASSUME NEW j \in DOMAIN t, queue[1].run = r, t[j].run = r PROVE queue[1].id <= t[j].id
      <4>1. 1 < j + 1 /\ j + 1 \in DOMAIN queue /\ t[j] = queue[j + 1] /\ 1 \in DOMAIN queue
        BY <1>3
      <4> QED BY <3>1, <4>1 DEF Ordered
    <3> QED BY <1>4, <3>1 DEF Before
  <2>2. ASSUME NEW i \in DOMAIN t, NEW j \in DOMAIN t, i < j, t[i].run = r, t[j].run = r
        PROVE  t[i].id <= t[j].id
    <3>1. i + 1 < j + 1 /\ i + 1 \in DOMAIN queue /\ j + 1 \in DOMAIN queue
          /\ t[i] = queue[i + 1] /\ t[j] = queue[j + 1]
      BY <1>3, <2>2
    <3> QED BY <2>2, <3>1 DEF Ordered
  <2> QED BY <2>1, <2>2 DEF Ordered
<1>6. UpToRun(queue, r) => UpToRun(h, r) /\ UpToRun(t, r)
  BY <1>3, <1>4 DEF UpToRun
<1>7. \A left : Before(left, queue, r) => Before(left, h, r) /\ Before(left, t, r)
  BY <1>3, <1>4 DEF Before
<1>8. \A right : Before(queue, right, r) => Before(h, right, r) /\ Before(t, right, r)
  BY <1>3, <1>4 DEF Before
<1>9. \A id : UpTo(queue, r, id) => UpTo(h, r, id) /\ UpTo(t, r, id)
  BY <1>3, <1>4 DEF UpTo
<1>10. \A id : From(queue, r, id) => From(h, r, id) /\ From(t, r, id)
  BY <1>3, <1>4 DEF From
<1> QED BY <1>5, <1>6, <1>7, <1>8, <1>9, <1>10 DEF h, t

\* The elements of two queues, one behind the other.
LEMMA ConcatElements ==
  ASSUME NEW S, NEW left \in Seq(S), NEW right \in Seq(S)
  PROVE  \A i \in DOMAIN (left \o right) :
           \/ i \in DOMAIN left /\ (left \o right)[i] = left[i]
           \/ /\ i - Len(left) \in DOMAIN right /\ (left \o right)[i] = right[i - Len(left)]
              /\ i > Len(left)
<1>1. /\ left \o right \in Seq(S) /\ Len(left \o right) = Len(left) + Len(right)
      /\ Len(left) \in Nat /\ Len(right) \in Nat
      /\ \A i \in 1 .. (Len(left) + Len(right)) :
           (left \o right)[i] = IF i <= Len(left) THEN left[i] ELSE right[i - Len(left)]
  BY ConcatProperties, LenProperties
<1>2. DOMAIN (left \o right) = 1 .. (Len(left) + Len(right)) /\ DOMAIN left = 1 .. Len(left)
      /\ DOMAIN right = 1 .. Len(right)
  BY <1>1
<1> SUFFICES ASSUME NEW i \in 1 .. (Len(left) + Len(right))
             PROVE  \/ i \in DOMAIN left /\ (left \o right)[i] = left[i]
                    \/ /\ i - Len(left) \in DOMAIN right /\ (left \o right)[i] = right[i - Len(left)]
                       /\ i > Len(left)
  BY <1>2
<1>3. CASE i <= Len(left)
  BY <1>1, <1>2, <1>3
<1>4. CASE ~(i <= Len(left))
  BY <1>1, <1>2, <1>4
<1> QED BY <1>3, <1>4

LEMMA ConcatOrder ==
  ASSUME NEW S, NEW left \in Seq(S), NEW right \in Seq(S), NEW r
  PROVE  /\ UpToRun(left, r) /\ UpToRun(right, r) => UpToRun(left \o right, r)
         /\ Ordered(left, r) /\ Ordered(right, r) /\ Before(left, right, r)
              => Ordered(left \o right, r)
         /\ \A x : Before(x, left, r) /\ Before(x, right, r) => Before(x, left \o right, r)
         /\ \A x : Before(left, x, r) /\ Before(right, x, r) => Before(left \o right, x, r)
         /\ \A id : UpTo(left, r, id) /\ UpTo(right, r, id) => UpTo(left \o right, r, id)
         /\ \A id : From(left, r, id) /\ From(right, r, id) => From(left \o right, r, id)
<1> DEFINE q == left \o right
           n == Len(left)
<1>1. \A i \in DOMAIN q : \/ i \in DOMAIN left /\ q[i] = left[i]
                          \/ i - n \in DOMAIN right /\ q[i] = right[i - n] /\ i > n
  BY ConcatElements
<1>2. n \in Nat /\ DOMAIN left = 1 .. n /\ DOMAIN q \subseteq Int
  <2>1. q \in Seq(S) /\ n \in Nat
    BY ConcatProperties, LenProperties
  <2> QED BY <2>1
<1> HIDE DEF q, n
<1>3. UpToRun(left, r) /\ UpToRun(right, r) => UpToRun(q, r)
  BY <1>1 DEF UpToRun
<1>4. ASSUME Ordered(left, r), Ordered(right, r), Before(left, right, r) PROVE Ordered(q, r)
  <2> SUFFICES ASSUME NEW i \in DOMAIN q, NEW j \in DOMAIN q, i < j, q[i].run = r, q[j].run = r
               PROVE  q[i].id <= q[j].id
    BY DEF Ordered
  <2>1. CASE i \in DOMAIN left /\ q[i] = left[i]
    <3>1. CASE j \in DOMAIN left /\ q[j] = left[j]
      BY <1>4, <2>1, <3>1 DEF Ordered
    <3>2. CASE j - n \in DOMAIN right /\ q[j] = right[j - n] /\ j > n
      BY <1>4, <2>1, <3>2 DEF Before
    <3> QED BY <1>1, <3>1, <3>2
  <2>2. CASE i - n \in DOMAIN right /\ q[i] = right[i - n] /\ i > n
    <3>1. ~(j \in DOMAIN left)
      BY <1>2, <2>2
    <3>2. j - n \in DOMAIN right /\ q[j] = right[j - n] /\ i - n < j - n
      BY <1>1, <1>2, <3>1
    <3> QED BY <1>4, <2>2, <3>2 DEF Ordered
  <2> QED BY <1>1, <2>1, <2>2
<1>5. \A x : Before(x, left, r) /\ Before(x, right, r) => Before(x, q, r)
  BY <1>1 DEF Before
<1>6. \A x : Before(left, x, r) /\ Before(right, x, r) => Before(q, x, r)
  BY <1>1 DEF Before
<1>7. \A id : UpTo(left, r, id) /\ UpTo(right, r, id) => UpTo(q, r, id)
  BY <1>1 DEF UpTo
<1>8. \A id : From(left, r, id) /\ From(right, r, id) => From(q, r, id)
  BY <1>1 DEF From
<1> QED BY <1>3, <1>4, <1>5, <1>6, <1>7, <1>8 DEF q

\* A queue whose elements have the runs and ids of elements of another one.
Like(queue, other) ==
  \A i \in DOMAIN queue : \E j \in DOMAIN other :
    queue[i].run = other[j].run /\ queue[i].id = other[j].id

LEMMA LikeOrder ==
  ASSUME NEW queue, NEW other, Like(queue, other), NEW r
  PROVE  /\ UpToRun(other, r) => UpToRun(queue, r)
         /\ \A x : Before(x, other, r) => Before(x, queue, r)
         /\ \A x : Before(other, x, r) => Before(queue, x, r)
         /\ \A id : UpTo(other, r, id) => UpTo(queue, r, id)
         /\ \A id : From(other, r, id) => From(queue, r, id)
<1>1. UpToRun(other, r) => UpToRun(queue, r)
  BY DEF Like, UpToRun
<1>2. \A x : Before(x, other, r) => Before(x, queue, r)
  BY DEF Like, Before
<1>3. \A x : Before(other, x, r) => Before(queue, x, r)
  BY DEF Like, Before
<1>4. \A id : UpTo(other, r, id) => UpTo(queue, r, id)
  BY DEF Like, UpTo
<1>5. \A id : From(other, r, id) => From(queue, r, id)
  BY DEF Like, From
<1> QED BY <1>1, <1>2, <1>3, <1>4, <1>5

\* A queue of one element is in order.
LEMMA ShortOrder ==
  ASSUME NEW S, NEW queue \in Seq(S), Len(queue) <= 1, NEW r
  PROVE  Ordered(queue, r)
<1>1. DOMAIN queue = 1 .. Len(queue) /\ Len(queue) \in Nat
  OBVIOUS
<1>2. \A i, j \in DOMAIN queue : ~(i < j)
  BY <1>1
<1> QED BY <1>2 DEF Ordered

\* No element is of the run.
LEMMA OtherRun ==
  ASSUME NEW queue, NEW old \in Int, UpToRun(queue, old),
         \A i \in DOMAIN queue : queue[i].run \in Int
  PROVE  /\ UpToRun(queue, old + 1) /\ Ordered(queue, old + 1)
         /\ \A x : Before(queue, x, old + 1) /\ Before(x, queue, old + 1)
         /\ \A id : UpTo(queue, old + 1, id) /\ From(queue, old + 1, id)
<1>1. \A i \in DOMAIN queue : queue[i].run <= old + 1 /\ queue[i].run # old + 1
  BY DEF UpToRun
<1> QED BY <1>1 DEF UpToRun, Ordered, Before, UpTo, From

-----------------------------------------------------------------------------
(* The order, step by step *)

LEMMA ChainSame == Chain /\ UNCHANGED chainVars => Chain'
BY DEF Chain, RunsInv, ChainInv, MarkInv, Leftover, chainVars

\* The runs of what is on the way.
LEMMA ChainRuns ==
  ASSUME Parts
  PROVE  /\ run \in Nat /\ mStfIdReceiving \in Nat /\ mLastSeqStfId \in Nat
         /\ \A m \in Messages : m.run \in Nat /\ m.id \in Nat
         /\ \A s \in Stfs : s.run \in Nat /\ s.id \in Nat /\ s.id # 0
         /\ \A i \in DOMAIN receiving : receiving[i] \in Messages
         /\ \A i \in DOMAIN mBuilderInputQueue : mBuilderInputQueue[i] \in Messages
         /\ \A i \in DOMAIN mStf : mStf[i] \in Stfs
         /\ \A i \in DOMAIN mSeqStfQueue : mSeqStfQueue[i] \in Stfs
         /\ \A i \in DOMAIN sequencing : sequencing[i] \in Stfs
<1>1. run \in Nat /\ mStfIdReceiving \in Nat /\ mLastSeqStfId \in Nat
  BY StfBuilderAssumption DEF Parts, InputType, BuilderType
<1>2. \A m \in Messages : m.run \in Nat /\ m.id \in Nat
  BY StfIdRange DEF Messages
<1>3. \A s \in Stfs : s.run \in Nat /\ s.id \in Nat /\ s.id # 0
  BY DEF Stfs
<1>4. \A i \in DOMAIN receiving : receiving[i] \in Messages
  BY DEF Parts, InputType
<1>5. \A i \in DOMAIN mBuilderInputQueue : mBuilderInputQueue[i] \in Messages
  BY DEF Parts, InputType
<1>6. \A i \in DOMAIN mStf : mStf[i] \in Stfs
  BY DEF Parts, BuilderType
<1>7. \A i \in DOMAIN mSeqStfQueue : mSeqStfQueue[i] \in Stfs
  BY DEF Parts, BuilderType
<1>8. \A i \in DOMAIN sequencing : sequencing[i] \in Stfs
  BY DEF Parts, BuilderType
<1> QED BY <1>1, <1>2, <1>3, <1>4, <1>5, <1>6, <1>7, <1>8

\* Everything on the way is of an earlier run when a run starts.
LEMMA RunControlChain ==
  ASSUME Parts, Chain, RunControl
  PROVE  Chain'
<1>1. UNCHANGED <<receiving, mBuilderInputQueue, mStf, mSeqStfQueue, sequencing>>
  BY DEF RunControl, PreRun, PostRun, inputVars
<1>2. CASE run' = run + 1 /\ mStfIdReceiving' = 0 /\ mLastSeqStfId' = 0 /\ queuedStfs' = {}
  <2>1. run \in Int
    BY ChainRuns
  <2>2. /\ \A i \in DOMAIN receiving : receiving[i].run \in Int
        /\ \A i \in DOMAIN mBuilderInputQueue : mBuilderInputQueue[i].run \in Int
        /\ \A i \in DOMAIN mStf : mStf[i].run \in Int
        /\ \A i \in DOMAIN mSeqStfQueue : mSeqStfQueue[i].run \in Int
        /\ \A i \in DOMAIN sequencing : sequencing[i].run \in Int
    BY ChainRuns
  <2>3. UpToRun(receiving, run + 1)
    BY <2>1, <2>2, OtherRun DEF Chain, RunsInv
  <2>4. /\ UpToRun(mBuilderInputQueue, run + 1) /\ Ordered(mBuilderInputQueue, run + 1)
        /\ \A x : Before(x, mBuilderInputQueue, run + 1)
        /\ \A id : UpTo(mBuilderInputQueue, run + 1, id) /\ From(mBuilderInputQueue, run + 1, id)
    BY <2>1, <2>2, OtherRun DEF Chain, RunsInv
  <2>5. /\ UpToRun(mStf, run + 1) /\ \A x : Before(x, mStf, run + 1)
        /\ \A id : UpTo(mStf, run + 1, id) /\ From(mStf, run + 1, id)
    BY <2>1, <2>2, OtherRun DEF Chain, RunsInv
  <2>6. /\ UpToRun(mSeqStfQueue, run + 1) /\ Ordered(mSeqStfQueue, run + 1)
        /\ \A x : Before(x, mSeqStfQueue, run + 1)
        /\ \A id : UpTo(mSeqStfQueue, run + 1, id) /\ From(mSeqStfQueue, run + 1, id)
    BY <2>1, <2>2, OtherRun DEF Chain, RunsInv
  <2>7. /\ UpToRun(sequencing, run + 1)
        /\ \A id : UpTo(sequencing, run + 1, id) /\ From(sequencing, run + 1, id)
    BY <2>1, <2>2, OtherRun DEF Chain, RunsInv
  <2>8. RunsInv'
    BY <1>1, <1>2, <2>3, <2>4, <2>5, <2>6, <2>7 DEF RunsInv
  <2>9. ChainInv'
    BY <1>1, <1>2, <2>4, <2>5, <2>6, <2>7 DEF ChainInv
  <2>10. MarkInv'
    BY <1>1, <1>2, <2>4, <2>5, <2>6, <2>7 DEF MarkInv
  <2> QED BY <2>8, <2>9, <2>10 DEF Chain
<1>3. CASE UNCHANGED <<run, mStfIdReceiving, mLastSeqStfId, marked, queuedStfs>>
  BY <1>1, <1>3, ChainSame DEF chainVars
<1> QED BY <1>2, <1>3 DEF RunControl, PreRun, PostRun, inputVars

\* A message is of the current run when it is accepted.
LEMMA ReceiveChain ==
  ASSUME Parts, Chain, NEW id, NEW last, Receive(id, last)
  PROVE  Chain'
<1>1. UNCHANGED <<run, mBuilderInputQueue, mStf, mSeqStfQueue, sequencing, mStfIdReceiving,
                  mLastSeqStfId, marked, queuedStfs>>
  BY DEF Receive, flagVars, seqVars
<1>2. receiving' = <<[run |-> run, id |-> id, last |-> last]>>
  BY DEF Receive
<1>3. UpToRun(receiving', run)
  BY <1>2, ChainRuns DEF UpToRun
<1> QED BY <1>1, <1>3 DEF Chain, RunsInv, ChainInv, MarkInv, Leftover

\* The receiver passes on ids that do not decrease.
LEMMA ReceiverQueueChain ==
  ASSUME Parts, Chain, ReceiverQueue
  PROVE  Chain'
<1>1. /\ UNCHANGED <<run, mStf, mSeqStfQueue, sequencing, mLastSeqStfId, marked, queuedStfs>>
      /\ receiving # <<>> /\ receiving' = <<>>
  BY DEF ReceiverQueue, flagVars, seqVars
<1>2. UpToRun(receiving', run)
  BY <1>1, EmptyOrder
<1>3. CASE UNCHANGED <<mStfIdReceiving, mBuilderInputQueue>>
  BY <1>1, <1>2, <1>3 DEF Chain, RunsInv, ChainInv, MarkInv, Leftover
<1>4. CASE /\ receiving[1].id >= mStfIdReceiving
           /\ mStfIdReceiving' = receiving[1].id
           /\ mBuilderInputQueue' = mBuilderInputQueue \o receiving
  <2> DEFINE new == receiving[1].id
             q   == mBuilderInputQueue
  <2>1. /\ receiving \in Seq(Messages) /\ q \in Seq(Messages) /\ Len(receiving) <= 1
        /\ \A i \in DOMAIN receiving : receiving[i].id = new
        /\ new \in Nat /\ mStfIdReceiving \in Nat /\ mStfIdReceiving <= new
    <3>1. receiving \in Seq(Messages) /\ q \in Seq(Messages) /\ Len(receiving) <= 1
      BY DEF Parts, InputType
    <3>2. 1 \in DOMAIN receiving /\ \A i \in DOMAIN receiving : i = 1
      BY <1>1, <3>1
    <3>3. new \in Nat
      BY <3>2, ChainRuns
    <3> QED BY <1>4, <3>1, <3>2, <3>3, ChainRuns
  <2>2. /\ \A i \in DOMAIN q : q[i].id \in Nat
        /\ \A i \in DOMAIN mStf : mStf[i].id \in Nat
        /\ \A i \in DOMAIN mSeqStfQueue : mSeqStfQueue[i].id \in Nat
        /\ \A i \in DOMAIN sequencing : sequencing[i].id \in Nat
    BY ChainRuns
  <2> HIDE DEF new, q
  <2>3. Ordered(receiving, run) /\ UpTo(receiving, run, new)
    BY <2>1, ShortOrder DEF UpTo
  <2>4. UpTo(q, run, new) /\ Before(q, receiving, run)
    BY <2>1, <2>2 DEF Chain, ChainInv, UpTo, Before, q
  <2>5. UpTo(mStf, run, new) /\ Before(mStf, receiving, run)
    BY <2>1, <2>2 DEF Chain, ChainInv, UpTo, Before
  <2>6. UpTo(mSeqStfQueue, run, new) /\ Before(mSeqStfQueue, receiving, run)
    BY <2>1, <2>2 DEF Chain, ChainInv, UpTo, Before
  <2>7. UpTo(sequencing, run, new) /\ Before(sequencing, receiving, run)
    BY <2>1, <2>2 DEF Chain, ChainInv, UpTo, Before
  <2>8. /\ Ordered(q \o receiving, run) /\ UpTo(q \o receiving, run, new)
        /\ UpToRun(q \o receiving, run)
        /\ Before(mStf, q \o receiving, run) /\ Before(mSeqStfQueue, q \o receiving, run)
        /\ Before(sequencing, q \o receiving, run)
    BY <2>1, <2>3, <2>4, <2>5, <2>6, <2>7, ConcatOrder DEF Chain, RunsInv, ChainInv, q
  <2>9. RunsInv' /\ ChainInv'
    BY <1>1, <1>2, <1>4, <2>5, <2>6, <2>7, <2>8 DEF Chain, RunsInv, ChainInv, new, q
  <2>10. ASSUME ~Leftover
         PROVE  mLastSeqStfId <= new /\ From(q \o receiving, run, mLastSeqStfId)
    <3>1. mLastSeqStfId \in Nat /\ mLastSeqStfId <= mStfIdReceiving
      BY <2>10, ChainRuns DEF Chain, MarkInv
    <3>2. mLastSeqStfId <= new
      BY <2>1, <3>1
    <3>3. From(receiving, run, mLastSeqStfId)
      BY <2>1, <3>2 DEF From
    <3> QED BY <2>1, <2>10, <3>2, <3>3, ConcatOrder DEF Chain, MarkInv, q
  <2>11. MarkInv'
    BY <1>1, <1>4, <2>10 DEF Chain, MarkInv, Leftover, new, q
  <2> QED BY <2>9, <2>11 DEF Chain
<1> QED BY <1>3, <1>4, ChainRuns DEF ReceiverQueue

\* What the builder makes of a message: it closes the open STF or keeps it, and what is open
\* then has the run and the id of that or of the message.
LEMMA BuilderShape ==
  ASSUME Parts, NEW content, BuilderTake(content)
  PROVE  \E closed, built \in Seq(Stfs) :
           /\ closed = <<>> \/ closed = mStf
           /\ Len(built) <= 1
           /\ Like(built, <<Head(mBuilderInputQueue)>>) \/ (closed = <<>> /\ Like(built, mStf))
           /\ \/ mStf' = <<>> /\ mSeqStfQueue' = mSeqStfQueue \o closed \o built
              \/ mStf' = built /\ mSeqStfQueue' = mSeqStfQueue \o closed \o <<>>
           /\ mBuilderInputQueue # <<>> /\ mBuilderInputQueue' = Tail(mBuilderInputQueue)
<1> DEFINE message == Head(mBuilderInputQueue)
           closed  == Closed(message, content)
           open    == IF closed # <<>> THEN <<>> ELSE mStf
           built   == WithData(message, open, content)
           finish  == message.last /\ content \notin {"ignored", "unreadable"}
<1>1. /\ mStf' = (IF finish THEN <<>> ELSE built)
      /\ mSeqStfQueue' = mSeqStfQueue \o closed \o (IF finish THEN built ELSE <<>>)
      /\ mBuilderInputQueue # <<>> /\ mBuilderInputQueue' = Tail(mBuilderInputQueue)
  BY DEF BuilderTake
<1>2. message \in Messages
  BY <1>1, QueueType DEF Parts, InputType
<1>3. closed = <<>> \/ closed = mStf
  BY DEF Closed
<1>4. mStf \in Seq(Stfs) /\ Len(mStf) <= 1 /\ <<>> \in Seq(Stfs) /\ Len(<<>>) = 0
  BY OptionalType DEF Parts, BuilderType
<1>5. closed \in Seq(Stfs) /\ open \in Seq(Stfs) /\ Len(open) <= 1
  <2>1. open = <<>> \/ open = mStf
    OBVIOUS
  <2> HIDE DEF open, closed
  <2>2. closed \in Seq(Stfs)
    BY <1>3, <1>4
  <2>3. Len(<<>>) <= 1
    OBVIOUS
  <2>4. open \in Seq(Stfs) /\ Len(open) <= 1
    BY <1>4, <2>1, <2>3, Zenon
  <2> QED BY <2>2, <2>4
<1> DEFINE shape == /\ built \in Seq(Stfs) /\ Len(built) <= 1
                    /\ Like(built, <<message>>) \/ (closed = <<>> /\ Like(built, mStf))
<1>6. ASSUME content \notin {"data", "rejected"} PROVE shape
  <2>1. built = open
    BY <1>6 DEF WithData
  <2>2. Like(built, <<message>>) \/ (closed = <<>> /\ Like(built, mStf))
    <3>1. CASE closed # <<>>
      BY <2>1, <3>1 DEF Like
    <3>2. CASE closed = <<>>
      <4>1. built = mStf
        BY <2>1, <3>2
      <4>2. Like(mStf, mStf)
        BY DEF Like
      <4> QED BY <3>2, <4>1, <4>2
    <3> QED BY <3>1, <3>2
  <2> QED BY <1>5, <2>1, <2>2
<1>7. ASSUME content \in {"data", "rejected"} PROVE shape
  <2> DEFINE stf == [run  |-> IF open = <<>> THEN message.run ELSE open[1].run,
                     id   |-> message.id,
                     null |-> content = "rejected" \/ (open # <<>> /\ open[1].null)]
  <2>1. built = <<stf>>
    BY <1>7 DEF WithData
  <2>2. open # <<>> => open[1] \in Stfs
    BY <1>5, QueueType
  <2>3. stf \in Stfs
    <3>1. stf.run \in 1 .. MaxRuns
      BY <1>2, <2>2 DEF Messages, Stfs
    <3>2. message.id \in 1 .. MaxStfId
      BY <1>2, StfBuilderAssumption DEF Messages
    <3>3. stf.null \in BOOLEAN
      OBVIOUS
    <3> QED BY <3>1, <3>2, <3>3 DEF Stfs
  <2>4. stf.id = message.id /\ stf.run = IF open = <<>> THEN message.run ELSE open[1].run
    OBVIOUS
  <2> HIDE DEF stf
  <2>5. built \in Seq(Stfs) /\ Len(built) = 1 /\ \A i \in DOMAIN built : built[i] = stf
    BY <2>1, <2>3
  <2>6. CASE open = <<>>
    <3>1. Like(<<stf>>, <<message>>)
      BY <2>4, <2>6 DEF Like
    <3> QED BY <2>1, <2>5, <3>1
  <2>7. CASE open # <<>>
    <3>1. closed = <<>> /\ open = mStf /\ mStf # <<>>
      BY <2>7
    <3>2. mStf[1].id = message.id
      BY <1>7, <3>1 DEF Closed
    <3>3. 1 \in DOMAIN mStf
      BY <1>4, <3>1, QueueType
    <3>4. Like(<<stf>>, mStf)
      BY <2>4, <2>7, <3>1, <3>2, <3>3 DEF Like
    <3> QED BY <2>1, <2>5, <3>1, <3>4
  <2> QED BY <2>6, <2>7
<1>8. shape
  BY <1>6, <1>7
<1> HIDE DEF message, closed, built, finish
<1>9. CASE finish
  BY <1>1, <1>3, <1>5, <1>8, <1>9 DEF message
<1>10. CASE ~finish
  BY <1>1, <1>3, <1>5, <1>8, <1>10 DEF message
<1> QED BY <1>9, <1>10

\* The order of what the builder closes and opens.
LEMMA BuiltChain ==
  ASSUME Parts, Chain, NEW input \in Seq(Messages), NEW closed \in Seq(Stfs), NEW done \in Seq(Stfs),
         NEW open \in Seq(Stfs), Len(closed) <= 1, Len(done) <= 1,
         UpToRun(closed, run) /\ UpToRun(done, run) /\ UpToRun(open, run) /\ UpToRun(input, run),
         Before(sequencing, closed, run) /\ Before(sequencing, done, run)
           /\ Before(sequencing, open, run) /\ Before(sequencing, input, run),
         Before(mSeqStfQueue, closed, run) /\ Before(mSeqStfQueue, done, run)
           /\ Before(mSeqStfQueue, open, run) /\ Before(mSeqStfQueue, input, run),
         Before(closed, done, run) /\ Before(closed, open, run) /\ Before(closed, input, run),
         Before(done, open, run) /\ Before(done, input, run) /\ Before(open, input, run),
         Ordered(input, run),
         UpTo(closed, run, mStfIdReceiving) /\ UpTo(done, run, mStfIdReceiving)
           /\ UpTo(open, run, mStfIdReceiving) /\ UpTo(input, run, mStfIdReceiving),
         ~Leftover => From(closed, run, mLastSeqStfId) /\ From(done, run, mLastSeqStfId)
                        /\ From(open, run, mLastSeqStfId) /\ From(input, run, mLastSeqStfId),
         mBuilderInputQueue' = input, mStf' = open, mSeqStfQueue' = mSeqStfQueue \o closed \o done,
         UNCHANGED <<run, receiving, sequencing, mStfIdReceiving, mLastSeqStfId, marked,
                     queuedStfs>>
  PROVE  Chain'
<1> DEFINE p == mSeqStfQueue \o closed
<1>1. mSeqStfQueue \in Seq(Stfs)
  BY DEF Parts, BuilderType
<1>2. p \in Seq(Stfs)
  BY <1>1, ConcatType
<1>3. Ordered(closed, run) /\ Ordered(done, run)
  BY ShortOrder
<1>4. /\ UpToRun(p, run) /\ Ordered(p, run) /\ UpTo(p, run, mStfIdReceiving)
      /\ Before(sequencing, p, run) /\ Before(p, done, run) /\ Before(p, open, run)
      /\ Before(p, input, run)
  BY <1>1, <1>3, ConcatOrder DEF Chain, RunsInv, ChainInv
<1>5. ~Leftover => From(p, run, mLastSeqStfId)
  BY <1>1, ConcatOrder DEF Chain, MarkInv
<1> HIDE DEF p
<1>6. /\ UpToRun(p \o done, run) /\ Ordered(p \o done, run) /\ UpTo(p \o done, run, mStfIdReceiving)
      /\ Before(sequencing, p \o done, run) /\ Before(p \o done, open, run)
      /\ Before(p \o done, input, run)
  BY <1>2, <1>3, <1>4, ConcatOrder
<1>7. ~Leftover => From(p \o done, run, mLastSeqStfId)
  BY <1>2, <1>5, ConcatOrder
<1>8. mSeqStfQueue' = p \o done
  BY DEF p
<1>9. RunsInv' /\ ChainInv'
  BY <1>6, <1>8 DEF Chain, RunsInv, ChainInv
<1>10. MarkInv'
  BY <1>7, <1>8 DEF Chain, MarkInv, Leftover
<1> QED BY <1>9, <1>10 DEF Chain

LEMMA BuilderTakeChain ==
  ASSUME Parts, Chain, NEW content, BuilderTake(content)
  PROVE  Chain'
<1> DEFINE h == <<Head(mBuilderInputQueue)>>
           t == Tail(mBuilderInputQueue)
<1>1. PICK closed, built \in Seq(Stfs) :
           /\ closed = <<>> \/ closed = mStf
           /\ Len(built) <= 1
           /\ Like(built, h) \/ (closed = <<>> /\ Like(built, mStf))
           /\ \/ mStf' = <<>> /\ mSeqStfQueue' = mSeqStfQueue \o closed \o built
              \/ mStf' = built /\ mSeqStfQueue' = mSeqStfQueue \o closed \o <<>>
           /\ mBuilderInputQueue # <<>> /\ mBuilderInputQueue' = t
  BY BuilderShape
<1>2. UNCHANGED <<run, receiving, sequencing, mStfIdReceiving, mLastSeqStfId, marked, queuedStfs>>
  BY DEF BuilderTake, flagVars, inputVars, seqVars
<1>3. mBuilderInputQueue \in Seq(Messages) /\ t \in Seq(Messages)
  BY <1>1, QueueType DEF Parts, InputType
<1>4. Len(mStf) <= 1 /\ Len(<<>>) <= 1 /\ <<>> \in Seq(Stfs)
  BY OptionalType DEF Parts, BuilderType
<1>5. /\ UpToRun(h, run) /\ UpToRun(t, run) /\ Before(h, t, run) /\ Ordered(t, run)
      /\ UpTo(h, run, mStfIdReceiving) /\ UpTo(t, run, mStfIdReceiving)
      /\ Before(sequencing, h, run) /\ Before(sequencing, t, run)
      /\ Before(mSeqStfQueue, h, run) /\ Before(mSeqStfQueue, t, run)
      /\ Before(mStf, h, run) /\ Before(mStf, t, run)
  BY <1>1, <1>3, HeadOrder DEF Chain, RunsInv, ChainInv
<1>6. ~Leftover => From(h, run, mLastSeqStfId) /\ From(t, run, mLastSeqStfId)
  BY <1>1, <1>3, HeadOrder DEF Chain, MarkInv
<1>7. /\ UpToRun(mStf, run) /\ UpTo(mStf, run, mStfIdReceiving)
      /\ Before(sequencing, mStf, run) /\ Before(mSeqStfQueue, mStf, run)
  BY DEF Chain, RunsInv, ChainInv
<1>8. ~Leftover => From(mStf, run, mLastSeqStfId)
  BY DEF Chain, MarkInv
<1> HIDE DEF h, t
<1>9. /\ UpToRun(built, run) /\ UpTo(built, run, mStfIdReceiving)
      /\ Before(sequencing, built, run) /\ Before(mSeqStfQueue, built, run)
      /\ Before(built, t, run) /\ Before(closed, built, run)
      /\ ~Leftover => From(built, run, mLastSeqStfId)
  <2>1. CASE Like(built, h)
    <3>1. Before(closed, h, run)
      BY <1>1, <1>5, EmptyOrder
    <3> QED BY <1>5, <1>6, <2>1, <3>1, LikeOrder
  <2>2. CASE closed = <<>> /\ Like(built, mStf)
    <3>1. Before(closed, built, run)
      BY <2>2, EmptyOrder
    <3> QED BY <1>5, <1>7, <1>8, <2>2, <3>1, LikeOrder
  <2> QED BY <1>1, <2>1, <2>2
<1>10. /\ UpToRun(closed, run) /\ UpTo(closed, run, mStfIdReceiving)
       /\ Before(sequencing, closed, run) /\ Before(mSeqStfQueue, closed, run)
       /\ Before(closed, t, run) /\ Len(closed) <= 1
       /\ ~Leftover => From(closed, run, mLastSeqStfId)
  BY <1>1, <1>4, <1>5, <1>7, <1>8, EmptyOrder
<1>11. /\ UpToRun(<<>>, run) /\ UpTo(<<>>, run, mStfIdReceiving) /\ From(<<>>, run, mLastSeqStfId)
       /\ \A x : Before(x, <<>>, run) /\ Before(<<>>, x, run)
  BY EmptyOrder
<1>12. CASE mStf' = <<>> /\ mSeqStfQueue' = mSeqStfQueue \o closed \o built
  BY <1>1, <1>2, <1>3, <1>4, <1>5, <1>6, <1>9, <1>10, <1>11, <1>12, BuiltChain
<1>13. CASE mStf' = built /\ mSeqStfQueue' = mSeqStfQueue \o closed \o <<>>
  BY <1>1, <1>2, <1>3, <1>4, <1>5, <1>6, <1>9, <1>10, <1>11, <1>13, BuiltChain
<1> QED BY <1>1, <1>12, <1>13

\* The open STF is finished without a message.
LEMMA BuilderTimeoutChain ==
  ASSUME Parts, Chain, BuilderTimeout
  PROVE  Chain'
<1>1. /\ mStf' = <<>> /\ mSeqStfQueue' = mSeqStfQueue \o mStf
      /\ UNCHANGED <<run, receiving, mBuilderInputQueue, sequencing, mStfIdReceiving, mLastSeqStfId,
                     marked, queuedStfs>>
  BY DEF BuilderTimeout, flagVars, inputVars, seqVars
<1>2. mStf \in Seq(Stfs) /\ mSeqStfQueue \in Seq(Stfs) /\ Ordered(mStf, run)
  BY ShortOrder DEF Parts, BuilderType
<1>3. /\ UpToRun(<<>>, run) /\ UpTo(<<>>, run, mStfIdReceiving) /\ From(<<>>, run, mLastSeqStfId)
      /\ \A x : Before(x, <<>>, run) /\ Before(<<>>, x, run)
  BY EmptyOrder
<1> DEFINE p == mSeqStfQueue \o mStf
<1>4. /\ UpToRun(p, run) /\ Ordered(p, run) /\ UpTo(p, run, mStfIdReceiving)
      /\ Before(sequencing, p, run) /\ Before(p, mBuilderInputQueue, run)
  BY <1>2, ConcatOrder DEF Chain, RunsInv, ChainInv
<1>5. ~Leftover => From(p, run, mLastSeqStfId)
  BY <1>2, ConcatOrder DEF Chain, MarkInv
<1>6. mSeqStfQueue' = p
  BY <1>1
<1> HIDE DEF p
<1>7. RunsInv' /\ ChainInv'
  BY <1>1, <1>3, <1>4, <1>6 DEF Chain, RunsInv, ChainInv
<1>8. MarkInv'
  BY <1>1, <1>3, <1>5, <1>6 DEF Chain, MarkInv, Leftover
<1> QED BY <1>7, <1>8 DEF Chain

\* The sequencer takes the first STF, or discards it.
LEMMA SequencerTakeChain ==
  ASSUME Parts, Chain, SequencerTake
  PROVE  Chain'
<1>0. marked = 0
  BY DEF SequencerTake, Parts, BuilderType
<1>1. /\ mSeqStfQueue # <<>> /\ mSeqStfQueue' = Tail(mSeqStfQueue)
      /\ sequencing' = <<Head(mSeqStfQueue)>> \/ sequencing' = <<>>
      /\ UNCHANGED <<run, receiving, mBuilderInputQueue, mStf, mStfIdReceiving, mLastSeqStfId,
                     marked, queuedStfs>>
  BY DEF SequencerTake, flagVars, inputVars
<1>2. mSeqStfQueue \in Seq(Stfs)
  BY DEF Parts, BuilderType
<1> DEFINE h == <<Head(mSeqStfQueue)>>
           t == Tail(mSeqStfQueue)
<1>3. /\ UpToRun(h, run) /\ UpToRun(t, run) /\ Before(h, t, run) /\ Ordered(t, run)
      /\ UpTo(h, run, mStfIdReceiving) /\ UpTo(t, run, mStfIdReceiving)
      /\ Before(h, mStf, run) /\ Before(t, mStf, run)
      /\ Before(h, mBuilderInputQueue, run) /\ Before(t, mBuilderInputQueue, run)
  BY <1>1, <1>2, HeadOrder DEF Chain, RunsInv, ChainInv
<1>4. ~Leftover => From(h, run, mLastSeqStfId) /\ From(t, run, mLastSeqStfId)
  BY <1>1, <1>2, HeadOrder DEF Chain, MarkInv
<1>5. /\ UpToRun(<<>>, run) /\ UpTo(<<>>, run, mStfIdReceiving) /\ From(<<>>, run, mLastSeqStfId)
      /\ \A x : Before(x, <<>>, run) /\ Before(<<>>, x, run)
  BY EmptyOrder
<1>6. (sequencing' = h \/ sequencing' = <<>>) /\ mSeqStfQueue' = t
  BY <1>1
<1> HIDE DEF h, t
<1>7. RunsInv' /\ ChainInv'
  BY <1>1, <1>3, <1>5, <1>6 DEF Chain, RunsInv, ChainInv
<1>8. MarkInv'
  BY <1>0, <1>1, <1>4, <1>5, <1>6 DEF Chain, MarkInv, Leftover
<1> QED BY <1>7, <1>8 DEF Chain

LEMMA SequencerDecisionChain ==
  ASSUME Parts, Chain, SequencerReject \/ SequencerAccept
  PROVE  Chain'
<1>0. marked = 0
  BY DEF SequencerReject, SequencerAccept, Parts, BuilderType
<1>1. UNCHANGED <<run, receiving, mBuilderInputQueue, mStf, mSeqStfQueue, mStfIdReceiving,
                  mLastSeqStfId, marked, queuedStfs>>
  BY DEF SequencerReject, SequencerAccept, flagVars, inputVars
<1>2. CASE SequencerReject
  BY <1>0, <1>1, <1>2, EmptyOrder DEF SequencerReject, Chain, RunsInv, ChainInv, MarkInv, Leftover
<1>3. CASE SequencerAccept
  BY <1>1, <1>3, ChainSame DEF SequencerAccept, chainVars
<1> QED BY <1>2, <1>3

\* The mark moves up to the STF that is queued next, and everything behind it is higher.
LEMMA SequencerMarkChain ==
  ASSUME Parts, Chain, SequencerMark
  PROVE  Chain'
<1> DEFINE s == sequencing[1]
<1>1. /\ sequencing # <<>> /\ s \in Stfs /\ 1 \in DOMAIN sequencing /\ run \in Nat
      /\ UNCHANGED <<run, receiving, mBuilderInputQueue, mStf, mSeqStfQueue, mStfIdReceiving>>
      /\ UNCHANGED <<sequencing, queuedStfs>>
      /\ mLastSeqStfId' = s.id /\ marked' = run
  BY QueueType, ChainRuns DEF SequencerMark, flagVars, inputVars, Parts, BuilderType
<1>2. RunsInv' /\ ChainInv'
  BY <1>1 DEF Chain, RunsInv, ChainInv
<1>3. run # 0
  BY <1>1 DEF Parts, RunStarted
<1>4. s.run <= run /\ s.run \in Nat /\ s.id \in Nat
  BY <1>1, ChainRuns DEF Chain, RunsInv, UpToRun
<1>5. \A i \in DOMAIN sequencing : i = 1
  BY DEF Parts, BuilderType
<1>6. ASSUME ~Leftover'
      PROVE  /\ s.id <= mStfIdReceiving /\ From(mSeqStfQueue, run, s.id)
             /\ From(mStf, run, s.id) /\ From(mBuilderInputQueue, run, s.id)
             /\ From(sequencing, run, s.id)
  <2>1. s.run = run
    BY <1>1, <1>3, <1>4, <1>6 DEF Leftover
  <2>2. From(sequencing, run, s.id)
    BY <1>4, <1>5 DEF From
  <2> QED BY <1>1, <2>1, <2>2 DEF Chain, ChainInv, UpTo, Before, From
<1>7. MarkInv'
  BY <1>1, <1>3, <1>6 DEF MarkInv
<1> QED BY <1>2, <1>7 DEF Chain

\* What was counted is queued.
LEMMA SequencerQueueChain ==
  ASSUME Parts, Chain, SequencerQueue
  PROVE  Chain'
<1> DEFINE s == sequencing[1]
<1>1. /\ s \in Stfs /\ 1 \in DOMAIN sequencing /\ run \in Nat
      /\ UNCHANGED <<run, receiving, mBuilderInputQueue, mStf, mSeqStfQueue, mStfIdReceiving>>
      /\ UNCHANGED mLastSeqStfId
  <2>1. sequencing # <<>>
    BY DEF SequencerQueue, SequencerQueueMissing, SequencerQueueMarked, Parts, BuilderType
  <2> QED BY <2>1, QueueType, ChainRuns
          DEF SequencerQueue, SequencerQueueMissing, SequencerQueueMarked, flagVars, inputVars,
              Parts, BuilderType
<1>2. CASE SequencerQueueMissing
  <2> DEFINE new == [run |-> run, id |-> next, null |-> TRUE]
  <2>1. queuedStfs' = queuedStfs \cup {new} /\ UNCHANGED <<sequencing, marked>>
    BY <1>2 DEF SequencerQueueMissing
  <2>2. new.run = run
    OBVIOUS
  <2> HIDE DEF new
  <2>3. ~(new.run < run) /\ new.run <= run
    BY <1>1, <2>2
  <2>4. Leftover' <=> Leftover
    BY <1>1, <2>1, <2>3 DEF Leftover
  <2>5. RunsInv' /\ ChainInv'
    BY <1>1, <2>1, <2>3 DEF Chain, RunsInv, ChainInv
  <2>6. MarkInv'
    BY <1>1, <2>1, <2>4 DEF Chain, MarkInv
  <2> QED BY <2>5, <2>6 DEF Chain
<1>3. CASE SequencerQueueMarked
  <2>1. /\ queuedStfs' = queuedStfs \cup {s} /\ sequencing' = <<>>
        /\ marked # 0 /\ marked' = 0
    BY <1>3 DEF SequencerQueueMarked
  <2>2. s.run <= run /\ s.run \in Nat
    BY <1>1, ChainRuns DEF Chain, RunsInv, UpToRun
  <2>3. RunsInv' /\ ChainInv'
    BY <1>1, <2>1, <2>2, EmptyOrder DEF Chain, RunsInv, ChainInv
  <2>4. ~Leftover' => ~Leftover
    BY <1>1, <2>1 DEF Leftover
  <2>5. mLastSeqStfId # 0 => \E stf \in queuedStfs' : stf.id = mLastSeqStfId
    BY <2>1 DEF Chain, MarkInv
  <2>6. MarkInv'
    <3>1. From(<<>>, run, mLastSeqStfId)
      BY EmptyOrder
    <3> QED BY <1>1, <2>1, <2>4, <2>5, <3>1 DEF Chain, MarkInv
  <2> QED BY <2>3, <2>6 DEF Chain
<1> QED BY <1>2, <1>3 DEF SequencerQueue

-----------------------------------------------------------------------------
(* The gaps *)

LEMMA TailGaps ==
  ASSUME NEW S, NEW queue \in Seq(S), queue # <<>>, Gaps(queue)
  PROVE  /\ Gaps(Tail(queue))
         /\ Tail(queue) # <<>> => Tail(queue)[Len(Tail(queue))] = queue[Len(queue)]
         /\ \A i \in DOMAIN Tail(queue) : i + 1 \in DOMAIN queue /\ Tail(queue)[i] = queue[i + 1]
<1> DEFINE t == Tail(queue)
           n == Len(queue)
<1>1. /\ n \in Nat /\ n >= 1 /\ Len(t) = n - 1 /\ t \in Seq(S)
      /\ \A i \in 1 .. Len(t) : t[i] = queue[i + 1]
  BY QueueType, HeadTailProperties
<1>2. DOMAIN queue = 1 .. n /\ DOMAIN t = 1 .. (n - 1)
  BY <1>1
<1>3. t # <<>> => n - 1 # 0
  BY <1>1, EmptySeq
<1> HIDE DEF t, n
<1>4. \A i \in 1 .. (n - 1) : i + 1 \in 1 .. n /\ t[i] = queue[i + 1]
  BY <1>1
<1>5. Gaps(t)
  <2> SUFFICES ASSUME NEW i \in 1 .. (n - 1), i + 1 \in 1 .. (n - 1), t[i].at = t[i + 1].at
               PROVE  Follows(t[i + 1].stf.id, t[i].stf.id)
    BY <1>2 DEF Gaps
  <2>1. t[i] = queue[i + 1] /\ t[i + 1] = queue[(i + 1) + 1]
    BY <1>4
  <2>2. i + 1 \in DOMAIN queue /\ (i + 1) + 1 \in DOMAIN queue
    BY <1>1, <1>2
  <2> QED BY <2>1, <2>2 DEF Gaps
<1>6. t # <<>> => t[n - 1] = queue[n]
  <2> SUFFICES ASSUME t # <<>> PROVE t[n - 1] = queue[n]
    OBVIOUS
  <2>1. n - 1 \in 1 .. (n - 1) /\ (n - 1) + 1 = n
    BY <1>1, <1>3
  <2> QED BY <1>4, <2>1
<1> QED BY <1>1, <1>2, <1>4, <1>5, <1>6 DEF t, n

LEMMA AppendGaps ==
  ASSUME NEW S, NEW queue \in Seq(S), NEW x \in S, Gaps(queue),
         queue # <<>> /\ queue[Len(queue)].at = x.at => Follows(x.stf.id, queue[Len(queue)].stf.id)
  PROVE  /\ Gaps(Append(queue, x)) /\ Append(queue, x) # <<>>
         /\ Append(queue, x)[Len(Append(queue, x))] = x
         /\ \A i \in DOMAIN Append(queue, x) :
              (i \in DOMAIN queue /\ Append(queue, x)[i] = queue[i]) \/ Append(queue, x)[i] = x
<1> DEFINE a == Append(queue, x)
           n == Len(queue)
<1>1. /\ n \in Nat /\ Len(a) = n + 1 /\ a \in Seq(S) /\ a[n + 1] = x
      /\ \A i \in 1 .. n : a[i] = queue[i]
  BY AppendProperties, LenProperties
<1>2. DOMAIN queue = 1 .. n /\ DOMAIN a = 1 .. (n + 1)
  BY <1>1
<1>3. n # 0 => queue # <<>>
  BY OptionalType
<1>4. a # <<>>
  BY <1>1, OptionalType
<1> HIDE DEF a, n
<1>5. Gaps(a)
  <2> SUFFICES ASSUME NEW i \in 1 .. (n + 1), i + 1 \in 1 .. (n + 1), a[i].at = a[i + 1].at
               PROVE  Follows(a[i + 1].stf.id, a[i].stf.id)
    BY <1>2 DEF Gaps
  <2>1. i \in 1 .. n /\ a[i] = queue[i]
    BY <1>1
  <2>2. CASE i + 1 \in 1 .. n
    <3>1. a[i + 1] = queue[i + 1]
      BY <1>1, <2>2
    <3> QED BY <1>2, <2>1, <2>2, <3>1 DEF Gaps
  <2>3. CASE i = n
    BY <1>1, <1>3, <2>1, <2>3 DEF n
  <2> QED BY <1>1, <2>1, <2>2, <2>3
<1>6. \A i \in 1 .. (n + 1) : (i \in 1 .. n /\ a[i] = queue[i]) \/ a[i] = x
  BY <1>1
<1> QED BY <1>1, <1>2, <1>4, <1>5, <1>6 DEF a

\* The types in the pipeline.
LEMMA PipelineRuns ==
  ASSUME Parts
  PROVE  /\ mStfSendIn \in Seq(QueuedStfs) /\ run \in Nat
         /\ \A i \in DOMAIN mStfSendIn : mStfSendIn[i].at \in Nat
         /\ mStfSendIn # <<>> => Len(mStfSendIn) \in DOMAIN mStfSendIn
<1>1. mStfSendIn \in Seq(QueuedStfs) /\ run \in Nat
  BY ChainRuns DEF Parts, OutputType
<1>2. \A i \in DOMAIN mStfSendIn : mStfSendIn[i].at \in Nat
  <2>1. \A i \in DOMAIN mStfSendIn : mStfSendIn[i] \in QueuedStfs
    BY <1>1
  <2>2. \A item \in QueuedStfs : item.at \in Nat
    BY DEF QueuedStfs
  <2> QED BY <2>1, <2>2
<1>3. mStfSendIn # <<>> => Len(mStfSendIn) \in DOMAIN mStfSendIn
  <2> SUFFICES ASSUME mStfSendIn # <<>> PROVE Len(mStfSendIn) \in DOMAIN mStfSendIn
    OBVIOUS
  <2>1. Len(mStfSendIn) \in Nat /\ Len(mStfSendIn) >= 1
    BY <1>1, QueueType
  <2> QED BY <1>1, <2>1
<1> QED BY <1>1, <1>2, <1>3

LEMMA GapSame == GapInv /\ UNCHANGED <<run, mStfSendIn, next, mLastSeqStfId, marked>> => GapInv'
BY DEF GapInv, InRun

\* What was queued in an earlier run is no neighbour of what this run queues.
LEMMA RunControlGap ==
  ASSUME Parts, GapInv, RunControl
  PROVE  GapInv'
<1>1. CASE UNCHANGED <<run, mLastSeqStfId>>
  BY <1>1, GapSame DEF RunControl, outVars
<1>2. CASE run' = run + 1
  <2>1. UNCHANGED <<mStfSendIn, next, marked>>
    BY DEF RunControl, outVars
  <2>2. \A i \in DOMAIN mStfSendIn : mStfSendIn[i].at <= run + 1 /\ mStfSendIn[i].at # run + 1
    BY PipelineRuns DEF GapInv
  <2>3. mStfSendIn # <<>> => mStfSendIn[Len(mStfSendIn)].at # run + 1
    BY <2>2, PipelineRuns
  <2>4. marked # run + 1
    BY PipelineRuns DEF Parts, BuilderType
  <2>5. CASE marked # 0
    BY <1>2, <2>1, <2>2, <2>3, <2>4, <2>5 DEF GapInv, InRun
  <2>6. CASE marked = 0
    BY <1>2, <2>1, <2>2, <2>3, <2>4, <2>6 DEF GapInv, InRun
  <2> QED BY <2>5, <2>6
<1> QED BY <1>1, <1>2 DEF RunControl, PreRun, PostRun

\* The sequencer decides: a small gap is filled from the mark on.
LEMMA SequencerDecisionGap ==
  ASSUME Parts, GapInv, SequencerReject \/ SequencerAccept
  PROVE  GapInv'
<1>1. CASE SequencerReject
  BY <1>1, GapSame DEF SequencerReject, flagVars, outVars
<1>2. CASE SequencerAccept
  <2> DEFINE s == sequencing[1]
             l == mLastSeqStfId
  <2>1. /\ sequencing # <<>> /\ next = 0 /\ UNCHANGED <<run, mStfSendIn, mLastSeqStfId, marked>>
        /\ marked = 0
        /\ next' = (IF s.id - (l + 1) < MaxMissingStfs THEN l + 1 ELSE s.id)
    BY <1>2 DEF SequencerAccept, flagVars, outVars, Parts, BuilderType
  <2>2. s \in Stfs /\ s.id \in Nat /\ s.id # 0 /\ l \in Nat
    BY <2>1, QueueType, ChainRuns DEF Parts, BuilderType
  <2> HIDE DEF s, l
  <2>3. next' # 0 /\ Follows(next', l)
    BY <2>1, <2>2, StfBuilderAssumption DEF Follows
  <2> QED BY <2>1, <2>3 DEF GapInv, InRun, l
<1> QED BY <1>1, <1>2

\* The mark is set to the STF that goes out next.
LEMMA SequencerMarkGap ==
  ASSUME Parts, GapInv, SequencerMark
  PROVE  GapInv'
<1>1. /\ marked = 0 /\ marked' = run /\ mLastSeqStfId' = next
      /\ UNCHANGED <<run, mStfSendIn, next>>
  BY DEF SequencerMark, flagVars, outVars
<1>2. next # 0
  <2>1. sequencing[1] \in Stfs /\ next = sequencing[1].id
    BY QueueType DEF SequencerMark, Parts, BuilderType
  <2> QED BY <2>1 DEF Stfs
<1> QED BY <1>1, <1>2 DEF GapInv, InRun

\* The sequencer queues the next STF, for which the oldest one may make room.
LEMMA SequencerQueueGap ==
  ASSUME Parts, GapInv, SequencerQueue
  PROVE  GapInv'
<1> DEFINE s    == sequencing[1]
           stf  == IF SequencerQueueMissing THEN [run |-> run, id |-> next, null |-> TRUE] ELSE s
           item == [stf |-> stf, at |-> InRun]
           rest == IF LimitReached /\ mStfSendIn # <<>> THEN Tail(mStfSendIn) ELSE mStfSendIn
           q    == mStfSendIn
<1>1. sequencing # <<>> /\ next # 0 /\ run' = run /\ UNCHANGED mLastSeqStfId
  BY DEF SequencerQueue, SequencerQueueMissing, SequencerQueueMarked, flagVars, Parts, BuilderType
<1>2. s \in Stfs /\ s.id \in Nat /\ next \in Nat /\ next <= s.id /\ run \in 1 .. MaxRuns
  BY <1>1, QueueType, ChainRuns, StfBuilderAssumption
     DEF Parts, BuilderType, InputType, RunStarted
<1>3. marked \in 0 .. run /\ (marked # 0 => next = s.id) /\ next \in 0 .. MaxStfId
  BY DEF Parts, BuilderType
<1>4. SequencerQueueMissing => marked = 0
  BY <1>2, <1>3 DEF SequencerQueueMissing
<1>11. ~SequencerQueueMissing => SequencerQueueMarked /\ marked # 0
  BY DEF SequencerQueue, SequencerQueueMarked
<1>12. InRun \in 1 .. MaxRuns /\ InRun <= run
  BY <1>2, <1>3, StfBuilderAssumption DEF InRun
<1>13. stf.id = next /\ stf \in Stfs
  BY <1>1, <1>2, <1>3, <1>11, StfBuilderAssumption DEF Stfs
<1>14. mStfSendIn' = Append(rest, item)
  <2>1. CASE SequencerQueueMissing
    <3>1. InRun = run
      BY <1>4, <2>1 DEF InRun
    <3> QED BY <2>1, <3>1 DEF SequencerQueueMissing, QueueStf
  <2>2. CASE ~SequencerQueueMissing
    <3>1. InRun = marked
      BY <1>11, <2>2 DEF InRun
    <3> QED BY <1>11, <2>2, <3>1 DEF SequencerQueueMarked, QueueStf
  <2> QED BY <2>1, <2>2
<1>15. item \in QueuedStfs /\ item.at = InRun /\ item.stf.id = next
  BY <1>12, <1>13 DEF QueuedStfs
<1> HIDE DEF item
<1>5. /\ rest \in Seq(QueuedStfs) /\ Gaps(rest)
      /\ rest # <<>> => q # <<>> /\ rest[Len(rest)] = q[Len(q)]
      /\ \A i \in DOMAIN rest : rest[i].at <= run
  <2>1. CASE LimitReached /\ mStfSendIn # <<>>
    BY <2>1, PipelineRuns, QueueType, TailGaps DEF GapInv
  <2>2. CASE ~(LimitReached /\ mStfSendIn # <<>>)
    BY <2>2, PipelineRuns DEF GapInv
  <2> QED BY <2>1, <2>2
<1> HIDE DEF rest
<1>6. rest # <<>> /\ rest[Len(rest)].at = item.at => Follows(item.stf.id, rest[Len(rest)].stf.id)
  BY <1>1, <1>15, <1>5 DEF GapInv
<1>7. /\ Gaps(mStfSendIn') /\ mStfSendIn' # <<>>
      /\ mStfSendIn'[Len(mStfSendIn')] = item
      /\ \A i \in DOMAIN mStfSendIn' :
           (i \in DOMAIN rest /\ mStfSendIn'[i] = rest[i]) \/ mStfSendIn'[i] = item
  BY <1>14, <1>15, <1>5, <1>6, AppendGaps
<1>8. \A i \in DOMAIN mStfSendIn' : mStfSendIn'[i].at <= run
  BY <1>12, <1>15, <1>5, <1>7
<1>9. CASE SequencerQueueMissing
  <2>1. next' = next + 1 /\ next' # 0 /\ marked' = 0
    BY <1>2, <1>4, <1>9 DEF SequencerQueueMissing
  <2>2. Follows(next', item.stf.id)
    BY <1>15, <2>1 DEF Follows
  <2>3. marked' # run
    BY <1>2, <2>1
  <2> QED BY <1>1, <1>7, <1>8, <2>1, <2>2, <2>3 DEF GapInv
<1>10. CASE ~SequencerQueueMissing
  <2>1. next' = 0 /\ marked' = 0 /\ marked # 0
    BY <1>11, <1>10 DEF SequencerQueueMarked
  <2>2. item.at = marked
    BY <1>15, <2>1 DEF InRun
  <2>3. item.at = run => mLastSeqStfId = item.stf.id
    BY <1>2, <1>15, <2>2 DEF GapInv
  <2>4. marked' # run
    BY <1>2, <2>1
  <2> QED BY <1>1, <1>7, <1>8, <2>1, <2>3, <2>4 DEF GapInv
<1> QED BY <1>9, <1>10

LEMMA OutputGap ==
  ASSUME Parts, GapInv, Output
  PROVE  GapInv'
<1>1. UNCHANGED <<run, next, mLastSeqStfId, marked>>
  BY DEF Output, OutputTake, OutputSend, flagVars, seqVars
<1>2. CASE UNCHANGED mStfSendIn
  BY <1>1, <1>2, GapSame
<1>3. CASE mStfSendIn # <<>> /\ mStfSendIn' = Tail(mStfSendIn)
  <2>1. mStfSendIn \in Seq(QueuedStfs)
    BY PipelineRuns
  <2>2. /\ Gaps(Tail(mStfSendIn))
        /\ Tail(mStfSendIn) # <<>> =>
             Tail(mStfSendIn)[Len(Tail(mStfSendIn))] = mStfSendIn[Len(mStfSendIn)]
        /\ \A i \in DOMAIN Tail(mStfSendIn) :
             i + 1 \in DOMAIN mStfSendIn /\ Tail(mStfSendIn)[i] = mStfSendIn[i + 1]
    BY <1>3, <2>1, TailGaps DEF GapInv
  <2> DEFINE t == Tail(mStfSendIn)
  <2> HIDE DEF t
  <2>3. mStfSendIn' = t
    BY <1>3 DEF t
  <2> QED BY <1>1, <1>3, <2>2, <2>3 DEF GapInv, InRun, t
<1> QED BY <1>2, <1>3 DEF Output, OutputTake, OutputSend

-----------------------------------------------------------------------------
OrderInv == Chain /\ GapInv

LEMMA InitOrder == Init => OrderInv
<1> SUFFICES ASSUME Init PROVE OrderInv
  OBVIOUS
<1>1. Chain
  BY EmptyOrder DEF Init, Chain, RunsInv, ChainInv, MarkInv
<1>2. GapInv
  BY DEF Init, GapInv, Gaps
<1> QED BY <1>1, <1>2 DEF OrderInv

LEMMA NextOrder == Parts /\ OrderInv /\ [Next]_vars => OrderInv'
<1> SUFFICES ASSUME Parts, Chain, GapInv, [Next]_vars PROVE Chain' /\ GapInv'
  BY DEF OrderInv
<1>1. CASE RunControl
  BY <1>1, RunControlChain, RunControlGap
<1>2. CASE (\E id \in StfIds, last \in BOOLEAN : Receive(id, last)) \/ ReceiverQueue
  <2>1. Chain'
    BY <1>2, ReceiveChain, ReceiverQueueChain
  <2>2. UNCHANGED <<run, mStfSendIn, next, mLastSeqStfId, marked>>
    BY <1>2 DEF Receive, ReceiverQueue, flagVars, seqVars, outVars
  <2> QED BY <2>1, <2>2, GapSame
<1>3. CASE Builder
  <2>1. Chain'
    BY <1>3, BuilderTakeChain, BuilderTimeoutChain DEF Builder
  <2>2. UNCHANGED <<run, mStfSendIn, next, mLastSeqStfId, marked>>
    BY <1>3 DEF Builder, BuilderTake, BuilderTimeout, flagVars, seqVars, outVars
  <2> QED BY <2>1, <2>2, GapSame
<1>4. CASE SequencerTake
  <2>1. UNCHANGED <<run, mStfSendIn, next, mLastSeqStfId, marked>>
    BY <1>4 DEF SequencerTake, flagVars, outVars
  <2> QED BY <1>4, <2>1, SequencerTakeChain, GapSame
<1>5. CASE SequencerReject \/ SequencerAccept
  BY <1>5, SequencerDecisionChain, SequencerDecisionGap
<1>6. CASE SequencerMark \/ SequencerQueue
  BY <1>6, SequencerMarkChain, SequencerMarkGap, SequencerQueueChain, SequencerQueueGap
<1>7. CASE Output
  <2>1. UNCHANGED chainVars
    BY <1>7 DEF Output, OutputTake, OutputSend, chainVars, flagVars, inputVars, seqVars
  <2> QED BY <1>7, <2>1, ChainSame, OutputGap
<1>8. CASE UNCHANGED vars
  <2>1. UNCHANGED chainVars /\ UNCHANGED <<run, mStfSendIn, next, mLastSeqStfId, marked>>
    BY <1>8 DEF vars, chainVars, flagVars, inputVars, seqVars, outVars
  <2> QED BY <2>1, ChainSame, GapSame
<1> QED BY <1>1, <1>2, <1>3, <1>4, <1>5, <1>6, <1>7, <1>8 DEF Next, Sequencer

LEMMA OrderInvariant == Spec => [](Parts /\ OrderInv)
<1>1. Init => Parts /\ OrderInv
  BY InitParts, InitOrder
<1>2. Parts /\ OrderInv /\ [Next]_vars => (Parts /\ OrderInv)'
  BY NextParts, NextOrder
<1> QED BY <1>1, <1>2, PTL DEF Spec

\* An STF that still is on its way to the sequencer is not below the mark.
LEMMA NothingBelowTheMark ==
  ASSUME Parts, OrderInv, ~Leftover,
         NEW other \in Elements(mBuilderInputQueue \o mStf \o mSeqStfQueue), other.run = run
  PROVE  mLastSeqStfId <= other.id
<1> DEFINE p == mBuilderInputQueue \o mStf
           S == Messages \cup Stfs
<1>1. mBuilderInputQueue \in Seq(S) /\ mStf \in Seq(S) /\ mSeqStfQueue \in Seq(S)
  <2>1. mBuilderInputQueue \in Seq(Messages) /\ mStf \in Seq(Stfs) /\ mSeqStfQueue \in Seq(Stfs)
    BY DEF Parts, InputType, BuilderType
  <2> QED BY <2>1
<1>2. p \in Seq(S) /\ p \o mSeqStfQueue \in Seq(S)
  <2>1. p \in Seq(S)
    BY <1>1, ConcatType
  <2> HIDE DEF p, S
  <2> QED BY <1>1, <2>1, ConcatType
<1>3. /\ From(mBuilderInputQueue, run, mLastSeqStfId) /\ From(mStf, run, mLastSeqStfId)
      /\ From(mSeqStfQueue, run, mLastSeqStfId)
  BY DEF OrderInv, Chain, MarkInv
<1>4. From(p, run, mLastSeqStfId)
  BY <1>1, <1>3, ConcatOrder
<1> HIDE DEF p
<1>5. From(p \o mSeqStfQueue, run, mLastSeqStfId)
  BY <1>1, <1>2, <1>3, <1>4, ConcatOrder
<1>6. other \in Elements(p \o mSeqStfQueue)
  BY DEF p
<1> QED BY <1>5, <1>6 DEF Elements, From

\* Two neighbours in the pipeline that were counted in one run have consecutive ids, unless as
\* many are missing
\* as to be not filled; and an empty STF never takes the place of one whose data is still on
\* its way, whatever runs start and stop under the threads.
THEOREM GapsOnly == Spec => []OnlyGapsAreFilled
<1>1. Parts /\ OrderInv => OnlyGapsAreFilled
  <2> SUFFICES ASSUME Parts, OrderInv PROVE OnlyGapsAreFilled
    OBVIOUS
  <2>1. ASSUME NEW i \in 1 .. Len(mStfSendIn) - 1, mStfSendIn[i].at = mStfSendIn[i + 1].at
        PROVE  \/ mStfSendIn[i + 1].stf.id = mStfSendIn[i].stf.id + 1
               \/ mStfSendIn[i + 1].stf.id - (mStfSendIn[i].stf.id + 1) >= MaxMissingStfs
    <3>1. mStfSendIn \in Seq(QueuedStfs)
      BY PipelineRuns
    <3>2. Len(mStfSendIn) \in Nat /\ DOMAIN mStfSendIn = 1 .. Len(mStfSendIn)
      BY <3>1
    <3>3. i \in DOMAIN mStfSendIn /\ i + 1 \in DOMAIN mStfSendIn
      BY <3>2
    <3> QED BY <2>1, <3>3 DEF OrderInv, GapInv, Gaps, Follows
  <2>2. ASSUME NEW stf \in queuedStfs, stf.id < mLastSeqStfId, ~Leftover,
               NEW other \in Elements(mBuilderInputQueue \o mStf \o mSeqStfQueue), other.run = run
        PROVE  other.id # stf.id
    <3>1. mLastSeqStfId <= other.id
      BY <2>2, NothingBelowTheMark
    <3>2. stf.id \in Nat /\ mLastSeqStfId \in Nat
      BY ChainRuns DEF Parts, OutputType
    <3> QED BY <2>2, <3>1, <3>2
  <2> QED BY <2>1, <2>2 DEF OnlyGapsAreFilled
<1> QED BY <1>1, OrderInvariant, PTL

\* The sequencer rejects an STF of the current run only when its id already went out in this
\* run, or something left over from an earlier run went out first.
THEOREM RejectsRepeated == Spec => RejectedWentOutOrLeftover
<1>1. Parts /\ OrderInv =>
        (SequencerReject =>
           \/ \E stf \in queuedStfs : stf.id = sequencing[1].id
           \/ Leftover
           \/ sequencing[1].run < run)
  <2> SUFFICES ASSUME Parts, OrderInv, SequencerReject, ~Leftover, ~(sequencing[1].run < run)
               PROVE  \E stf \in queuedStfs : stf.id = sequencing[1].id
    OBVIOUS
  <2>1. /\ sequencing # <<>> /\ sequencing[1].id <= mLastSeqStfId
        /\ sequencing \in Seq(Stfs) /\ sequencing[1] \in Stfs /\ 1 \in DOMAIN sequencing
    BY QueueType DEF SequencerReject, Parts, BuilderType
  <2>2. sequencing[1].run \in Nat /\ run \in Nat /\ sequencing[1].run <= run
    BY <2>1, ChainRuns DEF OrderInv, Chain, RunsInv, UpToRun
  <2>3. sequencing[1].run = run
    BY <2>2
  <2>4. mLastSeqStfId <= sequencing[1].id
    BY <2>1, <2>3 DEF OrderInv, Chain, MarkInv, From
  <2>5. sequencing[1].id \in Nat /\ sequencing[1].id # 0 /\ mLastSeqStfId \in Nat
    BY <2>1, ChainRuns
  <2>6. sequencing[1].id = mLastSeqStfId
    BY <2>1, <2>4, <2>5
  <2>7. marked = 0
    BY DEF SequencerReject, Parts, BuilderType
  <2> QED BY <2>5, <2>6, <2>7 DEF OrderInv, Chain, MarkInv
<1> QED BY <1>1, OrderInvariant, PTL DEF RejectedWentOutOrLeftover
=============================================================================

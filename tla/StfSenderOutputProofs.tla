----------------------- MODULE StfSenderOutputProofs -----------------------
(***************************************************************************)
(* Proofs about StfSenderOutput.  No STF is in two places, which makes the *)
(* counters add up, and what the scheduler has taken stays in the map.     *)
(***************************************************************************)
EXTENDS StfSenderOutput, FiniteSetTheorems, SequenceTheorems, TLAPS

\* Sequences of at most one element stand for an optional value.
LEMMA OptionalType ==
  ASSUME NEW S
  PROVE  /\ <<>> \in Seq(S) /\ Len(<<>>) = 0
         /\ \A x \in S : <<x>> \in Seq(S) /\ Len(<<x>>) = 1 /\ <<x>>[1] = x
OBVIOUS

LEMMA OptionalValue ==
  ASSUME NEW S, NEW q \in Seq(S), q # <<>>
  PROVE  q[1] \in S /\ Len(q) \in Nat /\ Len(q) >= 1
BY EmptySeq

-----------------------------------------------------------------------------
(* Types.                                                                  *)

NumberType ==
  /\ run \in 0 .. MaxRuns
  /\ lastStf \in [run : Nat, id : Nat]
  /\ mBuffered \in Int /\ mInSending \in Int /\ mMissing \in Int
  /\ mLastStfId \in Nat
  /\ carried \in [buffered : Int, sending : Int]

QueueType ==
  /\ mPipelineI \in Seq(Stfs)
  /\ announcing \in Seq(Announcements) /\ Len(announcing) <= 1
  /\ handedOff \in Seq(Stfs) /\ Len(handedOff) <= 1

SetType ==
  /\ mScheduledStfMap \subseteq Stfs /\ mDropQueue \subseteq Stfs
  /\ mSendRequestQueue \subseteq SendRequests /\ sending \subseteq SendRequests
  /\ mOutputMap \subseteq TfBuilders
  /\ requests \subseteq DataRequests
  /\ taken \subseteq Stfs /\ decided \subseteq Stfs /\ answered \subseteq Stfs
  /\ unconfirmed \subseteq Stfs /\ lost \subseteq Stfs /\ counted \subseteq Stfs

FlagType == mAcceptingData \in BOOLEAN

LEMMA TypeParts ==
  /\ TypeOK <=> FlagType /\ NumberType /\ QueueType /\ SetType
  /\ TypeOK' <=> FlagType' /\ NumberType' /\ QueueType' /\ SetType'
BY DEF TypeOK, FlagType, NumberType, QueueType, SetType

queueVars  == <<mPipelineI, announcing, handedOff>>

LEMMA QueuesUnchanged == QueueType /\ UNCHANGED queueVars => QueueType'
BY DEF QueueType, queueVars

LEMMA StfType == \A s \in Stfs : s.run \in Nat /\ s.id \in Nat /\ s.id >= 1
BY StfSenderAssumption DEF StfSenderAssumption

LEMMA InitType == Init => TypeOK
<1> SUFFICES ASSUME Init PROVE FlagType /\ NumberType /\ QueueType /\ SetType
  BY TypeParts
<1>0. FlagType
  BY Zenon DEF Init, FlagType
<1>1. NumberType
  BY StfSenderAssumption DEF Init, NumberType, StfSenderAssumption
<1>2. QueueType
  BY OptionalType DEF Init, QueueType
<1>3. SetType
  BY DEF Init, SetType
<1> QED
  BY <1>0, <1>1, <1>2, <1>3

\* The scheduler thread takes an STF from the pipeline.
LEMMA CountStfType ==
  ASSUME TypeOK, NEW stf \in Stfs, CountStf(stf)
  PROVE  /\ NumberType' /\ counted' \subseteq Stfs
         /\ mPipelineI' \in Seq(Stfs) /\ UNCHANGED handedOff
<1>1. NumberType'
  BY StfType DEF TypeOK, CountStf, NumberType, runVars
<1>2. mPipelineI' \in Seq(Stfs) /\ UNCHANGED handedOff
  BY HeadTailProperties DEF TypeOK, CountStf
<1> QED
  BY <1>1, <1>2 DEF TypeOK, CountStf

LEMMA FlagStep == FlagType /\ [Next]_vars => FlagType'
<1> SUFFICES ASSUME FlagType, [Next]_vars PROVE FlagType'
  OBVIOUS
<1>1. CASE PreRun \/ PostRun
  BY <1>1, Zenon DEF PreRun, PostRun, FlagType
<1>2. CASE Next /\ ~PreRun /\ ~PostRun
  <2>1. UNCHANGED mAcceptingData
    BY <1>2 DEF Next, StfSenderThreads, SchedulerSteps, StfReceiverThread, DropUnscheduled,
       Schedule, CountStf, Announced, sendStfToTfBuilder, CountSending, StfDropThread,
       TakeSendRequest, FinishSending, connectTfBuilder, disconnectTfBuilder,
       SchedulerAnswers, AnnouncementFails, SchedulerDecides, SchedulerForgets, LoseRequest,
       SchedulerVars, runVars
  <2> QED
    BY <2>1, Zenon DEF FlagType
<1>3. CASE UNCHANGED vars
  BY <1>3, Zenon DEF vars, runVars, FlagType
<1> QED
  BY <1>1, <1>2, <1>3

LEMMA NextType == TypeOK /\ [Next]_vars => TypeOK'
<1> SUFFICES ASSUME TypeOK, [Next]_vars PROVE TypeOK'
  OBVIOUS
<1>0. FlagType /\ NumberType /\ QueueType /\ SetType
  BY TypeParts
<1>a. FlagType'
  BY <1>0, FlagStep
<1> USE <1>0, <1>a DEF runVars, schedVars, sendVars, envVars, SchedulerVars
<1>1. CASE PreRun \/ PostRun
  <2>1. NumberType' /\ UNCHANGED queueVars /\ SetType'
    BY <1>1, StfSenderAssumption
    DEF PreRun, PostRun, resetCounters, NumberType, SetType, queueVars, StfSenderAssumption
  <2> QED
    BY <2>1, QueuesUnchanged, TypeParts
<1>2. ASSUME NEW stf \in Stfs, StfReceiverThread(stf) PROVE TypeOK'
  <2>1. NumberType' /\ SetType'
    BY <1>2, StfType, StfSenderAssumption
    DEF StfReceiverThread, NumberType, SetType, StfSenderAssumption
  <2>2. QueueType'
    BY <1>2, AppendProperties DEF StfReceiverThread, QueueType
  <2> QED
    BY <2>1, <2>2, TypeParts
<1>3. CASE DropUnscheduled
  <2>1. PICK stf \in Stfs : CountStf(stf) /\ mDropQueue' = mDropQueue \union {stf}
    BY <1>3 DEF DropUnscheduled
  <2>2. QueueType'
    BY <1>3, <2>1, CountStfType DEF DropUnscheduled, QueueType
  <2>3. SetType'
    BY <1>3, <2>1, CountStfType DEF DropUnscheduled, CountStf, SetType
  <2> QED
    BY <2>1, <2>2, <2>3, CountStfType, TypeParts
<1>4. CASE Schedule
  <2>1. PICK stf \in Stfs : /\ CountStf(stf) /\ announcing' = <<[stf |-> stf, status |-> "sent"]>>
                            /\ mScheduledStfMap' = mScheduledStfMap \union {stf}
    BY <1>4 DEF Schedule
  <2>2. [stf |-> stf, status |-> "sent"] \in Announcements
    BY DEF Announcements
  <2>3. QueueType'
    BY <2>1, <2>2, OptionalType, CountStfType DEF QueueType
  <2>4. SetType'
    BY <1>4, <2>1, CountStfType DEF Schedule, CountStf, SetType
  <2> QED
    BY <2>1, <2>3, <2>4, CountStfType, TypeParts
<1>5. CASE Announced
  <2>1. NumberType' /\ SetType'
    BY <1>5 DEF Announced, Entry, NumberType, SetType
  <2>2. QueueType'
    BY <1>5, OptionalType DEF Announced, QueueType
  <2> QED
    BY <2>1, <2>2, TypeParts
<1>6. CASE sendStfToTfBuilder
  <2>1. PICK request \in requests :
          /\ requests' = requests \ {request}
          /\ RequestUnknown(request) \/ RequestDrop(request) \/ RequestSend(request)
    BY <1>6 DEF sendStfToTfBuilder
  <2>2. /\ mScheduledStfMap' \subseteq Stfs /\ mDropQueue' \subseteq Stfs
        /\ mSendRequestQueue' \subseteq SendRequests
        /\ handedOff' \in Seq(Stfs) /\ Len(handedOff') <= 1
    <3>1. CASE RequestUnknown(request)
      BY <3>1 DEF RequestUnknown, SetType, QueueType
    <3>2. CASE RequestDrop(request)
      BY <3>2 DEF RequestDrop, Entry, SetType, QueueType
    <3>3. CASE RequestSend(request)
      <4>1. PICK stf \in mScheduledStfMap :
              /\ mScheduledStfMap' = mScheduledStfMap \ {stf}
              /\ mSendRequestQueue' = mSendRequestQueue \union {[stf |-> stf, to |-> request.to]}
              /\ handedOff' = <<stf>>
        BY <3>3 DEF RequestSend, Entry
      <4>2. [stf |-> stf, to |-> request.to] \in SendRequests
        BY <3>3 DEF RequestSend, SetType, SendRequests, DataRequests
      <4> QED
        BY <3>3, <4>1, <4>2, OptionalType DEF RequestSend, SetType
    <3> QED
      BY <2>1, <3>1, <3>2, <3>3
  <2>3. answered' \subseteq Stfs
    <3>1. PICK handled \in requests : answered' = answered \union {handled.stf}
      BY <1>6 DEF sendStfToTfBuilder
    <3>2. handled.stf \in Stfs
      BY DEF SetType, DataRequests
    <3> QED
      BY <3>1, <3>2 DEF SetType
  <2>4. NumberType'
    BY <1>6 DEF sendStfToTfBuilder, NumberType
  <2>5. SetType'
    BY <1>6, <2>1, <2>2, <2>3 DEF sendStfToTfBuilder, SetType
  <2>6. QueueType'
    BY <1>6, <2>2 DEF sendStfToTfBuilder, QueueType
  <2> QED
    BY <2>4, <2>5, <2>6, TypeParts
<1>7. CASE CountSending
  <2>1. NumberType' /\ SetType'
    BY <1>7 DEF CountSending, NumberType, SetType
  <2>2. QueueType'
    BY <1>7, OptionalType DEF CountSending, QueueType
  <2> QED
    BY <2>1, <2>2, TypeParts
<1>8. CASE StfDropThread \/ TakeSendRequest \/ FinishSending
  <2>1. NumberType' /\ UNCHANGED queueVars
    BY <1>8 DEF StfDropThread, TakeSendRequest, FinishSending, NumberType, queueVars
  <2>2. SetType'
    BY <1>8 DEF StfDropThread, TakeSendRequest, FinishSending, SetType, SendRequests
  <2> QED
    BY <2>1, <2>2, QueuesUnchanged, TypeParts
<1>9. ASSUME NEW tfb \in TfBuilders, connectTfBuilder(tfb) \/ disconnectTfBuilder(tfb)
      PROVE  TypeOK'
  <2>1. NumberType' /\ UNCHANGED queueVars /\ SetType'
    BY <1>9 DEF connectTfBuilder, disconnectTfBuilder, NumberType, SetType, queueVars
  <2> QED
    BY <2>1, QueuesUnchanged, TypeParts
<1>10. CASE SchedulerAnswers \/ AnnouncementFails
  <2>1. announcing[1] \in Announcements
    BY <1>10, OptionalValue DEF SchedulerAnswers, AnnouncementFails, QueueType
  <2>2. \A status \in {"ok", "refused", "failed"} :
          [stf |-> announcing[1].stf, status |-> status] \in Announcements
    BY <2>1 DEF Announcements
  <2>3. NumberType' /\ SetType'
    BY <1>10, <2>1 DEF SchedulerAnswers, AnnouncementFails, NumberType, SetType, Announcements
  <2>4. QueueType'
    BY <1>10, <2>2, OptionalType DEF SchedulerAnswers, AnnouncementFails, QueueType
  <2> QED
    BY <2>3, <2>4, TypeParts
<1>11. ASSUME NEW stf \in Stfs,
              \/ \E to \in TfBuilders \union {Drop} : SchedulerDecides(stf, to)
              \/ SchedulerForgets(stf)
       PROVE  TypeOK'
  <2>1. NumberType' /\ UNCHANGED queueVars /\ SetType'
    BY <1>11 DEF SchedulerDecides, SchedulerForgets, NumberType, SetType, queueVars, DataRequests
  <2> QED
    BY <2>1, QueuesUnchanged, TypeParts
<1>12. ASSUME NEW request \in requests, LoseRequest(request) PROVE TypeOK'
  <2>1. NumberType' /\ UNCHANGED queueVars /\ SetType'
    BY <1>12 DEF LoseRequest, NumberType, SetType, queueVars, DataRequests
  <2> QED
    BY <2>1, QueuesUnchanged, TypeParts
<1>13. CASE UNCHANGED vars
  <2>1. NumberType' /\ UNCHANGED queueVars /\ SetType'
    BY <1>13 DEF vars, NumberType, SetType, queueVars
  <2> QED
    BY <2>1, QueuesUnchanged, TypeParts
<1> QED
  BY <1>1, <1>2, <1>3, <1>4, <1>5, <1>6, <1>7, <1>8, <1>9, <1>10, <1>11, <1>12, <1>13
  DEF Next, StfSenderThreads, SchedulerSteps

\* Every variable keeps its type, with any STFs and TfBuilders in any number of runs.
THEOREM SenderTypeCorrect == Spec => []TypeOK
  BY InitType, NextType, PTL DEF Spec

-----------------------------------------------------------------------------
(* Order: what comes from the pipeline was never seen before.              *)

AnnouncedStfs == {announcing[i].stf : i \in 1 .. Len(announcing)}

\* The STFs that were counted and are known still, and those the scheduler has taken.
Seen == Held \union lost \union AnnouncedStfs \union taken

InOrder ==
  /\ \A s \in Seen : ~After(s, lastStf)
  /\ \A i \in 1 .. Len(mPipelineI) : ~After(mPipelineI[i], lastStf) /\ mPipelineI[i] \notin Seen
  /\ \A i, j \in 1 .. Len(mPipelineI) : i # j => mPipelineI[i] # mPipelineI[j]

LEMMA InitOrder == Init => InOrder
  BY DEF Init, InOrder, Seen, Held, BeingSent, AnnouncedStfs

LEMMA SeenAreStfs == TypeOK => Seen \subseteq Stfs
<1> SUFFICES ASSUME TypeOK PROVE Seen \subseteq Stfs
  OBVIOUS
<1>1. QueueType /\ SetType
  BY TypeParts
<1>2. AnnouncedStfs \subseteq Stfs
  <2>1. \A i \in 1 .. Len(announcing) : announcing[i] \in Announcements
    BY <1>1, ElementOfSeq DEF QueueType
  <2> QED
    BY <2>1 DEF AnnouncedStfs, Announcements
<1>3. BeingSent \subseteq Stfs
  BY <1>1 DEF BeingSent, SetType, SendRequests
<1> QED
  BY <1>1, <1>2, <1>3 DEF Seen, Held, SetType

\* An STF that is received comes after all that were seen or wait in the pipeline.
LEMMA ReceiveInOrder ==
  ASSUME TypeOK, InOrder, NEW stf \in Stfs, StfReceiverThread(stf)
  PROVE  InOrder'
<1>1. /\ Seen' = Seen /\ lastStf' = stf /\ After(stf, lastStf)
      /\ mPipelineI' = Append(mPipelineI, stf)
  BY DEF StfReceiverThread, Seen, Held, BeingSent, AnnouncedStfs, sendVars, envVars
<1>2. lastStf.run \in Nat /\ lastStf.id \in Nat /\ mPipelineI \in Seq(Stfs)
  BY DEF TypeOK
<1>3. \A s \in Stfs : ~After(s, lastStf) => ~After(s, stf) /\ s # stf
  BY <1>1, <1>2, StfType DEF After
<1>4. /\ Len(mPipelineI') = Len(mPipelineI) + 1 /\ Len(mPipelineI) \in Nat
      /\ \A i \in 1 .. Len(mPipelineI) : mPipelineI'[i] = mPipelineI[i] /\ mPipelineI[i] \in Stfs
      /\ mPipelineI'[Len(mPipelineI) + 1] = stf
  BY <1>1, <1>2, AppendProperties
<1>5. ~After(stf, stf) /\ stf \notin Seen
  BY <1>1, StfType DEF After, InOrder
<1>6. \A s \in Seen' : ~After(s, lastStf')
  BY <1>1, <1>3, SeenAreStfs DEF InOrder
<1>7. \A i \in 1 .. Len(mPipelineI') :
        ~After(mPipelineI'[i], lastStf') /\ mPipelineI'[i] \notin Seen'
  BY <1>1, <1>3, <1>4, <1>5 DEF InOrder
<1>8. \A i, j \in 1 .. Len(mPipelineI') : i # j => mPipelineI'[i] # mPipelineI'[j]
  BY <1>1, <1>3, <1>4, <1>5 DEF InOrder
<1> QED
  BY <1>6, <1>7, <1>8 DEF InOrder

\* The oldest STF of the pipeline becomes a seen one.
LEMMA CountInOrder ==
  ASSUME TypeOK, InOrder, NEW stf \in Stfs, CountStf(stf), Seen' \subseteq Seen \union {stf}
  PROVE  InOrder' /\ stf \notin Seen
<1>1. /\ mPipelineI \in Seq(Stfs) /\ mPipelineI # <<>> /\ stf = Head(mPipelineI)
      /\ mPipelineI' = Tail(mPipelineI) /\ lastStf' = lastStf
  BY DEF TypeOK, CountStf, runVars
<1>2. /\ Len(mPipelineI) \in Nat /\ Len(mPipelineI) >= 1 /\ stf = mPipelineI[1]
      /\ Len(mPipelineI') = Len(mPipelineI) - 1
      /\ \A i \in 1 .. Len(mPipelineI') : mPipelineI'[i] = mPipelineI[i + 1]
  BY <1>1, HeadTailProperties, EmptySeq
<1>3. \A s \in Seen' : ~After(s, lastStf')
  BY <1>1, <1>2 DEF InOrder
<1>4. \A i \in 1 .. Len(mPipelineI') :
        ~After(mPipelineI'[i], lastStf') /\ mPipelineI'[i] \notin Seen'
  BY <1>1, <1>2 DEF InOrder
<1>5. \A i, j \in 1 .. Len(mPipelineI') : i # j => mPipelineI'[i] # mPipelineI'[j]
  BY <1>2 DEF InOrder
<1>6. stf \notin Seen
  BY <1>2 DEF InOrder
<1> QED
  BY <1>3, <1>4, <1>5, <1>6 DEF InOrder

\* The steps that neither receive an STF nor count one.
OtherStep ==
  \/ PreRun \/ PostRun
  \/ Announced \/ sendStfToTfBuilder \/ CountSending \/ StfDropThread
  \/ TakeSendRequest \/ FinishSending
  \/ \E tfb \in TfBuilders : connectTfBuilder(tfb) \/ disconnectTfBuilder(tfb)
  \/ SchedulerSteps
  \/ UNCHANGED vars

LEMMA StepKinds ==
  [Next]_vars => \/ \E stf \in Stfs : StfReceiverThread(stf)
                 \/ DropUnscheduled \/ Schedule \/ OtherStep
BY DEF Next, StfSenderThreads, OtherStep

\* They move STFs, or delete them.
LEMMA OthersSeeNothingNew ==
  ASSUME TypeOK, OtherStep
  PROVE  Seen' \subseteq Seen /\ UNCHANGED <<lastStf, mPipelineI>>
<1> USE DEF runVars, schedVars, sendVars, envVars, SchedulerVars
<1>1. CASE \/ PreRun \/ PostRun \/ CountSending \/ UNCHANGED vars
           \/ \E tfb \in TfBuilders : connectTfBuilder(tfb) \/ disconnectTfBuilder(tfb)
  BY <1>1 DEF PreRun, PostRun, resetCounters, CountSending, connectTfBuilder,
     disconnectTfBuilder, vars, Seen, Held, BeingSent, AnnouncedStfs
<1>2. CASE Announced
  <2>1. AnnouncedStfs' = {}
    BY <1>2, OptionalType DEF Announced, AnnouncedStfs
  <2>2. Held' \subseteq Held
    BY <1>2 DEF Announced, Entry, Held, BeingSent
  <2> QED
    BY <1>2, <2>1, <2>2 DEF Announced, Seen
<1>3. CASE sendStfToTfBuilder
  <2>1. Held' \subseteq Held
    BY <1>3 DEF sendStfToTfBuilder, RequestUnknown, RequestDrop, RequestSend, Entry, Held,
       BeingSent
  <2> QED
    BY <1>3, <2>1 DEF sendStfToTfBuilder, Seen, AnnouncedStfs
<1>4. CASE StfDropThread \/ FinishSending
  BY <1>4 DEF StfDropThread, FinishSending, Seen, Held, BeingSent, AnnouncedStfs
<1>5. CASE TakeSendRequest
  BY <1>5 DEF TakeSendRequest, Seen, Held, BeingSent, AnnouncedStfs
<1>6. CASE SchedulerSteps
  <2>1. Held' = Held /\ UNCHANGED <<lost, lastStf, mPipelineI>>
    BY <1>6 DEF SchedulerSteps, SchedulerAnswers, AnnouncementFails, SchedulerDecides,
       SchedulerForgets, LoseRequest, Held, BeingSent
  <2>2. AnnouncedStfs' = AnnouncedStfs /\ taken' \subseteq taken \union AnnouncedStfs
    <3>1. CASE SchedulerAnswers \/ AnnouncementFails
      <4>1. announcing \in Seq(Announcements) /\ Len(announcing) = 1 /\ Len(announcing') = 1
        BY <3>1, OptionalValue, OptionalType DEF SchedulerAnswers, AnnouncementFails, TypeOK
      <4>2. announcing'[1].stf = announcing[1].stf
        BY <3>1 DEF SchedulerAnswers, AnnouncementFails
      <4>3. taken' \subseteq taken \union {announcing[1].stf}
        BY <3>1 DEF SchedulerAnswers, AnnouncementFails
      <4> QED
        BY <4>1, <4>2, <4>3 DEF AnnouncedStfs
    <3>2. CASE UNCHANGED <<announcing, taken>>
      BY <3>2 DEF AnnouncedStfs
    <3> QED
      BY <1>6, <3>1, <3>2 DEF SchedulerSteps, SchedulerDecides, SchedulerForgets, LoseRequest
  <2> QED
    BY <2>1, <2>2 DEF Seen
<1> QED
  BY <1>1, <1>2, <1>3, <1>4, <1>5, <1>6 DEF OtherStep

\* The scheduler thread adds to what was seen the STF it counts.
LEMMA CountedIsSeen ==
  ASSUME NEW stf \in Stfs, CountStf(stf),
         \/ DropUnscheduled /\ mDropQueue' = mDropQueue \union {stf}
         \/ Schedule /\ mScheduledStfMap' = mScheduledStfMap \union {stf}
                     /\ announcing' = <<[stf |-> stf, status |-> "sent"]>>
  PROVE  Seen' \subseteq Seen \union {stf}
<1>1. UNCHANGED <<mSendRequestQueue, sending, lost, taken>> /\ BeingSent' = BeingSent
  BY DEF CountStf, sendVars, envVars, BeingSent
<1>2. CASE DropUnscheduled /\ mDropQueue' = mDropQueue \union {stf}
  BY <1>1, <1>2 DEF DropUnscheduled, Seen, Held, AnnouncedStfs
<1>3. CASE Schedule /\ mScheduledStfMap' = mScheduledStfMap \union {stf}
                    /\ announcing' = <<[stf |-> stf, status |-> "sent"]>>
  <2>1. AnnouncedStfs' = {stf}
    BY <1>3 DEF AnnouncedStfs
  <2> QED
    BY <1>1, <1>3, <2>1 DEF Schedule, Seen, Held
<1> QED
  BY <1>2, <1>3

LEMMA NextOrder == TypeOK /\ InOrder /\ [Next]_vars => InOrder'
<1> SUFFICES ASSUME TypeOK, InOrder, [Next]_vars PROVE InOrder'
  OBVIOUS
<1>1. ASSUME NEW stf \in Stfs, StfReceiverThread(stf) PROVE InOrder'
  BY <1>1, ReceiveInOrder
<1>2. CASE DropUnscheduled
  <2>1. PICK stf \in Stfs : CountStf(stf) /\ mDropQueue' = mDropQueue \union {stf}
    BY <1>2 DEF DropUnscheduled
  <2> QED
    BY <1>2, <2>1, CountedIsSeen, CountInOrder
<1>3. CASE Schedule
  <2>1. PICK stf \in Stfs : /\ CountStf(stf) /\ announcing' = <<[stf |-> stf, status |-> "sent"]>>
                            /\ mScheduledStfMap' = mScheduledStfMap \union {stf}
    BY <1>3 DEF Schedule
  <2> QED
    BY <1>3, <2>1, CountedIsSeen, CountInOrder
<1>4. CASE OtherStep
  BY <1>4, OthersSeeNothingNew DEF InOrder
<1> QED
  BY <1>1, <1>2, <1>3, <1>4, StepKinds

-----------------------------------------------------------------------------
(* Accounting: every STF is in one place, and the counters follow it.      *)

Places ==
  /\ mScheduledStfMap \intersect mDropQueue = {}
  /\ BeingSent \intersect (mScheduledStfMap \union mDropQueue) = {}
  /\ Held \intersect lost = {}
  /\ mSendRequestQueue \intersect sending = {}
  /\ \A r1, r2 \in mSendRequestQueue \union sending : r1.stf = r2.stf => r1 = r2

Accounted == BufferAccounted /\ SendingCounted

placeVars == <<mScheduledStfMap, mDropQueue, mSendRequestQueue, sending, lost>>

LEMMA InitAccount == Init => Places /\ Accounted
<1> SUFFICES ASSUME Init PROVE Places /\ Accounted
  OBVIOUS
<1>1. Held = {} /\ BeingSent = {} /\ lost = {}
  BY DEF Init, Held, BeingSent
<1>2. Places
  BY <1>1 DEF Init, Places
<1>3. Accounted
  BY <1>1, FS_EmptySet DEF Init, Accounted, BufferAccounted, SendingCounted
<1> QED
  BY <1>2, <1>3

LEMMA SetsAreFinite ==
  ASSUME TypeOK
  PROVE  /\ IsFiniteSet(Held) /\ IsFiniteSet(BeingSent) /\ IsFiniteSet(lost)
         /\ Cardinality(Held) \in Nat /\ Cardinality(BeingSent) \in Nat
         /\ Cardinality(lost) \in Nat
<1>1. SetType
  BY TypeParts
<1>2. BeingSent \subseteq Stfs
  BY <1>1 DEF BeingSent, SetType, SendRequests
<1>3. Held \subseteq Stfs /\ lost \subseteq Stfs
  BY <1>1, <1>2 DEF Held, SetType
<1> QED
  BY <1>2, <1>3, StfSenderAssumption, FS_Subset, FS_CardinalityType DEF StfSenderAssumption

LEMMA CountersAreIntegers ==
  ASSUME TypeOK
  PROVE  /\ mBuffered \in Int /\ mInSending \in Int /\ Len(handedOff) \in Nat
         /\ carried.buffered \in Int /\ carried.sending \in Int
<1>1. NumberType /\ QueueType
  BY TypeParts
<1> QED
  BY <1>1 DEF NumberType, QueueType

\* Adding and removing one STF.
LEMMA CountOne ==
  ASSUME NEW S, IsFiniteSet(S), NEW x
  PROVE  /\ Cardinality(S) \in Nat
         /\ x \notin S => IsFiniteSet(S \union {x}) /\ Cardinality(S \union {x}) = Cardinality(S) + 1
         /\ x \in S => Cardinality(S \ {x}) = Cardinality(S) - 1
<1>1. Cardinality(S) \in Nat
  BY FS_CardinalityType
<1>2. x \notin S => IsFiniteSet(S \union {x}) /\ Cardinality(S \union {x}) = Cardinality(S) + 1
  BY FS_AddElement
<1>3. x \in S => Cardinality(S \ {x}) = Cardinality(S) - 1
  BY FS_RemoveElement
<1> QED
  BY <1>1, <1>2, <1>3

NumbersUnchanged == UNCHANGED <<mBuffered, mInSending, carried, handedOff>>

\* A request that leaves the queues of the output takes its STF along.
LEMMA OneOfSending ==
  ASSUME Places, NEW r \in mSendRequestQueue \union sending,
         mSendRequestQueue' \union sending' = (mSendRequestQueue \union sending) \ {r}
  PROVE  BeingSent' = BeingSent \ {r.stf} /\ r.stf \in BeingSent
<1> DEFINE all == mSendRequestQueue \union sending
<1>1. BeingSent = {q.stf : q \in all} /\ BeingSent' = {q.stf : q \in all \ {r}}
  BY DEF BeingSent
<1>2. \A q \in all : q.stf = r.stf => q = r
  BY DEF Places
<1> HIDE DEF all
<1>3. r \in all
  BY DEF all
<1> QED
  BY <1>1, <1>2, <1>3

\* The scheduler thread counts an STF.
LEMMA AccountCounted ==
  ASSUME TypeOK, Places, Accounted, NEW stf \in Stfs, stf \notin Seen, CountStf(stf),
         \/ mScheduledStfMap' = mScheduledStfMap \union {stf} /\ mDropQueue' = mDropQueue
         \/ mScheduledStfMap' = mScheduledStfMap /\ mDropQueue' = mDropQueue \union {stf}
  PROVE  Places' /\ Accounted'
<1>1. /\ UNCHANGED <<mSendRequestQueue, sending, lost, mInSending, carried, handedOff>>
      /\ mBuffered' = mBuffered + 1
      /\ BeingSent' = BeingSent
  BY DEF CountStf, sendVars, runVars, BeingSent
<1>2. Held' = Held \union {stf} /\ stf \notin Held /\ stf \notin lost
  BY <1>1 DEF Held, Seen
<1>3. Places'
  BY <1>1, <1>2 DEF Places, Held
<1>4. Cardinality(Held') = Cardinality(Held) + 1
  BY <1>2, SetsAreFinite, CountOne
<1>5. Cardinality(lost') = Cardinality(lost) /\ Cardinality(BeingSent') = Cardinality(BeingSent)
  BY <1>1
<1>6. BufferAccounted'
  BY <1>1, <1>4, <1>5, SetsAreFinite, CountersAreIntegers DEF Accounted, BufferAccounted
<1>7. SendingCounted'
  BY <1>1, <1>5 DEF Accounted, SendingCounted
<1> QED
  BY <1>3, <1>6, <1>7 DEF Accounted

\* Steps that move nothing.
LEMMA AccountNothingMoves ==
  ASSUME TypeOK, Places, Accounted, UNCHANGED placeVars,
         \/ NumbersUnchanged
         \/ resetCounters /\ UNCHANGED handedOff
         \/ CountSending
  PROVE  Places' /\ Accounted'
<1>1. UNCHANGED <<Held, BeingSent, lost>>
  BY DEF placeVars, Held, BeingSent
<1>2. Places'
  BY <1>1 DEF Places, placeVars
<1>3. Accounted'
  <2>1. CASE NumbersUnchanged
    BY <1>1, <2>1 DEF NumbersUnchanged, Accounted, BufferAccounted, SendingCounted
  <2>2. CASE resetCounters /\ UNCHANGED handedOff
    BY <1>1, <2>2, SetsAreFinite, CountersAreIntegers
    DEF resetCounters, Accounted, BufferAccounted, SendingCounted
  <2>3. CASE CountSending
    <3>1. Len(handedOff) = 1 /\ Len(handedOff') = 0
      <4>1. handedOff \in Seq(Stfs) /\ Len(handedOff) <= 1
        BY TypeParts DEF QueueType
      <4>2. Len(handedOff) \in Nat /\ Len(handedOff) >= 1
        BY <2>3, <4>1, OptionalValue DEF CountSending
      <4>3. handedOff' = <<>>
        BY <2>3 DEF CountSending
      <4>4. Len(handedOff) = 1
        BY <4>1, <4>2
      <4>5. Len(handedOff') = 0
        BY <4>3
      <4> QED
        BY <4>4, <4>5
    <3>2. UNCHANGED <<mBuffered, carried>> /\ mInSending' = mInSending + 1
      BY <2>3 DEF CountSending, runVars
    <3>3. BufferAccounted'
      BY <1>1, <3>2 DEF Accounted, BufferAccounted
    <3>4. SendingCounted'
      <4>1. mInSending + carried.sending = Cardinality(BeingSent) + Cardinality(lost) - 1
        BY <3>1 DEF Accounted, SendingCounted
      <4>2. /\ Cardinality(BeingSent') = Cardinality(BeingSent)
            /\ Cardinality(lost') = Cardinality(lost)
        BY <1>1
      <4>3. mInSending' + carried'.sending
              = Cardinality(BeingSent') + Cardinality(lost') - Len(handedOff')
        <5>1. /\ mInSending \in Int /\ carried.sending \in Int
              /\ Cardinality(BeingSent) \in Nat /\ Cardinality(lost) \in Nat
          BY SetsAreFinite, CountersAreIntegers
        <5>2. carried'.sending = carried.sending
          BY <3>2
        <5> QED
          BY <3>1, <3>2, <4>1, <4>2, <5>1, <5>2
      <4> QED
        BY <4>3 DEF SendingCounted
    <3> QED
      BY <3>3, <3>4 DEF Accounted
  <2> QED
    BY <2>1, <2>2, <2>3
<1> QED
  BY <1>2, <1>3

\* STFs that move from the map to the drop queue.
LEMMA AccountDropped ==
  ASSUME Places, Accounted, NEW entry, entry \subseteq mScheduledStfMap,
         mScheduledStfMap' = mScheduledStfMap \ entry, mDropQueue' = mDropQueue \union entry,
         UNCHANGED <<mSendRequestQueue, sending, lost>>, NumbersUnchanged
  PROVE  Places' /\ Accounted'
<1>1. BeingSent' = BeingSent
  BY DEF BeingSent
<1>2. Held' = Held
  BY <1>1 DEF Held
<1>3. Places'
  BY <1>1, <1>2 DEF Places, Held
<1>4. Accounted'
  BY <1>1, <1>2 DEF NumbersUnchanged, Accounted, BufferAccounted, SendingCounted
<1> QED
  BY <1>3, <1>4

\* An STF that moves from the map to the output.
LEMMA AccountHandedOff ==
  ASSUME TypeOK, Places, Accounted, NEW stf \in mScheduledStfMap, NEW to,
         mScheduledStfMap' = mScheduledStfMap \ {stf},
         mSendRequestQueue' = mSendRequestQueue \union {[stf |-> stf, to |-> to]},
         handedOff = <<>>, handedOff' = <<stf>>,
         UNCHANGED <<mDropQueue, sending, lost, mBuffered, mInSending, carried>>
  PROVE  Places' /\ Accounted'
<1>1. BeingSent' = BeingSent \union {stf} /\ stf \notin BeingSent
  <2> DEFINE request == [stf |-> stf, to |-> to]
  <2>1. request.stf = stf
    OBVIOUS
  <2>2. mSendRequestQueue' \union sending' = (mSendRequestQueue \union sending) \union {request}
    OBVIOUS
  <2> HIDE DEF request
  <2>3. BeingSent' = BeingSent \union {stf}
    BY <2>1, <2>2 DEF BeingSent
  <2> QED
    BY <2>3 DEF Places
<1>2. Held' = Held
  BY <1>1 DEF Held
<1>3. \A r \in mSendRequestQueue \union sending : r.stf # stf
  BY <1>1 DEF BeingSent
<1>4. Places'
  BY <1>1, <1>2, <1>3 DEF Places, Held
<1>5. Cardinality(BeingSent') = Cardinality(BeingSent) + 1
  BY <1>1, SetsAreFinite, CountOne
<1>6. Len(handedOff) = 0 /\ Len(handedOff') = 1
  OBVIOUS
<1>7. BufferAccounted'
  BY <1>2 DEF Accounted, BufferAccounted
<1>8. SendingCounted'
  <2>1. /\ mInSending' = mInSending /\ carried' = carried
        /\ Cardinality(lost') = Cardinality(lost)
    OBVIOUS
  <2>2. mInSending + carried.sending = Cardinality(BeingSent) + Cardinality(lost)
    BY <1>6, SetsAreFinite DEF Accounted, SendingCounted
  <2> QED
    BY <1>5, <1>6, <2>1, <2>2, SetsAreFinite, CountersAreIntegers DEF SendingCounted
<1> QED
  BY <1>4, <1>7, <1>8 DEF Accounted

\* An STF that is deleted: the counters may follow, or it is among the lost ones.
LEMMA AccountDropThread ==
  ASSUME TypeOK, Places, Accounted, StfDropThread
  PROVE  Places' /\ Accounted'
<1>1. PICK stf \in mDropQueue : mDropQueue' = mDropQueue \ {stf}
  BY DEF StfDropThread
<1>2. /\ UNCHANGED <<mScheduledStfMap, mSendRequestQueue, sending, lost, mInSending, carried,
                     handedOff>>
      /\ mBuffered' = mBuffered - 1 /\ BeingSent' = BeingSent
  BY DEF StfDropThread, sendVars, runVars, BeingSent
<1>3. Held' = Held \ {stf} /\ stf \in Held
  BY <1>1, <1>2 DEF Held, Places
<1>4. Places'
  BY <1>1, <1>2, <1>3 DEF Places
<1>5. /\ Cardinality(Held') = Cardinality(Held) - 1
      /\ Cardinality(lost') = Cardinality(lost)
      /\ Cardinality(BeingSent') = Cardinality(BeingSent)
  BY <1>2, <1>3, SetsAreFinite, CountOne
<1>6. BufferAccounted'
  BY <1>2, <1>5, SetsAreFinite, CountersAreIntegers DEF Accounted, BufferAccounted
<1>7. SendingCounted'
  BY <1>2, <1>5 DEF Accounted, SendingCounted
<1> QED
  BY <1>4, <1>6, <1>7 DEF Accounted

LEMMA AccountTake ==
  ASSUME TypeOK, Places, Accounted, TakeSendRequest
  PROVE  Places' /\ Accounted'
<1>1. PICK r \in mSendRequestQueue :
        /\ mSendRequestQueue' = mSendRequestQueue \ {r}
        /\ \/ sending' = sending \union {r} /\ UNCHANGED lost
           \/ lost' = lost \union {r.stf} /\ UNCHANGED sending
  BY DEF TakeSendRequest
<1>2. UNCHANGED <<mScheduledStfMap, mDropQueue, mBuffered, mInSending, carried, handedOff>>
  BY DEF TakeSendRequest, runVars
<1>3. CASE sending' = sending \union {r} /\ UNCHANGED lost
  <2>1. mSendRequestQueue' \union sending' = mSendRequestQueue \union sending
    BY <1>1, <1>3
  <2>2. BeingSent' = BeingSent
    BY <2>1 DEF BeingSent
  <2>3. Held' = Held
    BY <1>2, <2>2 DEF Held
  <2>4. Places'
    BY <1>1, <1>2, <1>3, <2>1, <2>2, <2>3 DEF Places
  <2>5. Accounted'
    BY <1>2, <1>3, <2>2, <2>3 DEF Accounted, BufferAccounted, SendingCounted
  <2> QED
    BY <2>4, <2>5
<1>4. CASE lost' = lost \union {r.stf} /\ UNCHANGED sending
  <2>1. mSendRequestQueue' \union sending' = (mSendRequestQueue \union sending) \ {r}
    BY <1>1, <1>4 DEF Places
  <2>2. BeingSent' = BeingSent \ {r.stf} /\ r.stf \in BeingSent
    <3>1. r \in mSendRequestQueue \union sending
      OBVIOUS
    <3> QED
      BY <2>1, <3>1, OneOfSending
  <2>3. Held' = Held \ {r.stf} /\ r.stf \in Held /\ r.stf \notin lost
    BY <1>2, <2>2 DEF Held, Places
  <2>4. Places'
    BY <1>1, <1>2, <1>4, <2>1, <2>2, <2>3 DEF Places
  <2>5. /\ Cardinality(Held') = Cardinality(Held) - 1
        /\ Cardinality(lost') = Cardinality(lost) + 1
        /\ Cardinality(BeingSent') = Cardinality(BeingSent) - 1
    BY <1>4, <2>2, <2>3, SetsAreFinite, CountOne
  <2>6. BufferAccounted'
    BY <1>2, <2>5, SetsAreFinite, CountersAreIntegers DEF Accounted, BufferAccounted
  <2>7. SendingCounted'
    BY <1>2, <2>5, SetsAreFinite, CountersAreIntegers DEF Accounted, SendingCounted
  <2> QED
    BY <2>4, <2>6, <2>7 DEF Accounted
<1> QED
  BY <1>1, <1>3, <1>4

LEMMA AccountFinish ==
  ASSUME TypeOK, Places, Accounted, FinishSending
  PROVE  Places' /\ Accounted'
<1>1. PICK r \in sending : sending' = sending \ {r}
  BY DEF FinishSending
<1>2. /\ UNCHANGED <<mScheduledStfMap, mDropQueue, mSendRequestQueue, lost, carried, handedOff>>
      /\ mBuffered' = mBuffered - 1 /\ mInSending' = mInSending - 1
  BY DEF FinishSending, runVars
<1>3. mSendRequestQueue' \union sending' = (mSendRequestQueue \union sending) \ {r}
  BY <1>1, <1>2 DEF Places
<1>4. BeingSent' = BeingSent \ {r.stf} /\ r.stf \in BeingSent
  <2>1. r \in mSendRequestQueue \union sending
    OBVIOUS
  <2> QED
    BY <1>3, <2>1, OneOfSending
<1>5. Held' = Held \ {r.stf} /\ r.stf \in Held
  BY <1>2, <1>4 DEF Held, Places
<1>6. Places'
  BY <1>1, <1>2, <1>3, <1>4, <1>5 DEF Places
<1>7. /\ Cardinality(Held') = Cardinality(Held) - 1
      /\ Cardinality(lost') = Cardinality(lost)
      /\ Cardinality(BeingSent') = Cardinality(BeingSent) - 1
  BY <1>2, <1>4, <1>5, SetsAreFinite, CountOne
<1>8. BufferAccounted'
  <2>1. mBuffered' = mBuffered - 1 /\ carried' = carried
    BY <1>2
  <2>2. mBuffered + carried.buffered = Cardinality(Held) + Cardinality(lost)
    BY DEF Accounted, BufferAccounted
  <2> QED
    BY <1>7, <2>1, <2>2, SetsAreFinite, CountersAreIntegers DEF BufferAccounted
<1>9. SendingCounted'
  <2>1. mInSending' = mInSending - 1 /\ carried' = carried /\ Len(handedOff') = Len(handedOff)
    BY <1>2
  <2>2. mInSending + carried.sending
          = Cardinality(BeingSent) + Cardinality(lost) - Len(handedOff)
    BY DEF Accounted, SendingCounted
  <2> QED
    BY <1>7, <2>1, <2>2, SetsAreFinite, CountersAreIntegers DEF SendingCounted
<1> QED
  BY <1>6, <1>8, <1>9 DEF Accounted

LEMMA NextAccount ==
  TypeOK /\ InOrder /\ Places /\ Accounted /\ [Next]_vars => Places' /\ Accounted'
<1> SUFFICES ASSUME TypeOK, InOrder, Places, Accounted, [Next]_vars PROVE Places' /\ Accounted'
  OBVIOUS
<1> USE DEF runVars, schedVars, sendVars, envVars, SchedulerVars
<1>1. CASE DropUnscheduled
  <2>1. PICK stf \in Stfs : CountStf(stf) /\ mDropQueue' = mDropQueue \union {stf}
    BY <1>1 DEF DropUnscheduled
  <2>2. stf \notin Seen /\ mScheduledStfMap' = mScheduledStfMap
    BY <1>1, <2>1, CountedIsSeen, CountInOrder DEF DropUnscheduled
  <2> QED
    BY <2>1, <2>2, AccountCounted
<1>2. CASE Schedule
  <2>1. PICK stf \in Stfs : /\ CountStf(stf) /\ announcing' = <<[stf |-> stf, status |-> "sent"]>>
                            /\ mScheduledStfMap' = mScheduledStfMap \union {stf}
    BY <1>2 DEF Schedule
  <2>2. stf \notin Seen /\ mDropQueue' = mDropQueue
    BY <1>2, <2>1, CountedIsSeen, CountInOrder DEF Schedule
  <2> QED
    BY <2>1, <2>2, AccountCounted
<1>3. CASE \/ PreRun \/ PostRun \/ CountSending \/ SchedulerSteps \/ UNCHANGED vars
           \/ \E stf \in Stfs : StfReceiverThread(stf)
           \/ \E tfb \in TfBuilders : connectTfBuilder(tfb) \/ disconnectTfBuilder(tfb)
  <2>1. UNCHANGED placeVars
    BY <1>3 DEF PreRun, PostRun, resetCounters, CountSending, SchedulerSteps, SchedulerAnswers,
       AnnouncementFails, SchedulerDecides, SchedulerForgets, LoseRequest, vars,
       StfReceiverThread, connectTfBuilder, disconnectTfBuilder, placeVars
  <2>2. NumbersUnchanged \/ (resetCounters /\ UNCHANGED handedOff) \/ CountSending
    BY <1>3 DEF PreRun, PostRun, SchedulerSteps, SchedulerAnswers,
       AnnouncementFails, SchedulerDecides, SchedulerForgets, LoseRequest, vars,
       StfReceiverThread, connectTfBuilder, disconnectTfBuilder, NumbersUnchanged
  <2> QED
    BY <2>1, <2>2, AccountNothingMoves
<1>4. CASE Announced
  <2>1. NumbersUnchanged /\ UNCHANGED <<mSendRequestQueue, sending, lost>>
    BY <1>4 DEF Announced, NumbersUnchanged
  <2>2. PICK entry \in SUBSET mScheduledStfMap :
          mScheduledStfMap' = mScheduledStfMap \ entry /\ mDropQueue' = mDropQueue \union entry
    <3>1. CASE announcing[1].status = "ok"
      <4>1. mScheduledStfMap' = mScheduledStfMap \ {} /\ mDropQueue' = mDropQueue \union {}
        BY <1>4, <3>1 DEF Announced
      <4>2. {} \in SUBSET mScheduledStfMap
        OBVIOUS
      <4> QED
        BY <4>1, <4>2
    <3>2. CASE announcing[1].status # "ok"
      BY <1>4, <3>2 DEF Announced, Entry
    <3> QED
      BY <3>1, <3>2
  <2> QED
    BY <2>1, <2>2, AccountDropped
<1>5. CASE sendStfToTfBuilder
  <2>1. PICK request \in requests :
          RequestUnknown(request) \/ RequestDrop(request) \/ RequestSend(request)
    BY <1>5 DEF sendStfToTfBuilder
  <2>2. UNCHANGED <<sending, lost, mBuffered, mInSending, carried>> /\ handedOff = <<>>
    BY <1>5 DEF sendStfToTfBuilder, MapUnlocked
  <2>3. CASE RequestUnknown(request)
    BY <2>2, <2>3, AccountNothingMoves DEF RequestUnknown, placeVars, NumbersUnchanged
  <2>4. CASE RequestDrop(request)
    BY <2>2, <2>4, AccountDropped DEF RequestDrop, Entry, NumbersUnchanged
  <2>5. CASE RequestSend(request)
    BY <2>2, <2>5, AccountHandedOff DEF RequestSend, Entry
  <2> QED
    BY <2>1, <2>3, <2>4, <2>5
<1> QED
  BY <1>1, <1>2, <1>3, <1>4, <1>5, AccountDropThread, AccountTake, AccountFinish
  DEF Next, StfSenderThreads

\* The buffer counters, that five threads change, miss only what the resets and the lost
\* connections account for; for any number of STFs and TfBuilders.
THEOREM CountersAddUp == Spec => [](BufferAccounted /\ SendingCounted)
<1> DEFINE Inv == TypeOK /\ InOrder /\ Places /\ Accounted
<1>1. Init => Inv
  BY InitType, InitOrder, InitAccount
<1>2. Inv /\ [Next]_vars => Inv'
  BY NextType, NextOrder, NextAccount
<1>3. Inv => BufferAccounted /\ SendingCounted
  BY DEF Accounted
<1> QED
  BY <1>1, <1>2, <1>3, PTL DEF Spec

-----------------------------------------------------------------------------
(* The missing STFs: ids come in ascending order in a run, so that what is *)
(* skipped between two of them is never found later.                       *)

Ascending ==
  /\ \A i, j \in 1 .. Len(mPipelineI) : i < j => After(mPipelineI[j], mPipelineI[i])
  /\ \A i \in 1 .. Len(mPipelineI) : ~After(mPipelineI[i], lastStf)
  /\ \A s \in counted : ~After(s, lastStf)
                        /\ \A i \in 1 .. Len(mPipelineI) : After(mPipelineI[i], s)

OneRunCounted == \A s \in counted : s.run = run

LastCounted ==
  /\ mLastStfId = 0 \/ \E s \in counted : s.id = mLastStfId
  /\ OneRunCounted => \A s \in counted : s.id <= mLastStfId

Gaps == {i \in 1 .. mLastStfId : \A s \in counted : s.id # i}

GapInv == Ascending /\ LastCounted /\ MissingAreGaps

gapVars == <<run, lastStf, mPipelineI, counted, mMissing, mLastStfId>>

LEMMA InitGaps == Init => GapInv
<1> SUFFICES ASSUME Init PROVE GapInv
  OBVIOUS
<1>1. {i \in 1 .. 0 : \A s \in {} : s.id # i} = {}
  OBVIOUS
<1> QED
  BY <1>1, FS_EmptySet DEF Init, GapInv, Ascending, LastCounted, MissingAreGaps

LEMMA GapsUnchanged == GapInv /\ UNCHANGED gapVars => GapInv'
BY DEF GapInv, Ascending, LastCounted, OneRunCounted, MissingAreGaps, gapVars

\* A run starts or stops: nothing is counted and nothing missing.
LEMMA GapsReset ==
  ASSUME GapInv, PreRun \/ PostRun
  PROVE  GapInv'
<1>1. /\ counted' = {} /\ mMissing' = 0 /\ mLastStfId' = 0
      /\ UNCHANGED <<lastStf, mPipelineI>>
  BY DEF PreRun, PostRun, resetCounters
<1>2. {i \in 1 .. mLastStfId' : \A s \in counted' : s.id # i} = {}
  BY <1>1
<1> QED
  BY <1>1, <1>2, FS_EmptySet DEF GapInv, Ascending, LastCounted, MissingAreGaps

LEMMA GapsReceived ==
  ASSUME TypeOK, GapInv, NEW stf \in Stfs, StfReceiverThread(stf)
  PROVE  GapInv'
<1>1. /\ lastStf' = stf /\ After(stf, lastStf) /\ mPipelineI' = Append(mPipelineI, stf)
      /\ UNCHANGED <<run, counted, mMissing, mLastStfId>>
  BY DEF StfReceiverThread
<1>2. lastStf.run \in Nat /\ lastStf.id \in Nat /\ mPipelineI \in Seq(Stfs) /\ counted \subseteq Stfs
  BY DEF TypeOK
<1>3. \A s \in Stfs : ~After(s, lastStf) => ~After(s, stf) /\ After(stf, s)
  BY <1>1, <1>2, StfType DEF After
<1>4. /\ Len(mPipelineI') = Len(mPipelineI) + 1 /\ Len(mPipelineI) \in Nat
      /\ \A i \in 1 .. Len(mPipelineI) : mPipelineI'[i] = mPipelineI[i] /\ mPipelineI[i] \in Stfs
      /\ mPipelineI'[Len(mPipelineI) + 1] = stf
  BY <1>1, <1>2, AppendProperties
<1>5. ~After(stf, stf)
  BY StfType DEF After
<1>6. \A i, j \in 1 .. Len(mPipelineI') : i < j => After(mPipelineI'[j], mPipelineI'[i])
  BY <1>3, <1>4 DEF GapInv, Ascending
<1>7. \A i \in 1 .. Len(mPipelineI') : ~After(mPipelineI'[i], lastStf')
  BY <1>1, <1>3, <1>4, <1>5 DEF GapInv, Ascending
<1>8. \A s \in counted' : ~After(s, lastStf')
                          /\ \A i \in 1 .. Len(mPipelineI') : After(mPipelineI'[i], s)
  BY <1>1, <1>2, <1>3, <1>4 DEF GapInv, Ascending
<1> QED
  BY <1>1, <1>6, <1>7, <1>8 DEF GapInv, Ascending, LastCounted, OneRunCounted, MissingAreGaps

\* The ids between the last STF and the one that is counted are the new gaps.
LEMMA GapsCounted ==
  ASSUME TypeOK, GapInv, NEW stf \in Stfs, CountStf(stf)
  PROVE  GapInv'
<1>1. /\ mPipelineI \in Seq(Stfs) /\ mPipelineI # <<>> /\ stf = Head(mPipelineI)
      /\ mPipelineI' = Tail(mPipelineI) /\ lastStf' = lastStf /\ run' = run
      /\ mMissing' = mMissing + (stf.id - mLastStfId - 1) /\ mLastStfId' = stf.id
      /\ counted' = counted \union {stf}
  BY DEF TypeOK, CountStf, runVars
<1>2. /\ Len(mPipelineI) \in Nat /\ Len(mPipelineI) >= 1 /\ stf = mPipelineI[1]
      /\ Len(mPipelineI') = Len(mPipelineI) - 1
      /\ \A i \in 1 .. Len(mPipelineI') : mPipelineI'[i] = mPipelineI[i + 1]
  BY <1>1, HeadTailProperties, EmptySeq
<1>3. /\ \A s \in counted : After(stf, s)
      /\ ~After(stf, lastStf)
      /\ \A i \in 1 .. Len(mPipelineI') : After(mPipelineI'[i], stf)
  BY <1>2 DEF GapInv, Ascending
<1>4. Ascending'
  <2>1. \A i, j \in 1 .. Len(mPipelineI') : i < j => After(mPipelineI'[j], mPipelineI'[i])
    BY <1>2 DEF GapInv, Ascending
  <2>2. \A i \in 1 .. Len(mPipelineI') : ~After(mPipelineI'[i], lastStf')
    BY <1>1, <1>2 DEF GapInv, Ascending
  <2>3. \A s \in counted : ~After(s, lastStf)
                           /\ \A i \in 1 .. Len(mPipelineI') : After(mPipelineI'[i], s)
    BY <1>2 DEF GapInv, Ascending
  <2> QED
    BY <1>1, <1>3, <2>1, <2>2, <2>3 DEF Ascending
<1>5. CASE ~OneRunCounted'
  BY <1>1, <1>4, <1>5 DEF GapInv, LastCounted, MissingAreGaps, OneRunCounted
<1>6. CASE OneRunCounted'
  <2>1. stf.run = run /\ OneRunCounted
    BY <1>1, <1>6 DEF OneRunCounted
  <2>2. /\ counted \subseteq Stfs /\ run \in Nat /\ mLastStfId \in Nat /\ mMissing \in Int
        /\ stf.id \in Nat /\ stf.id >= 1
    BY StfType, StfSenderAssumption DEF TypeOK
  <2>3. \A s \in counted : s.id \in Nat /\ stf.id > s.id /\ s.id <= mLastStfId
    BY <1>3, <2>1, <2>2, StfType DEF After, GapInv, LastCounted, OneRunCounted
  <2>4. stf.id > mLastStfId
    BY <2>2, <2>3 DEF GapInv, LastCounted
  <2>5. LastCounted'
    BY <1>1, <2>2, <2>3, <2>4 DEF LastCounted
  <2> DEFINE new == (mLastStfId + 1) .. (stf.id - 1)
  <2>6. {i \in 1 .. mLastStfId' : \A s \in counted' : s.id # i} = Gaps \union new
    <3>1. \A i \in new : \A s \in counted' : s.id # i
      BY <1>1, <2>2, <2>3
    <3>2. \A i \in Gaps : i \in 1 .. stf.id /\ \A s \in counted' : s.id # i
      BY <1>1, <2>2, <2>4 DEF Gaps
    <3>3. ASSUME NEW i \in 1 .. stf.id, \A s \in counted' : s.id # i
          PROVE  i \in Gaps \union new
      <4>1. i # stf.id
        BY <1>1, <3>3
      <4>2. CASE i <= mLastStfId
        BY <1>1, <2>2, <3>3, <4>2 DEF Gaps
      <4>3. CASE i > mLastStfId
        BY <2>2, <4>1, <4>3
      <4> QED
        BY <2>2, <4>2, <4>3
    <3>4. new \subseteq 1 .. stf.id
      BY <2>2
    <3> QED
      BY <1>1, <3>1, <3>2, <3>3, <3>4
  <2>7. IsFiniteSet(new) /\ Cardinality(new) = stf.id - mLastStfId - 1
    <3>1. mLastStfId + 1 \in Int /\ stf.id - 1 \in Int
      BY <2>2
    <3>2. /\ IsFiniteSet(new)
          /\ Cardinality(new) = IF mLastStfId + 1 > stf.id - 1 THEN 0
                                ELSE (stf.id - 1) - (mLastStfId + 1) + 1
      BY <3>1, FS_Interval
    <3> HIDE DEF new
    <3> QED
      BY <2>2, <2>4, <3>2
  <2>8. IsFiniteSet(Gaps) /\ Cardinality(Gaps) = mMissing
    <3>1. IsFiniteSet(1 .. mLastStfId)
      BY <2>2, FS_Interval
    <3>2. Gaps \subseteq 1 .. mLastStfId
      BY DEF Gaps
    <3> QED
      BY <2>1, <3>1, <3>2, FS_Subset DEF GapInv, MissingAreGaps, OneRunCounted, Gaps
  <2>9. Gaps \intersect new = {}
    BY <2>2 DEF Gaps
  <2>10. Cardinality(Gaps \union new) = mMissing + (stf.id - mLastStfId - 1)
    <3>1. Cardinality(Gaps \union new)
            = Cardinality(Gaps) + Cardinality(new) - Cardinality(Gaps \intersect new)
      BY <2>7, <2>8, FS_Union
    <3> HIDE DEF new
    <3> QED
      BY <2>2, <2>7, <2>8, <2>9, <3>1, FS_EmptySet
  <2>11. MissingAreGaps'
    BY <1>1, <2>6, <2>10 DEF MissingAreGaps
  <2> QED
    BY <1>4, <2>5, <2>11 DEF GapInv
<1> QED
  BY <1>5, <1>6

LEMMA NextGaps == TypeOK /\ GapInv /\ [Next]_vars => GapInv'
<1> SUFFICES ASSUME TypeOK, GapInv, [Next]_vars PROVE GapInv'
  OBVIOUS
<1>1. ASSUME NEW stf \in Stfs, StfReceiverThread(stf) PROVE GapInv'
  BY <1>1, GapsReceived
<1>2. CASE DropUnscheduled \/ Schedule
  BY <1>2, GapsCounted DEF DropUnscheduled, Schedule
<1>3. CASE OtherStep
  <2>1. CASE PreRun \/ PostRun
    BY <2>1, GapsReset
  <2>2. CASE UNCHANGED gapVars
    BY <2>2, GapsUnchanged
  <2> QED
    BY <1>3, <2>1, <2>2 DEF OtherStep, Announced, sendStfToTfBuilder, CountSending, StfDropThread,
    TakeSendRequest, FinishSending, connectTfBuilder, disconnectTfBuilder, SchedulerSteps,
    SchedulerAnswers, AnnouncementFails, SchedulerDecides, SchedulerForgets, LoseRequest, vars,
    runVars, schedVars, SchedulerVars, gapVars
<1> QED
  BY <1>1, <1>2, <1>3, StepKinds

\* The counter of STFs being sent follows the output through hand-over, lost connections and
\* resets, and the counter of missing STFs is the number of ids that were skipped.
THEOREM SendingAddsUp == Spec => []SendingAccounted
<1>1. Init => TypeOK /\ GapInv
  BY InitType, InitGaps
<1>2. TypeOK /\ GapInv /\ [Next]_vars => (TypeOK /\ GapInv)'
  BY NextType, NextGaps
<1>3. SendingCounted /\ GapInv => SendingAccounted
  BY DEF GapInv, SendingAccounted
<1> QED
  BY <1>1, <1>2, <1>3, CountersAddUp, PTL DEF Spec

-----------------------------------------------------------------------------
(* What the scheduler has taken stays until a request for it is handled.   *)

ByRequest(stf) == \E other \in answered : other.id = stf.id

\* No other STF takes the place of the announced one, and what becomes of the
\* announcement is known from its state.
AnnouncingInv ==
  announcing # <<>> =>
    /\ \A s \in mScheduledStfMap : s.id = announcing[1].stf.id => s = announcing[1].stf
    /\ announcing[1].stf \in mScheduledStfMap \/ ByRequest(announcing[1].stf)
    /\ announcing[1].status \in {"sent", "refused"} => announcing[1].stf \notin taken
    /\ announcing[1].status = "failed" => \/ announcing[1].stf \notin taken
                                          \/ announcing[1].stf \in unconfirmed

TakenInv == AnnouncingInv /\ TakenIsThere

takenVars == <<mScheduledStfMap, announcing, taken, unconfirmed, answered>>

LEMMA TakenUnchanged == TakenInv /\ UNCHANGED takenVars => TakenInv'
BY DEF TakenInv, AnnouncingInv, ByRequest, TakenIsThere, takenVars

\* The announcement of an STF that was not seen before.
LEMMA TakenSchedule ==
  ASSUME TypeOK, InOrder, TakenInv, Schedule
  PROVE  TakenInv'
<1>1. PICK stf \in Stfs :
        /\ CountStf(stf) /\ \A s \in mScheduledStfMap : s.id # stf.id
        /\ mScheduledStfMap' = mScheduledStfMap \union {stf}
        /\ announcing' = <<[stf |-> stf, status |-> "sent"]>>
  BY DEF Schedule, Entry
<1>2. UNCHANGED <<taken, unconfirmed, answered>> /\ UNCHANGED mDropQueue
  BY <1>1 DEF Schedule, CountStf, envVars
<1>3. stf \notin taken
  BY <1>1, CountedIsSeen, CountInOrder DEF Seen
<1>4. announcing'[1].stf = stf /\ announcing'[1].status = "sent"
  BY <1>1
<1>5. AnnouncingInv'
  BY <1>1, <1>2, <1>3, <1>4 DEF AnnouncingInv
<1>6. TakenIsThere'
  BY <1>1, <1>2 DEF TakenInv, TakenIsThere
<1> QED
  BY <1>5, <1>6 DEF TakenInv

\* Only an STF that was not taken, or whose reply was lost, is dropped for its answer.
LEMMA TakenAnnounced ==
  ASSUME TypeOK, TakenInv, Announced
  PROVE  TakenInv'
<1>1. announcing' = <<>> /\ UNCHANGED <<taken, unconfirmed, answered>>
  BY DEF Announced, envVars
<1>2. \A s \in mScheduledStfMap :
        s \in taken => s \in mScheduledStfMap' \/ s \in unconfirmed
  <2>1. CASE announcing[1].status = "ok"
    BY <2>1 DEF Announced
  <2>2. CASE announcing[1].status # "ok"
    <3>1. mScheduledStfMap'
            = mScheduledStfMap \ {s \in mScheduledStfMap : s.id = announcing[1].stf.id}
      BY <2>2 DEF Announced, Entry
    <3>2. announcing # <<>> /\ announcing[1] \in Announcements
      BY TypeParts, OptionalValue DEF Announced, QueueType
    <3>3. announcing[1].status \in {"refused", "failed"}
      BY <2>2, <3>2 DEF Announced, Announcements
    <3>4. announcing[1].stf \notin taken \/ announcing[1].stf \in unconfirmed
      BY <3>2, <3>3 DEF TakenInv, AnnouncingInv
    <3>5. \A s \in mScheduledStfMap : s.id = announcing[1].stf.id => s = announcing[1].stf
      BY <3>2 DEF TakenInv, AnnouncingInv
    <3> QED
      BY <3>1, <3>4, <3>5
  <2> QED
    BY <2>1, <2>2
<1>3. TakenIsThere'
  BY <1>1, <1>2 DEF TakenInv, TakenIsThere
<1> QED
  BY <1>1, <1>3 DEF TakenInv, AnnouncingInv

\* A request removes at most the STF with its id, and is handled then.
LEMMA TakenRequest ==
  ASSUME TypeOK, TakenInv, sendStfToTfBuilder
  PROVE  TakenInv'
<1>1. PICK request \in requests :
        /\ answered' = answered \union {request.stf}
        /\ RequestUnknown(request) \/ RequestDrop(request) \/ RequestSend(request)
  BY DEF sendStfToTfBuilder
<1>2. UNCHANGED <<announcing, taken, unconfirmed>>
  BY DEF sendStfToTfBuilder, schedVars
<1>3. /\ mScheduledStfMap' \subseteq mScheduledStfMap
      /\ \A s \in mScheduledStfMap : s \in mScheduledStfMap' \/ s.id = request.stf.id
  BY <1>1 DEF RequestUnknown, RequestDrop, RequestSend, Entry
<1>4. \A s : (s \in mScheduledStfMap \/ ByRequest(s))
               => (s \in mScheduledStfMap' \/ ByRequest(s)')
  BY <1>1, <1>3 DEF ByRequest
<1>5. AnnouncingInv'
  <2> SUFFICES ASSUME announcing # <<>> PROVE AnnouncingInv'
    BY <1>2 DEF AnnouncingInv
  <2> DEFINE a == announcing[1]
  <2>1. announcing' = announcing /\ announcing'[1] = a
    BY <1>2
  <2>2. /\ \A s \in mScheduledStfMap : s.id = a.stf.id => s = a.stf
        /\ a.stf \in mScheduledStfMap \/ ByRequest(a.stf)
        /\ a.status \in {"sent", "refused"} => a.stf \notin taken
        /\ a.status = "failed" => a.stf \notin taken \/ a.stf \in unconfirmed
    BY DEF TakenInv, AnnouncingInv
  <2>3. a.stf \in mScheduledStfMap' \/ \E other \in answered' : other.id = a.stf.id
    BY <1>1, <1>3, <2>2 DEF ByRequest
  <2> QED
    BY <1>2, <1>3, <2>1, <2>2, <2>3 DEF AnnouncingInv, ByRequest
<1>6. TakenIsThere'
  BY <1>1, <1>2, <1>3 DEF TakenInv, TakenIsThere
<1> QED
  BY <1>5, <1>6 DEF TakenInv

\* What is taken in an answer is in the map, or was requested meanwhile.
LEMMA TakenAnswers ==
  ASSUME TypeOK, TakenInv, SchedulerAnswers
  PROVE  TakenInv'
<1> DEFINE stf == announcing[1].stf
<1>1. UNCHANGED <<mScheduledStfMap, unconfirmed, answered>>
  BY DEF SchedulerAnswers, SchedulerVars
<1>2. /\ \A s \in mScheduledStfMap : s.id = stf.id => s = stf
      /\ stf \in mScheduledStfMap \/ ByRequest(stf)
      /\ stf \notin taken
  BY DEF TakenInv, AnnouncingInv, SchedulerAnswers
<1>3. CASE announcing' = <<[stf |-> stf, status |-> "ok"]>> /\ taken' = taken \union {stf}
  <2>1. announcing'[1].stf = stf /\ announcing'[1].status = "ok"
    BY <1>3
  <2>2. AnnouncingInv'
    BY <1>1, <1>2, <2>1 DEF AnnouncingInv, ByRequest
  <2>3. TakenIsThere'
    BY <1>1, <1>2, <1>3 DEF TakenInv, TakenIsThere, ByRequest
  <2> QED
    BY <2>2, <2>3 DEF TakenInv
<1>4. CASE announcing' = <<[stf |-> stf, status |-> "refused"]>> /\ UNCHANGED taken
  <2>1. announcing'[1].stf = stf /\ announcing'[1].status = "refused"
    BY <1>4
  <2>2. AnnouncingInv'
    BY <1>1, <1>2, <1>4, <2>1 DEF AnnouncingInv, ByRequest
  <2>3. TakenIsThere'
    BY <1>1, <1>4 DEF TakenInv, TakenIsThere
  <2> QED
    BY <2>2, <2>3 DEF TakenInv
<1> QED
  BY <1>3, <1>4 DEF SchedulerAnswers

LEMMA TakenFails ==
  ASSUME TypeOK, TakenInv, AnnouncementFails
  PROVE  TakenInv'
<1> DEFINE stf == announcing[1].stf
<1>1. UNCHANGED <<mScheduledStfMap, taken, answered>>
  BY DEF AnnouncementFails, SchedulerVars
<1>2. /\ \A s \in mScheduledStfMap : s.id = stf.id => s = stf
      /\ stf \in mScheduledStfMap \/ ByRequest(stf)
  BY DEF TakenInv, AnnouncingInv, AnnouncementFails
<1>3. announcing'[1].stf = stf /\ announcing'[1].status = "failed"
  BY DEF AnnouncementFails
<1>4. unconfirmed \subseteq unconfirmed' /\ (stf \notin taken \/ stf \in unconfirmed')
  <2>1. announcing # <<>> /\ announcing[1] \in Announcements /\ announcing[1].status # "failed"
    BY TypeParts, OptionalValue DEF AnnouncementFails, QueueType
  <2>2. CASE announcing[1].status = "ok"
    BY <2>2 DEF AnnouncementFails
  <2>3. CASE announcing[1].status \in {"sent", "refused"}
    BY <2>1, <2>3 DEF AnnouncementFails, TakenInv, AnnouncingInv
  <2> QED
    BY <2>1, <2>2, <2>3 DEF Announcements
<1>5. AnnouncingInv'
  BY <1>1, <1>2, <1>3, <1>4 DEF AnnouncingInv, ByRequest
<1>6. TakenIsThere'
  BY <1>1, <1>4 DEF TakenInv, TakenIsThere
<1> QED
  BY <1>5, <1>6 DEF TakenInv

LEMMA NextTaken == TypeOK /\ InOrder /\ TakenInv /\ [Next]_vars => TakenInv'
<1> SUFFICES ASSUME TypeOK, InOrder, TakenInv, [Next]_vars PROVE TakenInv'
  OBVIOUS
<1> USE DEF runVars, schedVars, sendVars, envVars, SchedulerVars, takenVars
<1>1. ASSUME NEW stf \in Stfs, StfReceiverThread(stf) PROVE TakenInv'
  BY <1>1, TakenUnchanged DEF StfReceiverThread
<1>2. CASE DropUnscheduled
  BY <1>2, TakenUnchanged DEF DropUnscheduled, CountStf
<1>3. CASE \/ PreRun \/ PostRun \/ CountSending \/ StfDropThread
           \/ TakeSendRequest \/ FinishSending \/ UNCHANGED vars
           \/ \E tfb \in TfBuilders : connectTfBuilder(tfb) \/ disconnectTfBuilder(tfb)
  <2>1. UNCHANGED takenVars
    BY <1>3 DEF PreRun, PostRun, resetCounters, CountSending, StfDropThread, TakeSendRequest,
       FinishSending, connectTfBuilder, disconnectTfBuilder, vars
  <2> QED
    BY <2>1, TakenUnchanged
<1>4. CASE SchedulerSteps
  <2>1. CASE SchedulerAnswers \/ AnnouncementFails
    BY <2>1, TakenAnswers, TakenFails
  <2>2. CASE UNCHANGED takenVars
    BY <2>2, TakenUnchanged
  <2> QED
    BY <1>4, <2>1, <2>2 DEF SchedulerSteps, SchedulerDecides, SchedulerForgets, LoseRequest
<1> QED
  BY <1>1, <1>2, <1>3, <1>4, TakenSchedule, TakenAnnounced, TakenRequest, StepKinds
  DEF OtherStep

\* An STF that the scheduler counts as available can be asked for, unless its reply was
\* lost or a request for its id was handled; for any number of STFs and runs.
THEOREM TakenStaysThere == Spec => []TakenIsThere
<1> DEFINE Inv == TypeOK /\ InOrder /\ TakenInv
<1>1. Init => Inv
  BY InitType, InitOrder DEF Init, TakenInv, AnnouncingInv, TakenIsThere
<1>2. Inv /\ [Next]_vars => Inv'
  BY NextType, NextOrder, NextTaken
<1>3. Inv => TakenIsThere
  BY DEF TakenInv
<1> QED
  BY <1>1, <1>2, <1>3, PTL DEF Spec
=============================================================================

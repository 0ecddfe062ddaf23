---------------------- MODULE TfSchedulerStfInfoProofs ----------------------
(***************************************************************************)
(* Proofs about TfSchedulerStfInfo, for any finite set of StfSenders, any  *)
(* finite set of TF ids, any run numbers and any value of the parameters.  *)
(* Type correctness, and four inductive invariants on top of it:           *)
(*   MapInv      no pending TF at or below the highest completed id can    *)
(*               still become complete;                                    *)
(*   QueueInv    complete TFs are therefore queued in order, and no queued *)
(*               TF is of a run that has not begun;                        *)
(*   HandledInv  what was handled is recorded, or lies where the recorders *)
(*               are blind, and what is recorded is not pending;           *)
(*   AccountInv  each StfSender's last announcement is pending or handled. *)
(***************************************************************************)
EXTENDS TfSchedulerStfInfo, FiniteSetTheorems, SequenceTheorems, TLAPS

-----------------------------------------------------------------------------
(***************************************************************************)
(* Lemmas about the operators.                                             *)
(***************************************************************************)

\* The ascending enumeration of a set of ids is a nonempty sequence of them,
\* and its last element is the largest one.
LEMMA AscendingIsSeq ==
  ASSUME NEW S \in SUBSET TfIds, S # {}, NEW order \in Ascending(S)
  PROVE  /\ order \in Seq(TfIds)
         /\ Len(order) \in Nat \ {0}
         /\ DOMAIN order = 1 .. Len(order)
         /\ Members(order) = S
         /\ order[1] \in S /\ order[Len(order)] \in S
         /\ \A id \in S : id <= order[Len(order)]
<1>1. Cardinality(S) \in Nat /\ Cardinality(S) # 0
  BY FS_Subset, FS_CardinalityType, FS_EmptySet, ConstantsAssumption
<1>2. order \in [1 .. Cardinality(S) -> S] /\ Members(order) = S
  BY DEF Ascending
<1>3. order \in Seq(TfIds) /\ Len(order) = Cardinality(S) /\ DOMAIN order = 1 .. Len(order)
  BY <1>1, <1>2
<1>4. \A i \in 1 .. Len(order) : order[i] \in S /\ order[i] \in Nat
  BY <1>2, <1>3, ConstantsAssumption
<1>5. ASSUME NEW id \in S
      PROVE  id <= order[Len(order)]
  <2>1. PICK i \in 1 .. Len(order) : id = order[i]
    BY <1>2, <1>3 DEF Members
  <2>2. i < Len(order) => order[i] < order[Len(order)]
    BY <1>1, <1>3 DEF Ascending
  <2>3. order[i] \in Nat /\ order[Len(order)] \in Nat
    BY <1>1, <1>3, <1>4
  <2> QED
    BY <2>1, <2>2, <2>3, <1>1, <1>3
<1> QED
  BY <1>1, <1>2, <1>3, <1>4, <1>5

\* A one-element order, as the single drop requests use.
LEMMA SingletonOrder ==
  ASSUME NEW id \in TfIds
  PROVE  /\ <<id>> \in Seq(TfIds) /\ Len(<<id>>) = 1 /\ DOMAIN <<id>> = 1 .. Len(<<id>>)
         /\ Members(<<id>>) = {id}
BY DEF Members

\* Recording a nonempty sequence of ids keeps a recorder well formed.
LEMMA SetEventsType ==
  ASSUME NEW r \in Recorders(TfIds), NEW order \in Seq(TfIds), Len(order) # 0
  PROVE  SetEvents(r, order) \in Recorders(TfIds)
<1>1. order[1] \in TfIds /\ {order[i] : i \in DOMAIN order} \subseteq TfIds
  BY LenProperties
<1> QED
  BY <1>1 DEF SetEvents, FirstEvent, Recorders

\* Pushing a sequence of elements keeps a queue a sequence of them.
LEMMA PushAllType ==
  ASSUME NEW T, NEW queue \in Seq(T), NEW elements \in Seq(T), NEW queueRunning \in BOOLEAN
  PROVE  PushAll(queue, queueRunning, elements) \in Seq(T)
BY ConcatProperties DEF PushAll

\* A fresh run starts from well-formed values.
LEMMA RunStateType ==
  ASSUME TypeOK, NEW run \in Runs
  PROVE  /\ MapOf(run) \in [TfIds -> SUBSET StfSenders]
         /\ DroppedOf(run) \in Recorders(TfIds)
         /\ BuiltOf(run) \in Recorders(TfIds)
         /\ LastStfIdOf(run) \in TfIds \cup {0}
         /\ MaxCompletedTfIdOf(run) \in TfIds \cup {0}
BY DEF TypeOK, MapOf, DroppedOf, BuiltOf, LastStfIdOf, MaxCompletedTfIdOf, IsNewRun, NoStfs,
       EmptyRecorder, Recorders

\* What a drop request does to the types.
LEMMA RequestDropAllType ==
  ASSUME TypeOK, NEW run \in Runs, NEW order \in Seq(TfIds), Len(order) # 0,
         NEW map \in [TfIds -> SUBSET StfSenders], NEW dropped \in Recorders(TfIds),
         RequestDropAll(run, order, map, dropped)
  PROVE  /\ mDroppedStfs' \in Recorders(TfIds)
         /\ mStfInfoMap' \in [TfIds -> SUBSET StfSenders]
         /\ mDropQueue' \in Seq(DroppedTfs)
         /\ handled' \subseteq Runs \X TfIds
<1>1. mDroppedStfs' \in Recorders(TfIds)
  BY SetEventsType DEF RequestDropAll
<1>2. mStfInfoMap' \in [TfIds -> SUBSET StfSenders]
  BY DEF RequestDropAll
<1>3. DOMAIN order = 1 .. Len(order) /\ Len(order) \in Nat /\ \A i \in DOMAIN order : order[i] \in TfIds
  BY LenProperties
<1>4. [i \in DOMAIN order |-> [run |-> run, id |-> order[i]]] \in Seq(DroppedTfs)
  BY <1>3 DEF DroppedTfs
<1>5. mDropQueue' \in Seq(DroppedTfs)
  <2>1. mDropQueue \in Seq(DroppedTfs) /\ DropQueueRunning \in BOOLEAN
    BY DEF TypeOK, DropQueueRunning
  <2> QED
    BY <1>4, <2>1, PushAllType DEF RequestDropAll
<1>6. handled' \subseteq Runs \X TfIds
  BY <1>3 DEF RequestDropAll, TypeOK, Members
<1> QED
  BY <1>1, <1>2, <1>5, <1>6

\* The same for the drop of a single TF.
LEMMA RequestDropOneType ==
  ASSUME TypeOK, NEW run \in Runs, NEW id \in TfIds,
         NEW map \in [TfIds -> SUBSET StfSenders], NEW dropped \in Recorders(TfIds),
         RequestDropAll(run, <<id>>, map, dropped)
  PROVE  /\ mDroppedStfs' \in Recorders(TfIds)
         /\ mStfInfoMap' \in [TfIds -> SUBSET StfSenders]
         /\ mDropQueue' \in Seq(DroppedTfs)
         /\ handled' \subseteq Runs \X TfIds
<1> DEFINE order == <<id>>
<1>1. order \in Seq(TfIds) /\ Len(order) # 0
  OBVIOUS
<1>2. RequestDropAll(run, order, map, dropped)
  OBVIOUS
<1> HIDE DEF order
<1> QED
  BY <1>1, <1>2, RequestDropAllType

\* What handing TFs to the scheduling thread does to the types.
LEMMA QueueForSchedulingType ==
  ASSUME TypeOK, NEW run \in Runs, NEW S \in SUBSET TfIds, S # {}, NEW order \in Ascending(S),
         NEW map \in [TfIds -> SUBSET StfSenders], \A id \in S : map[id] # {},
         NEW built \in Recorders(TfIds), NEW maxCompleted \in TfIds \cup {0},
         QueueForScheduling(run, order, map, built, maxCompleted)
  PROVE  /\ mBuiltTfs' \in Recorders(TfIds)
         /\ mStfInfoMap' \in [TfIds -> SUBSET StfSenders]
         /\ mMaxCompletedTfId' \in TfIds \cup {0}
         /\ mCompleteStfsInfoQueue' \in Seq(QueuedTfs)
         /\ handled' \subseteq Runs \X TfIds
<1>1. /\ order \in Seq(TfIds) /\ Len(order) \in Nat \ {0} /\ DOMAIN order = 1 .. Len(order)
      /\ Members(order) = S /\ order[Len(order)] \in S
  BY AscendingIsSeq
<1>2. mBuiltTfs' \in Recorders(TfIds)
  BY <1>1, SetEventsType DEF QueueForScheduling
<1>3. mStfInfoMap' \in [TfIds -> SUBSET StfSenders]
  BY DEF QueueForScheduling
<1>4. mMaxCompletedTfId' \in TfIds \cup {0}
  BY <1>1 DEF QueueForScheduling
<1>5. \A i \in DOMAIN order : order[i] \in TfIds /\ map[order[i]] \in (SUBSET StfSenders) \ {{}}
  BY <1>1 DEF Members
<1>6. [i \in DOMAIN order |-> [run |-> run, id |-> order[i], stfs |-> map[order[i]]]]
        \in Seq(QueuedTfs)
  BY <1>1, <1>5 DEF QueuedTfs
<1>7. mCompleteStfsInfoQueue' \in Seq(QueuedTfs)
  <2>1. mCompleteStfsInfoQueue \in Seq(QueuedTfs) /\ CompleteQueueRunning \in BOOLEAN
    BY DEF TypeOK, CompleteQueueRunning
  <2> QED
    BY <1>6, <2>1, PushAllType DEF QueueForScheduling
<1>8. handled' \subseteq Runs \X TfIds
  BY <1>1 DEF QueueForScheduling, TypeOK
<1> QED
  BY <1>2, <1>3, <1>4, <1>7, <1>8

-----------------------------------------------------------------------------
(***************************************************************************)
(* Type correctness.                                                       *)
(***************************************************************************)
LEMMA MapWithType ==
  ASSUME TypeOK, NEW s \in StfSenders, NEW id \in TfIds
  PROVE  /\ MapWith(s, id) \in [TfIds -> SUBSET StfSenders]
         /\ s \in MapWith(s, id)[id]
         /\ \A i \in TfIds \ {id} : MapWith(s, id)[i] = MapOf(senderRun[s])[i]
<1>1. senderRun[s] \in Runs
  BY DEF TypeOK
<1>2. MapOf(senderRun[s]) \in [TfIds -> SUBSET StfSenders]
  BY <1>1, RunStateType
<1> QED
  BY <1>2 DEF MapWith

LEMMA AddStfInfoType ==
  ASSUME TypeOK, NEW s \in StfSenders, NEW id \in TfIds, NEW level \in Levels,
         AddStfInfo(s, id, level)
  PROVE  TypeOK'
<1> DEFINE run == senderRun[s]
<1>1. /\ run \in Runs
      /\ MapOf(run) \in [TfIds -> SUBSET StfSenders]
      /\ DroppedOf(run) \in Recorders(TfIds)
      /\ BuiltOf(run) \in Recorders(TfIds)
      /\ LastStfIdOf(run) \in TfIds \cup {0}
      /\ MaxCompletedTfIdOf(run) \in TfIds \cup {0}
  <2>1. run \in Runs
    BY DEF TypeOK
  <2> QED
    BY <2>1, RunStateType
<1>2. ASSUME Announce(s, id, level)
      PROVE  /\ senderRun' \in [StfSenders -> Runs]
             /\ lastSent' \in [StfSenders -> TfIds \cup {0}]
             /\ mode' \in {"running", "stopping", "drop_stopped", "queues_stopped", "joined"}
             /\ mStfSenderInfoMap' \in [StfSenders -> Levels \cup {"none"}]
             /\ scheduling' \in Seq(QueuedTfs) /\ Len(scheduling') <= 1
  BY <1>2 DEF Announce, TypeOK
<1>3. CASE AddStfInfoOldRun(s, id, level)
  BY <1>2, <1>3 DEF AddStfInfoOldRun, TypeOK, runVars
<1>4. CASE AddStfInfoHandled(s, id, level)
  BY <1>2, <1>4 DEF AddStfInfoHandled, TypeOK, runVars
<1>5. CASE \E ok \in BOOLEAN : AddStfInfoRejected(s, id, level, ok)
  <2>1. PICK ok \in BOOLEAN : AddStfInfoRejected(s, id, level, ok)
    BY <1>5
  <2>2. /\ mDroppedStfs' \in Recorders(TfIds)
        /\ mStfInfoMap' \in [TfIds -> SUBSET StfSenders]
        /\ mDropQueue' \in Seq(DroppedTfs)
        /\ handled' \subseteq Runs \X TfIds
    <3>1. RequestDropAll(run, <<id>>, MapOf(run), DroppedOf(run))
      BY <2>1 DEF AddStfInfoRejected
    <3> HIDE DEF run
    <3> QED
      BY <3>1, <1>1, RequestDropOneType
  <2> QED
    BY <2>1, <2>2, <1>1, <1>2 DEF AddStfInfoRejected, TypeOK
<1>6. ASSUME Accept(s, id, level)
      PROVE  /\ mRunNumber' \in Runs
             /\ mLastStfId' \in TfIds \cup {0}
             /\ mDroppedStfs' \in Recorders(TfIds)
             /\ mDropQueue' \in Seq(DroppedTfs)
  BY <1>1, <1>6 DEF Accept, TypeOK
<1>7. CASE AddStfInfoPending(s, id, level)
  BY <1>1, <1>2, <1>6, <1>7, MapWithType DEF AddStfInfoPending, Accept, TypeOK
<1>8. CASE AddStfInfoComplete(s, id, level)
  <2> DEFINE S == {i \in Pending(MapWith(s, id)) : i <= id}
  <2>1. PICK order \in Ascending(S) :
          QueueForScheduling(run, order, MapWith(s, id), BuiltOf(run), MaxCompletedTfIdOf(run))
    BY <1>8 DEF AddStfInfoComplete
  <2>2. S \in SUBSET TfIds /\ S # {} /\ \A i \in S : MapWith(s, id)[i] # {}
    BY MapWithType, ConstantsAssumption DEF Pending
  <2>3. /\ mBuiltTfs' \in Recorders(TfIds)
        /\ mStfInfoMap' \in [TfIds -> SUBSET StfSenders]
        /\ mMaxCompletedTfId' \in TfIds \cup {0}
        /\ mCompleteStfsInfoQueue' \in Seq(QueuedTfs)
        /\ handled' \subseteq Runs \X TfIds
    <3> HIDE DEF S
    <3> QED
      BY <2>1, <2>2, <1>1, MapWithType, QueueForSchedulingType
  <2> QED
    BY <2>3, <1>2, <1>6, <1>8 DEF AddStfInfoComplete, Accept, TypeOK
<1> QED
  BY <1>3, <1>4, <1>5, <1>7, <1>8 DEF AddStfInfo

LEMMA StaleCleanupType ==
  ASSUME TypeOK, NEW bound \in TfIds, StaleCleanup(bound)
  PROVE  TypeOK'
<1> DEFINE S == {id \in Pending(mStfInfoMap) : id <= bound}
<1>1. PICK order \in Ascending(S) :
        QueueForScheduling(mRunNumber, order, mStfInfoMap, mBuiltTfs, mMaxCompletedTfId)
  BY DEF StaleCleanup
<1>2. S \in SUBSET TfIds /\ S # {} /\ \A i \in S : mStfInfoMap[i] # {}
  BY DEF StaleCleanup, Pending
<1>3. /\ mBuiltTfs' \in Recorders(TfIds)
      /\ mStfInfoMap' \in [TfIds -> SUBSET StfSenders]
      /\ mMaxCompletedTfId' \in TfIds \cup {0}
      /\ mCompleteStfsInfoQueue' \in Seq(QueuedTfs)
      /\ handled' \subseteq Runs \X TfIds
  <2>1. /\ mRunNumber \in Runs /\ mStfInfoMap \in [TfIds -> SUBSET StfSenders]
        /\ mBuiltTfs \in Recorders(TfIds) /\ mMaxCompletedTfId \in TfIds \cup {0}
    BY DEF TypeOK
  <2> HIDE DEF S
  <2> QED
    BY <1>1, <1>2, <2>1, QueueForSchedulingType
<1> QED
  BY <1>3 DEF StaleCleanup, TypeOK, senderVars

LEMMA HighWatermarkDropType ==
  ASSUME TypeOK, NEW s \in StfSenders, NEW bound \in TfIds, HighWatermarkDrop(s, bound)
  PROVE  TypeOK'
<1>1. PICK order \in Ascending(WatermarkVictims(s, bound)) :
        RequestDropAll(mRunNumber, order, mStfInfoMap, mDroppedStfs)
  BY DEF HighWatermarkDrop
<1>2. order \in Seq(TfIds) /\ Len(order) # 0
  BY <1>1, AscendingIsSeq DEF HighWatermarkDrop, WatermarkVictims, Pending
<1>3. /\ mDroppedStfs' \in Recorders(TfIds)
      /\ mStfInfoMap' \in [TfIds -> SUBSET StfSenders]
      /\ mDropQueue' \in Seq(DroppedTfs)
      /\ handled' \subseteq Runs \X TfIds
  <2>1. /\ mRunNumber \in Runs /\ mStfInfoMap \in [TfIds -> SUBSET StfSenders]
        /\ mDroppedStfs \in Recorders(TfIds)
    BY DEF TypeOK
  <2> QED
    BY <1>1, <1>2, <2>1, RequestDropAllType
<1> QED
  BY <1>3 DEF HighWatermarkDrop, TypeOK, senderVars, runVars

LEMMA SchedulingDropType ==
  ASSUME TypeOK, SchedulingDrop
  PROVE  TypeOK'
<1>1. scheduling[1] \in QueuedTfs
  BY DEF SchedulingDrop, TypeOK
<1>2. scheduling[1].run \in Runs /\ scheduling[1].id \in TfIds
  BY <1>1 DEF QueuedTfs
<1>3. /\ mDroppedStfs' \in Recorders(TfIds)
      /\ mStfInfoMap' \in [TfIds -> SUBSET StfSenders]
      /\ mDropQueue' \in Seq(DroppedTfs)
      /\ handled' \subseteq Runs \X TfIds
  <2>1. mStfInfoMap \in [TfIds -> SUBSET StfSenders] /\ mDroppedStfs \in Recorders(TfIds)
    BY DEF TypeOK
  <2> QED
    BY <1>2, <2>1, RequestDropOneType DEF SchedulingDrop
<1> QED
  BY <1>3, EmptySeq DEF SchedulingDrop, TypeOK, senderVars, runVars

LEMMA NextType == TypeOK /\ [Next]_vars => TypeOK'
<1> SUFFICES ASSUME TypeOK, [Next]_vars
             PROVE  TypeOK'
  OBVIOUS
<1>1. CASE \E s \in StfSenders, run \in Runs : StartRun(s, run)
  BY <1>1 DEF StartRun, TypeOK, runVars, queueVars
<1>2. CASE \E s \in StfSenders, id \in TfIds, level \in Levels : AddStfInfo(s, id, level)
  BY <1>2, AddStfInfoType
<1>3. CASE \E bound \in TfIds : StaleCleanup(bound)
  BY <1>3, StaleCleanupType
<1>4. CASE HighWatermarkScan
  BY <1>4 DEF HighWatermarkScan, TypeOK, senderVars, runVars, queueVars
<1>5. CASE \E s \in StfSenders, bound \in TfIds : HighWatermarkDrop(s, bound)
  BY <1>5, HighWatermarkDropType
<1>6. CASE SchedulingPop
  <2>1. Head(mCompleteStfsInfoQueue) \in QueuedTfs
        /\ Tail(mCompleteStfsInfoQueue) \in Seq(QueuedTfs)
    BY <1>6, HeadTailProperties DEF SchedulingPop, TypeOK
  <2> QED
    BY <1>6, <2>1 DEF SchedulingPop, TypeOK, senderVars, runVars
<1>7. CASE SchedulingBuild
  BY <1>7, EmptySeq DEF SchedulingBuild, TypeOK, senderVars, runVars
<1>8. CASE SchedulingDrop
  BY <1>8, SchedulingDropType
<1>9. CASE DropStfs
  <2>1. Tail(mDropQueue) \in Seq(DroppedTfs)
    BY <1>9, HeadTailProperties DEF DropStfs, TypeOK
  <2> QED
    BY <1>9, <2>1 DEF DropStfs, TypeOK, senderVars, runVars
<1>10. CASE StopStep
  BY <1>10 DEF StopStep, Stop, NoStfs, TypeOK, senderVars, runVars, queueVars
<1>11. CASE UNCHANGED vars
  BY <1>11 DEF vars, TypeOK, senderVars, runVars, queueVars
<1> QED
  BY <1>1, <1>2, <1>3, <1>4, <1>5, <1>6, <1>7, <1>8, <1>9, <1>10, <1>11 DEF Next

\* The state of the scheduler's STF bookkeeping is always well formed: every
\* pending and queued TF is a known id with the StfSenders that announced it,
\* and the scheduling thread holds at most one TF.
THEOREM TypeCorrect == Spec => []TypeOK
<1>1. Init => TypeOK
  BY EmptySeq, ConstantsAssumption DEF Init, TypeOK, NoStfs, EmptyRecorder, Recorders
<1> QED
  BY <1>1, NextType, PTL DEF Spec
-----------------------------------------------------------------------------
\* A TF with the STFs of all StfSenders does not stay in the pending map.
NoFullEntry == \A id \in TfIds : mStfInfoMap[id] # StfSenders

\* A StfSender whose STF is pending is past it.
MembersArePast == \A id \in TfIds : \A s \in mStfInfoMap[id] : IsPast(s, id)

\* Some StfSender announced the highest completed id itself.
CompletedIsPast == mMaxCompletedTfId # 0 => \E s \in StfSenders : IsPast(s, mMaxCompletedTfId)

MapInv ==
  /\ NoFullEntry
  /\ MembersArePast
  /\ CompletedIsPast
  /\ PendingBelowCompletedIsHopeless

\* The queued TFs of the current run are not above the highest completed id,
\* and no queued TF belongs to a later run.
QueuedNotAboveCompleted ==
  \A i \in DOMAIN Queued :
    /\ Queued[i].run <= mRunNumber
    /\ Queued[i].run = mRunNumber => Queued[i].id <= mMaxCompletedTfId

QueueInv == QueuedNotAboveCompleted /\ CompleteTfsInOrder

-----------------------------------------------------------------------------
(***************************************************************************)
(* StfSenders only move forward.                                           *)
(***************************************************************************)
LEMMA SenderProgress ==
  ASSUME TypeOK, [Next]_vars, NEW s \in StfSenders
  PROVE  \/ senderRun'[s] > senderRun[s]
         \/ senderRun'[s] = senderRun[s] /\ lastSent'[s] >= lastSent[s]
<1>0. senderRun[s] \in Nat /\ lastSent[s] \in Nat
  BY ConstantsAssumption DEF TypeOK
<1>1. CASE \E t \in StfSenders, run \in Runs : StartRun(t, run)
  BY <1>0, <1>1 DEF StartRun, TypeOK
<1>2. CASE \E t \in StfSenders, id \in TfIds, level \in Levels : AddStfInfo(t, id, level)
  <2>1. PICK t \in StfSenders, id \in TfIds, level \in Levels : AddStfInfo(t, id, level)
    BY <1>2
  <2>2. Announce(t, id, level)
    BY <2>1 DEF AddStfInfo, AddStfInfoOldRun, AddStfInfoHandled, AddStfInfoRejected,
                AddStfInfoPending, AddStfInfoComplete, Accept
  <2>3. id \in Nat
    BY ConstantsAssumption
  <2> QED
    BY <1>0, <2>2, <2>3 DEF Announce, TypeOK
<1>3. CASE UNCHANGED senderVars
  BY <1>0, <1>3 DEF senderVars
<1> QED
  BY <1>1, <1>2, <1>3 DEF Next, StaleCleanup, HighWatermarkScan, HighWatermarkDrop,
     SchedulingPop, SchedulingBuild, SchedulingDrop, DropStfs, StopStep, vars

LEMMA PastMonotone ==
  ASSUME TypeOK, TypeOK', [Next]_vars, mRunNumber' = mRunNumber, NEW s \in StfSenders,
         NEW id \in Nat, IsPast(s, id)
  PROVE  IsPast(s, id)'
<1>1. /\ senderRun[s] \in Nat /\ lastSent[s] \in Nat /\ mRunNumber \in Nat
      /\ senderRun'[s] \in Nat /\ lastSent'[s] \in Nat
  BY ConstantsAssumption DEF TypeOK
<1>2. \/ senderRun'[s] > senderRun[s]
      \/ senderRun'[s] = senderRun[s] /\ lastSent'[s] >= lastSent[s]
  BY SenderProgress
<1> QED
  BY <1>1, <1>2 DEF IsPast

\* Whoever is past an id is past the smaller ones.
LEMMA PastDownward ==
  ASSUME TypeOK, NEW s \in StfSenders, NEW id \in Nat, NEW smaller \in Nat, smaller <= id,
         IsPast(s, id)
  PROVE  IsPast(s, smaller)
<1>1. senderRun[s] \in Nat /\ lastSent[s] \in Nat /\ mRunNumber \in Nat
  BY ConstantsAssumption DEF TypeOK
<1> QED
  BY <1>1 DEF IsPast

-----------------------------------------------------------------------------
(***************************************************************************)
(* The pending map.                                                        *)
(***************************************************************************)

\* A step that takes entries out of the map and leaves the completed id alone.
LEMMA MapInvShrink ==
  ASSUME TypeOK, TypeOK', [Next]_vars, MapInv,
         mRunNumber' = mRunNumber, mMaxCompletedTfId' = mMaxCompletedTfId,
         \A id \in TfIds : mStfInfoMap'[id] = mStfInfoMap[id] \/ mStfInfoMap'[id] = {}
  PROVE  MapInv'
<1>1. mMaxCompletedTfId \in Nat /\ TfIds \subseteq Nat
  BY ConstantsAssumption DEF TypeOK
<1>2. NoFullEntry'
  BY ConstantsAssumption DEF MapInv, NoFullEntry
<1>3. MembersArePast'
  BY <1>1, PastMonotone DEF MapInv, MembersArePast, TypeOK
<1>4. CompletedIsPast'
  BY <1>1, PastMonotone DEF MapInv, CompletedIsPast
<1>5. PendingBelowCompletedIsHopeless'
  BY <1>1, PastMonotone DEF MapInv, PendingBelowCompletedIsHopeless, Pending
<1> QED
  BY <1>2, <1>3, <1>4, <1>5 DEF MapInv

\* The state after reset().
LEMMA MapInvReset ==
  ASSUME TypeOK', mMaxCompletedTfId' = 0, \A id \in TfIds : mStfInfoMap'[id] = {}
  PROVE  MapInv'
BY ConstantsAssumption
   DEF MapInv, NoFullEntry, MembersArePast, CompletedIsPast, PendingBelowCompletedIsHopeless,
       Pending

\* The heart of the argument: an STF accepted for a TF at or below the highest
\* completed id does not complete it, because a StfSender that is past the TF
\* is missing and cannot be the one that announces now.
LEMMA LateStfLeavesATfHopeless ==
  ASSUME TypeOK, MapInv, NEW s \in StfSenders, NEW id \in TfIds, NEW level \in Levels,
         Accept(s, id, level), id <= MaxCompletedTfIdOf(senderRun[s])
  PROVE  /\ senderRun[s] = mRunNumber
         /\ \E w \in StfSenders \ MapWith(s, id)[id] : IsPast(w, id)
<1>1. /\ senderRun[s] \in Nat /\ lastSent[s] \in Nat /\ mRunNumber \in Nat
      /\ mMaxCompletedTfId \in Nat /\ id \in Nat \ {0}
  BY ConstantsAssumption DEF TypeOK
<1>2. senderRun[s] = mRunNumber /\ id <= mMaxCompletedTfId /\ ~IsNewRun(senderRun[s])
  BY <1>1 DEF Accept, MaxCompletedTfIdOf, IsNewRun
<1>3. MapWith(s, id)[id] = mStfInfoMap[id] \cup {s}
  BY <1>2 DEF MapWith, MapOf, TypeOK
<1>4. ~IsPast(s, id)
  BY <1>1, <1>2 DEF IsPast, Accept, Announce
<1>5. CASE mStfInfoMap[id] # {}
  <2>1. PICK w \in StfSenders \ mStfInfoMap[id] : IsPast(w, id)
    BY <1>2, <1>5 DEF MapInv, PendingBelowCompletedIsHopeless, Pending
  <2> QED
    BY <2>1, <1>2, <1>3, <1>4
<1>6. CASE mStfInfoMap[id] = {}
  <2>1. PICK w \in StfSenders : IsPast(w, mMaxCompletedTfId)
    BY <1>1, <1>2 DEF MapInv, CompletedIsPast
  <2>2. IsPast(w, id)
    BY <2>1, <1>1, <1>2, PastDownward
  <2> QED
    BY <2>2, <1>2, <1>3, <1>4, <1>6
<1> QED
  BY <1>5, <1>6

\* The StfSender that announces an STF is past it afterwards.
LEMMA AnnouncedIsPast ==
  ASSUME TypeOK, NEW s \in StfSenders, NEW id \in TfIds, NEW level \in Levels,
         Accept(s, id, level)
  PROVE  IsPast(s, id)'
<1>1. id \in Nat
  BY ConstantsAssumption
<1> QED
  BY <1>1 DEF Accept, Announce, IsPast, TypeOK

\* The pending map after reset(), if it ran, and after the announcement: what
\* MapInv says of it, with the primed senders and run.
LEMMA AcceptedMap ==
  ASSUME TypeOK, TypeOK', [Next]_vars, MapInv,
         NEW s \in StfSenders, NEW id \in TfIds, NEW level \in Levels, Accept(s, id, level)
  PROVE  /\ \A i \in TfIds : \A t \in MapWith(s, id)[i] : IsPast(t, i)'
         /\ \A i \in TfIds \ {id} : MapWith(s, id)[i] # StfSenders
         /\ \A i \in TfIds :
              (MapWith(s, id)[i] # {} /\ i <= MaxCompletedTfIdOf(senderRun[s]))
                => \E w \in StfSenders \ MapWith(s, id)[i] : IsPast(w, i)'
         /\ \A m \in Nat \ {0} :
              m = MaxCompletedTfIdOf(senderRun[s]) => \E t \in StfSenders : IsPast(t, m)'
<1> DEFINE run == senderRun[s]
<1>1. /\ TfIds \subseteq Nat \ {0} /\ run \in Nat /\ mRunNumber \in Nat
      /\ mMaxCompletedTfId \in Nat /\ run >= mRunNumber /\ mRunNumber' = run
  BY ConstantsAssumption DEF TypeOK, Accept
<1>2. IsPast(s, id)'
  BY AnnouncedIsPast
<1>3. /\ s \in MapWith(s, id)[id]
      /\ \A i \in TfIds \ {id} : MapWith(s, id)[i] = MapOf(run)[i]
  BY MapWithType
<1>4. CASE IsNewRun(run)
  <2>1. /\ \A i \in TfIds \ {id} : MapWith(s, id)[i] = {}
        /\ MapWith(s, id)[id] = {s}
        /\ MaxCompletedTfIdOf(run) = 0
    BY <1>4, <1>3 DEF MapWith, MapOf, NoStfs, MaxCompletedTfIdOf
  <2>2. \A i \in TfIds : \A t \in MapWith(s, id)[i] : IsPast(t, i)'
    BY <2>1, <1>2
  <2>3. \A i \in TfIds : ~(i <= MaxCompletedTfIdOf(run))
    BY <2>1, <1>1
  <2> QED
    BY <2>1, <2>2, <2>3, ConstantsAssumption
<1>5. CASE ~IsNewRun(run)
  <2>1. run = mRunNumber
    BY <1>1, <1>5 DEF IsNewRun
  <2>2. /\ \A i \in TfIds \ {id} : MapWith(s, id)[i] = mStfInfoMap[i]
        /\ MapWith(s, id)[id] = mStfInfoMap[id] \cup {s}
        /\ MaxCompletedTfIdOf(run) = mMaxCompletedTfId
    BY <1>5, <1>3 DEF MapWith, MapOf, MaxCompletedTfIdOf, TypeOK
  <2>3. \A t \in StfSenders, i \in Nat : IsPast(t, i) => IsPast(t, i)'
    BY <2>1, <1>1, PastMonotone
  <2>4. \A i \in TfIds : \A t \in MapWith(s, id)[i] : IsPast(t, i)'
    BY <2>2, <2>3, <1>1, <1>2 DEF MapInv, MembersArePast, TypeOK
  <2>5. \A i \in TfIds \ {id} : MapWith(s, id)[i] # StfSenders
    BY <2>2 DEF MapInv, NoFullEntry
  <2>6. ASSUME NEW i \in TfIds, MapWith(s, id)[i] # {}, i <= MaxCompletedTfIdOf(run)
        PROVE  \E w \in StfSenders \ MapWith(s, id)[i] : IsPast(w, i)'
    <3>1. CASE i = id
      BY <3>1, <2>3, <2>6, <1>1, LateStfLeavesATfHopeless
    <3>2. CASE i # id
      BY <3>2, <2>2, <2>3, <2>6, <1>1 DEF MapInv, PendingBelowCompletedIsHopeless, Pending
    <3> QED
      BY <3>1, <3>2
  <2>7. ASSUME NEW m \in Nat \ {0}, m = MaxCompletedTfIdOf(run)
        PROVE  \E t \in StfSenders : IsPast(t, m)'
    BY <2>2, <2>3, <2>7 DEF MapInv, CompletedIsPast
  <2> QED
    BY <2>4, <2>5, <2>6, <2>7
<1> QED
  BY <1>4, <1>5

\* Handing a set of TFs to the scheduling thread: what leaves the map, and
\* where the highest completed id goes.
LEMMA QueueForSchedulingEffect ==
  ASSUME NEW run \in Runs, NEW S \in SUBSET TfIds, S # {}, NEW order \in Ascending(S),
         NEW map \in [TfIds -> SUBSET StfSenders],
         NEW built \in Recorders(TfIds), NEW maxCompleted \in TfIds \cup {0},
         QueueForScheduling(run, order, map, built, maxCompleted)
  PROVE  /\ \A id \in S : mStfInfoMap'[id] = {} /\ id <= mMaxCompletedTfId'
         /\ \A id \in TfIds \ S : mStfInfoMap'[id] = map[id]
         /\ mMaxCompletedTfId' >= maxCompleted
         /\ mMaxCompletedTfId' = maxCompleted \/ mMaxCompletedTfId' \in S
<1>1. /\ Members(order) = S /\ order[Len(order)] \in S
      /\ \A id \in S : id <= order[Len(order)]
  BY AscendingIsSeq
<1>2. order[Len(order)] \in Nat /\ maxCompleted \in Nat /\ S \subseteq Nat
  BY <1>1, ConstantsAssumption
<1> QED
  BY <1>1, <1>2 DEF QueueForScheduling

LEMMA MapInvAccept ==
  ASSUME TypeOK, TypeOK', [Next]_vars, MapInv,
         NEW s \in StfSenders, NEW id \in TfIds, NEW level \in Levels,
         AddStfInfoPending(s, id, level) \/ AddStfInfoComplete(s, id, level)
  PROVE  MapInv'
<1> DEFINE map == MapWith(s, id)
           max == MaxCompletedTfIdOf(senderRun[s])
<1>1. Accept(s, id, level) /\ senderRun[s] \in Runs /\ TfIds \subseteq Nat \ {0}
  BY ConstantsAssumption DEF AddStfInfoPending, AddStfInfoComplete, TypeOK
<1>2. /\ map \in [TfIds -> SUBSET StfSenders] /\ s \in map[id]
      /\ max \in TfIds \cup {0}
      /\ BuiltOf(senderRun[s]) \in Recorders(TfIds)
  BY <1>1, MapWithType, RunStateType
<1>3. /\ \A i \in TfIds : \A t \in map[i] : IsPast(t, i)'
      /\ \A i \in TfIds \ {id} : map[i] # StfSenders
      /\ \A i \in TfIds :
           (map[i] # {} /\ i <= max) => \E w \in StfSenders \ map[i] : IsPast(w, i)'
      /\ \A m \in Nat \ {0} : m = max => \E t \in StfSenders : IsPast(t, m)'
  BY <1>1, AcceptedMap
<1>4. CASE AddStfInfoPending(s, id, level)
  <2>1. mStfInfoMap' = map /\ map[id] # StfSenders /\ mMaxCompletedTfId' = max
    BY <1>4 DEF AddStfInfoPending
  <2> HIDE DEF map, max
  <2>2. NoFullEntry' /\ MembersArePast' /\ PendingBelowCompletedIsHopeless'
    BY <2>1, <1>2, <1>3
       DEF NoFullEntry, MembersArePast, PendingBelowCompletedIsHopeless, Pending
  <2>3. CompletedIsPast'
    BY <2>1, <1>1, <1>2, <1>3 DEF CompletedIsPast
  <2> QED
    BY <2>2, <2>3 DEF MapInv
<1>5. CASE AddStfInfoComplete(s, id, level)
  <2> DEFINE S == {i \in Pending(map) : i <= id}
  <2>1. PICK order \in Ascending(S) :
          QueueForScheduling(senderRun[s], order, map, BuiltOf(senderRun[s]), max)
    BY <1>5 DEF AddStfInfoComplete
  <2>2. S \in SUBSET TfIds /\ id \in S /\ \A i \in S : i <= id /\ map[i] # {}
    BY <1>1, <1>2 DEF Pending
  <2>3. \A i \in TfIds \ S : map[i] = {} \/ i > id
    BY <1>1 DEF Pending
  <2> HIDE DEF S, map, max
  <2>4. /\ \A i \in S : mStfInfoMap'[i] = {} /\ i <= mMaxCompletedTfId'
        /\ \A i \in TfIds \ S : mStfInfoMap'[i] = map[i]
        /\ mMaxCompletedTfId' >= max
        /\ mMaxCompletedTfId' = max \/ mMaxCompletedTfId' \in S
    BY <2>1, <2>2, <1>1, <1>2, QueueForSchedulingEffect
  <2>5. NoFullEntry'
    BY <2>2, <2>4, <1>3, ConstantsAssumption DEF NoFullEntry
  <2>6. MembersArePast'
    BY <2>4, <1>3 DEF MembersArePast
  <2>7. CompletedIsPast'
    <3>1. CASE mMaxCompletedTfId' = max
      BY <3>1, <1>1, <1>2, <1>3 DEF CompletedIsPast
    <3>2. CASE mMaxCompletedTfId' \in S
      <4>1. PICK m \in S : m = mMaxCompletedTfId'
        BY <3>2
      <4>2. PICK t \in StfSenders : IsPast(t, m)'
        BY <2>2, <1>2, <1>3
      <4> QED
        BY <4>1, <4>2 DEF CompletedIsPast, IsPast
    <3> QED
      BY <3>1, <3>2, <2>4
  <2>8. PendingBelowCompletedIsHopeless'
    <3>1. SUFFICES ASSUME NEW i \in TfIds, mStfInfoMap'[i] # {}, i <= mMaxCompletedTfId'
                   PROVE  \E w \in StfSenders \ mStfInfoMap'[i] : IsPast(w, i)'
      BY DEF PendingBelowCompletedIsHopeless, Pending
    <3>2. i \notin S /\ mStfInfoMap'[i] = map[i] /\ map[i] # {} /\ i > id
      BY <3>1, <2>3, <2>4
    <3>3. i <= max
      <4>1. CASE mMaxCompletedTfId' \in S
        <5>1. PICK m \in S : m = mMaxCompletedTfId'
          BY <4>1
        <5>2. m \in Nat /\ i \in Nat /\ id \in Nat /\ m <= id /\ i <= m /\ i > id
          BY <5>1, <3>1, <3>2, <2>2, <1>1
        <5> QED
          BY <5>2
      <4> QED
        BY <4>1, <3>1, <2>4
    <3> QED
      BY <3>2, <3>3, <1>3
  <2> QED
    BY <2>5, <2>6, <2>7, <2>8 DEF MapInv
<1> QED
  BY <1>4, <1>5

LEMMA MapInvStale ==
  ASSUME TypeOK, TypeOK', [Next]_vars, MapInv, NEW bound \in TfIds, StaleCleanup(bound)
  PROVE  MapInv'
<1> DEFINE S == {id \in Pending(mStfInfoMap) : id <= bound}
<1>1. PICK order \in Ascending(S) :
        QueueForScheduling(mRunNumber, order, mStfInfoMap, mBuiltTfs, mMaxCompletedTfId)
  BY DEF StaleCleanup
<1>2. /\ S \in SUBSET TfIds /\ S # {}
      /\ \A i \in S : i <= bound /\ mStfInfoMap[i] # {}
      /\ \A i \in TfIds \ S : mStfInfoMap[i] = {} \/ i > bound
      /\ TfIds \subseteq Nat \ {0}
  <2>1. S # {}
    BY Zenon DEF StaleCleanup
  <2>2. TfIds \subseteq Nat \ {0}
    BY ConstantsAssumption
  <2>3. \A i \in TfIds : i \in S <=> mStfInfoMap[i] # {} /\ i <= bound
    BY DEF Pending
  <2>4. S \in SUBSET TfIds
    BY DEF Pending
  <2>5. bound \in Nat /\ \A i \in TfIds : i \in Nat
    BY <2>2
  <2> HIDE DEF S
  <2>6. \A i \in S : i <= bound /\ mStfInfoMap[i] # {}
    BY <2>3, <2>4
  <2>7. \A i \in TfIds \ S : mStfInfoMap[i] = {} \/ i > bound
    BY <2>3, <2>5
  <2> QED
    BY <2>1, <2>2, <2>4, <2>6, <2>7
<1>3. /\ mRunNumber \in Runs /\ mStfInfoMap \in [TfIds -> SUBSET StfSenders]
      /\ mBuiltTfs \in Recorders(TfIds) /\ mMaxCompletedTfId \in TfIds \cup {0}
  BY DEF TypeOK
<1> HIDE DEF S
<1>4. /\ \A i \in S : mStfInfoMap'[i] = {} /\ i <= mMaxCompletedTfId'
      /\ \A i \in TfIds \ S : mStfInfoMap'[i] = mStfInfoMap[i]
      /\ mMaxCompletedTfId' >= mMaxCompletedTfId
      /\ mMaxCompletedTfId' = mMaxCompletedTfId \/ mMaxCompletedTfId' \in S
  <2>1. S \in SUBSET TfIds /\ S # {}
    BY <1>2
  <2> QED
    BY <1>1, <1>3, <2>1, QueueForSchedulingEffect
<1>5. \A t \in StfSenders, i \in Nat : IsPast(t, i) => IsPast(t, i)'
  BY PastMonotone DEF StaleCleanup
<1>6. NoFullEntry'
  BY <1>4, ConstantsAssumption DEF MapInv, NoFullEntry
<1>7. MembersArePast'
  BY <1>2, <1>3, <1>4, <1>5 DEF MapInv, MembersArePast
<1>8. CompletedIsPast'
  <2>1. CASE mMaxCompletedTfId' = mMaxCompletedTfId
    BY <2>1, <1>2, <1>3, <1>5 DEF MapInv, CompletedIsPast
  <2>2. CASE mMaxCompletedTfId' \in S
    <3>1. PICK m \in S : m = mMaxCompletedTfId'
      BY <2>2
    <3>2. PICK t \in StfSenders : IsPast(t, m)
      BY <1>2, <1>3 DEF MapInv, MembersArePast
    <3>3. IsPast(t, m)'
      BY <3>2, <1>2, <1>5
    <3> QED
      BY <3>1, <3>3 DEF CompletedIsPast, IsPast
  <2> QED
    BY <2>1, <2>2, <1>4
<1>9. PendingBelowCompletedIsHopeless'
  <2>1. SUFFICES ASSUME NEW i \in TfIds, mStfInfoMap'[i] # {}, i <= mMaxCompletedTfId'
                 PROVE  \E w \in StfSenders \ mStfInfoMap'[i] : IsPast(w, i)'
    BY DEF PendingBelowCompletedIsHopeless, Pending
  <2>2. i \notin S /\ mStfInfoMap'[i] = mStfInfoMap[i] /\ mStfInfoMap[i] # {} /\ i > bound
    BY <2>1, <1>2, <1>4
  <2>3. i <= mMaxCompletedTfId
    <3>1. CASE mMaxCompletedTfId' = mMaxCompletedTfId
      BY <3>1, <2>1
    <3>2. CASE mMaxCompletedTfId' \in S
      <4>1. PICK m \in S : m = mMaxCompletedTfId'
        BY <3>2
      <4>2. m \in Nat /\ i \in Nat /\ bound \in Nat /\ m <= bound /\ i <= m /\ i > bound
        BY <4>1, <2>1, <2>2, <1>2
      <4> QED
        BY <4>2
    <3> QED
      BY <3>1, <3>2, <1>4
  <2> QED
    BY <2>2, <2>3, <1>2, <1>5 DEF MapInv, PendingBelowCompletedIsHopeless, Pending
<1> QED
  BY <1>6, <1>7, <1>8, <1>9 DEF MapInv

\* A whole-TF drop outside of a run change.
LEMMA MapInvDrop ==
  ASSUME TypeOK, TypeOK', [Next]_vars, MapInv, NEW run, NEW order,
         RequestDropAll(run, order, mStfInfoMap, mDroppedStfs), UNCHANGED runVars
  PROVE  MapInv'
<1>1. \A id \in TfIds : mStfInfoMap'[id] = mStfInfoMap[id] \/ mStfInfoMap'[id] = {}
  BY DEF RequestDropAll
<1> QED
  BY <1>1, MapInvShrink DEF runVars

LEMMA MapInvRejected ==
  ASSUME TypeOK, TypeOK', [Next]_vars, MapInv, NEW s \in StfSenders, NEW id \in TfIds,
         NEW level \in Levels, NEW ok \in BOOLEAN, AddStfInfoRejected(s, id, level, ok)
  PROVE  MapInv'
<1> DEFINE run == senderRun[s]
<1>1. /\ run \in Nat /\ mRunNumber \in Nat /\ run >= mRunNumber
      /\ mRunNumber' = run /\ mMaxCompletedTfId' = MaxCompletedTfIdOf(run)
      /\ \A i \in TfIds : mStfInfoMap'[i] = MapOf(run)[i] \/ mStfInfoMap'[i] = {}
  BY ConstantsAssumption DEF AddStfInfoRejected, RequestDropAll, TypeOK
<1>2. CASE IsNewRun(run)
  BY <1>1, <1>2, MapInvReset DEF MapOf, NoStfs, MaxCompletedTfIdOf
<1>3. CASE ~IsNewRun(run)
  <2>1. mRunNumber' = mRunNumber
    BY <1>1, <1>3 DEF IsNewRun
  <2> QED
    BY <1>1, <1>3, <2>1, MapInvShrink DEF MapOf, MaxCompletedTfIdOf
<1> QED
  BY <1>2, <1>3

LEMMA MapInvNext ==
  ASSUME TypeOK, TypeOK', [Next]_vars, MapInv
  PROVE  MapInv'
<1>1. CASE UNCHANGED <<runVars, mStfInfoMap>>
  BY <1>1, MapInvShrink DEF runVars
<1>2. CASE \E s \in StfSenders, id \in TfIds, level \in Levels : AddStfInfo(s, id, level)
  <2>1. PICK s \in StfSenders, id \in TfIds, level \in Levels : AddStfInfo(s, id, level)
    BY <1>2
  <2>2. CASE AddStfInfoOldRun(s, id, level) \/ AddStfInfoHandled(s, id, level)
    BY <1>1, <2>2 DEF AddStfInfoOldRun, AddStfInfoHandled
  <2>3. CASE \E ok \in BOOLEAN : AddStfInfoRejected(s, id, level, ok)
    BY <2>3, MapInvRejected
  <2>4. CASE AddStfInfoPending(s, id, level) \/ AddStfInfoComplete(s, id, level)
    BY <2>4, MapInvAccept
  <2> QED
    BY <2>1, <2>2, <2>3, <2>4 DEF AddStfInfo
<1>3. CASE \E bound \in TfIds : StaleCleanup(bound)
  BY <1>3, MapInvStale
<1>4. CASE \E s \in StfSenders, bound \in TfIds : HighWatermarkDrop(s, bound)
  BY <1>4, MapInvDrop DEF HighWatermarkDrop
<1>5. CASE SchedulingDrop
  BY <1>5, MapInvDrop DEF SchedulingDrop
<1>6. CASE StopStep
  BY <1>6, MapInvShrink DEF StopStep, Stop, NoStfs, runVars
<1> QED
  BY <1>1, <1>2, <1>3, <1>4, <1>5, <1>6 DEF Next, StartRun, HighWatermarkScan,
     SchedulingPop, SchedulingBuild, DropStfs, vars

LEMMA MapInvInit == Init => MapInv
BY ConstantsAssumption DEF Init, MapInv, NoFullEntry, MembersArePast, CompletedIsPast,
   PendingBelowCompletedIsHopeless, Pending, NoStfs

\* A pending TF at or below the highest completed id never becomes complete, in
\* any run and whatever the other threads do: HighWatermarkThread may drop it.
THEOREM HopelessBelowCompleted == Spec => []PendingBelowCompletedIsHopeless
<1>1. Init => MapInv
  BY MapInvInit
<1>2. TypeOK /\ TypeOK' /\ MapInv /\ [Next]_vars => MapInv'
  BY MapInvNext
<1>3. MapInv => PendingBelowCompletedIsHopeless
  BY DEF MapInv
<1> QED
  BY <1>1, <1>2, <1>3, TypeCorrect, PTL DEF Spec

-----------------------------------------------------------------------------
(***************************************************************************)
(* The queue of the scheduling thread.                                     *)
(***************************************************************************)
LEMMA QueuedType ==
  ASSUME TypeOK
  PROVE  /\ Queued \in Seq(QueuedTfs)
         /\ Len(Queued) = Len(scheduling) + Len(mCompleteStfsInfoQueue)
         /\ DOMAIN Queued = 1 .. Len(Queued)
         /\ \A i \in DOMAIN Queued :
              Queued[i].run \in Nat /\ Queued[i].id \in Nat /\ Queued[i] \in QueuedTfs
<1>1. Queued \in Seq(QueuedTfs)
      /\ Len(Queued) = Len(scheduling) + Len(mCompleteStfsInfoQueue)
  BY ConcatProperties DEF TypeOK, Queued
<1>2. DOMAIN Queued = 1 .. Len(Queued) /\ \A i \in DOMAIN Queued : Queued[i] \in QueuedTfs
  BY <1>1, LenProperties, ElementOfSeq
<1> QED
  BY <1>1, <1>2, ConstantsAssumption DEF QueuedTfs

\* A step that keeps the queued TFs, and does not go back in runs or ids.
LEMMA QueueInvKeep ==
  ASSUME TypeOK, TypeOK', QueueInv, Queued' = Queued,
         mRunNumber' >= mRunNumber,
         mRunNumber' = mRunNumber => mMaxCompletedTfId' >= mMaxCompletedTfId
  PROVE  QueueInv'
<1>1. /\ mRunNumber \in Nat /\ mRunNumber' \in Nat
      /\ mMaxCompletedTfId \in Nat /\ mMaxCompletedTfId' \in Nat
  BY ConstantsAssumption DEF TypeOK
<1>2. QueuedNotAboveCompleted'
  <2>1. SUFFICES ASSUME NEW i \in DOMAIN Queued
                 PROVE  /\ Queued[i].run <= mRunNumber'
                        /\ Queued[i].run = mRunNumber' => Queued[i].id <= mMaxCompletedTfId'
    BY DEF QueuedNotAboveCompleted
  <2>2. Queued[i].run \in Nat /\ Queued[i].id \in Nat
    BY QueuedType
  <2> QED
    BY <2>2, <1>1 DEF QueueInv, QueuedNotAboveCompleted
<1>3. CompleteTfsInOrder'
  BY DEF QueueInv, CompleteTfsInOrder
<1> QED
  BY <1>2, <1>3 DEF QueueInv

\* The scheduling thread is done with the TF it holds.
LEMMA QueueInvDone ==
  ASSUME TypeOK, TypeOK', QueueInv, scheduling # <<>>, scheduling' = <<>>,
         UNCHANGED <<mCompleteStfsInfoQueue, runVars>>
  PROVE  QueueInv'
<1>1. \A i \in DOMAIN Queued' : i + 1 \in DOMAIN Queued /\ Queued'[i] = Queued[i + 1]
  BY ConcatProperties, EmptySeq DEF TypeOK, Queued
<1>2. \A i \in DOMAIN Queued' : i \in Nat
  <2>1. DOMAIN Queued' = 1 .. Len(Queued') /\ Len(Queued') \in Nat
    BY ConcatProperties, EmptySeq DEF TypeOK, Queued
  <2> QED
    BY <2>1
<1>3. QueuedNotAboveCompleted'
  BY <1>1, <1>2 DEF QueueInv, QueuedNotAboveCompleted, runVars
<1>4. CompleteTfsInOrder'
  <2>1. SUFFICES ASSUME NEW i \in DOMAIN Queued', NEW j \in DOMAIN Queued', i < j,
                        Queued'[i].run = Queued'[j].run, Queued'[j].stfs = StfSenders
                 PROVE  Queued'[i].id < Queued'[j].id
    BY DEF CompleteTfsInOrder
  <2>2. i + 1 < j + 1
    BY <2>1, <1>2
  <2> QED
    BY <2>1, <2>2, <1>1 DEF QueueInv, CompleteTfsInOrder
<1> QED
  BY <1>3, <1>4 DEF QueueInv

\* What is behind the TFs that were queued before.
LEMMA QueuedAfterPush ==
  ASSUME TypeOK, NEW run \in Runs, NEW S \in SUBSET TfIds, S # {}, NEW order \in Ascending(S),
         NEW map \in [TfIds -> SUBSET StfSenders], NEW built, NEW maxCompleted,
         QueueForScheduling(run, order, map, built, maxCompleted), UNCHANGED scheduling
  PROVE  \A i \in DOMAIN Queued' :
           \/ i \in DOMAIN Queued /\ Queued'[i] = Queued[i]
           \/ \E k \in DOMAIN order :
                /\ i = Len(Queued) + k
                /\ Queued'[i] = [run |-> run, id |-> order[k], stfs |-> map[order[k]]]
<1> DEFINE new == [k \in DOMAIN order |-> [run |-> run, id |-> order[k], stfs |-> map[order[k]]]]
<1>1. order \in Seq(TfIds) /\ DOMAIN order = 1 .. Len(order) /\ Len(order) \in Nat
  BY AscendingIsSeq
<1>2. new \in Seq(Range(new)) /\ Len(new) = Len(order)
  BY <1>1 DEF Range
<1>3. scheduling \in Seq(QueuedTfs) /\ mCompleteStfsInfoQueue \in Seq(QueuedTfs)
  BY DEF TypeOK
<1>4. CASE mCompleteStfsInfoQueue' = mCompleteStfsInfoQueue
  BY <1>4 DEF Queued
<1>5. CASE mCompleteStfsInfoQueue' = mCompleteStfsInfoQueue \o new
  <2>1. ASSUME NEW i \in DOMAIN Queued', i \notin DOMAIN Queued
        PROVE  i - Len(Queued) \in DOMAIN order /\ Queued'[i] = new[i - Len(Queued)]
    BY <2>1, <1>1, <1>2, <1>3, <1>5 DEF Queued
  <2>2. ASSUME NEW i \in DOMAIN Queued', i \in DOMAIN Queued
        PROVE  Queued'[i] = Queued[i]
    BY <2>2, <1>1, <1>2, <1>3, <1>5 DEF Queued
  <2>3. Len(Queued) \in Nat /\ \A i \in DOMAIN Queued' : i \in Int
    BY <1>2, <1>3, <1>5 DEF Queued
  <2>4. \A i \in DOMAIN Queued' : i = Len(Queued) + (i - Len(Queued))
    BY <2>3
  <2> QED
    BY <2>1, <2>2, <2>4
<1> QED
  BY <1>4, <1>5 DEF QueueForScheduling, PushAll

\* Handing TFs to the scheduling thread keeps the order, as long as those that
\* are complete are above everything completed so far in their run.
LEMMA QueueInvPush ==
  ASSUME TypeOK, TypeOK', QueueInv,
         NEW run \in Runs, NEW S \in SUBSET TfIds, S # {}, NEW order \in Ascending(S),
         NEW map \in [TfIds -> SUBSET StfSenders], NEW built \in Recorders(TfIds),
         NEW maxCompleted \in TfIds \cup {0},
         QueueForScheduling(run, order, map, built, maxCompleted), UNCHANGED scheduling,
         run >= mRunNumber, mRunNumber' = run,
         run = mRunNumber => maxCompleted = mMaxCompletedTfId,
         \A id \in S : (run = mRunNumber /\ map[id] = StfSenders) => id > mMaxCompletedTfId,
         \A id, other \in S : (map[id] = StfSenders /\ other # id) => other < id
  PROVE  QueueInv'
<1>1. /\ mRunNumber \in Nat /\ run \in Nat /\ mMaxCompletedTfId \in Nat
      /\ mMaxCompletedTfId' \in Nat /\ maxCompleted \in Nat /\ S \subseteq Nat
  BY ConstantsAssumption DEF TypeOK
<1>2. /\ \A id \in S : id <= mMaxCompletedTfId'
      /\ mMaxCompletedTfId' >= maxCompleted
  BY QueueForSchedulingEffect
<1>3. /\ Members(order) = S
      /\ \A k \in DOMAIN order : order[k] \in S /\ k \in Nat
      /\ \A k, l \in DOMAIN order : k < l => order[k] < order[l]
  <2>1. Members(order) = S /\ DOMAIN order = 1 .. Len(order) /\ Len(order) \in Nat
    BY AscendingIsSeq
  <2>2. \A k, l \in DOMAIN order : k < l => order[k] < order[l]
    BY DEF Ascending
  <2>3. \A k \in DOMAIN order : order[k] \in S /\ k \in Nat
    BY <2>1 DEF Members
  <2> QED
    BY <2>1, <2>2, <2>3
<1>4. /\ \A i \in DOMAIN Queued : Queued[i].run \in Nat /\ Queued[i].id \in Nat /\ i \in Nat
      /\ \A i \in DOMAIN Queued : i <= Len(Queued)
      /\ Len(Queued) \in Nat
  <2>1. Len(Queued) \in Nat /\ DOMAIN Queued = 1 .. Len(Queued)
    BY QueuedType, LenProperties
  <2> QED
    BY <2>1, QueuedType
<1> DEFINE Old(i) == i \in DOMAIN Queued /\ Queued'[i] = Queued[i]
           New(i, k) ==
             /\ k \in DOMAIN order
             /\ i = Len(Queued) + k
             /\ Queued'[i] = [run |-> run, id |-> order[k], stfs |-> map[order[k]]]
<1>5. \A i \in DOMAIN Queued' : Old(i) \/ \E k \in DOMAIN order : New(i, k)
  BY QueuedAfterPush
<1>6. QueuedNotAboveCompleted'
  <2>1. SUFFICES ASSUME NEW i \in DOMAIN Queued'
                 PROVE  /\ Queued'[i].run <= run
                        /\ Queued'[i].run = run => Queued'[i].id <= mMaxCompletedTfId'
    BY DEF QueuedNotAboveCompleted
  <2>2. CASE Old(i)
    BY <2>2, <1>1, <1>2, <1>4 DEF QueueInv, QueuedNotAboveCompleted
  <2>3. CASE \E k \in DOMAIN order : New(i, k)
    <3>1. PICK k \in DOMAIN order : New(i, k)
      BY <2>3
    <3>2. Queued'[i].run = run /\ Queued'[i].id = order[k] /\ order[k] \in S
      <4>1. Queued'[i] = [run |-> run, id |-> order[k], stfs |-> map[order[k]]]
        BY <3>1
      <4> HIDE DEF New, Old
      <4> QED
        BY <4>1, <1>3
    <3>3. order[k] <= mMaxCompletedTfId' /\ run <= run
      BY <3>2, <1>1, <1>2
    <3> QED
      BY <3>2, <3>3
  <2> QED
    BY <2>2, <2>3, <1>5
<1>7. CompleteTfsInOrder'
  <2>1. SUFFICES ASSUME NEW i \in DOMAIN Queued', NEW j \in DOMAIN Queued', i < j,
                        Queued'[i].run = Queued'[j].run, Queued'[j].stfs = StfSenders
                 PROVE  Queued'[i].id < Queued'[j].id
    BY DEF CompleteTfsInOrder
  <2>2. CASE Old(i) /\ Old(j)
    BY <2>1, <2>2 DEF QueueInv, CompleteTfsInOrder
  <2>3. ASSUME NEW l \in DOMAIN order, Old(i), New(j, l)
        PROVE  Queued'[i].id < Queued'[j].id
    <3>1. Queued[i].run = run /\ Queued'[j].id = order[l] /\ map[order[l]] = StfSenders
      BY <2>1, <2>3
    <3>2. run = mRunNumber /\ Queued[i].id <= mMaxCompletedTfId
      BY <3>1, <2>3, <1>1, <1>4 DEF QueueInv, QueuedNotAboveCompleted
    <3>3. order[l] > mMaxCompletedTfId /\ order[l] \in Nat
      BY <3>1, <3>2, <1>1, <1>3
    <3> QED
      BY <3>1, <3>2, <3>3, <2>3, <1>1, <1>4
  <2>4. ASSUME NEW k \in DOMAIN order, NEW l \in DOMAIN order, New(i, k), New(j, l)
        PROVE  Queued'[i].id < Queued'[j].id
    <3>1. k < l
      BY <2>1, <2>4, <1>3, <1>4
    <3> QED
      BY <3>1, <2>4, <1>3
  <2>5. ASSUME NEW k \in DOMAIN order, New(i, k), Old(j)
        PROVE  FALSE
    BY <2>1, <2>5, <1>3, <1>4
  <2> QED
    BY <2>2, <2>3, <2>4, <2>5, <1>5
<1> QED
  BY <1>6, <1>7 DEF QueueInv

LEMMA QueueInvComplete ==
  ASSUME TypeOK, TypeOK', MapInv, QueueInv, NEW s \in StfSenders, NEW id \in TfIds,
         NEW level \in Levels, AddStfInfoComplete(s, id, level), [Next]_vars
  PROVE  QueueInv'
<1> DEFINE run == senderRun[s]
           map == MapWith(s, id)
           max == MaxCompletedTfIdOf(run)
           S   == {i \in Pending(map) : i <= id}
<1>1. /\ Accept(s, id, level) /\ run \in Runs /\ TfIds \subseteq Nat \ {0}
      /\ map[id] = StfSenders /\ run >= mRunNumber /\ mRunNumber' = run /\ UNCHANGED scheduling
      /\ mRunNumber \in Nat /\ mMaxCompletedTfId \in Nat
  <2>1. Accept(s, id, level) /\ map[id] = StfSenders
    BY DEF AddStfInfoComplete
  <2>2. run >= mRunNumber /\ mRunNumber' = run /\ UNCHANGED scheduling
    BY <2>1 DEF Accept, Announce
  <2> QED
    BY <2>1, <2>2, ConstantsAssumption DEF TypeOK
<1>2. PICK order \in Ascending(S) :
        QueueForScheduling(run, order, map, BuiltOf(run), max)
  BY DEF AddStfInfoComplete
<1>3. /\ map \in [TfIds -> SUBSET StfSenders] /\ s \in map[id]
      /\ max \in TfIds \cup {0} /\ BuiltOf(run) \in Recorders(TfIds)
  BY <1>1, MapWithType, RunStateType
<1>4. S \in SUBSET TfIds /\ S # {} /\ \A i \in S : i <= id
  BY <1>1, <1>3 DEF Pending
<1>5. \A i \in TfIds \ {id} : map[i] # StfSenders
  BY <1>1, AcceptedMap
<1>6. run = mRunNumber => max = mMaxCompletedTfId
  BY <1>1 DEF MaxCompletedTfIdOf, IsNewRun
<1>7. ~(id <= max)
  BY <1>1, LateStfLeavesATfHopeless
<1> HIDE DEF S, map, max, run
<1>8. \A i \in S : (run = mRunNumber /\ map[i] = StfSenders) => i > mMaxCompletedTfId
  <2>1. run = mRunNumber => id > mMaxCompletedTfId
    BY <1>1, <1>6, <1>7
  <2> QED
    BY <2>1, <1>4, <1>5
<1>9. \A i, other \in S : (map[i] = StfSenders /\ other # i) => other < i
  <2>1. \A other \in S : other # id => other < id
    BY <1>1, <1>4
  <2> QED
    BY <2>1, <1>4, <1>5
<1>10. S \in SUBSET TfIds /\ S # {}
  BY <1>4
<1> QED
  BY <1>1, <1>2, <1>3, <1>6, <1>8, <1>9, <1>10, QueueInvPush

LEMMA QueueInvStale ==
  ASSUME TypeOK, TypeOK', MapInv, QueueInv, NEW bound \in TfIds, StaleCleanup(bound)
  PROVE  QueueInv'
<1> DEFINE S == {id \in Pending(mStfInfoMap) : id <= bound}
<1>1. PICK order \in Ascending(S) :
        QueueForScheduling(mRunNumber, order, mStfInfoMap, mBuiltTfs, mMaxCompletedTfId)
  BY DEF StaleCleanup
<1>2. S \in SUBSET TfIds /\ S # {}
  BY DEF StaleCleanup, Pending
<1>3. /\ mRunNumber \in Runs /\ mStfInfoMap \in [TfIds -> SUBSET StfSenders]
      /\ mBuiltTfs \in Recorders(TfIds) /\ mMaxCompletedTfId \in TfIds \cup {0}
      /\ mRunNumber' = mRunNumber /\ UNCHANGED scheduling /\ mRunNumber >= mRunNumber
  BY ConstantsAssumption DEF TypeOK, StaleCleanup
<1>4. \A id \in TfIds : mStfInfoMap[id] # StfSenders
  BY DEF MapInv, NoFullEntry
<1> HIDE DEF S
<1>5. /\ \A id \in S : (mRunNumber = mRunNumber /\ mStfInfoMap[id] = StfSenders)
                         => id > mMaxCompletedTfId
      /\ \A id, other \in S : (mStfInfoMap[id] = StfSenders /\ other # id) => other < id
  BY <1>2, <1>4
<1> QED
  BY <1>1, <1>2, <1>3, <1>5, QueueInvPush

LEMMA QueueInvNext ==
  ASSUME TypeOK, TypeOK', [Next]_vars, MapInv, QueueInv
  PROVE  QueueInv'
<1>0. /\ mRunNumber \in Nat /\ mRunNumber' \in Nat /\ mMaxCompletedTfId \in Nat
  BY ConstantsAssumption DEF TypeOK
<1>1. CASE UNCHANGED <<runVars, Queued>>
  BY <1>0, <1>1, QueueInvKeep DEF runVars
<1>2. CASE \E s \in StfSenders, id \in TfIds, level \in Levels : AddStfInfo(s, id, level)
  <2>1. PICK s \in StfSenders, id \in TfIds, level \in Levels : AddStfInfo(s, id, level)
    BY <1>2
  <2>2. CASE AddStfInfoOldRun(s, id, level) \/ AddStfInfoHandled(s, id, level)
    BY <1>1, <2>2 DEF AddStfInfoOldRun, AddStfInfoHandled, Announce, Queued
  <2>3. CASE \/ \E ok \in BOOLEAN : AddStfInfoRejected(s, id, level, ok)
             \/ AddStfInfoPending(s, id, level)
    <3>1. /\ mRunNumber' = senderRun[s] /\ senderRun[s] >= mRunNumber
          /\ mMaxCompletedTfId' = MaxCompletedTfIdOf(senderRun[s])
          /\ UNCHANGED Queued
      BY <2>3 DEF AddStfInfoRejected, AddStfInfoPending, Accept, Announce, Queued
    <3>2. mRunNumber' = mRunNumber => mMaxCompletedTfId' >= mMaxCompletedTfId
      BY <3>1, <1>0 DEF MaxCompletedTfIdOf, IsNewRun
    <3> QED
      BY <3>1, <3>2, QueueInvKeep
  <2>4. CASE AddStfInfoComplete(s, id, level)
    BY <2>4, QueueInvComplete
  <2> QED
    BY <2>1, <2>2, <2>3, <2>4 DEF AddStfInfo
<1>3. CASE \E bound \in TfIds : StaleCleanup(bound)
  BY <1>3, QueueInvStale
<1>4. CASE SchedulingPop
  <2>1. Queued' = Queued
    BY <1>4, HeadTailProperties, ConcatProperties, EmptySeq DEF SchedulingPop, TypeOK, Queued
  <2> QED
    BY <1>1, <1>4, <2>1 DEF SchedulingPop
<1>5. CASE SchedulingBuild \/ SchedulingDrop
  BY <1>5, QueueInvDone DEF SchedulingBuild, SchedulingDrop
<1> QED
  BY <1>1, <1>2, <1>3, <1>4, <1>5 DEF Next, StartRun, HighWatermarkScan, HighWatermarkDrop,
     DropStfs, StopStep, vars, queueVars, Queued

LEMMA QueueInvInit == Init => QueueInv
<1>1. ASSUME Init
      PROVE  DOMAIN Queued = {}
  BY <1>1, EmptySeq DEF Init, Queued
<1> QED
  BY <1>1 DEF QueueInv, QueuedNotAboveCompleted, CompleteTfsInOrder

\* Whatever the stale-cleanup thread and the announcements queue around it, a
\* complete TF is handed out for building after smaller TFs only.
THEOREM CompleteInOrder == Spec => []CompleteTfsInOrder
<1>1. Init => MapInv /\ QueueInv
  BY MapInvInit, QueueInvInit
<1>2. TypeOK /\ TypeOK' /\ MapInv /\ QueueInv /\ [Next]_vars => MapInv' /\ QueueInv'
  BY MapInvNext, QueueInvNext
<1>3. MapInv /\ QueueInv => CompleteTfsInOrder
  BY DEF QueueInv
<1> QED
  BY <1>1, <1>2, <1>3, TypeCorrect, PTL DEF Spec

-----------------------------------------------------------------------------
(***************************************************************************)
(* What was recorded, what was handled and what is pending.                *)
(***************************************************************************)

\* A recorder that has seen events knows its first one.
Started(r) == r.events # {} => r.first # NoEvent

\* Nothing is handled in a run that has not begun.
HandledRuns == \A run \in Runs, id \in TfIds : <<run, id>> \in handled => run <= mRunNumber

\* The TF was handled in the current run, or by the late drop of an earlier one.
WasHandled(id) == \E run \in Runs : run <= mRunNumber /\ <<run, id>> \in handled

RecordedWasHandled == \A id \in mDroppedStfs.events \cup mBuiltTfs.events : WasHandled(id)

HandledInv ==
  /\ Started(mDroppedStfs) /\ Started(mBuiltTfs)
  /\ HandledRuns
  /\ RecordedWasHandled
  /\ PendingNotHandled

\* What recording the ids of S turns recorder r into, as far as GetEvent and
\* Covers can tell.
Records(r, S, after) ==
  /\ Started(after)
  /\ \A id \in TfIds : GetEvent(after, id) => GetEvent(r, id) \/ id \in S
  /\ \A id \in TfIds : Covers(r, id) \/ id \in S => Covers(after, id)
  /\ after.events \subseteq r.events \cup S

\* SetEvent in a row: nothing else is recorded, and every id is, or lies where
\* the recorder is blind.
LEMMA SetEventsRecords ==
  ASSUME NEW r \in Recorders(TfIds), Started(r), NEW order \in Seq(TfIds), Len(order) # 0
  PROVE  Records(r, Members(order), SetEvents(r, order))
<1> DEFINE first == FirstEvent(r, order[1])
           after == SetEvents(r, order)
<1>1. order[1] \in TfIds /\ Members(order) \subseteq TfIds
  BY LenProperties DEF Members
<1>2. after = [first |-> first, events |-> r.events \cup {e \in Members(order) : e >= first}]
  BY DEF SetEvents, Members
<1>3. after.first = first /\ after.events = r.events \cup {e \in Members(order) : e >= first}
  BY <1>2
<1>4. r.first \in TfIds \cup {NoEvent} /\ r.events \subseteq TfIds
  BY DEF Recorders
<1>5. TfIds \subseteq Nat \ {0} /\ NoEvent = -1
  BY ConstantsAssumption DEF NoEvent
<1>6. first \in TfIds /\ first # NoEvent /\ (r.first # NoEvent => first = r.first)
  BY <1>1, <1>4, <1>5 DEF FirstEvent
<1> HIDE DEF first, after
<1>7. Started(after)
  BY <1>3, <1>6 DEF Started
<1>8. \A id \in TfIds : GetEvent(after, id) => GetEvent(r, id) \/ id \in Members(order)
  BY <1>3, <1>6 DEF GetEvent, Started
<1>9. \A id \in TfIds : Covers(r, id) \/ id \in Members(order) => Covers(after, id)
  <2> SUFFICES ASSUME NEW id \in TfIds, Covers(r, id) \/ id \in Members(order)
               PROVE  Covers(after, id)
    OBVIOUS
  <2>1. id \in Nat /\ first \in Nat
    BY <1>5, <1>6
  <2>2. CASE Covers(r, id)
    BY <2>2, <1>3, <1>6 DEF Covers
  <2>3. CASE id \in Members(order)
    BY <2>1, <2>3, <1>3, <1>6 DEF Covers
  <2> QED
    BY <2>2, <2>3
<1>10. after.events \subseteq r.events \cup Members(order)
  BY <1>3
<1> QED
  BY <1>7, <1>8, <1>9, <1>10 DEF Records, after

\* A recorder that is left alone.
LEMMA NothingRecorded ==
  ASSUME NEW r \in Recorders(TfIds), Started(r)
  PROVE  Records(r, {}, r)
BY DEF Records, Recorders

\* The recorders that a message of a run finds.
LEMMA RunRecorders ==
  ASSUME TypeOK, HandledInv, NEW run \in Runs
  PROVE  /\ DroppedOf(run) \in Recorders(TfIds) /\ Started(DroppedOf(run))
         /\ BuiltOf(run) \in Recorders(TfIds) /\ Started(BuiltOf(run))
BY RunStateType DEF DroppedOf, BuiltOf, HandledInv, Started, EmptyRecorder

\* One critical section: run is the current run after it, the TFs of S are
\* handled (in the run of their own), only TFs that were never handled become
\* pending, and what was pending in the run stays unless it is handled.
Handles(run, own, S, new) ==
  /\ run >= mRunNumber /\ mRunNumber' = run /\ own <= run
  /\ handled' = handled \cup {<<own, id>> : id \in S}
  /\ \/ Records(DroppedOf(run), S, mDroppedStfs') /\ Records(BuiltOf(run), {}, mBuiltTfs')
     \/ Records(DroppedOf(run), {}, mDroppedStfs') /\ Records(BuiltOf(run), S, mBuiltTfs')
  /\ \A id \in new : ~Handled(run, id)
  /\ \A id \in TfIds : mStfInfoMap'[id] # {} => id \notin S /\ (MapOf(run)[id] # {} \/ id \in new)
  /\ \A id \in TfIds \ S : MapOf(run)[id] \subseteq mStfInfoMap'[id]

LEMMA HandlesKeeps ==
  ASSUME TypeOK, HandledInv, NEW run \in Runs, NEW own \in Runs, NEW S \in SUBSET TfIds,
         NEW new \in SUBSET TfIds, Handles(run, own, S, new)
  PROVE  HandledInv'
<1>1. /\ run >= mRunNumber /\ mRunNumber' = run /\ own <= run
      /\ handled' = handled \cup {<<own, id>> : id \in S}
      /\ \A id \in new : ~Handled(run, id)
      /\ \A id \in TfIds :
           mStfInfoMap'[id] # {} => id \notin S /\ (MapOf(run)[id] # {} \/ id \in new)
  BY DEF Handles
<1>2. Runs \subseteq Nat /\ TfIds \subseteq Nat \ {0} /\ mRunNumber \in Runs
  BY ConstantsAssumption DEF TypeOK
<1>3. PICK D \in SUBSET S, B \in SUBSET S :
        /\ Records(DroppedOf(run), D, mDroppedStfs')
        /\ Records(BuiltOf(run), B, mBuiltTfs')
        /\ S = D \cup B
  BY DEF Handles
<1>4. \A r \in Runs, id \in TfIds :
        <<r, id>> \in handled' <=> <<r, id>> \in handled \/ (r = own /\ id \in S)
  BY <1>1
<1>5. Started(mDroppedStfs)' /\ Started(mBuiltTfs)'
  BY <1>3 DEF Records, Started
<1>6. HandledRuns'
  <2> SUFFICES ASSUME NEW r \in Runs, NEW id \in TfIds, <<r, id>> \in handled'
               PROVE  r <= mRunNumber'
    BY DEF HandledRuns
  <2>1. <<r, id>> \in handled => r <= mRunNumber
    BY DEF HandledInv, HandledRuns
  <2> QED BY <2>1, <1>1, <1>2, <1>4
<1>7. /\ DroppedOf(run).events \subseteq mDroppedStfs.events
      /\ BuiltOf(run).events \subseteq mBuiltTfs.events
      /\ mDroppedStfs.events \subseteq TfIds /\ mBuiltTfs.events \subseteq TfIds
  BY DEF DroppedOf, BuiltOf, EmptyRecorder, TypeOK, Recorders
<1>8. RecordedWasHandled'
  <2> SUFFICES ASSUME NEW id \in mDroppedStfs'.events \cup mBuiltTfs'.events
               PROVE  WasHandled(id)'
    BY DEF RecordedWasHandled
  <2>1. id \in mDroppedStfs.events \cup mBuiltTfs.events \/ id \in S
    BY <1>3, <1>7 DEF Records
  <2>2. CASE id \in S
    BY <2>2, <1>1, <1>2 DEF WasHandled
  <2>3. CASE id \in mDroppedStfs.events \cup mBuiltTfs.events
    <3>1. PICK r \in Runs : r <= mRunNumber /\ <<r, id>> \in handled
      BY <2>3 DEF HandledInv, RecordedWasHandled, WasHandled
    <3> QED BY <3>1, <1>1, <1>2 DEF WasHandled
  <2> QED BY <2>1, <2>2, <2>3
<1>9. ASSUME NEW id \in TfIds, mStfInfoMap'[id] # {}
      PROVE  ~GetEvent(mDroppedStfs', id) /\ ~GetEvent(mBuiltTfs', id)
  <2>1. id \notin S /\ (MapOf(run)[id] # {} \/ id \in new)
    BY <1>1, <1>9
  <2>2. ~GetEvent(DroppedOf(run), id) /\ ~GetEvent(BuiltOf(run), id)
    <3>1. CASE id \in new
      BY <3>1, <1>1 DEF Handled
    <3>2. CASE MapOf(run)[id] # {}
      <4>1. ~IsNewRun(run) /\ mStfInfoMap[id] # {}
        BY <3>2 DEF MapOf, NoStfs
      <4> QED BY <4>1 DEF HandledInv, PendingNotHandled, Pending, DroppedOf, BuiltOf
    <3> QED BY <2>1, <3>1, <3>2
  <2> QED BY <2>1, <2>2, <1>3 DEF Records
<1>10. ASSUME NEW id \in TfIds, <<run, id>> \in handled'
       PROVE  Covers(mDroppedStfs', id) \/ Covers(mBuiltTfs', id)
  <2>1. CASE id \in S
    BY <2>1, <1>3 DEF Records
  <2>2. CASE <<run, id>> \in handled
    <3>1. run = mRunNumber
      BY <2>2, <1>1, <1>2 DEF HandledInv, HandledRuns
    <3>2. DroppedOf(run) = mDroppedStfs /\ BuiltOf(run) = mBuiltTfs
      BY <3>1, <1>2 DEF DroppedOf, BuiltOf, IsNewRun
    <3>3. Covers(mDroppedStfs, id) \/ Covers(mBuiltTfs, id)
      BY <2>2, <3>1 DEF HandledInv, PendingNotHandled
    <3> QED BY <3>2, <3>3, <1>3 DEF Records
  <2> QED BY <2>1, <2>2, <1>4, <1>10
<1>11. PendingNotHandled'
  BY <1>1, <1>9, <1>10 DEF PendingNotHandled, Pending
<1> QED
  BY <1>5, <1>6, <1>8, <1>11 DEF HandledInv

\* The drop of TFs that are pending in the map of the run.
LEMMA RequestDropAllHandles ==
  ASSUME TypeOK, HandledInv, NEW run \in Runs, NEW own \in Runs, own <= run, run >= mRunNumber,
         NEW order \in Seq(TfIds), Len(order) # 0,
         RequestDropAll(own, order, MapOf(run), DroppedOf(run)),
         mBuiltTfs' = BuiltOf(run), mRunNumber' = run
  PROVE  Handles(run, own, Members(order), {})
<1>1. Records(DroppedOf(run), Members(order), mDroppedStfs')
  BY RunRecorders, SetEventsRecords DEF RequestDropAll
<1>2. Records(BuiltOf(run), {}, mBuiltTfs')
  BY RunRecorders, NothingRecorded
<1>3. handled' = handled \cup {<<own, id>> : id \in Members(order)}
  BY DEF RequestDropAll
<1>4. \A id \in TfIds : mStfInfoMap'[id] # {} => id \notin Members(order) /\ MapOf(run)[id] # {}
  BY DEF RequestDropAll
<1>5. \A id \in TfIds \ Members(order) : MapOf(run)[id] \subseteq mStfInfoMap'[id]
  BY DEF RequestDropAll
<1> QED
  BY <1>1, <1>2, <1>3, <1>4, <1>5 DEF Handles

\* The same for a single TF.
LEMMA RequestDropOneHandles ==
  ASSUME TypeOK, HandledInv, NEW run \in Runs, NEW own \in Runs, own <= run, run >= mRunNumber,
         NEW id \in TfIds, RequestDropAll(own, <<id>>, MapOf(run), DroppedOf(run)),
         mBuiltTfs' = BuiltOf(run), mRunNumber' = run
  PROVE  Handles(run, own, {id}, {})
<1> DEFINE order == <<id>>
<1>1. order \in Seq(TfIds) /\ Len(order) # 0 /\ Members(order) = {id}
  BY SingletonOrder
<1>2. RequestDropAll(own, order, MapOf(run), DroppedOf(run))
  OBVIOUS
<1> HIDE DEF order
<1>3. Handles(run, own, Members(order), {})
  BY <1>1, <1>2, RequestDropAllHandles
<1> QED BY <1>1, <1>3

\* Handing TFs to the scheduling thread.
LEMMA QueueForSchedulingHandles ==
  ASSUME TypeOK, HandledInv, NEW run \in Runs, run >= mRunNumber,
         NEW S \in SUBSET TfIds, S # {}, NEW order \in Ascending(S),
         NEW map, NEW new \in SUBSET TfIds, NEW maxCompleted,
         \A id \in TfIds : map[id] # {} => MapOf(run)[id] # {} \/ id \in new,
         \A id \in TfIds : MapOf(run)[id] \subseteq map[id],
         \A id \in new : ~Handled(run, id),
         QueueForScheduling(run, order, map, BuiltOf(run), maxCompleted),
         mDroppedStfs' = DroppedOf(run), mRunNumber' = run
  PROVE  Handles(run, run, S, new)
<1>1. order \in Seq(TfIds) /\ Len(order) # 0 /\ Members(order) = S
  BY AscendingIsSeq
<1>2. Records(BuiltOf(run), S, mBuiltTfs')
  BY <1>1, RunRecorders, SetEventsRecords DEF QueueForScheduling
<1>3. Records(DroppedOf(run), {}, mDroppedStfs')
  BY RunRecorders, NothingRecorded
<1>4. handled' = handled \cup {<<run, id>> : id \in S}
  BY <1>1 DEF QueueForScheduling
<1>5. \A id \in TfIds :
        mStfInfoMap'[id] # {} => id \notin S /\ (MapOf(run)[id] # {} \/ id \in new)
  BY <1>1 DEF QueueForScheduling
<1>6. run <= run
  BY ConstantsAssumption
<1>7. \A id \in TfIds \ S : MapOf(run)[id] \subseteq mStfInfoMap'[id]
  BY <1>1 DEF QueueForScheduling
<1> QED
  BY <1>2, <1>3, <1>4, <1>5, <1>6, <1>7 DEF Handles

\* A step that handles nothing, records nothing and adds nothing to the map.
LEMMA HandledInvUntouched ==
  ASSUME TypeOK, HandledInv, UNCHANGED <<mRunNumber, mDroppedStfs, mBuiltTfs, handled>>,
         UNCHANGED mStfInfoMap \/ StopStep
  PROVE  HandledInv'
<1>0. \A id \in TfIds : mStfInfoMap'[id] # {} => mStfInfoMap[id] # {}
  BY DEF StopStep, Stop, NoStfs
<1>1. Started(mDroppedStfs)' /\ Started(mBuiltTfs)' /\ HandledRuns' /\ RecordedWasHandled'
  BY DEF HandledInv, Started, HandledRuns, RecordedWasHandled, WasHandled
<1>2. PendingNotHandled'
  BY <1>0 DEF HandledInv, PendingNotHandled, Pending
<1> QED BY <1>1, <1>2 DEF HandledInv

\* The state of the current run is what a message of that run finds.
LEMMA CurrentRun ==
  ASSUME TypeOK
  PROVE  /\ MapOf(mRunNumber) = mStfInfoMap /\ DroppedOf(mRunNumber) = mDroppedStfs
         /\ BuiltOf(mRunNumber) = mBuiltTfs /\ mRunNumber \in Runs /\ mRunNumber >= mRunNumber
         /\ mRunNumber <= mRunNumber
<1>1. mRunNumber \in Nat /\ mRunNumber \in Runs
  BY ConstantsAssumption DEF TypeOK
<1> QED BY <1>1 DEF MapOf, DroppedOf, BuiltOf, IsNewRun

\* What an accepted STF puts into the map of its run.
LEMMA AcceptedIsNew ==
  ASSUME TypeOK, NEW s \in StfSenders, NEW id \in TfIds, NEW level \in Levels,
         Accept(s, id, level)
  PROVE  /\ senderRun[s] \in Runs /\ senderRun[s] >= mRunNumber
         /\ mRunNumber' = senderRun[s] /\ mDroppedStfs' = DroppedOf(senderRun[s])
         /\ \A i \in TfIds :
              MapWith(s, id)[i] # {} => MapOf(senderRun[s])[i] # {} \/ i \in {id}
         /\ \A i \in TfIds : MapOf(senderRun[s])[i] \subseteq MapWith(s, id)[i]
         /\ \A i \in {id} : ~Handled(senderRun[s], i)
<1>1. /\ \A i \in TfIds \ {id} : MapWith(s, id)[i] = MapOf(senderRun[s])[i]
      /\ senderRun[s] \in Runs
  BY MapWithType DEF TypeOK
<1>2. MapOf(senderRun[s])[id] \subseteq MapWith(s, id)[id]
  BY <1>1, RunStateType DEF MapWith
<1> QED BY <1>1, <1>2 DEF Accept

\* What addStfInfo does with an STF of the current run, or of a later one.
HandlesAnnounced(s, id) ==
  \E S \in SUBSET TfIds :
    /\ Handles(senderRun[s], senderRun[s], S, {id})
    /\ id \in S \/ s \in mStfInfoMap'[id]

LEMMA AddStfInfoHandles ==
  ASSUME TypeOK, HandledInv, NEW s \in StfSenders, NEW id \in TfIds, NEW level \in Levels,
         \/ \E ok \in BOOLEAN : AddStfInfoRejected(s, id, level, ok)
         \/ AddStfInfoPending(s, id, level)
         \/ AddStfInfoComplete(s, id, level)
  PROVE  HandlesAnnounced(s, id)
<1> DEFINE run == senderRun[s]
<1>0. run \in Runs /\ run <= run /\ TfIds \subseteq Nat
  <2>1. run \in Runs
    BY DEF TypeOK
  <2> HIDE DEF run
  <2> QED BY <2>1, ConstantsAssumption
<1>1. CASE \E ok \in BOOLEAN : AddStfInfoRejected(s, id, level, ok)
  <2>1. /\ run >= mRunNumber /\ mRunNumber' = run /\ mBuiltTfs' = BuiltOf(run)
        /\ RequestDropAll(run, <<id>>, MapOf(run), DroppedOf(run))
        /\ ~Handled(run, id)
    BY <1>1 DEF AddStfInfoRejected
  <2> HIDE DEF run
  <2>2. Handles(run, run, {id}, {})
    BY <1>0, <2>1, RequestDropOneHandles
  <2>3. Handles(run, run, {id}, {id})
    BY <2>1, <2>2 DEF Handles
  <2> QED BY <1>0, <2>3 DEF run, HandlesAnnounced
<1>2. CASE AddStfInfoPending(s, id, level)
  <2>1. Accept(s, id, level) /\ mStfInfoMap' = MapWith(s, id) /\ mBuiltTfs' = BuiltOf(run)
        /\ handled' = handled
    BY <1>2 DEF AddStfInfoPending
  <2>2. Records(DroppedOf(run), {}, mDroppedStfs') /\ Records(BuiltOf(run), {}, mBuiltTfs')
    BY <1>0, <2>1, AcceptedIsNew, RunRecorders, NothingRecorded
  <2>3. Handles(run, run, {}, {id})
    BY <1>0, <2>1, <2>2, AcceptedIsNew DEF Handles
  <2>4. s \in mStfInfoMap'[id]
    BY <2>1, MapWithType
  <2> QED BY <2>3, <2>4 DEF HandlesAnnounced
<1>3. CASE AddStfInfoComplete(s, id, level)
  <2> DEFINE map == MapWith(s, id)
             S   == {i \in Pending(map) : i <= id}
  <2>1. Accept(s, id, level) /\ map[id] = StfSenders
    BY <1>3 DEF AddStfInfoComplete
  <2>2. PICK order \in Ascending(S) :
          QueueForScheduling(run, order, map, BuiltOf(run), MaxCompletedTfIdOf(run))
    BY <1>3 DEF AddStfInfoComplete
  <2>3. S \in SUBSET TfIds /\ S # {} /\ id \in S
    BY <1>0, MapWithType DEF Pending
  <2>4. /\ run >= mRunNumber /\ mRunNumber' = run /\ mDroppedStfs' = DroppedOf(run)
        /\ \A i \in TfIds : map[i] # {} => MapOf(run)[i] # {} \/ i \in {id}
        /\ \A i \in TfIds : MapOf(run)[i] \subseteq map[i]
        /\ \A i \in {id} : ~Handled(run, i)
    BY <2>1, AcceptedIsNew
  <2> HIDE DEF map, S, run
  <2>5. Handles(run, run, S, {id})
    BY <1>0, <2>2, <2>3, <2>4, QueueForSchedulingHandles
  <2> QED BY <2>3, <2>5 DEF run, HandlesAnnounced
<1> QED BY <1>1, <1>2, <1>3

LEMMA StaleCleanupHandles ==
  ASSUME TypeOK, HandledInv, NEW bound \in TfIds, StaleCleanup(bound)
  PROVE  \E S \in SUBSET TfIds : Handles(mRunNumber, mRunNumber, S, {})
<1> DEFINE S == {id \in Pending(mStfInfoMap) : id <= bound}
<1>1. PICK order \in Ascending(S) :
        QueueForScheduling(mRunNumber, order, mStfInfoMap, mBuiltTfs, mMaxCompletedTfId)
  BY DEF StaleCleanup
<1>2. S \in SUBSET TfIds /\ S # {}
  BY DEF StaleCleanup, Pending
<1>3. mRunNumber' = mRunNumber /\ mDroppedStfs' = mDroppedStfs
  BY DEF StaleCleanup
<1> DEFINE none == {}
<1>4. none \in SUBSET TfIds /\ \A id \in none : ~Handled(mRunNumber, id)
  OBVIOUS
<1>5. /\ \A id \in TfIds : mStfInfoMap[id] # {} => MapOf(mRunNumber)[id] # {} \/ id \in none
      /\ \A id \in TfIds : MapOf(mRunNumber)[id] \subseteq mStfInfoMap[id]
  BY CurrentRun
<1> HIDE DEF S, none
<1>6. Handles(mRunNumber, mRunNumber, S, none)
  BY <1>1, <1>2, <1>3, <1>4, <1>5, CurrentRun, QueueForSchedulingHandles
<1>7. Handles(mRunNumber, mRunNumber, S, {})
  BY <1>6 DEF none
<1> QED BY <1>2, <1>7

LEMMA HighWatermarkDropHandles ==
  ASSUME TypeOK, HandledInv, NEW s \in StfSenders, NEW bound \in TfIds,
         HighWatermarkDrop(s, bound)
  PROVE  \E S \in SUBSET TfIds : Handles(mRunNumber, mRunNumber, S, {})
<1>1. PICK order \in Ascending(WatermarkVictims(s, bound)) :
        RequestDropAll(mRunNumber, order, mStfInfoMap, mDroppedStfs)
  BY DEF HighWatermarkDrop
<1>2. WatermarkVictims(s, bound) \in SUBSET TfIds /\ WatermarkVictims(s, bound) # {}
  BY DEF HighWatermarkDrop, WatermarkVictims, Pending
<1>3. order \in Seq(TfIds) /\ Len(order) # 0 /\ Members(order) \in SUBSET TfIds
  BY <1>2, AscendingIsSeq
<1>4. Handles(mRunNumber, mRunNumber, Members(order), {})
  BY <1>1, <1>3, CurrentRun, RequestDropAllHandles DEF HighWatermarkDrop, runVars
<1> QED BY <1>3, <1>4

\* The scheduling thread holds a TF of the current run, or of an earlier one.
LEMMA SchedulingDropHandles ==
  ASSUME TypeOK, QueueInv, HandledInv, SchedulingDrop
  PROVE  \E own \in Runs, S \in SUBSET TfIds : Handles(mRunNumber, own, S, {})
<1>1. scheduling[1] \in QueuedTfs /\ scheduling # <<>>
  BY DEF SchedulingDrop, TypeOK
<1>2. scheduling[1].run \in Runs /\ scheduling[1].id \in TfIds
  BY <1>1 DEF QueuedTfs
<1>3. 1 \in DOMAIN Queued /\ Queued[1] = scheduling[1]
  BY <1>1, ConcatProperties, LenProperties, EmptySeq DEF TypeOK, Queued
<1>4. scheduling[1].run <= mRunNumber
  BY <1>3 DEF QueueInv, QueuedNotAboveCompleted
<1>5. RequestDropAll(scheduling[1].run, <<scheduling[1].id>>, mStfInfoMap, mDroppedStfs)
      /\ mBuiltTfs' = mBuiltTfs /\ mRunNumber' = mRunNumber
  BY DEF SchedulingDrop, runVars
<1>6. Handles(mRunNumber, scheduling[1].run, {scheduling[1].id}, {})
  BY <1>2, <1>4, <1>5, CurrentRun, RequestDropOneHandles
<1> QED BY <1>2, <1>6

\* Every step handles TFs in one way, or leaves the bookkeeping alone.
LEMMA StepHandles ==
  ASSUME TypeOK, QueueInv, HandledInv, [Next]_vars
  PROVE  \/ \E run \in Runs, own \in Runs, S \in SUBSET TfIds, new \in SUBSET TfIds :
              Handles(run, own, S, new)
         \/ /\ UNCHANGED <<mRunNumber, mDroppedStfs, mBuiltTfs, handled>>
            /\ UNCHANGED mStfInfoMap \/ StopStep
<1>0. mRunNumber \in Runs
  BY DEF TypeOK
<1>1. CASE UNCHANGED <<mRunNumber, mDroppedStfs, mBuiltTfs, handled, mStfInfoMap>>
  BY <1>1
<1>2. CASE \E s \in StfSenders, id \in TfIds, level \in Levels : AddStfInfo(s, id, level)
  <2>1. PICK s \in StfSenders, id \in TfIds, level \in Levels : AddStfInfo(s, id, level)
    BY <1>2
  <2>2. CASE AddStfInfoOldRun(s, id, level) \/ AddStfInfoHandled(s, id, level)
    BY <1>1, <2>2 DEF AddStfInfoOldRun, AddStfInfoHandled, runVars
  <2>3. CASE \/ \E ok \in BOOLEAN : AddStfInfoRejected(s, id, level, ok)
             \/ AddStfInfoPending(s, id, level)
             \/ AddStfInfoComplete(s, id, level)
    <3>1. PICK S \in SUBSET TfIds : Handles(senderRun[s], senderRun[s], S, {id})
      <4>1. HandlesAnnounced(s, id)
        BY <2>3, AddStfInfoHandles
      <4> QED BY <4>1 DEF HandlesAnnounced
    <3>2. senderRun[s] \in Runs /\ {id} \in SUBSET TfIds
      BY DEF TypeOK
    <3> QED BY <3>1, <3>2
  <2> QED BY <2>1, <2>2, <2>3 DEF AddStfInfo
<1>3. CASE \E bound \in TfIds : StaleCleanup(bound)
  BY <1>0, <1>3, StaleCleanupHandles
<1>4. CASE \E s \in StfSenders, bound \in TfIds : HighWatermarkDrop(s, bound)
  BY <1>0, <1>4, HighWatermarkDropHandles
<1>5. CASE SchedulingDrop
  BY <1>0, <1>5, SchedulingDropHandles
<1>6. CASE StopStep
  BY <1>6 DEF StopStep, runVars
<1> QED
  BY <1>1, <1>2, <1>3, <1>4, <1>5, <1>6 DEF Next, StartRun, HighWatermarkScan,
     SchedulingPop, SchedulingBuild, DropStfs, vars, runVars

LEMMA HandledInvNext ==
  ASSUME TypeOK, QueueInv, HandledInv, [Next]_vars
  PROVE  HandledInv'
BY StepHandles, HandlesKeeps, HandledInvUntouched

LEMMA HandledInvInit == Init => HandledInv
BY ConstantsAssumption
   DEF Init, HandledInv, Started, HandledRuns, RecordedWasHandled, WasHandled, PendingNotHandled,
       Pending, NoStfs, EmptyRecorder

\* No STF is pending for a TF that a recorder knows, in any run, whatever the RPC, cleanup,
\* watermark and scheduling threads do between two announcements: the assertions of addStfInfo
\* on its discard paths hold, and a handled TF comes back only below the first recorded id.
THEOREM NothingHandledIsPending == Spec => []PendingNotHandled
<1>1. Init => QueueInv /\ MapInv /\ HandledInv
  BY QueueInvInit, MapInvInit, HandledInvInit
<1>2. /\ TypeOK /\ TypeOK' /\ MapInv /\ QueueInv /\ HandledInv /\ [Next]_vars
      => MapInv' /\ QueueInv' /\ HandledInv'
  BY MapInvNext, QueueInvNext, HandledInvNext
<1>3. HandledInv => PendingNotHandled
  BY DEF HandledInv
<1> QED
  BY <1>1, <1>2, <1>3, TypeCorrect, PTL DEF Spec

-----------------------------------------------------------------------------
(***************************************************************************)
(* Where the last announcement of a StfSender is.                          *)
(***************************************************************************)

\* A StfSender that announced something in its run is not ahead of the scheduler.
SendersNotAhead == \A s \in StfSenders : lastSent[s] # 0 => senderRun[s] <= mRunNumber

AccountInv == SendersNotAhead /\ LastStfIsAccountedFor

\* The last announcement of one StfSender.
Accounted(s) ==
  /\ lastSent[s] # 0 => senderRun[s] <= mRunNumber
  /\ (mode = "running" /\ senderRun[s] = mRunNumber /\ lastSent[s] # 0)
       => s \in mStfInfoMap[lastSent[s]] \/ WasHandled(lastSent[s])

LEMMA AccountInvIsPerSender == AccountInv <=> \A s \in StfSenders : Accounted(s)
BY DEF AccountInv, SendersNotAhead, LastStfIsAccountedFor, Accounted, WasHandled

\* Stop never goes back to running.
LEMMA StoppedStaysStopped ==
  ASSUME [Next]_vars, mode' = "running"
  PROVE  mode = "running"
<1>1. CASE \E s \in StfSenders, id \in TfIds, level \in Levels : AddStfInfo(s, id, level)
  <2>1. PICK s \in StfSenders, id \in TfIds, level \in Levels : AddStfInfo(s, id, level)
    BY <1>1
  <2>2. Announce(s, id, level)
    BY <2>1 DEF AddStfInfo, AddStfInfoOldRun, AddStfInfoHandled, AddStfInfoRejected,
                AddStfInfoPending, AddStfInfoComplete, Accept
  <2> QED BY <2>2 DEF Announce
<1>2. CASE StopStep
  BY <1>2 DEF StopStep, Stop
<1>3. CASE UNCHANGED mode
  BY <1>3
<1> QED
  BY <1>1, <1>2, <1>3 DEF Next, StartRun, StaleCleanup, HighWatermarkScan, HighWatermarkDrop,
     SchedulingPop, SchedulingBuild, SchedulingDrop, DropStfs, vars

\* What a step does to what was handled before.
LEMMA HandledStays ==
  ASSUME TypeOK, NEW run \in Runs, NEW own \in Runs, NEW S \in SUBSET TfIds,
         NEW new \in SUBSET TfIds, Handles(run, own, S, new)
  PROVE  /\ \A id \in S : WasHandled(id)'
         /\ \A id \in TfIds : WasHandled(id) => WasHandled(id)'
<1>1. /\ run >= mRunNumber /\ mRunNumber' = run /\ own <= run
      /\ handled' = handled \cup {<<own, id>> : id \in S}
  BY DEF Handles
<1>2. \A r \in Runs : r <= mRunNumber => r <= run
  BY <1>1, ConstantsAssumption DEF TypeOK
<1> QED BY <1>1, <1>2 DEF WasHandled

\* A StfSender that does nothing in the step keeps its STF pending, unless it is handled.
LEMMA OthersAccounted ==
  ASSUME TypeOK, [Next]_vars, NEW run \in Runs, NEW own \in Runs, NEW S \in SUBSET TfIds,
         NEW new \in SUBSET TfIds, Handles(run, own, S, new),
         NEW s \in StfSenders, Accounted(s),
         lastSent'[s] = lastSent[s], senderRun'[s] = senderRun[s]
  PROVE  Accounted(s)'
<1>1. /\ run >= mRunNumber /\ mRunNumber' = run
      /\ \A id \in TfIds \ S : MapOf(run)[id] \subseteq mStfInfoMap'[id]
  BY DEF Handles
<1>2. /\ run \in Nat /\ mRunNumber \in Nat /\ senderRun[s] \in Nat
      /\ lastSent[s] \in TfIds \cup {0}
  BY ConstantsAssumption DEF TypeOK
<1>3. lastSent[s] # 0 => senderRun[s] <= run
  BY <1>1, <1>2 DEF Accounted
<1>4. ASSUME mode' = "running", senderRun[s] = run, NEW id \in TfIds, id = lastSent[s],
             lastSent[s] # 0
      PROVE  s \in mStfInfoMap'[id] \/ WasHandled(id)'
  <2>1. run = mRunNumber /\ mode = "running"
    BY <1>1, <1>2, <1>4, StoppedStaysStopped DEF Accounted
  <2>2. s \in mStfInfoMap[id] \/ WasHandled(id)
    BY <1>4, <2>1 DEF Accounted
  <2>3. MapOf(run) = mStfInfoMap
    BY <2>1, <1>2 DEF MapOf, IsNewRun
  <2>4. WasHandled(id) \/ id \in S => WasHandled(id)'
    BY HandledStays
  <2> QED BY <2>2, <2>3, <2>4, <1>1
<1>5. ASSUME mode' = "running", senderRun[s] = run, lastSent[s] # 0
      PROVE  s \in mStfInfoMap'[lastSent[s]] \/ \E r \in Runs : r <= run /\ <<r, lastSent[s]>> \in handled'
  <2>1. PICK id \in TfIds : id = lastSent[s]
    BY <1>2, <1>5
  <2>2. s \in mStfInfoMap'[id] \/ WasHandled(id)'
    BY <1>4, <1>5, <2>1
  <2> QED BY <1>1, <2>1, <2>2 DEF WasHandled
<1>6. (lastSent[s] # 0 => senderRun[s] <= mRunNumber)'
  BY <1>1, <1>3
<1>7. ((mode = "running" /\ senderRun[s] = mRunNumber /\ lastSent[s] # 0)
         => s \in mStfInfoMap[lastSent[s]] \/ WasHandled(lastSent[s]))'
  BY <1>1, <1>5 DEF WasHandled
<1> QED BY <1>6, <1>7 DEF Accounted

\* The same in a step that leaves the bookkeeping alone.
LEMMA UntouchedAccounted ==
  ASSUME [Next]_vars, UNCHANGED <<mRunNumber, handled>>,
         mode' = "running" => mStfInfoMap' = mStfInfoMap,
         NEW s \in StfSenders, Accounted(s),
         lastSent'[s] = lastSent[s], senderRun'[s] = senderRun[s]
  PROVE  Accounted(s)'
<1>1. mode' = "running" => mode = "running"
  BY StoppedStaysStopped
<1> QED BY <1>1 DEF Accounted, WasHandled

\* The StfSender that announces: its TF is pending with it, or handled.
LEMMA AnnouncerAccounted ==
  ASSUME TypeOK, HandledInv, NEW s \in StfSenders, NEW id \in TfIds, NEW level \in Levels,
         AddStfInfo(s, id, level)
  PROVE  Accounted(s)'
<1>0. /\ lastSent'[s] = id /\ senderRun'[s] = senderRun[s]
      /\ senderRun[s] \in Nat /\ mRunNumber \in Nat /\ mRunNumber \in Runs
  <2>1. Announce(s, id, level)
    BY DEF AddStfInfo, AddStfInfoOldRun, AddStfInfoHandled, AddStfInfoRejected,
           AddStfInfoPending, AddStfInfoComplete, Accept
  <2> QED BY <2>1, ConstantsAssumption DEF Announce, TypeOK
<1>1. CASE AddStfInfoOldRun(s, id, level)
  BY <1>0, <1>1 DEF AddStfInfoOldRun, runVars, Accounted
<1>2. CASE AddStfInfoHandled(s, id, level)
  <2>1. senderRun[s] = mRunNumber /\ mRunNumber' = mRunNumber /\ handled' = handled
        /\ Handled(mRunNumber, id)
    BY <1>2 DEF AddStfInfoHandled, runVars
  <2>2. id \in mDroppedStfs.events \cup mBuiltTfs.events
    BY <2>1, CurrentRun DEF Handled, GetEvent
  <2>3. WasHandled(id)
    BY <2>2 DEF HandledInv, RecordedWasHandled
  <2>4. WasHandled(id)'
    BY <2>1, <2>3 DEF WasHandled
  <2>5. mRunNumber <= mRunNumber
    BY <1>0
  <2> QED BY <1>0, <2>1, <2>4, <2>5 DEF Accounted, WasHandled
<1>3. CASE \/ \E ok \in BOOLEAN : AddStfInfoRejected(s, id, level, ok)
           \/ AddStfInfoPending(s, id, level)
           \/ AddStfInfoComplete(s, id, level)
  <2>1. PICK S \in SUBSET TfIds : /\ Handles(senderRun[s], senderRun[s], S, {id})
                                  /\ id \in S \/ s \in mStfInfoMap'[id]
    <3>1. HandlesAnnounced(s, id)
      BY <1>3, AddStfInfoHandles
    <3> QED BY <3>1 DEF HandlesAnnounced
  <2>2. senderRun[s] \in Runs /\ {id} \in SUBSET TfIds
    BY DEF TypeOK
  <2>3. id \in S => WasHandled(id)'
    BY <2>1, <2>2, HandledStays
  <2>4. mRunNumber' = senderRun[s]
    BY <2>1 DEF Handles
  <2>5. senderRun[s] <= senderRun[s]
    BY <1>0
  <2> QED BY <1>0, <2>1, <2>3, <2>4, <2>5 DEF Accounted, WasHandled
<1> QED BY <1>1, <1>2, <1>3 DEF AddStfInfo

LEMMA StepAccounted ==
  ASSUME TypeOK, QueueInv, HandledInv, [Next]_vars, NEW s \in StfSenders, Accounted(s),
         lastSent'[s] = lastSent[s], senderRun'[s] = senderRun[s]
  PROVE  Accounted(s)'
<1>1. CASE \E run \in Runs, own \in Runs, S \in SUBSET TfIds, new \in SUBSET TfIds :
             Handles(run, own, S, new)
  BY <1>1, OthersAccounted
<1>2. CASE UNCHANGED <<mRunNumber, handled, mStfInfoMap>>
  BY <1>2, UntouchedAccounted
<1>3. CASE StopStep
  BY <1>3, UntouchedAccounted DEF StopStep, Stop, runVars
<1> QED
  BY <1>1, <1>2, <1>3, StepHandles

\* One StfSender acts, or none.
LEMMA OneSenderActs ==
  ASSUME TypeOK, [Next]_vars, NEW s \in StfSenders
  PROVE  \/ \E id \in TfIds, level \in Levels : AddStfInfo(s, id, level)
         \/ lastSent'[s] = 0
         \/ lastSent'[s] = lastSent[s] /\ senderRun'[s] = senderRun[s]
<1>1. CASE \E t \in StfSenders, run \in Runs : StartRun(t, run)
  BY <1>1 DEF StartRun, TypeOK
<1>2. CASE \E t \in StfSenders, id \in TfIds, level \in Levels : AddStfInfo(t, id, level)
  <2>1. PICK t \in StfSenders, id \in TfIds, level \in Levels : AddStfInfo(t, id, level)
    BY <1>2
  <2>2. Announce(t, id, level)
    BY <2>1 DEF AddStfInfo, AddStfInfoOldRun, AddStfInfoHandled, AddStfInfoRejected,
                AddStfInfoPending, AddStfInfoComplete, Accept
  <2>3. t # s => lastSent'[s] = lastSent[s] /\ senderRun'[s] = senderRun[s]
    BY <2>2 DEF Announce, TypeOK
  <2> QED BY <2>1, <2>3
<1>3. CASE UNCHANGED senderVars
  BY <1>3 DEF senderVars
<1> QED
  BY <1>1, <1>2, <1>3 DEF Next, StaleCleanup, HighWatermarkScan, HighWatermarkDrop,
     SchedulingPop, SchedulingBuild, SchedulingDrop, DropStfs, StopStep, vars

LEMMA AccountInvNext ==
  ASSUME TypeOK, QueueInv, HandledInv, AccountInv, [Next]_vars
  PROVE  AccountInv'
<1>1. SUFFICES ASSUME NEW s \in StfSenders PROVE Accounted(s)'
  BY AccountInvIsPerSender DEF AccountInv, SendersNotAhead, LastStfIsAccountedFor, Accounted, WasHandled
<1>2. Accounted(s)
  BY AccountInvIsPerSender
<1>3. CASE \E id \in TfIds, level \in Levels : AddStfInfo(s, id, level)
  BY <1>3, AnnouncerAccounted
<1>4. CASE lastSent'[s] = 0
  BY <1>4 DEF Accounted
<1>5. CASE lastSent'[s] = lastSent[s] /\ senderRun'[s] = senderRun[s]
  BY <1>2, <1>5, StepAccounted
<1> QED BY <1>3, <1>4, <1>5, OneSenderActs

\* As long as the scheduler runs, the last STF that each StfSender announced in the current run
\* is in the pending map, or its TF was queued for building or for dropping: addStfInfo and the
\* threads beside it forget no announcement.
THEOREM NoAnnouncementIsLost == Spec => []LastStfIsAccountedFor
<1>1. Init => QueueInv /\ MapInv /\ HandledInv /\ AccountInv
  <2>1. Init => AccountInv
    BY DEF Init, AccountInv, SendersNotAhead, LastStfIsAccountedFor
  <2> QED BY <2>1, QueueInvInit, MapInvInit, HandledInvInit
<1>2. /\ TypeOK /\ TypeOK' /\ MapInv /\ QueueInv /\ HandledInv /\ AccountInv /\ [Next]_vars
      => MapInv' /\ QueueInv' /\ HandledInv' /\ AccountInv'
  BY MapInvNext, QueueInvNext, HandledInvNext, AccountInvNext
<1>3. AccountInv => LastStfIsAccountedFor
  BY DEF AccountInv
<1> QED
  BY <1>1, <1>2, <1>3, TypeCorrect, PTL DEF Spec
=============================================================================

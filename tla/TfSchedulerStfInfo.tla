------------------------- MODULE TfSchedulerStfInfo -------------------------
(***************************************************************************)
(* TfSchedulerStfInfo: the scheduler's view of the STFs announced by the   *)
(* StfSenders.  RPC threads run addStfInfo; the scheduling, stale-cleanup, *)
(* high-watermark and drop threads run beside them.  Every access to the   *)
(* pending map is under mGlobalStfInfoLock, so one critical section is one *)
(* action; a TF popped from a queue is held outside the lock, between two  *)
(* actions.                                                                *)
(*                                                                         *)
(* Clocks are abstracted: which entries are past a timeout is any initial  *)
(* run, in TF id order, of the entries the thread scans (both scans stop   *)
(* at the first entry that is too young).  A buffer utilisation is one of  *)
(* three levels, split where the code compares it (90 % and 97 %).         *)
(***************************************************************************)
EXTENDS EventRecorder

CONSTANTS
  StfSenders,      \* the StfSenders of the partition
  TfIds,           \* the TF ids of one run
  Runs,            \* run numbers; 0 until the first run number is known
  Levels,          \* the buffer utilisations a StfSender may report
  MaxDelayTf,      \* lMaxDelayTf: sStfDiscardTimeout * 88 TFs, 440
  BuildIncomplete  \* the BuildIncompleteTfs parameter

ASSUME ConstantsAssumption ==
  /\ StfSenders # {} /\ IsFiniteSet(StfSenders)
  /\ TfIds \subseteq Nat \ {0} /\ IsFiniteSet(TfIds)
  /\ Runs \subseteq Nat /\ 0 \in Runs
  /\ Levels \subseteq {"low", "high", "full"}
  /\ MaxDelayTf \in Nat
  /\ BuildIncomplete \in BOOLEAN

VARIABLES
  senderRun,               \* the run each StfSender is in
  lastSent,                \* the last STF id it announced in that run, 0 if none
  mode,                    \* how far stop() got
  mRunNumber,
  mLastStfId,
  mMaxCompletedTfId,
  mStfInfoMap,             \* TF id -> the StfSenders whose STF info is pending
  mStfSenderInfoMap,       \* latest utilisation, "none" when cleared
  mDroppedStfs,
  mBuiltTfs,
  mCompleteStfsInfoQueue,  \* TFs for the scheduling thread
  scheduling,              \* the TF the scheduling thread holds, as <<tf>>, or <<>>
  mDropQueue,              \* TFs for the drop thread
  handled                  \* history: <<run, id>> queued for building or for dropping

senderVars == <<senderRun, lastSent>>
runVars    == <<mRunNumber, mLastStfId, mMaxCompletedTfId>>
queueVars  == <<mCompleteStfsInfoQueue, scheduling, mDropQueue>>
vars == <<senderVars, mode, runVars, mStfInfoMap, mStfSenderInfoMap, mDroppedStfs,
          mBuiltTfs, queueVars, handled>>

-----------------------------------------------------------------------------
NoStfs == [id \in TfIds |-> {}]

\* The ids that have an entry in a pending map.
Pending(map) == {id \in TfIds : map[id] # {}}

Members(order) == {order[i] : i \in DOMAIN order}

\* The one enumeration of a finite set of ids in the order of std::map.
Ascending(S) ==
  {order \in [1 .. Cardinality(S) -> S] :
     /\ Members(order) = S
     /\ \A i, j \in DOMAIN order : i < j => order[i] < order[j]}

mRunning == mode = "running"
DropQueueRunning == mode \in {"running", "stopping"}
CompleteQueueRunning == mode \in {"running", "stopping", "drop_stopped"}

\* Deviation: a ConcurrentLifo in place of the ConcurrentFifo.
PushAllLifo(queue, queueRunning, elements) ==
  IF queueRunning THEN elements \o queue ELSE queue

\* ConcurrentFifo::push of several elements: a stopped queue refuses them.
PushAll(queue, queueRunning, elements) ==
  IF queueRunning THEN queue \o elements ELSE queue

\* State a message of the given run finds: reset() ran if the run is new.
IsNewRun(run)           == mRunNumber < run
MapOf(run)              == IF IsNewRun(run) THEN NoStfs ELSE mStfInfoMap
DroppedOf(run)          == IF IsNewRun(run) THEN EmptyRecorder ELSE mDroppedStfs
BuiltOf(run)            == IF IsNewRun(run) THEN EmptyRecorder ELSE mBuiltTfs
LastStfIdOf(run)        == IF IsNewRun(run) THEN 0 ELSE mLastStfId
MaxCompletedTfIdOf(run) == IF IsNewRun(run) THEN 0 ELSE mMaxCompletedTfId

\* Deviation: a drop request that leaves the pending entry where it is.
RequestDropAllKeepingEntry(run, order, map, dropped) ==
  /\ mDroppedStfs' = SetEvents(dropped, order)
  /\ mStfInfoMap' = map
  /\ mDropQueue' = PushAll(mDropQueue, DropQueueRunning,
       [i \in DOMAIN order |-> [run |-> run, id |-> order[i]]])
  /\ handled' = handled \cup {<<run, id>> : id \in Members(order)}

\* requestDropAllLocked and requestDropAllFromSchedule, for each id of order.
RequestDropAll(run, order, map, dropped) ==
  /\ mDroppedStfs' = SetEvents(dropped, order)
  /\ mStfInfoMap' = [id \in TfIds |-> IF id \in Members(order) THEN {} ELSE map[id]]
  /\ mDropQueue' = PushAll(mDropQueue, DropQueueRunning,
       [i \in DOMAIN order |-> [run |-> run, id |-> order[i]]])
  /\ handled' = handled \cup {<<run, id>> : id \in Members(order)}

\* Pending TFs leave the map for the scheduling thread, marked as built.
QueueForScheduling(run, order, map, built, maxCompleted) ==
  /\ mStfInfoMap' = [id \in TfIds |-> IF id \in Members(order) THEN {} ELSE map[id]]
  /\ mBuiltTfs' = SetEvents(built, order)
  /\ LET last == order[Len(order)]
     IN  mMaxCompletedTfId' = IF last > maxCompleted THEN last ELSE maxCompleted
  /\ mCompleteStfsInfoQueue' = PushAll(mCompleteStfsInfoQueue, CompleteQueueRunning,
       [i \in DOMAIN order |-> [run |-> run, id |-> order[i], stfs |-> map[order[i]]]])
  /\ handled' = handled \cup {<<run, id>> : id \in Members(order)}

-----------------------------------------------------------------------------
Init ==
  /\ senderRun = [s \in StfSenders |-> 0]
  /\ lastSent = [s \in StfSenders |-> 0]
  /\ mode = "running"
  /\ mRunNumber = 0
  /\ mLastStfId = 0
  /\ mMaxCompletedTfId = 0
  /\ mStfInfoMap = NoStfs
  /\ mStfSenderInfoMap = [s \in StfSenders |-> "none"]
  /\ mDroppedStfs = EmptyRecorder
  /\ mBuiltTfs = EmptyRecorder
  /\ mCompleteStfsInfoQueue = <<>>
  /\ scheduling = <<>>
  /\ mDropQueue = <<>>
  /\ handled = {}

\* A StfSender enters a new run: its STF ids start again (StfSender is outside
\* of this module, each sender changes run on its own).
StartRun(s, run) ==
  /\ run > senderRun[s]
  /\ senderRun' = [senderRun EXCEPT ![s] = run]
  /\ lastSent' = [lastSent EXCEPT ![s] = 0]
  /\ UNCHANGED <<mode, runVars, mStfInfoMap, mStfSenderInfoMap, mDroppedStfs, mBuiltTfs,
                 queueVars, handled>>

\* What every call of addStfInfo starts with.  StfSenders announce in order
\* and may have gaps; each waits for the reply before the next announcement.
Announce(s, id, level) ==
  /\ id > lastSent[s]
  /\ lastSent' = [lastSent EXCEPT ![s] = id]
  /\ mStfSenderInfoMap' = [mStfSenderInfoMap EXCEPT ![s] = level]
  /\ UNCHANGED <<senderRun, mode, scheduling>>

\* addStfInfo, a run number smaller than the current one: discarded.
AddStfInfoOldRun(s, id, level) ==
  /\ Announce(s, id, level)
  /\ senderRun[s] < mRunNumber
  /\ UNCHANGED <<runVars, mStfInfoMap, mDroppedStfs, mBuiltTfs, mCompleteStfsInfoQueue,
                 mDropQueue, handled>>

Handled(run, id) == GetEvent(DroppedOf(run), id) \/ GetEvent(BuiltOf(run), id)

\* addStfInfo, the TF was already dropped or built: discarded.
AddStfInfoHandled(s, id, level) ==
  /\ Announce(s, id, level)
  /\ senderRun[s] = mRunNumber
  /\ Handled(mRunNumber, id)
  /\ UNCHANGED <<runVars, mStfInfoMap, mDroppedStfs, mBuiltTfs, mCompleteStfsInfoQueue,
                 mDropQueue, handled>>

\* lMinAccept.
MinAccept(last) == IF last < MaxDelayTf THEN 0 ELSE last - MaxDelayTf

\* The reasons addStfInfo has to drop a TF it has not handled yet.
MustDrop(run, id, level, stfSendersOk) ==
  \/ ~mRunning
  \/ ~stfSendersOk
  \/ level = "full"
  \/ id < MinAccept(LastStfIdOf(run)) /\ MapOf(run)[id] = {}

\* addStfInfo, the whole TF is dropped.
AddStfInfoRejected(s, id, level, stfSendersOk) ==
  LET run == senderRun[s]
  IN  /\ Announce(s, id, level)
      /\ run >= mRunNumber
      /\ ~Handled(run, id)
      /\ MustDrop(run, id, level, stfSendersOk)
      /\ mRunNumber' = run
      /\ mLastStfId' = LastStfIdOf(run)
      /\ mMaxCompletedTfId' = MaxCompletedTfIdOf(run)
      /\ mBuiltTfs' = BuiltOf(run)
      /\ RequestDropAll(run, <<id>>, MapOf(run), DroppedOf(run))
      /\ UNCHANGED mCompleteStfsInfoQueue

\* The part common to the two actions that accept an STF.
Accept(s, id, level) ==
  LET run == senderRun[s]
  IN  /\ Announce(s, id, level)
      /\ run >= mRunNumber
      /\ ~Handled(run, id)
      /\ ~MustDrop(run, id, level, TRUE)
      /\ mRunNumber' = run
      /\ mLastStfId' = IF id > LastStfIdOf(run) THEN id ELSE LastStfIdOf(run)
      /\ mDroppedStfs' = DroppedOf(run)
      /\ UNCHANGED mDropQueue

\* Deviation: the STF replaces the ones already there.
MapReplacing(s, id) == [MapOf(senderRun[s]) EXCEPT ![id] = {s}]

\* The pending map with the new STF in it.
MapWith(s, id) == [MapOf(senderRun[s]) EXCEPT ![id] = @ \cup {s}]

\* addStfInfo, the STF is pending until the other StfSenders announce theirs.
AddStfInfoPending(s, id, level) ==
  /\ Accept(s, id, level)
  /\ MapWith(s, id)[id] # StfSenders
  /\ mStfInfoMap' = MapWith(s, id)
  /\ mBuiltTfs' = BuiltOf(senderRun[s])
  /\ mMaxCompletedTfId' = MaxCompletedTfIdOf(senderRun[s])
  /\ UNCHANGED <<mCompleteStfsInfoQueue, handled>>

\* addStfInfo, the STF completes its TF: all smaller pending TFs are queued as
\* they are, and then the complete one.
AddStfInfoComplete(s, id, level) ==
  /\ Accept(s, id, level)
  /\ MapWith(s, id)[id] = StfSenders
  /\ \E order \in Ascending({i \in Pending(MapWith(s, id)) : i <= id}) :
       QueueForScheduling(senderRun[s], order, MapWith(s, id), BuiltOf(senderRun[s]),
                          MaxCompletedTfIdOf(senderRun[s]))

-----------------------------------------------------------------------------
\* Deviation: the scan goes on after an entry that is too young.
StaleCleanupWithoutBreak(bound) ==
  /\ mode # "joined"
  /\ LET stale == {id \in Pending(mStfInfoMap) : id = bound}
     IN  /\ stale # {}
         /\ \E order \in Ascending(stale) :
              QueueForScheduling(mRunNumber, order, mStfInfoMap, mBuiltTfs, mMaxCompletedTfId)
  /\ UNCHANGED <<senderVars, mode, mRunNumber, mLastStfId, mStfSenderInfoMap, mDroppedStfs,
                 scheduling, mDropQueue>>

\* Deviation: the newest entry is never stale.
StaleCleanupKeepingLast(bound) ==
  /\ mode # "joined"
  /\ LET stale == {id \in Pending(mStfInfoMap) : id < bound}
     IN  /\ stale # {}
         /\ \E order \in Ascending(stale) :
              QueueForScheduling(mRunNumber, order, mStfInfoMap, mBuiltTfs, mMaxCompletedTfId)
  /\ UNCHANGED <<senderVars, mode, mRunNumber, mLastStfId, mStfSenderInfoMap, mDroppedStfs,
                 scheduling, mDropQueue>>

\* StaleCleanupThread: the oldest pending TFs, up to the first one that was
\* updated within the timeout, are queued incomplete.
StaleCleanup(bound) ==
  /\ mode # "joined"
  /\ LET stale == {id \in Pending(mStfInfoMap) : id <= bound}
     IN  /\ stale # {}
         /\ \E order \in Ascending(stale) :
              QueueForScheduling(mRunNumber, order, mStfInfoMap, mBuiltTfs, mMaxCompletedTfId)
  /\ UNCHANGED <<senderVars, mode, mRunNumber, mLastStfId, mStfSenderInfoMap, mDroppedStfs,
                 scheduling, mDropQueue>>

\* lStfsToFree: the sender with the highest utilisation, when that is above 90 %.
StfsToFree ==
  LET At(level) == {s \in StfSenders : mStfSenderInfoMap[s] = level}
  IN  IF At("full") # {} THEN At("full") ELSE At("high")

\* Incomplete TFs at or below the highest completed one, up to the first that
\* is younger than a second, that would free memory of StfSender s.
WatermarkVictims(s, bound) ==
  {id \in Pending(mStfInfoMap) :
     id <= bound /\ id <= mMaxCompletedTfId /\ s \in mStfInfoMap[id]}

\* HighWatermarkThread, nothing to drop: only the utilisations are cleared.
HighWatermarkScan ==
  /\ mode # "joined"
  /\ mStfSenderInfoMap' = [s \in StfSenders |-> "none"]
  /\ UNCHANGED <<senderVars, mode, runVars, mStfInfoMap, mDroppedStfs, mBuiltTfs, queueVars,
                 handled>>

\* HighWatermarkThread, the sender has TFs to drop.
HighWatermarkDrop(s, bound) ==
  /\ mode # "joined"
  /\ s \in StfsToFree
  /\ WatermarkVictims(s, bound) # {}
  /\ mStfSenderInfoMap' = [t \in StfSenders |-> "none"]
  /\ \E order \in Ascending(WatermarkVictims(s, bound)) :
       RequestDropAll(mRunNumber, order, mStfInfoMap, mDroppedStfs)
  /\ UNCHANGED <<senderVars, mode, runVars, mBuiltTfs, mCompleteStfsInfoQueue, scheduling>>

-----------------------------------------------------------------------------
\* SchedulingThread takes the next TF.
SchedulingPop ==
  /\ scheduling = <<>>
  /\ mCompleteStfsInfoQueue # <<>>
  /\ scheduling' = <<Head(mCompleteStfsInfoQueue)>>
  /\ mCompleteStfsInfoQueue' = Tail(mCompleteStfsInfoQueue)
  /\ UNCHANGED <<senderVars, mode, runVars, mStfInfoMap, mStfSenderInfoMap, mDroppedStfs,
                 mBuiltTfs, mDropQueue, handled>>

\* SchedulingThread: a TfBuilder accepted the TF.
SchedulingBuild ==
  /\ scheduling # <<>>
  /\ scheduling[1].stfs = StfSenders \/ BuildIncomplete
  /\ scheduling' = <<>>
  /\ UNCHANGED <<senderVars, mode, runVars, mStfInfoMap, mStfSenderInfoMap, mDroppedStfs,
                 mBuiltTfs, mCompleteStfsInfoQueue, mDropQueue, handled>>

\* SchedulingThread: requestDropAllFromSchedule, because the TF is incomplete,
\* no TfBuilder has room for it, or the chosen one refused it or is gone.  The
\* record is made in the recorder of the run that is current by now.
SchedulingDrop ==
  /\ scheduling # <<>>
  /\ RequestDropAll(scheduling[1].run, <<scheduling[1].id>>, mStfInfoMap, mDroppedStfs)
  /\ scheduling' = <<>>
  /\ UNCHANGED <<senderVars, mode, runVars, mStfSenderInfoMap, mBuiltTfs,
                 mCompleteStfsInfoQueue>>

\* DropThread tells every StfSender to drop the TF.
DropStfs ==
  /\ mDropQueue # <<>>
  /\ mDropQueue' = Tail(mDropQueue)
  /\ UNCHANGED <<senderVars, mode, runVars, mStfInfoMap, mStfSenderInfoMap, mDroppedStfs,
                 mBuiltTfs, mCompleteStfsInfoQueue, scheduling, handled>>

-----------------------------------------------------------------------------
\* stop(): clear mRunning, stop the queues one after the other, join the threads (which first
\* drain them) and clear the pending map.  The RPC server is still up.
Stop ==
  \/ /\ mode = "running"
     /\ mode' = "stopping"
     /\ UNCHANGED mStfInfoMap
  \/ /\ mode = "stopping"
     /\ mode' = "drop_stopped"
     /\ UNCHANGED mStfInfoMap
  \/ /\ mode = "drop_stopped"
     /\ mode' = "queues_stopped"
     /\ UNCHANGED mStfInfoMap
  \/ /\ mode = "queues_stopped"
     /\ mCompleteStfsInfoQueue = <<>> /\ scheduling = <<>> /\ mDropQueue = <<>>
     /\ mode' = "joined"
     /\ mStfInfoMap' = NoStfs

StopStep ==
  /\ Stop
  /\ UNCHANGED <<senderVars, runVars, mStfSenderInfoMap, mDroppedStfs, mBuiltTfs, queueVars,
                 handled>>

AddStfInfo(s, id, level) ==
  \/ AddStfInfoOldRun(s, id, level)
  \/ AddStfInfoHandled(s, id, level)
  \/ \E stfSendersOk \in BOOLEAN : AddStfInfoRejected(s, id, level, stfSendersOk)
  \/ AddStfInfoPending(s, id, level)
  \/ AddStfInfoComplete(s, id, level)

Next ==
  \/ \E s \in StfSenders, run \in Runs : StartRun(s, run)
  \/ \E s \in StfSenders, id \in TfIds, level \in Levels : AddStfInfo(s, id, level)
  \/ \E bound \in TfIds : StaleCleanup(bound)
  \/ HighWatermarkScan
  \/ \E s \in StfSenders, bound \in TfIds : HighWatermarkDrop(s, bound)
  \/ SchedulingPop \/ SchedulingBuild \/ SchedulingDrop
  \/ DropStfs
  \/ StopStep

Spec == Init /\ [][Next]_vars

\* The scheduler's threads keep running and their RPCs return; a TF that gets
\* no more updates passes the stale timeout.  StfSenders, runs and stop() owe
\* nothing, but once stop() is called it goes through.
Fairness ==
  /\ WF_vars(\E bound \in TfIds : StaleCleanup(bound))
  /\ WF_vars(SchedulingPop)
  /\ WF_vars(SchedulingBuild \/ SchedulingDrop)
  /\ WF_vars(DropStfs)
  /\ WF_vars(mode # "running" /\ StopStep)

FairSpec == Spec /\ Fairness

-----------------------------------------------------------------------------
Queued == scheduling \o mCompleteStfsInfoQueue

QueuedTfs   == [run : Runs, id : TfIds, stfs : (SUBSET StfSenders) \ {{}}]
DroppedTfs  == [run : Runs, id : TfIds]

TypeOK ==
  /\ senderRun \in [StfSenders -> Runs]
  /\ lastSent \in [StfSenders -> TfIds \cup {0}]
  /\ mode \in {"running", "stopping", "drop_stopped", "queues_stopped", "joined"}
  /\ mRunNumber \in Runs
  /\ mLastStfId \in TfIds \cup {0}
  /\ mMaxCompletedTfId \in TfIds \cup {0}
  /\ mStfInfoMap \in [TfIds -> SUBSET StfSenders]
  /\ mStfSenderInfoMap \in [StfSenders -> Levels \cup {"none"}]
  /\ mDroppedStfs \in Recorders(TfIds)
  /\ mBuiltTfs \in Recorders(TfIds)
  /\ mCompleteStfsInfoQueue \in Seq(QueuedTfs)
  /\ scheduling \in Seq(QueuedTfs) /\ Len(scheduling) <= 1
  /\ mDropQueue \in Seq(DroppedTfs)
  /\ handled \subseteq Runs \X TfIds

\* A TF that was recorded as dropped or as built has no pending STF: the two assertions of
\* addStfInfo on its discard paths.  And one that was queued for building or dropping can come
\* back as pending only when its id is below the first one that a recorder saw in the run.
PendingNotHandled ==
  /\ \A id \in Pending(mStfInfoMap) :
       ~GetEvent(mDroppedStfs, id) /\ ~GetEvent(mBuiltTfs, id)
  /\ \A id \in TfIds :
       <<mRunNumber, id>> \in handled => Covers(mDroppedStfs, id) \/ Covers(mBuiltTfs, id)

\* StfSender s will announce no STF with this id, or a smaller one, in this run.
IsPast(s, id) ==
  senderRun[s] > mRunNumber \/ (senderRun[s] = mRunNumber /\ lastSent[s] >= id)

\* What HighWatermarkThread relies on to drop pending TFs: a TF at or below the
\* highest completed id lacks the STF of a StfSender that is already past it,
\* so it can never become complete.
PendingBelowCompletedIsHopeless ==
  \A id \in Pending(mStfInfoMap) :
    id <= mMaxCompletedTfId => \E s \in StfSenders \ mStfInfoMap[id] : IsPast(s, id)

\* A TF with all of its STFs is scheduled after smaller TFs only, whatever
\* stale TFs the other threads queue around it.
CompleteTfsInOrder ==
  \A i, j \in DOMAIN Queued :
    (i < j /\ Queued[i].run = Queued[j].run /\ Queued[j].stfs = StfSenders)
      => Queued[i].id < Queued[j].id

\* The last STF that a StfSender announced in the current run is pending, with
\* that StfSender in its TF, or the TF was handled, or its pending STFs were
\* thrown away by the late drop of a TF of an earlier run with the same id.
LastStfIsAccountedFor ==
  mode = "running" =>
    \A s \in StfSenders :
      (senderRun[s] = mRunNumber /\ lastSent[s] # 0) =>
        \/ s \in mStfInfoMap[lastSent[s]]
        \/ \E run \in Runs : run <= mRunNumber /\ <<run, lastSent[s]>> \in handled

\* Every pending or queued TF leaves the scheduler: it is given to a TfBuilder
\* or its drop is sent, unless its run ends while it is pending.
EveryTfLeaves ==
  \A id \in TfIds :
    []<>(id \notin Pending(mStfInfoMap) /\ \A tf \in Members(Queued \o mDropQueue) : tf.id # id)

-----------------------------------------------------------------------------
(***************************************************************************)
(* What the code and its comments say, and the code does not keep.         *)
(***************************************************************************)
\* DROP_SCHED_DISCARDED, "scheduler already processed that tf": no STF is taken
\* into a TF that was queued for building or for dropping in the same run.
HandledNeverPending ==
  \A id \in Pending(mStfInfoMap) : <<mRunNumber, id>> \notin handled

\* The assertion of StaleCleanupThread: stale TFs are above the highest
\* completed one.
StaleAboveCompleted ==
  [][\A bound \in TfIds :
       StaleCleanup(bound) =>
         \A id \in Pending(mStfInfoMap) : id <= bound => id > mMaxCompletedTfId]_vars

\* The assertion of DropThread: the TF it drops has no pending STFs.
DroppedNotPending ==
  [][DropStfs => Head(mDropQueue).id \notin Pending(mStfInfoMap)]_vars
=============================================================================

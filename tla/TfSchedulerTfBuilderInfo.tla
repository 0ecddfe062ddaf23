----------------------- MODULE TfSchedulerTfBuilderInfo -----------------------
(***************************************************************************)
(* What the scheduler knows of the TfBuilders, and how it chooses one for  *)
(* a TF.  TfBuilders report their free memory, the TFs in building and the *)
(* last TF they built; the scheduler keeps an estimate of the free memory, *)
(* which it lowers by more than the size of each TF that it gives to a     *)
(* TfBuilder and which it replaces when a report is up to date.  Reports,  *)
(* the scheduling threads for TFs and for topological STFs, and the        *)
(* housekeeping of TfBuilders that do not report run at the same time.     *)
(*                                                                         *)
(* A TfBuilder takes a TF that fits in its free buffer, builds the TFs in  *)
(* order, gives up one for which it gets no STF, and forwards them.  One   *)
(* of its reports is on the way at a time; it may be lost.  A call to      *)
(* build a TF may fail, before or after the TfBuilder took the TF.         *)
(*                                                                         *)
(* The STFs of a run have one source: either TFs or topological STFs are   *)
(* given to TfBuilders.  They all have one size.  The scheduler is running *)
(* and accepts updates.  That a TfBuilder is stale, because no report came *)
(* for 5 s, may happen at any time.  The ids of topological STFs, which    *)
(* the TfBuilder counts itself, are above those of the TFs here.           *)
(***************************************************************************)
EXTENDS Integers, Sequences, FiniteSets, SequencesExt

CONSTANTS
  TfBuilders,
  MaxTf,              \* bound: the TFs are 1 .. MaxTf
  TopoStfs,           \* bound: a sequence of equipments, of which STFs come in turn
  TfSize,
  BufferSize,         \* of every TfBuilder
  mMaxTfsInBuilding,
  sTfSizeOverestimatePercent,
  GivenUp,            \* TFs for which there may be no STF
  Joining,            \* bound: the TfBuilders that there are, in runs of which source,
  Failing,            \* those that may die, and calls to which may fail,
  Restarting,         \* those that may stop and start to accept TFs, and reset,
  Silent              \* and those that may get stale

Sources == {"DEFAULT", "TOPOLOGICAL"}

ASSUME TfBuilderInfoAssumption ==
  /\ IsFiniteSet(TfBuilders)
  /\ MaxTf \in Nat /\ TfSize \in Nat \ {0} /\ BufferSize \in Nat
  /\ mMaxTfsInBuilding \in Nat \ {0} /\ sTfSizeOverestimatePercent \in Nat
  /\ GivenUp \subseteq 1 .. MaxTf
  /\ Joining \subseteq Sources \X TfBuilders
  /\ Failing \subseteq Joining /\ Restarting \subseteq Joining /\ Silent \subseteq Joining

VARIABLES
  mGlobalInfo,        \* the TfBuilders that are known
  info,               \* their TfBuilderInfo
  mReadyTfBuilders,
  mTopoTfBuilders,    \* [equipment, tfBuilder], at most one of an equipment
  lIdsToErase,        \* the TfBuilders that the housekeeping found stale
  source,             \* the source of the STFs
  tf,                 \* the TF at the scheduling thread
  chosen,             \* <<its TfBuilder and the answer of that>>, or <<>>
  topo,               \* the number of the STF at the topological scheduling thread
  topoChosen,
  accepting,          \* the TfBuilders with mAcceptingTfs
  dead,
  free,               \* mCurrentTfBufferSize of the TfBuilders
  building,           \* the TFs that they took and neither built nor gave up
  buffered,           \* the TFs with an entry in mTfIdSizes
  mLastBuiltTfId,
  mNumTfsInBuilding,
  report,             \* <<the report on the way>>, or <<>>
  disturbed,          \* history: TfBuilders that joined with TFs, or took topological STFs
  failed              \* history: TfBuilders a call to which failed, by the scheduler's record

schedulerVars == <<mGlobalInfo, info, mReadyTfBuilders, mTopoTfBuilders, lIdsToErase>>
threadVars == <<source, tf, chosen, topo, topoChosen>>
tfBuilderVars == <<free, building, buffered, mLastBuiltTfId, mNumTfsInBuilding>>
historyVars == <<disturbed, failed>>
vars == <<schedulerVars, threadVars, accepting, dead, tfBuilderVars, report, historyVars>>

NewInfo(free_memory) ==
  [mEstimatedFreeMemory |-> free_memory, mReportedFreeMemory |-> free_memory,
   mTfsInBuilding |-> 0, mLastScheduledTf |-> 0, mTotalUtilization |-> 0]

Init ==
  /\ mGlobalInfo = {} /\ info = [b \in TfBuilders |-> NewInfo(0)]
  /\ mReadyTfBuilders = <<>> /\ mTopoTfBuilders = {} /\ lIdsToErase = {}
  /\ source \in Sources
  /\ tf = 1 /\ chosen = <<>> /\ topo = 1 /\ topoChosen = <<>>
  /\ accepting = {} /\ dead = {}
  /\ free = [b \in TfBuilders |-> BufferSize]
  /\ building = [b \in TfBuilders |-> <<>>] /\ buffered = [b \in TfBuilders |-> {}]
  /\ mLastBuiltTfId = [b \in TfBuilders |-> 0] /\ mNumTfsInBuilding = [b \in TfBuilders |-> 0]
  /\ report = [b \in TfBuilders |-> <<>>]
  /\ disturbed = {} /\ failed = {}

IsReady(b) == \E i \in DOMAIN mReadyTfBuilders : mReadyTfBuilders[i] = b

-----------------------------------------------------------------------------
\* TfBuilders.

\* A report, while none is on the way.
Report(b, running) ==
  [running |-> running, free_memory |-> free[b], last_built_tf_id |-> mLastBuiltTfId[b],
   num_tfs_in_building |-> mNumTfsInBuilding[b]]

sendTfBuilderUpdate(b) ==
  /\ <<source, b>> \in Joining /\ b \notin dead /\ report[b] = <<>>
  /\ report' = [report EXCEPT ![b] = <<Report(b, b \in accepting)>>]
  /\ UNCHANGED <<schedulerVars, threadVars, accepting, dead, tfBuilderVars, historyVars>>

\* Starting and stopping to accept TFs is reported at once.
startAcceptingTfs(b) ==
  /\ <<source, b>> \in Joining /\ b \notin dead /\ b \notin accepting /\ report[b] = <<>>
  /\ accepting' = accepting \union {b}
  /\ report' = [report EXCEPT ![b] = <<Report(b, TRUE)>>]
  /\ UNCHANGED <<schedulerVars, threadVars, dead, tfBuilderVars, historyVars>>

stopAcceptingTfs(b) ==
  /\ <<source, b>> \in Restarting /\ b \notin dead /\ b \in accepting /\ report[b] = <<>>
  /\ accepting' = accepting \ {b}
  /\ report' = [report EXCEPT ![b] = <<Report(b, FALSE)>>]
  /\ UNCHANGED <<schedulerVars, threadVars, dead, tfBuilderVars, historyVars>>

\* A new run, for which the counters are reset while TFs may be building.
reset_run_counters(b) ==
  /\ <<source, b>> \in Restarting /\ b \notin dead
  /\ free' = [free EXCEPT ![b] = BufferSize]
  /\ buffered' = [buffered EXCEPT ![b] = {}]
  /\ mLastBuiltTfId' = [mLastBuiltTfId EXCEPT ![b] = 0]
  /\ mNumTfsInBuilding' = [mNumTfsInBuilding EXCEPT ![b] = 0]
  /\ disturbed' = disturbed \union {b}
  /\ UNCHANGED <<schedulerVars, threadVars, accepting, dead, building, report, failed>>

recordTfBuilt(b) ==
  /\ b \notin dead /\ building[b] # <<>>
  /\ LET id == Head(building[b])
     IN  /\ free' = [free EXCEPT ![b] = IF @ >= TfSize THEN @ - TfSize ELSE 0]
         /\ buffered' = [buffered EXCEPT ![b] = @ \union {id}]
         /\ mLastBuiltTfId' = [mLastBuiltTfId EXCEPT ![b] = IF id > @ THEN id ELSE @]
  /\ mNumTfsInBuilding' = [mNumTfsInBuilding EXCEPT ![b] = IF @ > 0 THEN @ - 1 ELSE 0]
  /\ building' = [building EXCEPT ![b] = Tail(@)]
  /\ UNCHANGED <<schedulerVars, threadVars, accepting, dead, report, historyVars>>

\* No StfSender was reached: the TF stays counted as in building.
GiveUp(b) ==
  /\ b \notin dead /\ building[b] # <<>> /\ Head(building[b]) \in GivenUp
  /\ building' = [building EXCEPT ![b] = Tail(@)]
  /\ UNCHANGED <<schedulerVars, threadVars, accepting, dead, free, buffered, mLastBuiltTfId,
                 mNumTfsInBuilding, report, historyVars>>

recordTfForwarded(b, id) ==
  /\ b \notin dead
  /\ free' = [free EXCEPT ![b] = @ + TfSize]
  /\ buffered' = [buffered EXCEPT ![b] = @ \ {id}]
  /\ UNCHANGED <<schedulerVars, threadVars, accepting, dead, building, mLastBuiltTfId,
                 mNumTfsInBuilding, report, historyVars>>

\* A TfBuilder dies, and is started again at no later time.
Die(b) ==
  /\ <<source, b>> \in Failing /\ dead' = dead \union {b}
  /\ UNCHANGED <<schedulerVars, threadVars, accepting, tfBuilderVars, report, historyVars>>

\* The call with a report fails.
LoseUpdate(b) ==
  /\ report[b] # <<>>
  /\ report' = [report EXCEPT ![b] = <<>>]
  /\ UNCHANGED <<schedulerVars, threadVars, accepting, dead, tfBuilderVars, historyVars>>

-----------------------------------------------------------------------------
\* Reports at the scheduler.

\* The place of b in the list: the first one, if there were several.
PlaceOf(b) ==
  CHOOSE i \in DOMAIN mReadyTfBuilders :
    mReadyTfBuilders[i] = b /\ \A j \in 1 .. (i - 1) : mReadyTfBuilders[j] # b

removeReadyTfBuilder(b) ==
  /\ mReadyTfBuilders' =
       IF IsReady(b) THEN RemoveAt(mReadyTfBuilders, PlaceOf(b)) ELSE mReadyTfBuilders
  /\ mTopoTfBuilders' = {a \in mTopoTfBuilders : a.tfBuilder # b}

\* The TfBuilder leaves,
RemoveTfBuilder(b) ==
  IF b \in mGlobalInfo
    THEN /\ removeReadyTfBuilder(b)
         /\ mGlobalInfo' = mGlobalInfo \ {b}
         /\ failed' = failed \ {b}
         /\ UNCHANGED <<info, disturbed>>
    ELSE UNCHANGED <<mGlobalInfo, info, mReadyTfBuilders, mTopoTfBuilders, historyVars>>

\* joins,
AddTfBuilder(b, update) ==
  /\ mGlobalInfo' = mGlobalInfo \union {b}
  /\ info' = [info EXCEPT ![b] = NewInfo(update.free_memory)]
  /\ mReadyTfBuilders' = Append(mReadyTfBuilders, b)
  /\ disturbed' = IF building[b] = <<>> /\ buffered[b] = {} /\ mLastBuiltTfId[b] = 0
                     /\ (chosen = <<>> \/ chosen[1].tfBuilder # b)
                    THEN disturbed ELSE disturbed \union {b}
  /\ UNCHANGED <<mTopoTfBuilders, failed>>

\* Deviation: the estimate follows every report.
EstimateOfReport(known, update) == update.free_memory

\* Deviation: the estimate is never raised.
EstimateOnlyLowered(known, update) ==
  IF known.mEstimatedFreeMemory > update.free_memory
    THEN update.free_memory ELSE known.mEstimatedFreeMemory

\* or is up to date.  The estimate is replaced when the last TF that was scheduled is
\* built, only lowered while it is not, and left alone otherwise.
NewEstimate(known, update) ==
  IF update.last_built_tf_id = known.mLastScheduledTf
    \/ (update.last_built_tf_id < known.mLastScheduledTf
          /\ known.mEstimatedFreeMemory > update.free_memory)
    THEN update.free_memory
    ELSE known.mEstimatedFreeMemory

UpdateTfBuilder(b, update) ==
  /\ info' = [info EXCEPT ![b].mReportedFreeMemory = update.free_memory,
                          ![b].mTfsInBuilding = update.num_tfs_in_building,
                          ![b].mEstimatedFreeMemory = NewEstimate(info[b], update)]
  /\ UNCHANGED <<mGlobalInfo, mReadyTfBuilders, mTopoTfBuilders, historyVars>>

updateTfBuilderInfo(b) ==
  /\ report[b] # <<>>
  /\ report' = [report EXCEPT ![b] = <<>>]
  /\ LET update == report[b][1]
     IN  \/ ~update.running /\ RemoveTfBuilder(b)
         \/ update.running /\ b \notin mGlobalInfo /\ AddTfBuilder(b, update)
         \/ update.running /\ b \in mGlobalInfo /\ UpdateTfBuilder(b, update)
  /\ UNCHANGED <<lIdsToErase, threadVars, accepting, dead, tfBuilderVars>>

\* HousekeepingThread looks for stale TfBuilders,
CollectStale ==
  /\ lIdsToErase = {}
  /\ \E ids \in SUBSET {b \in mGlobalInfo : <<source, b>> \in Silent \/ b \in dead} :
       ids # {} /\ mGlobalInfo \intersect dead \subseteq ids /\ lIdsToErase' = ids
  /\ UNCHANGED <<mGlobalInfo, info, mReadyTfBuilders, mTopoTfBuilders, threadVars, accepting, dead,
                 tfBuilderVars, report, historyVars>>

\* Deviation: the TfBuilder is removed from the ready list only.
EraseFromReady(b) ==
  /\ b \in lIdsToErase
  /\ lIdsToErase' = lIdsToErase \ {b}
  /\ removeReadyTfBuilder(b)
  /\ UNCHANGED <<mGlobalInfo, info, threadVars, accepting, dead, tfBuilderVars, report, historyVars>>

\* Deviation: the TfBuilder is removed from the known ones only.
EraseFromGlobal(b) ==
  /\ b \in lIdsToErase
  /\ lIdsToErase' = lIdsToErase \ {b}
  /\ mGlobalInfo' = mGlobalInfo \ {b}
  /\ UNCHANGED <<info, mReadyTfBuilders, mTopoTfBuilders, threadVars, accepting, dead,
                 tfBuilderVars, report, historyVars>>

\* and removes them later, whatever they reported in between.
EraseStale(b) ==
  /\ b \in lIdsToErase
  /\ lIdsToErase' = lIdsToErase \ {b}
  /\ mGlobalInfo' = mGlobalInfo \ {b}
  /\ removeReadyTfBuilder(b)
  /\ failed' = failed \ {b}
  /\ UNCHANGED <<info, threadVars, accepting, dead, tfBuilderVars, report, disturbed>>

-----------------------------------------------------------------------------
\* SchedulingThread.

lTfEstSize == (TfSize * (sTfSizeOverestimatePercent + 100)) \div 100

\* The chosen TfBuilder goes to the end of the list.
ChooseTfBuilder(i) ==
  LET b == mReadyTfBuilders[i]
  IN  /\ mReadyTfBuilders' = Append(RemoveAt(mReadyTfBuilders, i), b)
      /\ info' = [info EXCEPT ![b].mEstimatedFreeMemory = @ - lTfEstSize]

HasRoom(b) ==
  info[b].mTfsInBuilding < mMaxTfsInBuilding /\ info[b].mEstimatedFreeMemory >= lTfEstSize

\* The first one with room is chosen; the TF is dropped if there is none.
findTfBuilderForTf ==
  /\ source = "DEFAULT" /\ tf <= MaxTf /\ chosen = <<>>
  /\ IF \E i \in DOMAIN mReadyTfBuilders : HasRoom(mReadyTfBuilders[i])
       THEN \E i \in DOMAIN mReadyTfBuilders :
              /\ HasRoom(mReadyTfBuilders[i])
              /\ \A j \in 1 .. (i - 1) : ~HasRoom(mReadyTfBuilders[j])
              /\ ChooseTfBuilder(i)
              /\ chosen' = <<[tfBuilder |-> mReadyTfBuilders[i], answer |-> "NONE"]>>
              /\ UNCHANGED tf
       ELSE /\ tf' = tf + 1
            /\ UNCHANGED <<mReadyTfBuilders, info, chosen>>
  /\ UNCHANGED <<mGlobalInfo, mTopoTfBuilders, lIdsToErase, source, topo, topoChosen, accepting, dead,
                 tfBuilderVars, report, historyVars>>

\* The TfBuilder takes a TF, or has no memory for it.
Accept(b, id) ==
  /\ b \notin dead /\ TfSize <= free[b]
  /\ building' = [building EXCEPT ![b] = Append(@, id)]
  /\ mNumTfsInBuilding' = [mNumTfsInBuilding EXCEPT ![b] = @ + 1]

Refuse(b) == b \notin dead /\ TfSize > free[b] /\ UNCHANGED <<building, mNumTfsInBuilding>>

Answered(thread, answer) == [thread EXCEPT ![1].answer = answer]

\* The call returns OK or ERROR_NOMEM; or it fails, or there is no client for it.
BuildTfRequest ==
  /\ chosen # <<>> /\ chosen[1].answer = "NONE"
  /\ LET b == chosen[1].tfBuilder
     IN  \/ Accept(b, tf) /\ chosen' = Answered(chosen, "OK")
         \/ Refuse(b) /\ chosen' = Answered(chosen, "ERROR")
         \/ <<source, b>> \in Failing /\ Accept(b, tf) /\ chosen' = Answered(chosen, "FAILED")
         \/ /\ <<source, b>> \in Failing /\ chosen' = Answered(chosen, "FAILED")
            /\ UNCHANGED <<building, mNumTfsInBuilding>>
  /\ UNCHANGED <<schedulerVars, source, tf, topo, topoChosen, accepting, dead, free, buffered,
                 mLastBuiltTfId, report, historyVars>>

markTfBuilderWithTfId(b) ==
  info' = IF b \in mGlobalInfo
            THEN [info EXCEPT ![b].mLastScheduledTf = tf, ![b].mTfsInBuilding = @ + 1]
            ELSE info

\* A TfBuilder that could not be called is removed from the ready list only.
FailedCall(b) ==
  /\ removeReadyTfBuilder(b)
  /\ failed' = IF b \in mGlobalInfo THEN failed \union {b} ELSE failed

SchedulingThread ==
  /\ chosen # <<>> /\ chosen[1].answer # "NONE"
  /\ LET b == chosen[1].tfBuilder
     IN  \/ /\ chosen[1].answer = "OK" /\ markTfBuilderWithTfId(b)
            /\ UNCHANGED <<mReadyTfBuilders, mTopoTfBuilders, failed>>
         \/ /\ chosen[1].answer = "ERROR"
            /\ UNCHANGED <<info, mReadyTfBuilders, mTopoTfBuilders, failed>>
         \/ chosen[1].answer = "FAILED" /\ FailedCall(b) /\ UNCHANGED info
  /\ tf' = tf + 1 /\ chosen' = <<>>
  /\ UNCHANGED <<mGlobalInfo, lIdsToErase, source, topo, topoChosen, accepting, dead,
                 tfBuilderVars, report, disturbed>>

-----------------------------------------------------------------------------
\* TopoSchedulingThread.

\* Deviation: the least used TfBuilder is taken every time.
LeastUsed(equipment, b) ==
  IsReady(b) /\ \A i \in DOMAIN mReadyTfBuilders :
    info[b].mTotalUtilization <= info[mReadyTfBuilders[i]].mTotalUtilization

\* The TfBuilder that an equipment has, or the one with the fewest of the ready ones.
TopoCandidate(equipment, b) ==
  IF \E a \in mTopoTfBuilders : a.equipment = equipment
    THEN [equipment |-> equipment, tfBuilder |-> b] \in mTopoTfBuilders
    ELSE IsReady(b) /\ \A i \in DOMAIN mReadyTfBuilders :
           info[b].mTotalUtilization <= info[mReadyTfBuilders[i]].mTotalUtilization

Assign(equipment, b) ==
  IF \E a \in mTopoTfBuilders : a.equipment = equipment
    THEN UNCHANGED <<info, mTopoTfBuilders>>
    ELSE /\ info' = [info EXCEPT ![b].mTotalUtilization = @ + 1]
         /\ mTopoTfBuilders' = mTopoTfBuilders \union {[equipment |-> equipment, tfBuilder |-> b]}

findTfBuilderForTopoStf ==
  /\ source = "TOPOLOGICAL" /\ topo <= Len(TopoStfs) /\ topoChosen = <<>>
  /\ IF \E b \in TfBuilders : TopoCandidate(TopoStfs[topo], b)
       THEN \E b \in TfBuilders :
              /\ TopoCandidate(TopoStfs[topo], b)
              /\ Assign(TopoStfs[topo], b)
              /\ topoChosen' = <<[tfBuilder |-> b, answer |-> "NONE"]>>
              /\ UNCHANGED topo
       ELSE /\ topo' = topo + 1
            /\ UNCHANGED <<info, mTopoTfBuilders, topoChosen>>
  /\ UNCHANGED <<mGlobalInfo, mReadyTfBuilders, lIdsToErase, source, tf, chosen, accepting, dead,
                 tfBuilderVars, report, historyVars>>

TopoBuildTfRequest ==
  /\ topoChosen # <<>> /\ topoChosen[1].answer = "NONE"
  /\ LET b == topoChosen[1].tfBuilder
     IN  /\ \/ Accept(b, MaxTf + topo) /\ topoChosen' = Answered(topoChosen, "OK")
            \/ Refuse(b) /\ topoChosen' = Answered(topoChosen, "ERROR")
            \/ <<source, b>> \in Failing /\ Accept(b, MaxTf + topo) /\ topoChosen' = Answered(topoChosen, "FAILED")
            \/ /\ <<source, b>> \in Failing /\ topoChosen' = Answered(topoChosen, "FAILED")
               /\ UNCHANGED <<building, mNumTfsInBuilding>>
         /\ disturbed' = disturbed \union {b}
  /\ UNCHANGED <<schedulerVars, source, tf, chosen, topo, accepting, dead, free, buffered,
                 mLastBuiltTfId, report, failed>>

TopoSchedulingThread ==
  /\ topoChosen # <<>> /\ topoChosen[1].answer # "NONE"
  /\ IF topoChosen[1].answer = "FAILED"
       THEN FailedCall(topoChosen[1].tfBuilder)
       ELSE UNCHANGED <<mReadyTfBuilders, mTopoTfBuilders, failed>>
  /\ topo' = topo + 1 /\ topoChosen' = <<>>
  /\ UNCHANGED <<mGlobalInfo, info, lIdsToErase, source, tf, chosen, accepting, dead, tfBuilderVars,
                 report, disturbed>>

-----------------------------------------------------------------------------
TfBuilderStep(b) ==
  \/ sendTfBuilderUpdate(b) \/ startAcceptingTfs(b) \/ stopAcceptingTfs(b)
  \/ reset_run_counters(b) \/ recordTfBuilt(b) \/ GiveUp(b) \/ Die(b) \/ LoseUpdate(b)
  \/ \E id \in buffered[b] : recordTfForwarded(b, id)

ThreadStep == findTfBuilderForTf \/ BuildTfRequest \/ SchedulingThread

TopoThreadStep == findTfBuilderForTopoStf \/ TopoBuildTfRequest \/ TopoSchedulingThread

Next ==
  \/ \E b \in TfBuilders : TfBuilderStep(b) \/ updateTfBuilderInfo(b) \/ EraseStale(b)
  \/ CollectStale \/ ThreadStep \/ TopoThreadStep

Spec == Init /\ [][Next]_vars

\* The threads run.  TfBuilders report again and again, and not every report is lost.
Fairness ==
  /\ WF_vars(ThreadStep) /\ WF_vars(TopoThreadStep)
  /\ WF_vars(mGlobalInfo \intersect dead # {} /\ CollectStale)
  /\ \A b \in TfBuilders :
       /\ WF_vars(EraseStale(b))
       /\ WF_vars(startAcceptingTfs(b)) /\ WF_vars(sendTfBuilderUpdate(b))
       /\ SF_vars(updateTfBuilderInfo(b))
       /\ WF_vars(recordTfBuilt(b) \/ GiveUp(b))
       /\ WF_vars(\E id \in buffered[b] : recordTfForwarded(b, id))

FairSpec == Spec /\ Fairness

-----------------------------------------------------------------------------
Updates ==
  [running : BOOLEAN, free_memory : Nat, last_built_tf_id : Nat, num_tfs_in_building : Nat]

Infos ==
  [mEstimatedFreeMemory : Nat, mReportedFreeMemory : Nat, mTfsInBuilding : Nat,
   mLastScheduledTf : Nat, mTotalUtilization : Nat]

Calls == [tfBuilder : TfBuilders, answer : {"NONE", "OK", "ERROR", "FAILED"}]

TypeOK ==
  /\ mGlobalInfo \subseteq TfBuilders /\ lIdsToErase \subseteq TfBuilders
  /\ info \in [TfBuilders -> Infos]
  /\ mReadyTfBuilders \in Seq(TfBuilders)
  /\ \A a \in mTopoTfBuilders : a.tfBuilder \in TfBuilders
  /\ \A a, other \in mTopoTfBuilders : a.equipment = other.equipment => a = other
  /\ source \in Sources /\ tf \in Nat /\ topo \in Nat
  /\ chosen \in Seq(Calls) /\ Len(chosen) <= 1
  /\ topoChosen \in Seq(Calls) /\ Len(topoChosen) <= 1
  /\ accepting \subseteq TfBuilders /\ dead \subseteq TfBuilders
  /\ free \in [TfBuilders -> Nat] /\ building \in [TfBuilders -> Seq(Nat)]
  /\ buffered \in [TfBuilders -> SUBSET Nat]
  /\ mLastBuiltTfId \in [TfBuilders -> Nat] /\ mNumTfsInBuilding \in [TfBuilders -> Nat]
  /\ report \in [TfBuilders -> Seq(Updates)] /\ \A b \in TfBuilders : Len(report[b]) <= 1
  /\ disturbed \subseteq TfBuilders /\ failed \subseteq TfBuilders

\* Whatever reports, removals and failed calls interleave, a ready TfBuilder is known
\* and is there once, equipments are assigned to ready TfBuilders only, and no estimate
\* wraps below zero (TypeOK).
ReadyIsKnown ==
  /\ TypeOK
  /\ \A i \in DOMAIN mReadyTfBuilders : mReadyTfBuilders[i] \in mGlobalInfo
  /\ \A i, j \in DOMAIN mReadyTfBuilders : mReadyTfBuilders[i] = mReadyTfBuilders[j] => i = j
  /\ \A a \in mTopoTfBuilders : IsReady(a.tfBuilder)

\* The TFs that a TfBuilder has to build: the one that the scheduling thread gives to
\* it is among them.
Committed(b) ==
  Len(building[b]) + (IF chosen # <<>> /\ chosen[1].tfBuilder = b /\ chosen[1].answer = "NONE" THEN 1 ELSE 0)

\* A report may replace the estimate of a TfBuilder while the scheduling thread gives
\* a TF to it, and that TF is forgotten; but no more than this one: what the
\* scheduler still believes to be free is there after all other TFs are built.
OvercommitsOneTf ==
  \A b \in TfBuilders \ disturbed : IsReady(b) =>
    info[b].mEstimatedFreeMemory + TfSize * Committed(b) <= free[b] + TfSize

\* TfBuilderInput.cxx:189: the scheduler does not overcommit the TfBuilders.
NeverOvercommitted ==
  \A b \in TfBuilders \ disturbed : TfSize * Len(building[b]) <= free[b]

\* TfSchedulerTfBuilderInfo.cxx:119: a report whose last built TF is after the last
\* scheduled one lowers the estimate.
EstimateBelowReport ==
  \A b \in mGlobalInfo : info[b].mEstimatedFreeMemory <= info[b].mReportedFreeMemory

\* An STF goes to the TfBuilder of the earlier ones of its equipment, unless that has
\* left the ready list since.
SameTfBuilder ==
  [][\A a \in mTopoTfBuilders :
       /\ a \in mTopoTfBuilders' \/ ~IsReady(a.tfBuilder)'
       /\ topoChosen = <<>> /\ topoChosen' # <<>> /\ a.equipment = TopoStfs[topo] =>
            topoChosen'[1].tfBuilder = a.tfBuilder]_vars

\* The scheduler follows the TfBuilders: one that keeps accepting TFs becomes ready, unless
\* a call to it failed, and one that died is removed.
ReadyFollows ==
  \A b \in TfBuilders :
    /\ <>[](b \in accepting /\ b \notin dead /\ b \notin failed) => []<>IsReady(b)
    /\ <>[](b \in dead) => []<>(~IsReady(b))

\* When a TfBuilder has forwarded all its TFs, the scheduler comes to know of its
\* buffer again, unless the last TF given to it was not built.
EstimateRecovers ==
  \A b \in TfBuilders :
    <>[](IsReady(b) /\ b \notin dead /\ info[b].mLastScheduledTf = mLastBuiltTfId[b])
      => []<>(info[b].mEstimatedFreeMemory = free[b])
=============================================================================

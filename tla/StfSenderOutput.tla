-------------------------- MODULE StfSenderOutput --------------------------
(***************************************************************************)
(* StfSender with the UCX output: the STFs from the pipeline are counted,  *)
(* put into mScheduledStfMap and announced to the scheduler, and leave the *)
(* map when a TfBuilder asks for them, when the scheduler drops them, or   *)
(* when the announcement fails.  The drop thread and the sending threads   *)
(* give the buffer back.  Runs start and stop under all of them: the       *)
(* counters are reset, the map and the queues are not.                     *)
(*                                                                         *)
(* The environment: STFs come in the order of StfBuilder, in each run with *)
(* increasing ids, of which some are missing.  The scheduler takes or      *)
(* refuses an announced STF and decides once about each; its drop requests *)
(* are asynchronous, go to StfSenders that have not announced as well, and *)
(* name only the id.  A decision may be lost on its way.                   *)
(*                                                                         *)
(* The queues are sets: no property tells their order.  The counters are   *)
(* integers: the code's wrap, and agree with them modulo their width.  The *)
(* file sink is disabled, the process is not standalone and the task is    *)
(* not reset.                                                              *)
(***************************************************************************)
EXTENDS Integers, Sequences, FiniteSets

CONSTANTS
  TfBuilders,  \* the ids of the TfBuilders
  Drop,        \* the TfBuilder id "-1" of a drop request
  MaxRuns,     \* bound: runs
  Stfs,        \* bound: the STFs that may come, with their run and id
  FailedBuilds \* bound: those whose BuildTf call may fail

ASSUME StfSenderAssumption ==
  /\ IsFiniteSet(TfBuilders) /\ Drop \notin TfBuilders
  /\ MaxRuns \in Nat
  /\ IsFiniteSet(Stfs) /\ Stfs \subseteq [run : Nat \ {0}, id : Nat \ {0}]

VARIABLES
  run,               \* the run that started last
  mAcceptingData,
  lastStf,           \* the STF received last
  mPipelineI,        \* the pipeline queue eSenderIn
  mScheduledStfMap,  \* the STFs of the map; the key is the id
  announcing,        \* <<the announcement on its way>>, or <<>>
  mDropQueue,
  mSendRequestQueue, \* STFs with the TfBuilder they go to
  sending,           \* those in the hands of a thread of the pool
  handedOff,         \* <<the STF handed to the output and not yet counted>>, or <<>>
  mOutputMap,        \* the TfBuilders connected and without connection error
  mBuffered,         \* mCnt; mSize is counted in the same places
  mInSending,
  mMissing,
  mLastStfId,
  requests,          \* STF data requests on their way
  taken,             \* history: the STFs the scheduler has taken
  decided,           \* history: the STFs the scheduler has decided about
  answered,          \* history: the STFs for which a request was handled
  unconfirmed,       \* history: the STFs taken whose reply was lost
  lost,              \* history: the STFs deleted without being counted
  counted,           \* history: the STFs counted since the last reset
  carried            \* history: what the last reset set to zero

schedVars == <<mPipelineI, announcing, mMissing, mLastStfId, counted>>
runVars == <<run, mAcceptingData, lastStf, carried>>
sendVars == <<mSendRequestQueue, sending, lost>>
envVars == <<requests, taken, decided, answered, unconfirmed>>
vars == <<runVars, schedVars, mScheduledStfMap, mDropQueue, sendVars, handedOff, mOutputMap,
          mBuffered, mInSending, envVars>>

SendRequests == [stf : Stfs, to : TfBuilders]
DataRequests == [stf : Stfs, to : TfBuilders \union {Drop}]
Announcements == [stf : Stfs, status : {"sent", "ok", "refused", "failed"}]

Init ==
  /\ run = 0 /\ mAcceptingData = FALSE /\ lastStf = [run |-> 0, id |-> 0]
  /\ mPipelineI = <<>> /\ announcing = <<>> /\ mScheduledStfMap = {} /\ mDropQueue = {}
  /\ mSendRequestQueue = {} /\ sending = {} /\ handedOff = <<>> /\ mOutputMap = {}
  /\ mBuffered = 0 /\ mInSending = 0 /\ mMissing = 0 /\ mLastStfId = 0
  /\ requests = {} /\ taken = {} /\ decided = {} /\ answered = {} /\ unconfirmed = {}
  /\ lost = {} /\ counted = {} /\ carried = [buffered |-> 0, sending |-> 0]

\* The STFs that are in memory after they were counted.
BeingSent == {r.stf : r \in mSendRequestQueue \union sending}
Held == mScheduledStfMap \union mDropQueue \union BeingSent

\* mScheduledStfMapLock is held by a request until the STF is counted as being sent.
MapUnlocked == handedOff = <<>>
Entry(id) == {s \in mScheduledStfMap : s.id = id}

-----------------------------------------------------------------------------
resetCounters ==
  /\ mBuffered' = 0 /\ mInSending' = 0 /\ mMissing' = 0 /\ mLastStfId' = 0
  /\ counted' = {}
  /\ carried' = [buffered |-> carried.buffered + mBuffered,
                 sending  |-> carried.sending + mInSending]

PreRun ==
  /\ ~mAcceptingData /\ run < MaxRuns
  /\ run' = run + 1 /\ mAcceptingData' = TRUE
  /\ resetCounters
  /\ UNCHANGED <<lastStf, mPipelineI, announcing, mScheduledStfMap, mDropQueue, sendVars,
                 handedOff, mOutputMap, envVars>>

PostRun ==
  /\ mAcceptingData
  /\ mAcceptingData' = FALSE
  /\ resetCounters
  /\ UNCHANGED <<run, lastStf, mPipelineI, announcing, mScheduledStfMap, mDropQueue, sendVars,
                 handedOff, mOutputMap, envVars>>

\* The order in which StfBuilder sends STFs.
After(s, t) == s.run > t.run \/ (s.run = t.run /\ s.id > t.id)

\* StfReceiverThread.  Data still on its way when the next run starts is taken
\* for data of that run.
StfReceiverThread(stf) ==
  /\ mAcceptingData /\ stf.run <= run
  /\ After(stf, lastStf)
  /\ lastStf' = stf
  /\ mPipelineI' = Append(mPipelineI, stf)
  /\ UNCHANGED <<run, mAcceptingData, carried, announcing, mMissing, mLastStfId, counted,
                 mScheduledStfMap, mDropQueue, sendVars, handedOff, mOutputMap, mBuffered,
                 mInSending, envVars>>

-----------------------------------------------------------------------------
\* StfSchedulerThread, from the dequeue to the announcement: the STF is counted,
CountStf(stf) ==
  /\ mPipelineI # <<>> /\ stf = Head(mPipelineI) /\ announcing = <<>>
  /\ mPipelineI' = Tail(mPipelineI)
  /\ mMissing' = mMissing + (stf.id - mLastStfId - 1)
  /\ mLastStfId' = stf.id
  /\ counted' = counted \union {stf}
  /\ mBuffered' = mBuffered + 1
  /\ UNCHANGED <<runVars, sendVars, handedOff, mOutputMap, mInSending, envVars>>

\* dropped when there is no scheduler, its origin is unknown, it does not have the
\* one equipment of a topological STF, or its id is scheduled,
DropUnscheduled ==
  /\ \E stf \in Stfs : CountStf(stf) /\ mDropQueue' = mDropQueue \union {stf}
  /\ UNCHANGED <<announcing, mScheduledStfMap>>

\* Deviation: an STF with the same id is replaced and dropped.
ScheduleReplacing ==
  /\ MapUnlocked
  /\ \E stf \in Stfs :
       /\ CountStf(stf)
       /\ mDropQueue' = mDropQueue \union Entry(stf.id)
       /\ mScheduledStfMap' = (mScheduledStfMap \ Entry(stf.id)) \union {stf}
       /\ announcing' = <<[stf |-> stf, status |-> "sent"]>>

\* or put into the map and announced.
Schedule ==
  /\ MapUnlocked
  /\ \E stf \in Stfs :
       /\ CountStf(stf) /\ Entry(stf.id) = {}
       /\ mScheduledStfMap' = mScheduledStfMap \union {stf}
       /\ announcing' = <<[stf |-> stf, status |-> "sent"]>>
  /\ UNCHANGED mDropQueue

\* Deviation: the STF stays in the map when the scheduler refuses it.
AnnouncedOnlySending ==
  /\ announcing # <<>> /\ announcing[1].status # "sent"
  /\ announcing' = <<>>
  /\ IF announcing[1].status # "failed"
       THEN UNCHANGED <<mScheduledStfMap, mDropQueue>>
       ELSE LET entry == Entry(announcing[1].stf.id)
            IN  /\ MapUnlocked
                /\ mDropQueue' = mDropQueue \union entry
                /\ mScheduledStfMap' = mScheduledStfMap \ entry
  /\ UNCHANGED <<runVars, mPipelineI, mMissing, mLastStfId, counted, sendVars, handedOff,
                 mOutputMap, mBuffered, mInSending, envVars>>

\* StfSchedulerThread after the call: an STF that is not accepted is dropped, if
\* it is still there.
Announced ==
  /\ announcing # <<>> /\ announcing[1].status # "sent"
  /\ announcing' = <<>>
  /\ IF announcing[1].status = "ok"
       THEN UNCHANGED <<mScheduledStfMap, mDropQueue>>
       ELSE LET entry == Entry(announcing[1].stf.id)
            IN  /\ MapUnlocked
                /\ mDropQueue' = mDropQueue \union entry
                /\ mScheduledStfMap' = mScheduledStfMap \ entry
  /\ UNCHANGED <<runVars, mPipelineI, mMissing, mLastStfId, counted, sendVars, handedOff,
                 mOutputMap, mBuffered, mInSending, envVars>>

-----------------------------------------------------------------------------
\* sendStfToTfBuilder for an STF that is not in the map: only an answer.
RequestUnknown(request) ==
  /\ Entry(request.stf.id) = {}
  /\ UNCHANGED <<mScheduledStfMap, mDropQueue, mSendRequestQueue, handedOff>>

\* for a drop request of the scheduler,
RequestDrop(request) ==
  LET entry == Entry(request.stf.id)
  IN  /\ entry # {} /\ request.to = Drop
      /\ mScheduledStfMap' = mScheduledStfMap \ entry
      /\ mDropQueue' = mDropQueue \union entry
      /\ UNCHANGED <<mSendRequestQueue, handedOff>>

\* and for the request of a TfBuilder, which the UCX output always accepts.
RequestSend(request) ==
  /\ request.to # Drop
  /\ \E stf \in Entry(request.stf.id) :
       /\ mScheduledStfMap' = mScheduledStfMap \ {stf}
       /\ mSendRequestQueue' = mSendRequestQueue \union {[stf |-> stf, to |-> request.to]}
       /\ handedOff' = <<stf>>
  /\ UNCHANGED mDropQueue

sendStfToTfBuilder ==
  /\ MapUnlocked
  /\ \E request \in requests :
       /\ requests' = requests \ {request} /\ answered' = answered \union {request.stf}
       /\ \/ RequestUnknown(request)
          \/ RequestDrop(request)
          \/ RequestSend(request)
  /\ UNCHANGED <<runVars, schedVars, sending, lost, mOutputMap, mBuffered, mInSending, taken,
                 decided, unconfirmed>>

\* The end of sendStfToTfBuilder.  The STF may have gone out by now.
CountSending ==
  /\ handedOff # <<>>
  /\ handedOff' = <<>>
  /\ mInSending' = mInSending + 1
  /\ UNCHANGED <<runVars, schedVars, mScheduledStfMap, mDropQueue, sendVars, mOutputMap,
                 mBuffered, envVars>>

\* Deviation: the buffer is not given back.
DropWithoutCounting ==
  /\ \E stf \in mDropQueue : mDropQueue' = mDropQueue \ {stf}
  /\ UNCHANGED <<runVars, schedVars, mScheduledStfMap, sendVars, handedOff, mOutputMap,
                 mBuffered, mInSending, envVars>>

StfDropThread ==
  /\ \E stf \in mDropQueue : mDropQueue' = mDropQueue \ {stf}
  /\ mBuffered' = mBuffered - 1
  /\ UNCHANGED <<runVars, schedVars, mScheduledStfMap, sendVars, handedOff, mOutputMap,
                 mInSending, envVars>>

-----------------------------------------------------------------------------
connectTfBuilder(tfb) ==
  /\ tfb \notin mOutputMap
  /\ mOutputMap' = mOutputMap \union {tfb}
  /\ UNCHANGED <<runVars, schedVars, mScheduledStfMap, mDropQueue, sendVars, handedOff,
                 mBuffered, mInSending, envVars>>

\* By request or by handle_client_ep_error.
disconnectTfBuilder(tfb) ==
  /\ tfb \in mOutputMap
  /\ mOutputMap' = mOutputMap \ {tfb}
  /\ UNCHANGED <<runVars, schedVars, mScheduledStfMap, mDropQueue, sendVars, handedOff,
                 mBuffered, mInSending, envVars>>

\* DataHandlerThread takes a request.  Without a connection the STF is deleted,
\* and neither counter is changed.
TakeSendRequest ==
  /\ \E r \in mSendRequestQueue :
       /\ mSendRequestQueue' = mSendRequestQueue \ {r}
       /\ IF r.to \in mOutputMap
            THEN sending' = sending \union {r} /\ UNCHANGED lost
            ELSE lost' = lost \union {r.stf} /\ UNCHANGED sending
  /\ UNCHANGED <<runVars, schedVars, mScheduledStfMap, mDropQueue, handedOff, mOutputMap,
                 mBuffered, mInSending, envVars>>

\* Deviation: only a transfer that went well is counted.
CountTransferred ==
  /\ \E r \in sending : sending' = sending \ {r}
  /\ mBuffered' = mBuffered - 1
  /\ mInSending' \in {mInSending, mInSending - 1}
  /\ UNCHANGED <<runVars, schedVars, mScheduledStfMap, mDropQueue, mSendRequestQueue, lost,
                 handedOff, mOutputMap, envVars>>

\* DataHandlerThread after the transfer, whether that went well or not.
FinishSending ==
  /\ \E r \in sending : sending' = sending \ {r}
  /\ mBuffered' = mBuffered - 1
  /\ mInSending' = mInSending - 1
  /\ UNCHANGED <<runVars, schedVars, mScheduledStfMap, mDropQueue, mSendRequestQueue, lost,
                 handedOff, mOutputMap, envVars>>

-----------------------------------------------------------------------------
\* The scheduler, as the StfSender sees it.
SchedulerVars == <<runVars, mPipelineI, mMissing, mLastStfId, counted, mScheduledStfMap,
                   mDropQueue, sendVars, handedOff, mOutputMap, mBuffered, mInSending, answered>>

\* It takes an STF it has not decided about, or refuses it for any reason.
SchedulerAnswers ==
  /\ announcing # <<>> /\ announcing[1].status = "sent"
  /\ LET stf == announcing[1].stf
     IN  \/ /\ stf \notin decided
            /\ announcing' = <<[stf |-> stf, status |-> "ok"]>>
            /\ taken' = taken \union {stf}
         \/ /\ announcing' = <<[stf |-> stf, status |-> "refused"]>>
            /\ UNCHANGED taken
  /\ UNCHANGED <<requests, decided, unconfirmed, SchedulerVars>>

\* StfSenderStfUpdate fails, before or after the scheduler has seen the STF.
AnnouncementFails ==
  /\ announcing # <<>> /\ announcing[1].status # "failed"
  /\ announcing' = <<[stf |-> announcing[1].stf, status |-> "failed"]>>
  /\ unconfirmed' = IF announcing[1].status = "ok" THEN unconfirmed \union {announcing[1].stf}
                                                   ELSE unconfirmed
  /\ UNCHANGED <<requests, taken, decided, SchedulerVars>>

\* It drops a TF, or has a TfBuilder build one whose STF it has taken.  After a
\* BuildTf call that failed there may be requests of both.
SchedulerDecides(stf, to) ==
  /\ stf \notin decided /\ stf.run <= run
  /\ to # Drop => stf \in taken
  /\ decided' = decided \union {stf}
  /\ \/ requests' = requests \union {[stf |-> stf, to |-> to]}
     \/ /\ stf \in FailedBuilds /\ to # Drop
        /\ requests' = requests \union {[stf |-> stf, to |-> to], [stf |-> stf, to |-> Drop]}
  /\ UNCHANGED <<announcing, taken, unconfirmed, SchedulerVars>>

\* The scheduler clears its map for a new run; the decision stays unsaid.
SchedulerForgets(stf) ==
  /\ stf \in taken \ decided /\ stf.run < run
  /\ decided' = decided \union {stf}
  /\ UNCHANGED <<announcing, requests, taken, unconfirmed, SchedulerVars>>

\* A request that fails, or whose TfBuilder is gone, is not repeated.
LoseRequest(request) ==
  /\ request \in requests
  /\ requests' = requests \ {request}
  /\ UNCHANGED <<announcing, taken, decided, unconfirmed, SchedulerVars>>

-----------------------------------------------------------------------------
StfSenderThreads ==
  \/ DropUnscheduled \/ Schedule \/ Announced
  \/ sendStfToTfBuilder \/ CountSending \/ StfDropThread
  \/ TakeSendRequest \/ FinishSending

SchedulerSteps ==
  \/ SchedulerAnswers \/ AnnouncementFails
  \/ \E stf \in Stfs : \/ \E to \in TfBuilders \union {Drop} : SchedulerDecides(stf, to)
                       \/ SchedulerForgets(stf)
  \/ \E request \in requests : LoseRequest(request)

Next ==
  \/ PreRun \/ PostRun
  \/ \E stf \in Stfs : StfReceiverThread(stf)
  \/ StfSenderThreads
  \/ \E tfb \in TfBuilders : connectTfBuilder(tfb) \/ disconnectTfBuilder(tfb)
  \/ SchedulerSteps

Spec == Init /\ [][Next]_vars

\* The threads go on, transfers and calls end, and the scheduler decides about
\* what it has taken (EveryTfLeaves of TfSchedulerStfInfo).
Fairness ==
  /\ WF_vars(DropUnscheduled \/ Schedule)
  /\ WF_vars(Announced) /\ WF_vars(SchedulerAnswers)
  /\ WF_vars(sendStfToTfBuilder) /\ WF_vars(CountSending) /\ WF_vars(StfDropThread)
  /\ WF_vars(TakeSendRequest) /\ WF_vars(FinishSending)
  /\ \A stf \in Stfs :
       WF_vars(stf \in taken /\ \E to \in TfBuilders \union {Drop} : SchedulerDecides(stf, to))

FairSpec == Spec /\ Fairness

-----------------------------------------------------------------------------
TypeOK ==
  /\ run \in 0 .. MaxRuns /\ mAcceptingData \in BOOLEAN
  /\ lastStf \in [run : Nat, id : Nat]
  /\ mPipelineI \in Seq(Stfs)
  /\ mScheduledStfMap \subseteq Stfs /\ mDropQueue \subseteq Stfs
  /\ announcing \in Seq(Announcements) /\ Len(announcing) <= 1
  /\ mSendRequestQueue \subseteq SendRequests /\ sending \subseteq SendRequests
  /\ handedOff \in Seq(Stfs) /\ Len(handedOff) <= 1
  /\ mOutputMap \subseteq TfBuilders
  /\ mBuffered \in Int /\ mInSending \in Int /\ mMissing \in Int
  /\ mLastStfId \in Nat
  /\ requests \subseteq DataRequests
  /\ taken \subseteq Stfs /\ decided \subseteq Stfs /\ answered \subseteq Stfs
  /\ unconfirmed \subseteq Stfs /\ lost \subseteq Stfs /\ counted \subseteq Stfs
  /\ carried \in [buffered : Int, sending : Int]

\* The buffer counter is exact but for what the resets set to zero under way and
\* what the sending threads delete for want of a connection: the five threads
\* that change it add and subtract every other STF once.
BufferAccounted ==
  mBuffered + carried.buffered = Cardinality(Held) + Cardinality(lost)

SendingCounted ==
  mInSending + carried.sending = Cardinality(BeingSent) + Cardinality(lost) - Len(handedOff)

MissingAreGaps ==
  (\A s \in counted : s.run = run)
    => mMissing = Cardinality({i \in 1 .. mLastStfId : \A s \in counted : s.id # i})

\* mInSending counts the STFs being sent, one short while an STF that is handed to the
\* output is not counted yet, and mMissing the gaps below the last id, if no STF of an
\* earlier run was counted since the counters were reset.
SendingAccounted == SendingCounted /\ MissingAreGaps

\* An STF the scheduler has taken is in the map until a request for it is handled. Only
\* a lost reply takes it away before, or a request for an STF of another run with its id.
TakenIsThere ==
  \A stf \in taken :
    \/ stf \in mScheduledStfMap
    \/ stf \in unconfirmed
    \/ \E other \in answered : other.id = stf.id

\* What is not abandoned leaves: it is sent, dropped, or deleted unsent.  Abandoned is
\* an STF of which the scheduler has decided, but none of its requests came through.
Abandoned == {stf \in decided \ answered : \A request \in requests : request.stf # stf}

EveryStfLeaves ==
  \A stf \in Stfs : []<>(stf \notin Held \/ stf \in Abandoned)
=============================================================================

------------------------------ MODULE Partition ------------------------------
(***************************************************************************)
(* The life of a partition: the scheduler instance that connects to the    *)
(* StfSenders, the TfBuilders that ask the scheduler to be connected to    *)
(* all StfSenders and to be disconnected, the partition state that the     *)
(* monitor thread and the RPC handlers write, and its termination.         *)
(*                                                                         *)
(* The connection manager does a request of a TfBuilder under its lock,    *)
(* all the calls to the StfSenders included, but for the FairMQ disconnect *)
(* that takes the lock for each StfSender.  Calls to some StfSenders may   *)
(* fail, before or after they were served, and so may those to TfBuilders. *)
(*                                                                         *)
(* Consul can be reached.  The operator asks for the termination once, and *)
(* stops a TfBuilder that was told to terminate.                           *)
(***************************************************************************)
EXTENDS Naturals, Sequences

CONSTANTS
  StfSenders,
  TfBuilders,
  Transports,         \* of "UCX" and "FairMQ"
  FailingStfSenders,  \* calls to which may fail
  FailingTfBuilders   \* that may die, and calls to which may fail

ASSUME PartitionAssumption ==
  /\ Transports \subseteq {"UCX", "FairMQ"}
  /\ FailingStfSenders \subseteq StfSenders /\ FailingTfBuilders \subseteq TfBuilders

VARIABLES
  transport,          \* of the TfBuilders and StfSenders: DataDistNetworkTransport
  mPartitionState,
  monitor,            \* PartitionMonitorThread: where it is, and the state it is to set
  terminate,          \* the TerminatePartition handler
  instance,           \* the device thread of the scheduler
  mStfSenderState,
  mStfSenderRpcClients,
  mClientsCreated,
  mTfBuilderRpcClients,
  started,            \* the StfSenders that wrote their configuration
  stfTold,            \* the StfSenders with mTerminateRequested
  mOutputMap,         \* the TfBuilders that StfSenders are connected to
  phase,              \* of the TfBuilders
  request,            \* the connection request of the TfBuilders, and the answer
  told,               \* the TfBuilders with mTerminateRequested
  peers,              \* the StfSenders in the socket map of a TfBuilder, with FairMQ
  disconnect,         \* <<the StfSenders that a FairMQ disconnect has still to reach>>, or <<>>
  unserved,           \* history: <<stfSender, tfBuilder>>, connections that nobody got to close
  refused             \* history: and those that the StfSender refused to close

stateVars == <<mPartitionState, monitor, terminate, instance>>
clientVars == <<mStfSenderState, mStfSenderRpcClients, mClientsCreated>>
stfSenderVars == <<started, stfTold>>
tfBuilderVars == <<phase, request, told, peers>>
leftVars == <<unserved, refused>>
vars == <<transport, stateVars, clientVars, mTfBuilderRpcClients, stfSenderVars, mOutputMap,
          tfBuilderVars, disconnect, leftVars>>

Final == {"TERMINATED", "ERROR"}

accepting_updates == mPartitionState \notin {"TERMINATING"} \union Final

Init ==
  /\ transport \in Transports
  /\ mPartitionState = "CONFIGURING"
  /\ monitor = [at |-> "CHECK", to |-> "CONFIGURING"] /\ terminate = "NONE" /\ instance = "STARTING"
  /\ mStfSenderState = "INITIALIZING" /\ mStfSenderRpcClients = {} /\ mClientsCreated = FALSE
  /\ mTfBuilderRpcClients = {}
  /\ started = {} /\ stfTold = {} /\ mOutputMap = [s \in StfSenders |-> {}]
  /\ phase = [b \in TfBuilders |-> "IDLE"] /\ request = [b \in TfBuilders |-> "NONE"]
  /\ told = {} /\ peers = [b \in TfBuilders |-> {}]
  /\ disconnect = [b \in TfBuilders |-> <<>>] /\ unserved = {}
  /\ refused = {}

-----------------------------------------------------------------------------
\* The partition state.

\* updatePartitionState, in two steps: the check that nobody set a final state,
MayUpdate(new) == mPartitionState \notin Final /\ mPartitionState # new

\* and the assignment, with the state in Consul.
AssignState(new) == mPartitionState' = new

\* TerminatePartition: the operator asks for it, and a second time it is refused.
TerminatePartition ==
  /\ terminate = "NONE" /\ instance # "STOPPED"
  /\ terminate' = IF accepting_updates /\ MayUpdate("TERMINATING") THEN "ASSIGN" ELSE "DONE"
  /\ UNCHANGED <<transport, mPartitionState, monitor, instance, clientVars, mTfBuilderRpcClients,
                 stfSenderVars, mOutputMap, tfBuilderVars, disconnect, leftVars>>

TerminateAssigns ==
  /\ terminate = "ASSIGN" /\ terminate' = "DONE" /\ AssignState("TERMINATING")
  /\ UNCHANGED <<transport, monitor, instance, clientVars, mTfBuilderRpcClients, stfSenderVars,
                 mOutputMap, tfBuilderVars, disconnect, leftVars>>

-----------------------------------------------------------------------------
\* PartitionMonitorThread.

\* TerminatePartition fails at a TfBuilder that is gone.
Reached(b) == phase[b] \in {"CONNECTING", "RUNNING", "STOPPING", "CLOSING"}

\* Deviation: the client of a TfBuilder that is gone is kept.
KeepUnreached ==
  \E failed \in SUBSET (mTfBuilderRpcClients \intersect FailingTfBuilders) :
    /\ told' = told \union {b \in mTfBuilderRpcClients \ failed : Reached(b)}
    /\ UNCHANGED <<mTfBuilderRpcClients, leftVars>>

\* All TfBuilders are told; the clients with which this fails are removed.
requestTfBuildersTerminate ==
  \E failed \in SUBSET (mTfBuilderRpcClients \intersect FailingTfBuilders) :
    /\ told' = told \union {b \in mTfBuilderRpcClients \ failed : Reached(b)}
    /\ mTfBuilderRpcClients' = {b \in mTfBuilderRpcClients \ failed : Reached(b)}
    /\ unserved' = unserved \union (StfSenders \X (mTfBuilderRpcClients \ mTfBuilderRpcClients'))
    /\ UNCHANGED refused

\* All StfSenders are told.
requestStfSendersTerminate ==
  \E failed \in SUBSET (mStfSenderRpcClients \intersect FailingStfSenders) :
    stfTold' = stfTold \union (mStfSenderRpcClients \ failed)

\* The state that the monitor sets for the state of the StfSenders.
StateOfStfSenders ==
  CASE mStfSenderState = "OK" -> "CONFIGURED"
    [] mStfSenderState = "INITIALIZING" -> "CONFIGURING"
    [] OTHER -> "ERROR"

\* In teardown, it repeats the requests until no TfBuilder client is left.
MonitorTeardown ==
  /\ monitor.at = "CHECK" /\ mPartitionState \in {"TERMINATING", "ERROR"}
  /\ requestTfBuildersTerminate /\ requestStfSendersTerminate
  /\ monitor' = IF mTfBuilderRpcClients' # {} THEN monitor
                ELSE IF mPartitionState = "TERMINATING"
                       THEN [at |-> "LEAVE", to |-> "TERMINATED"]
                       ELSE [at |-> "EXITED", to |-> "ERROR"]
  /\ UNCHANGED <<transport, mPartitionState, terminate, instance, clientVars, started, mOutputMap,
                 phase, request, peers, disconnect>>

MonitorCheck ==
  /\ monitor.at = "CHECK" /\ mPartitionState \notin {"TERMINATING", "ERROR"}
  /\ monitor' = [at |-> "UPDATE", to |-> StateOfStfSenders]
  /\ UNCHANGED <<transport, mPartitionState, terminate, instance, clientVars, mTfBuilderRpcClients,
                 stfSenderVars, mOutputMap, tfBuilderVars, disconnect, leftVars>>

MonitorUpdate ==
  /\ monitor.at \in {"UPDATE", "LEAVE"}
  /\ monitor' = [monitor EXCEPT !.at =
                   IF MayUpdate(monitor.to) THEN (IF @ = "LEAVE" THEN "LAST" ELSE "ASSIGN")
                   ELSE IF @ = "LEAVE" THEN "EXITED" ELSE "CHECK"]
  /\ UNCHANGED <<transport, mPartitionState, terminate, instance, clientVars, mTfBuilderRpcClients,
                 stfSenderVars, mOutputMap, tfBuilderVars, disconnect, leftVars>>

MonitorAssigns ==
  /\ monitor.at \in {"ASSIGN", "LAST"}
  /\ AssignState(monitor.to)
  /\ monitor' = [monitor EXCEPT !.at = IF @ = "LAST" THEN "EXITED" ELSE "CHECK"]
  /\ UNCHANGED <<transport, terminate, instance, clientVars, mTfBuilderRpcClients, stfSenderVars,
                 mOutputMap, tfBuilderVars, disconnect, leftVars>>

PartitionMonitorThread == MonitorTeardown \/ MonitorCheck \/ MonitorUpdate \/ MonitorAssigns

-----------------------------------------------------------------------------
\* The scheduler instance.

\* Deviation: mConnManager.start is not called again.
ConnectOnce(s) ==
  /\ instance = "STARTING" /\ accepting_updates
  /\ s \in started /\ mStfSenderRpcClients = {}
  /\ mStfSenderRpcClients' = started
  /\ UNCHANGED <<transport, stateVars, mStfSenderState, mClientsCreated, mTfBuilderRpcClients,
                 stfSenderVars, mOutputMap, tfBuilderVars, disconnect, leftVars>>

\* mConnManager.start is called again until all StfSenders are connected.
ConnectStfSender(s) ==
  /\ instance = "STARTING" /\ accepting_updates
  /\ s \in started \ mStfSenderRpcClients
  /\ mStfSenderRpcClients' = mStfSenderRpcClients \union {s}
  /\ UNCHANGED <<transport, stateVars, mStfSenderState, mClientsCreated, mTfBuilderRpcClients,
                 stfSenderVars, mOutputMap, tfBuilderVars, disconnect, leftVars>>

AllConnected ==
  /\ instance = "STARTING" /\ accepting_updates /\ mStfSenderRpcClients = StfSenders
  /\ mClientsCreated' = TRUE /\ instance' = "RUNNING"
  /\ UNCHANGED <<transport, mPartitionState, monitor, terminate, mStfSenderState,
                 mStfSenderRpcClients, mTfBuilderRpcClients, stfSenderVars, mOutputMap,
                 tfBuilderVars, disconnect, leftVars>>

\* A request to terminate ends the start.
StartInterrupted ==
  /\ instance = "STARTING" /\ ~accepting_updates /\ instance' = "RUNNING"
  /\ UNCHANGED <<transport, mPartitionState, monitor, terminate, clientVars, mTfBuilderRpcClients,
                 stfSenderVars, mOutputMap, tfBuilderVars, disconnect, leftVars>>

\* The StfSenders were not reached in time.
StartTimeout ==
  /\ instance = "STARTING" /\ ~mClientsCreated
  /\ instance' = IF MayUpdate("ERROR") THEN "ASSIGN" ELSE "FAILED"
  /\ UNCHANGED <<transport, mPartitionState, monitor, terminate, clientVars, mTfBuilderRpcClients,
                 stfSenderVars, mOutputMap, tfBuilderVars, disconnect, leftVars>>

StartFailed ==
  /\ instance = "ASSIGN" /\ instance' = "FAILED" /\ AssignState("ERROR")
  /\ UNCHANGED <<transport, monitor, terminate, clientVars, mTfBuilderRpcClients, stfSenderVars,
                 mOutputMap, tfBuilderVars, disconnect, leftVars>>

\* StfSenderMonitoringThread.
StfSenderMonitoring ==
  /\ instance = "RUNNING" /\ mClientsCreated
  /\ mStfSenderState' \in {"OK"} \union (IF FailingStfSenders # {} THEN {"INCOMPLETE"} ELSE {})
  /\ UNCHANGED <<transport, stateVars, mStfSenderRpcClients, mClientsCreated, mTfBuilderRpcClients,
                 stfSenderVars, mOutputMap, tfBuilderVars, disconnect, leftVars>>

\* The device leaves the running state and stops everything, with the monitor joined.
StopInstance ==
  /\ instance = "FAILED" \/ (instance = "RUNNING" /\ mPartitionState \in Final)
  /\ monitor.at \in {"CHECK", "EXITED"} /\ terminate # "ASSIGN"
  /\ instance' = "STOPPED" /\ monitor' = [monitor EXCEPT !.at = "EXITED"]
  /\ mStfSenderRpcClients' = {} /\ mClientsCreated' = FALSE
  /\ UNCHANGED <<transport, mPartitionState, terminate, mStfSenderState, mTfBuilderRpcClients,
                 stfSenderVars, mOutputMap, tfBuilderVars, disconnect, leftVars>>

-----------------------------------------------------------------------------
\* Connecting TfBuilders.

StartStfSender(s) ==
  /\ s \notin started /\ started' = started \union {s}
  /\ UNCHANGED <<transport, stateVars, clientVars, mTfBuilderRpcClients, stfTold, mOutputMap,
                 tfBuilderVars, disconnect, leftVars>>

\* The answer of an StfSender to ConnectTfBuilder(UCX)Request.
CanConnect(s, b) == s \notin stfTold /\ b \notin mOutputMap[s]

\* The connections after those of b to the StfSenders of a set are made or closed.
Connected(senders, b) ==
  [s \in StfSenders |-> IF s \in senders THEN mOutputMap[s] \union {b} ELSE mOutputMap[s]]

Disconnected(map, senders, b) ==
  [s \in StfSenders |-> IF s \in senders THEN map[s] \ {b} ELSE map[s]]

\* disconnectTfBuilderUCX: all StfSenders are asked, whatever the others answer.
AskToDisconnect(map, senders, b) ==
  \E failed \in SUBSET (senders \intersect FailingStfSenders) :
    /\ mOutputMap' = Disconnected(map, senders \ failed, b)
    /\ unserved' = (unserved \union (failed \X {b})) \ ((senders \ failed) \X {b})
    /\ refused' = refused \ ((senders \ failed) \X {b})

Answer(b, answer) == request' = [request EXCEPT ![b] = answer]

\* A TfBuilder that is connected to all StfSenders,
ConnectAll(b) ==
  /\ \A s \in StfSenders : CanConnect(s, b)
  /\ mOutputMap' = Connected(StfSenders, b)
  /\ mTfBuilderRpcClients' = mTfBuilderRpcClients \union {b}
  /\ Answer(b, "OK")
  /\ unserved' = unserved \ (StfSenders \X {b})
  /\ refused' = refused \ (StfSenders \X {b})

\* Deviation: the client of the refused TfBuilder is kept.
ConnectSomeKeepClient(b) ==
  /\ Answer(b, "ERROR")
  /\ mTfBuilderRpcClients' = mTfBuilderRpcClients \union {b}
  /\ \E done \in SUBSET StfSenders, s \in StfSenders :
       /\ s \notin done /\ \A t \in done : CanConnect(t, b)
       /\ ~CanConnect(s, b)
       /\ AskToDisconnect(Connected(done, b), StfSenders, b)

\* Deviation: a TfBuilder that is refused stays connected to the others.
ConnectSomeOnly(b) ==
  /\ Answer(b, "ERROR")
  /\ mTfBuilderRpcClients' = mTfBuilderRpcClients \ {b}
  /\ \E done \in SUBSET StfSenders, s \in StfSenders :
       /\ s \notin done /\ \A t \in done : CanConnect(t, b)
       /\ ~CanConnect(s, b) \/ s \in FailingStfSenders
       /\ mOutputMap' = Connected(done, b) /\ UNCHANGED leftVars

\* and one that an StfSender refused after others were connected.  The order of the
\* StfSenders is left open.  The disconnect that follows reaches all StfSenders with
\* UCX; with FairMQ it goes by the socket map, which has no peers yet.
ConnectSome(b) ==
  /\ Answer(b, "ERROR")
  /\ mTfBuilderRpcClients' = mTfBuilderRpcClients \ {b}
  /\ \E done \in SUBSET StfSenders, s \in StfSenders :
       /\ s \notin done /\ \A t \in done : CanConnect(t, b)
       /\ \E served \in {{}, {s}} :
            /\ \/ ~CanConnect(s, b) /\ served = {}
               \/ s \in FailingStfSenders /\ (served = {} \/ CanConnect(s, b))
            /\ AskToDisconnect(Connected(done \union served, b),
                               IF transport = "UCX" THEN StfSenders ELSE peers[b], b)

\* TfBuilder(UCX)ConnectionRequest at the scheduler: whether it accepts updates,
AcceptRequest(b) ==
  /\ request[b] = "SENT" /\ instance # "STOPPED"
  /\ Answer(b, IF accepting_updates THEN "ACCEPTED" ELSE "TERMINATING")
  /\ UNCHANGED <<transport, stateVars, clientVars, mTfBuilderRpcClients, stfSenderVars, mOutputMap,
                 phase, told, peers, disconnect, leftVars>>

\* and connectTfBuilder(UCX).
connectTfBuilder(b) ==
  /\ request[b] = "ACCEPTED"
  /\ IF mStfSenderRpcClients # StfSenders
       THEN Answer(b, "NOT_READY") /\ UNCHANGED <<mTfBuilderRpcClients, mOutputMap, leftVars>>
       ELSE ConnectAll(b) \/ ConnectSome(b)
  /\ UNCHANGED <<transport, stateVars, clientVars, stfSenderVars, phase, told, peers, disconnect>>

-----------------------------------------------------------------------------
\* Disconnecting TfBuilders.

\* disconnectTfBuilderUCX, and the first step of disconnectTfBuilder.
disconnectTfBuilder(b) ==
  /\ phase[b] = "STOPPING" /\ instance # "STOPPED"
  /\ mTfBuilderRpcClients' = mTfBuilderRpcClients \ {b}
  /\ IF transport = "UCX"
       THEN /\ AskToDisconnect(mOutputMap, mStfSenderRpcClients, b)
            /\ phase' = [phase EXCEPT ![b] = "STOPPED"] /\ UNCHANGED disconnect
       ELSE /\ disconnect' = [disconnect EXCEPT ![b] = <<peers[b]>>]
            /\ phase' = [phase EXCEPT ![b] = "CLOSING"] /\ UNCHANGED <<mOutputMap, leftVars>>
  /\ UNCHANGED <<transport, stateVars, clientVars, stfSenderVars, request, told, peers>>

\* The lock is taken for each StfSender.
DisconnectPeer(b) ==
  /\ disconnect[b] # <<>>
  /\ \/ /\ disconnect[b][1] = {}
        /\ disconnect' = [disconnect EXCEPT ![b] = <<>>]
        /\ phase' = [phase EXCEPT ![b] = IF @ = "CLOSING" THEN "STOPPED" ELSE @]
        /\ UNCHANGED <<mOutputMap, leftVars>>
     \/ \E s \in disconnect[b][1] :
          /\ disconnect' = [disconnect EXCEPT ![b] = <<@[1] \ {s}>>]
          /\ AskToDisconnect(mOutputMap, {s} \intersect mStfSenderRpcClients, b)
          /\ UNCHANGED phase
  /\ UNCHANGED <<transport, stateVars, clientVars, mTfBuilderRpcClients, stfSenderVars, request,
                 told, peers>>

\* With UCX, an StfSender refuses the FairMQ request to disconnect: it has no output for it.
AskWithoutOutput(senders, b) ==
  \E failed \in SUBSET (senders \intersect FailingStfSenders) :
    /\ unserved' = unserved \union (failed \X {b})
    /\ refused' = refused \union ((senders \ failed) \X {b})
    /\ UNCHANGED mOutputMap

\* A BuildTf call that fails removes the TfBuilder.  The StfSenders are asked to
\* disconnect with the FairMQ request, whatever the transport is.
removeTfBuilder(b) ==
  /\ b \in mTfBuilderRpcClients /\ b \in FailingTfBuilders /\ instance # "STOPPED"
  /\ mTfBuilderRpcClients' = mTfBuilderRpcClients \ {b}
  /\ IF transport = "FairMQ"
       THEN AskToDisconnect(mOutputMap, mStfSenderRpcClients, b)
       ELSE AskWithoutOutput(mStfSenderRpcClients, b)
  /\ UNCHANGED <<transport, stateVars, clientVars, stfSenderVars, tfBuilderVars, disconnect>>

\* handle_client_ep_error: UCX notices that the TfBuilder is gone.
ConnectionError(s, b) ==
  /\ transport = "UCX" /\ b \in mOutputMap[s] /\ phase[b] \in {"DEAD", "STOPPED"}
  /\ mOutputMap' = [mOutputMap EXCEPT ![s] = @ \ {b}]
  /\ UNCHANGED <<transport, stateVars, clientVars, mTfBuilderRpcClients, stfSenderVars,
                 tfBuilderVars, disconnect, leftVars>>
-----------------------------------------------------------------------------
\* TfBuilders.

\* A TfBuilder finds the scheduler and all StfSenders,
StartTfBuilder(b) ==
  /\ phase[b] = "IDLE" /\ instance # "STOPPED" /\ started = StfSenders
  /\ phase' = [phase EXCEPT ![b] = "CONNECTING"]
  /\ UNCHANGED <<transport, stateVars, clientVars, mTfBuilderRpcClients, stfSenderVars, mOutputMap,
                 request, told, peers, disconnect, leftVars>>

\* requests the connections,
SendRequest(b) ==
  /\ phase[b] = "CONNECTING" /\ request[b] = "NONE" /\ Answer(b, "SENT")
  /\ UNCHANGED <<transport, stateVars, clientVars, mTfBuilderRpcClients, stfSenderVars, mOutputMap,
                 phase, told, peers, disconnect, leftVars>>

Answered == {"OK", "ERROR", "TERMINATING", "NOT_READY"}

\* again if the call failed, although it may have been served,
LoseAnswer(b) ==
  /\ b \in FailingTfBuilders /\ request[b] \in Answered
  /\ Answer(b, "NONE")
  /\ UNCHANGED <<transport, stateVars, clientVars, mTfBuilderRpcClients, stfSenderVars, mOutputMap,
                 phase, told, peers, disconnect, leftVars>>

\* and again if the StfSenders were not ready.  The input does not care about any other
\* answer: the TfBuilder accepts TFs.
ReceiveAnswer(b) ==
  /\ phase[b] = "CONNECTING" /\ request[b] \in Answered
  /\ Answer(b, "NONE")
  /\ phase' = IF request[b] = "NOT_READY" THEN phase ELSE [phase EXCEPT ![b] = "RUNNING"]
  /\ peers' = IF request[b] = "OK" THEN [peers EXCEPT ![b] = StfSenders] ELSE peers
  /\ UNCHANGED <<transport, stateVars, clientVars, mTfBuilderRpcClients, stfSenderVars, mOutputMap,
                 told, disconnect, leftVars>>

\* It is stopped,
StopTfBuilder(b) ==
  /\ phase[b] = "RUNNING" /\ phase' = [phase EXCEPT ![b] = "STOPPING"]
  /\ UNCHANGED <<transport, stateVars, clientVars, mTfBuilderRpcClients, stfSenderVars, mOutputMap,
                 request, told, peers, disconnect, leftVars>>

\* goes on if the call to disconnect fails,
DisconnectFails(b) ==
  /\ phase[b] = "STOPPING" /\ (instance = "STOPPED" \/ b \in FailingTfBuilders)
  /\ phase' = [phase EXCEPT ![b] = "STOPPED"]
  /\ unserved' = unserved \union (StfSenders \X {b})
  /\ UNCHANGED <<transport, stateVars, clientVars, mTfBuilderRpcClients, stfSenderVars, mOutputMap,
                 request, told, peers, disconnect, refused>>

\* and may be started again.
RestartTfBuilder(b) ==
  /\ phase[b] = "STOPPED" /\ phase' = [phase EXCEPT ![b] = "IDLE"]
  /\ told' = told \ {b} /\ peers' = [peers EXCEPT ![b] = {}]
  /\ UNCHANGED <<transport, stateVars, clientVars, mTfBuilderRpcClients, stfSenderVars, mOutputMap,
                 request, disconnect, leftVars>>

\* One that died left its key in Consul, and is not started again.
Die(b) ==
  /\ b \in FailingTfBuilders /\ Reached(b) /\ phase' = [phase EXCEPT ![b] = "DEAD"]
  /\ UNCHANGED <<transport, stateVars, clientVars, mTfBuilderRpcClients, stfSenderVars, mOutputMap,
                 request, told, peers, disconnect, leftVars>>

-----------------------------------------------------------------------------
InstanceStep ==
  \/ \E s \in StfSenders : ConnectStfSender(s)
  \/ AllConnected \/ StartInterrupted \/ StartFailed

RequestStep(b) == SendRequest(b) \/ AcceptRequest(b) \/ connectTfBuilder(b) \/ ReceiveAnswer(b)

DisconnectStep(b) == disconnectTfBuilder(b) \/ DisconnectPeer(b) \/ DisconnectFails(b)

Next ==
  \/ TerminatePartition \/ TerminateAssigns \/ PartitionMonitorThread
  \/ InstanceStep \/ StopInstance \/ StartTimeout \/ StfSenderMonitoring
  \/ \E s \in StfSenders : StartStfSender(s)
  \/ \E b \in TfBuilders :
       \/ StartTfBuilder(b) \/ RequestStep(b) \/ LoseAnswer(b)
       \/ StopTfBuilder(b) \/ DisconnectStep(b) \/ RestartTfBuilder(b)
       \/ removeTfBuilder(b) \/ Die(b)
       \/ \E s \in StfSenders : ConnectionError(s, b)

Spec == Init /\ [][Next]_vars

\* The threads and the handlers run, and calls do not fail for ever.  A TfBuilder that
\* was told to terminate leaves the running state, and is then stopped.
Fairness ==
  /\ WF_vars(PartitionMonitorThread) /\ WF_vars(InstanceStep) /\ WF_vars(TerminateAssigns)
  /\ SF_vars(StopInstance)  \* it ends the loop of the monitor before it joins it
  /\ \A s \in StfSenders : WF_vars(StartStfSender(s))
  /\ WF_vars(StfSenderMonitoring /\ mStfSenderState' = "OK")
  /\ \A b \in TfBuilders :
       /\ WF_vars(SendRequest(b)) /\ WF_vars(AcceptRequest(b)) /\ WF_vars(connectTfBuilder(b))
       /\ SF_vars(ReceiveAnswer(b))
       /\ WF_vars(b \in told /\ StopTfBuilder(b)) /\ WF_vars(DisconnectStep(b))
       /\ SF_vars(disconnectTfBuilder(b))

FairSpec == Spec /\ Fairness

-----------------------------------------------------------------------------
TypeOK ==
  /\ transport \in Transports
  /\ mPartitionState \in {"CONFIGURING", "CONFIGURED", "TERMINATING"} \union Final
  /\ monitor \in [at : {"CHECK", "UPDATE", "ASSIGN", "LEAVE", "LAST", "EXITED"},
                  to : {"CONFIGURING", "CONFIGURED"} \union Final]
  /\ terminate \in {"NONE", "ASSIGN", "DONE"}
  /\ instance \in {"STARTING", "RUNNING", "ASSIGN", "FAILED", "STOPPED"}
  /\ mStfSenderState \in {"OK", "INITIALIZING", "INCOMPLETE"}
  /\ mStfSenderRpcClients \subseteq started /\ started \subseteq StfSenders
  /\ mClientsCreated \in BOOLEAN /\ mTfBuilderRpcClients \subseteq TfBuilders
  /\ stfTold \subseteq StfSenders /\ mOutputMap \in [StfSenders -> SUBSET TfBuilders]
  /\ phase \in [TfBuilders -> {"IDLE", "CONNECTING", "RUNNING", "STOPPING", "CLOSING", "STOPPED", "DEAD"}]
  /\ request \in [TfBuilders -> {"NONE", "SENT", "ACCEPTED"} \union Answered]
  /\ told \subseteq TfBuilders /\ peers \in [TfBuilders -> SUBSET StfSenders]
  /\ disconnect \in [TfBuilders -> Seq(SUBSET StfSenders)] /\ \A b \in TfBuilders : Len(disconnect[b]) <= 1
  /\ unserved \subseteq StfSenders \X TfBuilders /\ refused \subseteq StfSenders \X TfBuilders

\* The scheduler gives TFs to TfBuilders that it has a client for: such a TfBuilder is
\* connected to all StfSenders, however the connection requests of TfBuilders, failed
\* calls to StfSenders, and stops and restarts of TfBuilders follow each other.
ClientIsConnected ==
  \A b \in mTfBuilderRpcClients, s \in StfSenders :
    phase[b] = "RUNNING" /\ accepting_updates => b \in mOutputMap[s] \/ <<s, b>> \in unserved

\* TfSchedulerConnManager.cxx:135: a TfBuilder that is not connected to all StfSenders is
\* disconnected from all of them.  With UCX a connection without a client has one of two
\* reasons: no request to close it reached the StfSender (a call failed, or the scheduler
\* gave the TfBuilder up while it terminates), or removeTfBuilder asked for the wrong
\* transport (:365) and the StfSender refused (StfSenderOutput.cxx:140).  Nothing else leaves
\* one, not a request that some StfSenders served and others refused, nor a TfBuilder that
\* stopped and asked again; and a partition that ended with all calls served has none.  With
\* FairMQ this fails.
OrphansAreLeft ==
  /\ TypeOK
  /\ transport = "UCX" =>
       \A b \in TfBuilders, s \in StfSenders :
         /\ b \notin mTfBuilderRpcClients \/ (mPartitionState = "TERMINATED" /\ stfTold # {})
         /\ b \in mOutputMap[s]
         => <<s, b>> \in unserved \union refused

\* A partition does not stay in termination: TfBuilders stop and disconnect, and those
\* that cannot be reached are given up.  The exception is a request that overwrites an
\* ERROR on which the monitor ended.
TerminatingEnds == []<>(mPartitionState # "TERMINATING" \/ monitor.at = "EXITED")

\* TfSchedulerInstanceRpc.cxx:226: the request to terminate started the termination, which
\* ends in a final state.  The monitor thread may overwrite the request.
TerminateTakesEffect == (mPartitionState = "TERMINATING") ~> (mPartitionState \in Final)

\* The request for connections of a TfBuilder is answered, unless the scheduler stops, or
\* the start was interrupted by a request to terminate, which may then be lost.
ConnectingEnds ==
  \A b \in TfBuilders :
    []<>(phase[b] # "CONNECTING" \/ instance = "STOPPED" \/ terminate # "NONE")
=============================================================================

---------------------------- MODULE PartitionProofs ----------------------------
(***************************************************************************)
(* Proofs about Partition: a TfBuilder that the scheduler has a client for *)
(* is connected to all StfSenders, and with UCX a connection without a     *)
(* client is one that no request to close reached, or that was asked for   *)
(* with the request of the other transport, and refused.                   *)
(*                                                                         *)
(* And, at the end, about what comes before, Discovery, for any number of  *)
(* processes, TfSchedulers and requests: a TfScheduler never runs a        *)
(* partition with the list of another, although no two accesses of the     *)
(* store are atomic, any may fail, and several TfSchedulers may take the   *)
(* same request.                                                           *)
(***************************************************************************)
EXTENDS Partition, Discovery, TLAPS

\* A client has its connections, but for those that the scheduler was not asked to
\* close, and those of a TfBuilder that died.
ClientsConnected ==
  \A b \in mTfBuilderRpcClients, s \in StfSenders :
    b \in mOutputMap[s] \/ <<s, b>> \in unserved \/ phase[b] = "DEAD"

\* A TfBuilder that disconnects, or has stopped in order, has no client.
StoppedIsNoClient ==
  \A b \in mTfBuilderRpcClients :
    /\ phase[b] # "CLOSING"
    /\ phase[b] = "STOPPED" => \A s \in StfSenders : <<s, b>> \in unserved

\* The requests of a TfBuilder that runs or stops are over, and so are the disconnects of
\* one that connects or runs.
RequestsOver ==
  \A b \in TfBuilders :
    /\ request[b] # "NONE" => phase[b] \in {"CONNECTING", "DEAD"}
    /\ disconnect[b] # <<>> => phase[b] \in {"CLOSING", "DEAD"} /\ transport # "UCX"

\* Connections are made when the scheduler has the clients of all StfSenders.
ConnectedLate ==
  \A s \in StfSenders :
    mOutputMap[s] # {} => mStfSenderRpcClients = StfSenders \/ instance = "STOPPED"

\* With UCX, a connection without a client is one that nobody asked to close, or was refused.
Orphans ==
  transport = "UCX" =>
    \A b \in TfBuilders, s \in StfSenders :
      b \notin mTfBuilderRpcClients /\ b \in mOutputMap[s] => <<s, b>> \in unserved \union refused

ConnInv ==
  ClientsConnected /\ StoppedIsNoClient /\ RequestsOver /\ ConnectedLate /\ Orphans

\* The monitor leaves when no client is left, and an StfSender that was told to terminate
\* takes no connection afterwards.
EndInv ==
  /\ monitor.at \in {"LEAVE", "LAST"} => monitor.to = "TERMINATED"
  /\ monitor.at \in {"UPDATE", "ASSIGN"} => monitor.to # "TERMINATED"
  /\ mPartitionState = "TERMINATED" => monitor.at = "EXITED"
  /\ monitor.at \in {"LEAVE", "LAST"} \/ mPartitionState = "TERMINATED" =>
       stfTold = {} \/ mTfBuilderRpcClients = {}

-----------------------------------------------------------------------------
\* What a disconnect leaves of the connections and adds to the ones that were not closed.
LEMMA AskType ==
  ASSUME NEW map \in [StfSenders -> SUBSET TfBuilders], NEW senders \in SUBSET StfSenders,
         NEW b \in TfBuilders, unserved \subseteq StfSenders \X TfBuilders,
         refused \subseteq StfSenders \X TfBuilders, AskToDisconnect(map, senders, b)
  PROVE  /\ mOutputMap' \in [StfSenders -> SUBSET TfBuilders]
         /\ unserved' \subseteq StfSenders \X TfBuilders
         /\ refused' \subseteq StfSenders \X TfBuilders
<1> PICK failed \in SUBSET (senders \intersect FailingStfSenders) :
       /\ mOutputMap' = Disconnected(map, senders \ failed, b)
       /\ unserved' = (unserved \union (failed \X {b})) \ ((senders \ failed) \X {b})
       /\ refused' = refused \ ((senders \ failed) \X {b})
  BY DEF AskToDisconnect
<1>1. mOutputMap' \in [StfSenders -> SUBSET TfBuilders]
  BY DEF Disconnected
<1>2. failed \X {b} \subseteq StfSenders \X TfBuilders
  OBVIOUS
<1> QED
  BY <1>1, <1>2

LEMMA ConnectedType ==
  ASSUME TypeOK, NEW senders \in SUBSET StfSenders, NEW b \in TfBuilders
  PROVE  Connected(senders, b) \in [StfSenders -> SUBSET TfBuilders]
  BY DEF TypeOK, Connected

\* TypeOK is inductive.
LEMMA TypeStep == TypeOK /\ [Next]_vars => TypeOK'
<1> SUFFICES ASSUME TypeOK, [Next]_vars PROVE TypeOK'
  OBVIOUS
<1> USE PartitionAssumption
<1>1. CASE TerminatePartition
  BY <1>1 DEF TypeOK, TerminatePartition, stateVars, clientVars, stfSenderVars, tfBuilderVars, leftVars
<1>2. CASE TerminateAssigns
  BY <1>2 DEF TypeOK, TerminateAssigns, AssignState, Final, stateVars, clientVars, stfSenderVars, tfBuilderVars, leftVars
<1>3. CASE MonitorTeardown
  BY <1>3 DEF TypeOK, MonitorTeardown, requestTfBuildersTerminate, requestStfSendersTerminate, Final, stateVars, clientVars, stfSenderVars, tfBuilderVars, leftVars
<1>4. CASE MonitorCheck
  BY <1>4 DEF TypeOK, MonitorCheck, StateOfStfSenders, Final, stateVars, clientVars, stfSenderVars, tfBuilderVars, leftVars
<1>5. CASE MonitorUpdate
  BY <1>5 DEF TypeOK, MonitorUpdate, stateVars, clientVars, stfSenderVars, tfBuilderVars, leftVars
<1>6. CASE MonitorAssigns
  BY <1>6 DEF TypeOK, MonitorAssigns, AssignState, Final, stateVars, clientVars, stfSenderVars, tfBuilderVars, leftVars
<1>7. CASE \E s \in StfSenders : ConnectStfSender(s)
  BY <1>7 DEF TypeOK, ConnectStfSender, stateVars, clientVars, stfSenderVars, tfBuilderVars, leftVars
<1>8. CASE AllConnected
  BY <1>8 DEF TypeOK, AllConnected, stateVars, clientVars, stfSenderVars, tfBuilderVars, leftVars
<1>9. CASE StartInterrupted
  BY <1>9 DEF TypeOK, StartInterrupted, stateVars, clientVars, stfSenderVars, tfBuilderVars, leftVars
<1>10. CASE StartFailed
  BY <1>10 DEF TypeOK, StartFailed, AssignState, Final, stateVars, clientVars, stfSenderVars, tfBuilderVars, leftVars
<1>11. CASE StopInstance
  BY <1>11 DEF TypeOK, StopInstance, stateVars, clientVars, stfSenderVars, tfBuilderVars, leftVars
<1>12. CASE StartTimeout
  BY <1>12 DEF TypeOK, StartTimeout, stateVars, clientVars, stfSenderVars, tfBuilderVars, leftVars
<1>13. CASE StfSenderMonitoring
  BY <1>13 DEF TypeOK, StfSenderMonitoring, stateVars, clientVars, stfSenderVars, tfBuilderVars, leftVars
<1>14. CASE \E s \in StfSenders : StartStfSender(s)
  BY <1>14 DEF TypeOK, StartStfSender, stateVars, clientVars, stfSenderVars, tfBuilderVars, leftVars
<1>15. CASE \E b \in TfBuilders : StartTfBuilder(b)
  BY <1>15 DEF TypeOK, StartTfBuilder, stateVars, clientVars, stfSenderVars, tfBuilderVars, leftVars
<1>16. CASE \E b \in TfBuilders : SendRequest(b)
  BY <1>16 DEF TypeOK, SendRequest, Answer, stateVars, clientVars, stfSenderVars, tfBuilderVars, leftVars
<1>17. CASE \E b \in TfBuilders : AcceptRequest(b)
  BY <1>17 DEF TypeOK, AcceptRequest, Answer, Answered, stateVars, clientVars, stfSenderVars, tfBuilderVars, leftVars
<1>18. CASE \E b \in TfBuilders : connectTfBuilder(b)
  <2> PICK b \in TfBuilders : connectTfBuilder(b)
    BY <1>18
  <2>1. CASE Answer(b, "NOT_READY") /\ UNCHANGED <<mTfBuilderRpcClients, mOutputMap, leftVars>>
    <3>1. UNCHANGED <<transport, stateVars, clientVars, stfSenderVars, phase, told, peers, disconnect>>
      BY DEF connectTfBuilder
    <3> QED
      BY <2>1, <3>1 DEF TypeOK, Answer, Answered, stateVars, clientVars, stfSenderVars, tfBuilderVars, leftVars
  <2>2. CASE ConnectAll(b)
    <3>1. mOutputMap' \in [StfSenders -> SUBSET TfBuilders]
      BY <2>2, ConnectedType DEF ConnectAll
    <3> QED
      BY <2>2, <3>1 DEF TypeOK, connectTfBuilder, ConnectAll, Answer, Answered, stateVars, clientVars, stfSenderVars, tfBuilderVars, leftVars
  <2>3. CASE ConnectSome(b)
    <3>1. /\ mOutputMap' \in [StfSenders -> SUBSET TfBuilders]
          /\ unserved' \subseteq StfSenders \X TfBuilders /\ refused' \subseteq StfSenders \X TfBuilders
      <4> PICK done \in SUBSET StfSenders, served \in SUBSET StfSenders :
             AskToDisconnect(Connected(done \union served, b),
                             IF transport = "UCX" THEN StfSenders ELSE peers[b], b)
        BY <2>3 DEF ConnectSome
      <4>1. Connected(done \union served, b) \in [StfSenders -> SUBSET TfBuilders]
        BY ConnectedType
      <4>2. (IF transport = "UCX" THEN StfSenders ELSE peers[b]) \in SUBSET StfSenders
        BY DEF TypeOK
      <4> QED
        BY <4>1, <4>2, AskType DEF TypeOK
    <3> QED
      BY <2>3, <3>1 DEF TypeOK, connectTfBuilder, ConnectSome, Answer, Answered, stateVars, clientVars, stfSenderVars, tfBuilderVars, leftVars
  <2> QED
    BY <2>1, <2>2, <2>3 DEF connectTfBuilder
<1>19. CASE \E b \in TfBuilders : ReceiveAnswer(b)
  BY <1>19 DEF TypeOK, ReceiveAnswer, Answer, stateVars, clientVars, stfSenderVars, tfBuilderVars, leftVars
<1>20. CASE \E b \in TfBuilders : LoseAnswer(b)
  BY <1>20 DEF TypeOK, LoseAnswer, Answer, stateVars, clientVars, stfSenderVars, tfBuilderVars, leftVars
<1>21. CASE \E b \in TfBuilders : StopTfBuilder(b)
  BY <1>21 DEF TypeOK, StopTfBuilder, stateVars, clientVars, stfSenderVars, tfBuilderVars, leftVars
<1>22. CASE \E b \in TfBuilders : disconnectTfBuilder(b)
  <2> PICK b \in TfBuilders : disconnectTfBuilder(b)
    BY <1>22
  <2>1. CASE transport = "UCX"
    <3>1. /\ mOutputMap' \in [StfSenders -> SUBSET TfBuilders]
          /\ unserved' \subseteq StfSenders \X TfBuilders /\ refused' \subseteq StfSenders \X TfBuilders
      BY <2>1, AskType DEF TypeOK, disconnectTfBuilder
    <3>2. /\ phase' = [phase EXCEPT ![b] = "STOPPED"] /\ UNCHANGED disconnect
          /\ mTfBuilderRpcClients' = mTfBuilderRpcClients \ {b}
          /\ UNCHANGED <<transport, stateVars, clientVars, stfSenderVars, request, told, peers>>
      BY <2>1 DEF disconnectTfBuilder
    <3> QED
      BY <3>1, <3>2 DEF TypeOK, stateVars, clientVars, stfSenderVars, tfBuilderVars, leftVars
  <2>2. CASE transport # "UCX"
    <3>1. /\ disconnect' = [disconnect EXCEPT ![b] = <<peers[b]>>]
          /\ phase' = [phase EXCEPT ![b] = "CLOSING"] /\ UNCHANGED <<mOutputMap, leftVars>>
          /\ mTfBuilderRpcClients' = mTfBuilderRpcClients \ {b}
          /\ UNCHANGED <<transport, stateVars, clientVars, stfSenderVars, request, told, peers>>
      BY <2>2 DEF disconnectTfBuilder
    <3>2. <<peers[b]>> \in Seq(SUBSET StfSenders) /\ Len(<<peers[b]>>) = 1
      BY DEF TypeOK
    <3>3. disconnect' \in [TfBuilders -> Seq(SUBSET StfSenders)] /\ \A c \in TfBuilders : Len(disconnect'[c]) <= 1
      BY <3>1, <3>2 DEF TypeOK
    <3> QED
      BY <3>1, <3>3 DEF TypeOK, stateVars, clientVars, stfSenderVars, tfBuilderVars, leftVars
  <2> QED
    BY <2>1, <2>2
<1>23. CASE \E b \in TfBuilders : DisconnectPeer(b)
  <2> PICK b \in TfBuilders : DisconnectPeer(b)
    BY <1>23
  <2>1. disconnect[b] \in Seq(SUBSET StfSenders) /\ Len(disconnect[b]) = 1
    <3> DEFINE n == Len(disconnect[b])
    <3>1. disconnect[b] \in Seq(SUBSET StfSenders) /\ disconnect[b] # <<>> /\ n <= 1
      BY DEF TypeOK, DisconnectPeer
    <3>2. n \in Nat /\ n # 0
      BY <3>1
    <3>3. n = 1
      <4> HIDE DEF n
      <4> QED
        BY <3>1, <3>2
    <3> QED
      BY <3>1, <3>3
  <2>2. CASE /\ disconnect' = [disconnect EXCEPT ![b] = <<>>]
             /\ phase' = [phase EXCEPT ![b] = IF @ = "CLOSING" THEN "STOPPED" ELSE @]
             /\ UNCHANGED <<mOutputMap, leftVars>>
    <3>1. UNCHANGED <<transport, stateVars, clientVars, mTfBuilderRpcClients, stfSenderVars, request, told, peers>>
      BY DEF DisconnectPeer
    <3>2. phase' \in [TfBuilders -> {"IDLE", "CONNECTING", "RUNNING", "STOPPING", "CLOSING", "STOPPED", "DEAD"}]
      BY <2>2 DEF TypeOK
    <3>3. disconnect' \in [TfBuilders -> Seq(SUBSET StfSenders)] /\ \A c \in TfBuilders : Len(disconnect'[c]) <= 1
      BY <2>2 DEF TypeOK
    <3> QED
      BY <2>2, <3>1, <3>2, <3>3 DEF TypeOK, stateVars, clientVars, stfSenderVars, tfBuilderVars, leftVars
  <2>3. CASE \E s \in disconnect[b][1] :
               /\ disconnect' = [disconnect EXCEPT ![b] = <<@[1] \ {s}>>]
               /\ AskToDisconnect(mOutputMap, {s} \intersect mStfSenderRpcClients, b)
               /\ UNCHANGED phase
    <3> PICK s \in disconnect[b][1] :
          /\ disconnect' = [disconnect EXCEPT ![b] = <<@[1] \ {s}>>]
          /\ AskToDisconnect(mOutputMap, {s} \intersect mStfSenderRpcClients, b)
          /\ UNCHANGED phase
      BY <2>3
    <3>1. /\ mOutputMap' \in [StfSenders -> SUBSET TfBuilders]
          /\ unserved' \subseteq StfSenders \X TfBuilders /\ refused' \subseteq StfSenders \X TfBuilders
      BY <2>1, AskType DEF TypeOK
    <3> DEFINE rest == <<disconnect[b][1] \ {s}>>
    <3>3. rest \in Seq(SUBSET StfSenders) /\ Len(rest) = 1
      BY <2>1
    <3>4. disconnect' = [disconnect EXCEPT ![b] = rest]
      OBVIOUS
    <3>2. disconnect' \in [TfBuilders -> Seq(SUBSET StfSenders)] /\ \A c \in TfBuilders : Len(disconnect'[c]) <= 1
      <4> HIDE DEF rest
      <4> QED
        BY <3>3, <3>4 DEF TypeOK
    <3> QED
      BY <3>1, <3>2 DEF TypeOK, DisconnectPeer, stateVars, clientVars, stfSenderVars, tfBuilderVars, leftVars
  <2> QED
    BY <2>2, <2>3 DEF DisconnectPeer
<1>24. CASE \E b \in TfBuilders : DisconnectFails(b)
  BY <1>24 DEF TypeOK, DisconnectFails, stateVars, clientVars, stfSenderVars, tfBuilderVars, leftVars
<1>25. CASE \E b \in TfBuilders : RestartTfBuilder(b)
  BY <1>25 DEF TypeOK, RestartTfBuilder, stateVars, clientVars, stfSenderVars, tfBuilderVars, leftVars
<1>26. CASE \E b \in TfBuilders : removeTfBuilder(b)
  <2> PICK b \in TfBuilders : removeTfBuilder(b)
    BY <1>26
  <2>1. /\ mOutputMap' \in [StfSenders -> SUBSET TfBuilders]
        /\ unserved' \subseteq StfSenders \X TfBuilders /\ refused' \subseteq StfSenders \X TfBuilders
    <3>1. CASE transport = "FairMQ"
      BY <3>1, AskType DEF TypeOK, removeTfBuilder
    <3>2. CASE transport # "FairMQ"
      BY <3>2 DEF TypeOK, removeTfBuilder, AskWithoutOutput
    <3> QED
      BY <3>1, <3>2
  <2>2. /\ mTfBuilderRpcClients' = mTfBuilderRpcClients \ {b}
        /\ UNCHANGED <<transport, stateVars, clientVars, stfSenderVars, tfBuilderVars, disconnect>>
    BY DEF removeTfBuilder
  <2> QED
    BY <2>1, <2>2 DEF TypeOK, stateVars, clientVars, stfSenderVars, tfBuilderVars
<1>27. CASE \E b \in TfBuilders : Die(b)
  BY <1>27 DEF TypeOK, Die, stateVars, clientVars, stfSenderVars, tfBuilderVars, leftVars
<1>28. CASE \E b \in TfBuilders, s \in StfSenders : ConnectionError(s, b)
  BY <1>28 DEF TypeOK, ConnectionError, stateVars, clientVars, stfSenderVars, tfBuilderVars, leftVars
<1>29. CASE UNCHANGED vars
  BY <1>29 DEF TypeOK, vars, stateVars, clientVars, stfSenderVars, tfBuilderVars, leftVars
<1> QED
  BY <1>1, <1>2, <1>3, <1>4, <1>5, <1>6, <1>7, <1>8, <1>9, <1>10, <1>11, <1>12, <1>13, <1>14, <1>15, <1>16, <1>17, <1>18, <1>19, <1>20, <1>21, <1>22, <1>23, <1>24, <1>25, <1>26, <1>27, <1>28, <1>29
  DEF Next, PartitionMonitorThread, InstanceStep, RequestStep, DisconnectStep

\* A disconnect changes the connections of one TfBuilder only; what it asked for and did
\* not get is noted.
Effect(map, senders, b) ==
  \A s \in StfSenders, c \in TfBuilders :
    /\ c # b => /\ c \in mOutputMap'[s] <=> c \in map[s]
                /\ <<s, c>> \in unserved' <=> <<s, c>> \in unserved
                /\ <<s, c>> \in refused' <=> <<s, c>> \in refused
    /\ c \in mOutputMap'[s] => c \in map[s]
    /\ c = b /\ s \in senders /\ c \in mOutputMap'[s] => <<s, c>> \in unserved'

LEMMA AskEffect ==
  ASSUME NEW map \in [StfSenders -> SUBSET TfBuilders], NEW senders \in SUBSET StfSenders,
         NEW b \in TfBuilders, AskToDisconnect(map, senders, b)
  PROVE  Effect(map, senders, b)
<1> PICK failed \in SUBSET (senders \intersect FailingStfSenders) :
       /\ mOutputMap' = Disconnected(map, senders \ failed, b)
       /\ unserved' = (unserved \union (failed \X {b})) \ ((senders \ failed) \X {b})
       /\ refused' = refused \ ((senders \ failed) \X {b})
  BY DEF AskToDisconnect
<1> SUFFICES ASSUME NEW s \in StfSenders, NEW c \in TfBuilders
             PROVE  /\ c # b => /\ c \in mOutputMap'[s] <=> c \in map[s]
                                /\ <<s, c>> \in unserved' <=> <<s, c>> \in unserved
                                /\ <<s, c>> \in refused' <=> <<s, c>> \in refused
                    /\ c \in mOutputMap'[s] => c \in map[s]
                    /\ c = b /\ s \in senders /\ c \in mOutputMap'[s] => <<s, c>> \in unserved'
  BY DEF Effect
<1>1. mOutputMap'[s] = IF s \in senders \ failed THEN map[s] \ {b} ELSE map[s]
  BY DEF Disconnected
<1>2. /\ <<s, c>> \in unserved' <=>
           ((<<s, c>> \in unserved \/ (s \in failed /\ c = b)) /\ ~(s \in senders \ failed /\ c = b))
      /\ <<s, c>> \in refused' <=> (<<s, c>> \in refused /\ ~(s \in senders \ failed /\ c = b))
  OBVIOUS
<1> QED
  BY <1>1, <1>2

LEMMA ConnectedEffect ==
  ASSUME TypeOK, NEW senders \in SUBSET StfSenders, NEW b \in TfBuilders
  PROVE  \A s \in StfSenders, c \in TfBuilders :
           c \in Connected(senders, b)[s] <=> c \in mOutputMap[s] \/ (c = b /\ s \in senders)
  BY DEF TypeOK, Connected

-----------------------------------------------------------------------------
connVars == <<transport, mTfBuilderRpcClients, mOutputMap, leftVars, phase, request, disconnect,
              mStfSenderRpcClients, instance>>

\* A step that disturbs one TfBuilder needs to be looked at for that one only.
OthersSame(b) ==
  /\ UNCHANGED <<transport, mStfSenderRpcClients, instance>>
  /\ \A c \in TfBuilders : c # b =>
       /\ c \in mTfBuilderRpcClients' => c \in mTfBuilderRpcClients
       /\ c \in mTfBuilderRpcClients => c \in mTfBuilderRpcClients'
       /\ phase'[c] = phase[c] /\ request'[c] = request[c] /\ disconnect'[c] = disconnect[c]
       /\ \A s \in StfSenders : /\ c \in mOutputMap'[s] <=> c \in mOutputMap[s]
                                /\ <<s, c>> \in unserved' <=> <<s, c>> \in unserved
                                /\ <<s, c>> \in refused' <=> <<s, c>> \in refused

ItselfFine(b) ==
  /\ b \in mTfBuilderRpcClients =>
       /\ phase[b] # "CLOSING"
       /\ phase[b] = "STOPPED" => \A s \in StfSenders : <<s, b>> \in unserved
       /\ \A s \in StfSenders : b \in mOutputMap[s] \/ <<s, b>> \in unserved \/ phase[b] = "DEAD"
  /\ request[b] # "NONE" => phase[b] \in {"CONNECTING", "DEAD"}
  /\ disconnect[b] # <<>> => phase[b] \in {"CLOSING", "DEAD"} /\ transport # "UCX"
  /\ \A s \in StfSenders :
       /\ b \in mOutputMap[s] => mStfSenderRpcClients = StfSenders \/ instance = "STOPPED"
       /\ transport = "UCX" /\ b \notin mTfBuilderRpcClients /\ b \in mOutputMap[s]
            => <<s, b>> \in unserved \union refused

LEMMA OneTfBuilder ==
  ASSUME TypeOK, TypeOK', ConnInv, NEW b \in TfBuilders, OthersSame(b), ItselfFine(b)'
  PROVE  ConnInv'
<1> USE DEF OthersSame, ItselfFine
<1>1. \A c \in mTfBuilderRpcClients' : c = b \/ (c \in TfBuilders \ {b} /\ c \in mTfBuilderRpcClients)
  BY DEF TypeOK
<1>2. ClientsConnected'
  BY <1>1 DEF ConnInv, ClientsConnected
<1>3. StoppedIsNoClient'
  BY <1>1 DEF ConnInv, StoppedIsNoClient
<1>4. RequestsOver'
  BY DEF ConnInv, RequestsOver
<1>5. ConnectedLate'
  <2> SUFFICES ASSUME NEW s \in StfSenders, NEW c \in mOutputMap'[s]
               PROVE  mStfSenderRpcClients = StfSenders \/ instance = "STOPPED"
    BY DEF ConnectedLate
  <2>1. c \in TfBuilders
    BY DEF TypeOK
  <2>2. CASE c = b
    BY <2>2
  <2>3. CASE c # b
    <3>1. mOutputMap[s] # {}
      BY <2>1, <2>3
    <3> QED
      BY <3>1 DEF ConnInv, ConnectedLate
  <2> QED
    BY <2>2, <2>3
<1>6. Orphans'
  BY DEF ConnInv, Orphans
<1> QED
  BY <1>2, <1>3, <1>4, <1>5, <1>6 DEF ConnInv

LEMMA ConnStep == TypeOK /\ ConnInv /\ [Next]_vars => ConnInv'
<1> SUFFICES ASSUME TypeOK, TypeOK', ConnInv, [Next]_vars PROVE ConnInv'
  BY TypeStep
<1> USE PartitionAssumption
<1>0. ASSUME UNCHANGED connVars PROVE ConnInv'
  BY <1>0 DEF connVars, leftVars, ConnInv, ClientsConnected, StoppedIsNoClient, RequestsOver, ConnectedLate, Orphans
<1>1. CASE TerminatePartition
  BY <1>0, <1>1 DEF connVars, TerminatePartition, stateVars, clientVars, stfSenderVars, tfBuilderVars, leftVars
<1>2. CASE TerminateAssigns
  BY <1>0, <1>2 DEF connVars, TerminateAssigns, stateVars, clientVars, stfSenderVars, tfBuilderVars, leftVars
<1>3. CASE MonitorTeardown
  BY <1>3 DEF ConnInv, ClientsConnected, StoppedIsNoClient, RequestsOver, ConnectedLate, Orphans, TypeOK, MonitorTeardown, requestTfBuildersTerminate, stateVars, clientVars, stfSenderVars, tfBuilderVars, leftVars
<1>4. CASE MonitorCheck
  BY <1>0, <1>4 DEF connVars, MonitorCheck, stateVars, clientVars, stfSenderVars, tfBuilderVars, leftVars
<1>5. CASE MonitorUpdate
  BY <1>0, <1>5 DEF connVars, MonitorUpdate, stateVars, clientVars, stfSenderVars, tfBuilderVars, leftVars
<1>6. CASE MonitorAssigns
  BY <1>0, <1>6 DEF connVars, MonitorAssigns, stateVars, clientVars, stfSenderVars, tfBuilderVars, leftVars
<1>7. CASE \E s \in StfSenders : ConnectStfSender(s)
  BY <1>7 DEF ConnInv, ClientsConnected, StoppedIsNoClient, RequestsOver, ConnectedLate, Orphans, TypeOK, ConnectStfSender, stateVars, clientVars, stfSenderVars, tfBuilderVars, leftVars
<1>8. CASE AllConnected
  BY <1>8 DEF ConnInv, ClientsConnected, StoppedIsNoClient, RequestsOver, ConnectedLate, Orphans, TypeOK, AllConnected, stateVars, clientVars, stfSenderVars, tfBuilderVars, leftVars
<1>9. CASE StartInterrupted
  BY <1>9 DEF ConnInv, ClientsConnected, StoppedIsNoClient, RequestsOver, ConnectedLate, Orphans, TypeOK, StartInterrupted, stateVars, clientVars, stfSenderVars, tfBuilderVars, leftVars
<1>10. CASE StartFailed
  BY <1>10 DEF ConnInv, ClientsConnected, StoppedIsNoClient, RequestsOver, ConnectedLate, Orphans, TypeOK, StartFailed, stateVars, clientVars, stfSenderVars, tfBuilderVars, leftVars
<1>11. CASE StopInstance
  BY <1>11 DEF ConnInv, ClientsConnected, StoppedIsNoClient, RequestsOver, ConnectedLate, Orphans, TypeOK, StopInstance, stateVars, clientVars, stfSenderVars, tfBuilderVars, leftVars
<1>12. CASE StartTimeout
  BY <1>12 DEF ConnInv, ClientsConnected, StoppedIsNoClient, RequestsOver, ConnectedLate, Orphans, TypeOK, StartTimeout, stateVars, clientVars, stfSenderVars, tfBuilderVars, leftVars
<1>13. CASE StfSenderMonitoring
  BY <1>0, <1>13 DEF connVars, StfSenderMonitoring, stateVars, clientVars, stfSenderVars, tfBuilderVars, leftVars
<1>14. CASE \E s \in StfSenders : StartStfSender(s)
  BY <1>0, <1>14 DEF connVars, StartStfSender, stateVars, clientVars, stfSenderVars, tfBuilderVars, leftVars
<1>15. CASE \E b \in TfBuilders : StartTfBuilder(b)
  BY <1>15 DEF ConnInv, ClientsConnected, StoppedIsNoClient, RequestsOver, ConnectedLate, Orphans, TypeOK, StartTfBuilder, stateVars, clientVars, stfSenderVars, tfBuilderVars, leftVars
<1>16. CASE \E b \in TfBuilders : SendRequest(b)
  BY <1>16 DEF ConnInv, ClientsConnected, StoppedIsNoClient, RequestsOver, ConnectedLate, Orphans, TypeOK, SendRequest, Answer, stateVars, clientVars, stfSenderVars, tfBuilderVars, leftVars
<1>17. CASE \E b \in TfBuilders : AcceptRequest(b)
  BY <1>17 DEF ConnInv, ClientsConnected, StoppedIsNoClient, RequestsOver, ConnectedLate, Orphans, TypeOK, AcceptRequest, Answer, stateVars, clientVars, stfSenderVars, tfBuilderVars, leftVars
<1>18. CASE \E b \in TfBuilders : connectTfBuilder(b)
  <2> PICK b \in TfBuilders : connectTfBuilder(b)
    BY <1>18
  <2>1. /\ request[b] = "ACCEPTED" /\ phase[b] \in {"CONNECTING", "DEAD"}
        /\ UNCHANGED <<transport, stateVars, clientVars, stfSenderVars, phase, told, peers, disconnect>>
    BY DEF connectTfBuilder, ConnInv, RequestsOver
  <2>2. CASE Answer(b, "NOT_READY") /\ UNCHANGED <<mTfBuilderRpcClients, mOutputMap, leftVars>>
    BY <2>1, <2>2 DEF ConnInv, ClientsConnected, StoppedIsNoClient, RequestsOver, ConnectedLate, Orphans, TypeOK, Answer, stateVars, clientVars, stfSenderVars, tfBuilderVars, leftVars
  <2>3. CASE ConnectAll(b) /\ mStfSenderRpcClients = StfSenders
    <3>1. mTfBuilderRpcClients' = mTfBuilderRpcClients \union {b} /\ Answer(b, "OK")
      BY <2>3 DEF ConnectAll
    <3>2. \A s \in StfSenders, c \in TfBuilders :
            c \in mOutputMap'[s] <=> c \in mOutputMap[s] \/ c = b
      BY <2>3, ConnectedEffect DEF ConnectAll
    <3>3. \A s \in StfSenders, c \in TfBuilders \ {b} :
            /\ <<s, c>> \in unserved' <=> <<s, c>> \in unserved
            /\ <<s, c>> \in refused' <=> <<s, c>> \in refused
      BY <2>3 DEF ConnectAll
    <3>8. OthersSame(b)
      BY <2>1, <2>3, <3>1, <3>2, <3>3 DEF OthersSame, TypeOK, Answer, stateVars, clientVars, stfSenderVars, tfBuilderVars, leftVars
    <3>9. ItselfFine(b)'
      BY <2>1, <2>3, <3>1, <3>2, <3>3 DEF ItselfFine, ConnInv, ClientsConnected, StoppedIsNoClient, RequestsOver, ConnectedLate, Orphans, TypeOK, Answer, stateVars, clientVars, stfSenderVars, tfBuilderVars, leftVars
    <3> QED
      BY <3>8, <3>9, OneTfBuilder
  <2>4. CASE ConnectSome(b) /\ mStfSenderRpcClients = StfSenders
    <3>1. mTfBuilderRpcClients' = mTfBuilderRpcClients \ {b} /\ Answer(b, "ERROR")
      BY <2>4 DEF ConnectSome
    <3> DEFINE asked == IF transport = "UCX" THEN StfSenders ELSE peers[b]
    <3> PICK done \in SUBSET StfSenders, served \in SUBSET StfSenders :
           AskToDisconnect(Connected(done \union served, b), asked, b)
      BY <2>4 DEF ConnectSome
    <3>2. Connected(done \union served, b) \in [StfSenders -> SUBSET TfBuilders]
      BY ConnectedType
    <3>3. asked \in SUBSET StfSenders /\ (transport = "UCX" => asked = StfSenders)
      BY DEF TypeOK
    <3> HIDE DEF asked
    <3>5. \A s \in StfSenders, c \in TfBuilders :
            /\ c # b => /\ c \in mOutputMap'[s] <=> c \in Connected(done \union served, b)[s]
                        /\ <<s, c>> \in unserved' <=> <<s, c>> \in unserved
                        /\ <<s, c>> \in refused' <=> <<s, c>> \in refused
            /\ c = b /\ s \in asked /\ c \in mOutputMap'[s] => <<s, c>> \in unserved'
      BY <3>2, <3>3, AskEffect DEF Effect
    <3>6. \A s \in StfSenders, c \in TfBuilders :
            c # b => (c \in Connected(done \union served, b)[s]) = (c \in mOutputMap[s])
      BY ConnectedEffect
    <3>4. \A s \in StfSenders, c \in TfBuilders :
            /\ c # b => /\ c \in mOutputMap'[s] <=> c \in mOutputMap[s]
                        /\ <<s, c>> \in unserved' <=> <<s, c>> \in unserved
                        /\ <<s, c>> \in refused' <=> <<s, c>> \in refused
            /\ c = b /\ transport = "UCX" /\ c \in mOutputMap'[s] => <<s, c>> \in unserved'
      BY <3>3, <3>5, <3>6
    <3>8. OthersSame(b)
      BY <2>1, <2>4, <3>1, <3>4 DEF OthersSame, TypeOK, Answer, stateVars, clientVars, stfSenderVars, tfBuilderVars, leftVars
    <3>9. ItselfFine(b)'
      BY <2>1, <2>4, <3>1, <3>4 DEF ItselfFine, ConnInv, ClientsConnected, StoppedIsNoClient, RequestsOver, ConnectedLate, Orphans, TypeOK, Answer, stateVars, clientVars, stfSenderVars, tfBuilderVars, leftVars
    <3> QED
      BY <3>8, <3>9, OneTfBuilder
  <2> QED
    BY <2>2, <2>3, <2>4 DEF connectTfBuilder
<1>19. CASE \E b \in TfBuilders : ReceiveAnswer(b)
  BY <1>19 DEF ConnInv, ClientsConnected, StoppedIsNoClient, RequestsOver, ConnectedLate, Orphans, TypeOK, ReceiveAnswer, Answer, Answered, stateVars, clientVars, stfSenderVars, tfBuilderVars, leftVars
<1>20. CASE \E b \in TfBuilders : LoseAnswer(b)
  BY <1>20 DEF ConnInv, ClientsConnected, StoppedIsNoClient, RequestsOver, ConnectedLate, Orphans, TypeOK, LoseAnswer, Answer, Answered, stateVars, clientVars, stfSenderVars, tfBuilderVars, leftVars
<1>21. CASE \E b \in TfBuilders : StopTfBuilder(b)
  BY <1>21 DEF ConnInv, ClientsConnected, StoppedIsNoClient, RequestsOver, ConnectedLate, Orphans, TypeOK, StopTfBuilder, stateVars, clientVars, stfSenderVars, tfBuilderVars, leftVars
<1>22. CASE \E b \in TfBuilders : disconnectTfBuilder(b)
  <2> PICK b \in TfBuilders : disconnectTfBuilder(b)
    BY <1>22
  <2>1. /\ phase[b] = "STOPPING" /\ instance # "STOPPED"
        /\ mTfBuilderRpcClients' = mTfBuilderRpcClients \ {b}
        /\ UNCHANGED <<transport, stateVars, clientVars, stfSenderVars, request, told, peers>>
    BY DEF disconnectTfBuilder
  <2>2. CASE transport = "UCX"
    <3>1. /\ AskToDisconnect(mOutputMap, mStfSenderRpcClients, b)
          /\ phase' = [phase EXCEPT ![b] = "STOPPED"] /\ UNCHANGED disconnect
      BY <2>2 DEF disconnectTfBuilder
    <3>0. mOutputMap \in [StfSenders -> SUBSET TfBuilders] /\ mStfSenderRpcClients \in SUBSET StfSenders
      BY DEF TypeOK
    <3>2. \A s \in StfSenders, c \in TfBuilders :
            /\ c # b => /\ c \in mOutputMap'[s] <=> c \in mOutputMap[s]
                        /\ <<s, c>> \in unserved' <=> <<s, c>> \in unserved
                        /\ <<s, c>> \in refused' <=> <<s, c>> \in refused
            /\ c \in mOutputMap'[s] => c \in mOutputMap[s]
            /\ c = b /\ c \in mOutputMap'[s] /\ mStfSenderRpcClients = StfSenders => <<s, c>> \in unserved'
      BY <3>0, <3>1, AskEffect DEF Effect
    <3>8. OthersSame(b)
      BY <2>1, <2>2, <3>1, <3>2 DEF OthersSame, TypeOK, stateVars, clientVars, stfSenderVars, tfBuilderVars, leftVars
    <3>9. ItselfFine(b)'
      BY <2>1, <2>2, <3>1, <3>2 DEF ItselfFine, ConnInv, ClientsConnected, StoppedIsNoClient, RequestsOver, ConnectedLate, Orphans, TypeOK, stateVars, clientVars, stfSenderVars, tfBuilderVars, leftVars
    <3> QED
      BY <3>8, <3>9, OneTfBuilder
  <2>3. CASE transport # "UCX"
    <3>8. OthersSame(b)
      BY <2>1, <2>3 DEF OthersSame, TypeOK, disconnectTfBuilder, stateVars, clientVars, stfSenderVars, tfBuilderVars, leftVars
    <3>9. ItselfFine(b)'
      BY <2>1, <2>3 DEF ItselfFine, ConnInv, ClientsConnected, StoppedIsNoClient, RequestsOver, ConnectedLate, Orphans, TypeOK, disconnectTfBuilder, stateVars, clientVars, stfSenderVars, tfBuilderVars, leftVars
    <3> QED
      BY <3>8, <3>9, OneTfBuilder
  <2> QED
    BY <2>2, <2>3
<1>23. CASE \E b \in TfBuilders : DisconnectPeer(b)
  <2> PICK b \in TfBuilders : DisconnectPeer(b)
    BY <1>23
  <2>1. /\ disconnect[b] # <<>> /\ phase[b] \in {"CLOSING", "DEAD"} /\ transport # "UCX"
        /\ UNCHANGED <<transport, stateVars, clientVars, mTfBuilderRpcClients, stfSenderVars, request, told, peers>>
    BY DEF DisconnectPeer, ConnInv, RequestsOver
  <2>2. CASE /\ disconnect' = [disconnect EXCEPT ![b] = <<>>]
             /\ phase' = [phase EXCEPT ![b] = IF @ = "CLOSING" THEN "STOPPED" ELSE @]
             /\ UNCHANGED <<mOutputMap, leftVars>>
    <3>8. OthersSame(b)
      BY <2>1, <2>2 DEF OthersSame, TypeOK, stateVars, clientVars, stfSenderVars, tfBuilderVars, leftVars
    <3>9. ItselfFine(b)'
      BY <2>1, <2>2 DEF ItselfFine, ConnInv, ClientsConnected, StoppedIsNoClient, RequestsOver, ConnectedLate, Orphans, TypeOK, stateVars, clientVars, stfSenderVars, tfBuilderVars, leftVars
    <3> QED
      BY <3>8, <3>9, OneTfBuilder
  <2>3. CASE \E s \in disconnect[b][1] :
               /\ disconnect' = [disconnect EXCEPT ![b] = <<@[1] \ {s}>>]
               /\ AskToDisconnect(mOutputMap, {s} \intersect mStfSenderRpcClients, b)
               /\ UNCHANGED phase
    <3> PICK s \in disconnect[b][1] :
          /\ disconnect' = [disconnect EXCEPT ![b] = <<@[1] \ {s}>>]
          /\ AskToDisconnect(mOutputMap, {s} \intersect mStfSenderRpcClients, b)
          /\ UNCHANGED phase
      BY <2>3
    <3>1. mOutputMap \in [StfSenders -> SUBSET TfBuilders] /\ {s} \intersect mStfSenderRpcClients \in SUBSET StfSenders
      BY DEF TypeOK
    <3>2. \A t \in StfSenders, c \in TfBuilders :
            /\ c # b => /\ c \in mOutputMap'[t] <=> c \in mOutputMap[t]
                        /\ <<t, c>> \in unserved' <=> <<t, c>> \in unserved
                        /\ <<t, c>> \in refused' <=> <<t, c>> \in refused
            /\ c \in mOutputMap'[t] => c \in mOutputMap[t]
      BY <3>1, AskEffect DEF Effect
    <3>3. \A c \in TfBuilders : c # b => disconnect'[c] = disconnect[c]
      BY DEF TypeOK
    <3>8. OthersSame(b)
      BY <2>1, <3>2, <3>3 DEF OthersSame, TypeOK, stateVars, clientVars, stfSenderVars, tfBuilderVars, leftVars
    <3>9. ItselfFine(b)'
      BY <2>1, <3>2, <3>3 DEF ItselfFine, ConnInv, ClientsConnected, StoppedIsNoClient, RequestsOver, ConnectedLate, Orphans, TypeOK, stateVars, clientVars, stfSenderVars, tfBuilderVars, leftVars
    <3> QED
      BY <3>8, <3>9, OneTfBuilder
  <2> QED
    BY <2>2, <2>3 DEF DisconnectPeer
<1>24. CASE \E b \in TfBuilders : DisconnectFails(b)
  BY <1>24 DEF ConnInv, ClientsConnected, StoppedIsNoClient, RequestsOver, ConnectedLate, Orphans, TypeOK, DisconnectFails, stateVars, clientVars, stfSenderVars, tfBuilderVars, leftVars
<1>25. CASE \E b \in TfBuilders : RestartTfBuilder(b)
  BY <1>25 DEF ConnInv, ClientsConnected, StoppedIsNoClient, RequestsOver, ConnectedLate, Orphans, TypeOK, RestartTfBuilder, stateVars, clientVars, stfSenderVars, tfBuilderVars, leftVars
<1>26. CASE \E b \in TfBuilders : removeTfBuilder(b)
  <2> PICK b \in TfBuilders : removeTfBuilder(b)
    BY <1>26
  <2>1. /\ b \in mTfBuilderRpcClients /\ mTfBuilderRpcClients' = mTfBuilderRpcClients \ {b}
        /\ UNCHANGED <<transport, stateVars, clientVars, stfSenderVars, tfBuilderVars, disconnect>>
    BY DEF removeTfBuilder
  <2>2. CASE transport = "FairMQ"
    <3>0. mOutputMap \in [StfSenders -> SUBSET TfBuilders] /\ mStfSenderRpcClients \in SUBSET StfSenders
      BY DEF TypeOK
    <3>1. AskToDisconnect(mOutputMap, mStfSenderRpcClients, b)
      BY <2>2 DEF removeTfBuilder
    <3>2. \A s \in StfSenders, c \in TfBuilders :
            /\ c # b => /\ c \in mOutputMap'[s] <=> c \in mOutputMap[s]
                        /\ <<s, c>> \in unserved' <=> <<s, c>> \in unserved
                        /\ <<s, c>> \in refused' <=> <<s, c>> \in refused
            /\ c \in mOutputMap'[s] => c \in mOutputMap[s]
      BY <3>0, <3>1, AskEffect DEF Effect
    <3>8. OthersSame(b)
      BY <2>1, <2>2, <3>2 DEF OthersSame, TypeOK, stateVars, clientVars, stfSenderVars, tfBuilderVars, leftVars
    <3>9. ItselfFine(b)'
      BY <2>1, <2>2, <3>2 DEF ItselfFine, ConnInv, ClientsConnected, StoppedIsNoClient, RequestsOver, ConnectedLate, Orphans, TypeOK, stateVars, clientVars, stfSenderVars, tfBuilderVars, leftVars
    <3> QED
      BY <3>8, <3>9, OneTfBuilder
  <2>3. CASE transport # "FairMQ"
    <3>8. OthersSame(b)
      BY <2>1, <2>3 DEF OthersSame, TypeOK, removeTfBuilder, AskWithoutOutput, stateVars, clientVars, stfSenderVars, tfBuilderVars, leftVars
    <3>9. ItselfFine(b)'
      BY <2>1, <2>3 DEF ItselfFine, ConnInv, ClientsConnected, StoppedIsNoClient, RequestsOver, ConnectedLate, Orphans, TypeOK, removeTfBuilder, AskWithoutOutput, stateVars, clientVars, stfSenderVars, tfBuilderVars, leftVars
    <3> QED
      BY <3>8, <3>9, OneTfBuilder
  <2> QED
    BY <2>2, <2>3
<1>27. CASE \E b \in TfBuilders : Die(b)
  BY <1>27 DEF ConnInv, ClientsConnected, StoppedIsNoClient, RequestsOver, ConnectedLate, Orphans, TypeOK, Die, Reached, stateVars, clientVars, stfSenderVars, tfBuilderVars, leftVars
<1>28. CASE \E b \in TfBuilders, s \in StfSenders : ConnectionError(s, b)
  BY <1>28 DEF ConnInv, ClientsConnected, StoppedIsNoClient, RequestsOver, ConnectedLate, Orphans, TypeOK, ConnectionError, stateVars, clientVars, stfSenderVars, tfBuilderVars, leftVars
<1>29. CASE UNCHANGED vars
  BY <1>0, <1>29 DEF vars, connVars, stateVars, clientVars, stfSenderVars, tfBuilderVars, leftVars
<1> QED
  BY <1>1, <1>2, <1>3, <1>4, <1>5, <1>6, <1>7, <1>8, <1>9, <1>10, <1>11, <1>12, <1>13, <1>14, <1>15, <1>16, <1>17, <1>18, <1>19, <1>20, <1>21, <1>22, <1>23, <1>24, <1>25, <1>26, <1>27, <1>28, <1>29
  DEF Next, PartitionMonitorThread, InstanceStep, RequestStep, DisconnectStep

-----------------------------------------------------------------------------
endVars == <<mPartitionState, monitor, stfTold, mTfBuilderRpcClients>>

LEMMA EndStep == TypeOK /\ EndInv /\ [Next]_vars => EndInv'
<1> SUFFICES ASSUME TypeOK, EndInv, [Next]_vars PROVE EndInv'
  OBVIOUS
<1> USE DEF EndInv
<1>0. ASSUME UNCHANGED endVars PROVE EndInv'
  BY <1>0 DEF endVars
<1>1. CASE TerminatePartition
  BY <1>0, <1>1 DEF endVars, TerminatePartition, stateVars, clientVars, stfSenderVars, tfBuilderVars, leftVars
<1>2. CASE TerminateAssigns
  BY <1>2 DEF TypeOK, TerminateAssigns, AssignState, stateVars, clientVars, stfSenderVars, tfBuilderVars, leftVars
<1>3. CASE MonitorTeardown
  BY <1>3 DEF TypeOK, MonitorTeardown, stateVars, clientVars, stfSenderVars, tfBuilderVars, leftVars
<1>4. CASE MonitorCheck
  BY <1>4 DEF TypeOK, MonitorCheck, StateOfStfSenders, stateVars, clientVars, stfSenderVars, tfBuilderVars, leftVars
<1>5. CASE MonitorUpdate
  BY <1>5 DEF TypeOK, MonitorUpdate, MayUpdate, Final, stateVars, clientVars, stfSenderVars, tfBuilderVars, leftVars
<1>6. CASE MonitorAssigns
  BY <1>6 DEF TypeOK, MonitorAssigns, AssignState, stateVars, clientVars, stfSenderVars, tfBuilderVars, leftVars
<1>7. CASE \E s \in StfSenders : ConnectStfSender(s)
  BY <1>0, <1>7 DEF endVars, ConnectStfSender, stateVars, clientVars, stfSenderVars, tfBuilderVars, leftVars
<1>8. CASE AllConnected
  BY <1>0, <1>8 DEF endVars, AllConnected, stateVars, clientVars, stfSenderVars, tfBuilderVars, leftVars
<1>9. CASE StartInterrupted
  BY <1>0, <1>9 DEF endVars, StartInterrupted, stateVars, clientVars, stfSenderVars, tfBuilderVars, leftVars
<1>10. CASE StartFailed
  BY <1>10 DEF TypeOK, StartFailed, AssignState, stateVars, clientVars, stfSenderVars, tfBuilderVars, leftVars
<1>11. CASE StopInstance
  BY <1>11 DEF TypeOK, StopInstance, stateVars, clientVars, stfSenderVars, tfBuilderVars, leftVars
<1>12. CASE StartTimeout
  BY <1>0, <1>12 DEF endVars, StartTimeout, stateVars, clientVars, stfSenderVars, tfBuilderVars, leftVars
<1>13. CASE StfSenderMonitoring
  BY <1>0, <1>13 DEF endVars, StfSenderMonitoring, stateVars, clientVars, stfSenderVars, tfBuilderVars, leftVars
<1>14. CASE \E s \in StfSenders : StartStfSender(s)
  BY <1>0, <1>14 DEF endVars, StartStfSender, stateVars, clientVars, stfSenderVars, tfBuilderVars, leftVars
<1>15. CASE \E b \in TfBuilders : StartTfBuilder(b)
  BY <1>0, <1>15 DEF endVars, StartTfBuilder, stateVars, clientVars, stfSenderVars, tfBuilderVars, leftVars
<1>16. CASE \E b \in TfBuilders : SendRequest(b)
  BY <1>0, <1>16 DEF endVars, SendRequest, stateVars, clientVars, stfSenderVars, tfBuilderVars, leftVars
<1>17. CASE \E b \in TfBuilders : AcceptRequest(b)
  BY <1>0, <1>17 DEF endVars, AcceptRequest, stateVars, clientVars, stfSenderVars, tfBuilderVars, leftVars
<1>18. CASE \E b \in TfBuilders : connectTfBuilder(b)
  BY <1>18 DEF TypeOK, connectTfBuilder, Answer, ConnectAll, ConnectSome, CanConnect, stateVars, clientVars, stfSenderVars, tfBuilderVars, leftVars
<1>19. CASE \E b \in TfBuilders : ReceiveAnswer(b)
  BY <1>0, <1>19 DEF endVars, ReceiveAnswer, stateVars, clientVars, stfSenderVars, tfBuilderVars, leftVars
<1>20. CASE \E b \in TfBuilders : LoseAnswer(b)
  BY <1>0, <1>20 DEF endVars, LoseAnswer, stateVars, clientVars, stfSenderVars, tfBuilderVars, leftVars
<1>21. CASE \E b \in TfBuilders : StopTfBuilder(b)
  BY <1>0, <1>21 DEF endVars, StopTfBuilder, stateVars, clientVars, stfSenderVars, tfBuilderVars, leftVars
<1>22. CASE \E b \in TfBuilders : disconnectTfBuilder(b)
  BY <1>22 DEF TypeOK, disconnectTfBuilder, stateVars, clientVars, stfSenderVars, tfBuilderVars, leftVars
<1>23. CASE \E b \in TfBuilders : DisconnectPeer(b)
  BY <1>0, <1>23 DEF endVars, DisconnectPeer, stateVars, clientVars, stfSenderVars, tfBuilderVars, leftVars
<1>24. CASE \E b \in TfBuilders : DisconnectFails(b)
  BY <1>0, <1>24 DEF endVars, DisconnectFails, stateVars, clientVars, stfSenderVars, tfBuilderVars, leftVars
<1>25. CASE \E b \in TfBuilders : RestartTfBuilder(b)
  BY <1>0, <1>25 DEF endVars, RestartTfBuilder, stateVars, clientVars, stfSenderVars, tfBuilderVars, leftVars
<1>26. CASE \E b \in TfBuilders : removeTfBuilder(b)
  BY <1>26 DEF TypeOK, removeTfBuilder, stateVars, clientVars, stfSenderVars, tfBuilderVars, leftVars
<1>27. CASE \E b \in TfBuilders : Die(b)
  BY <1>0, <1>27 DEF endVars, Die, stateVars, clientVars, stfSenderVars, tfBuilderVars, leftVars
<1>28. CASE \E b \in TfBuilders, s \in StfSenders : ConnectionError(s, b)
  BY <1>0, <1>28 DEF endVars, ConnectionError, stateVars, clientVars, stfSenderVars, tfBuilderVars, leftVars
<1>29. CASE UNCHANGED vars
  BY <1>0, <1>29 DEF vars, endVars, stateVars, clientVars, stfSenderVars, tfBuilderVars, leftVars
<1> QED
  BY <1>1, <1>2, <1>3, <1>4, <1>5, <1>6, <1>7, <1>8, <1>9, <1>10, <1>11, <1>12, <1>13, <1>14, <1>15, <1>16, <1>17, <1>18, <1>19, <1>20, <1>21, <1>22, <1>23, <1>24, <1>25, <1>26, <1>27, <1>28, <1>29
  DEF Next, PartitionMonitorThread, InstanceStep, RequestStep, DisconnectStep

-----------------------------------------------------------------------------
LEMMA InitInv == Init => TypeOK /\ ConnInv /\ EndInv
<1> SUFFICES ASSUME Init PROVE TypeOK /\ ConnInv /\ EndInv
  OBVIOUS
<1>1. TypeOK
  <2>1. /\ mOutputMap \in [StfSenders -> SUBSET TfBuilders]
        /\ disconnect \in [TfBuilders -> Seq(SUBSET StfSenders)]
        /\ \A b \in TfBuilders : Len(disconnect[b]) <= 1
    BY DEF Init
  <2>2. /\ phase \in [TfBuilders -> {"IDLE", "CONNECTING", "RUNNING", "STOPPING", "CLOSING", "STOPPED", "DEAD"}]
        /\ request \in [TfBuilders -> {"NONE", "SENT", "ACCEPTED"} \union Answered]
        /\ peers \in [TfBuilders -> SUBSET StfSenders]
    BY DEF Init
  <2> QED
    BY <2>1, <2>2 DEF Init, TypeOK, Final
<1>2. ConnInv
  BY DEF Init, ConnInv, ClientsConnected, StoppedIsNoClient, RequestsOver, ConnectedLate, Orphans
<1>3. EndInv
  BY DEF Init, EndInv
<1> QED
  BY <1>1, <1>2, <1>3

LEMMA InvHolds == Spec => [](TypeOK /\ ConnInv /\ EndInv)
<1>1. TypeOK /\ ConnInv /\ EndInv /\ [Next]_vars => (TypeOK /\ ConnInv /\ EndInv)'
  BY TypeStep, ConnStep, EndStep
<1> QED
  BY InitInv, <1>1, PTL DEF Spec

\* A TfBuilder that the scheduler has a client for is connected to all StfSenders, but for
\* those that could not be asked to serve it.
THEOREM ClientConnected == Spec => []ClientIsConnected
<1>1. TypeOK /\ ConnInv /\ EndInv => ClientIsConnected
  BY DEF TypeOK, ConnInv, ClientsConnected, ClientIsConnected
<1> QED
  BY <1>1, InvHolds, PTL

\* With UCX, a connection without a client is one that no request to close reached, or that
\* removeTfBuilder asked to close with the request of the wrong transport, which the StfSender
\* refused.  The connections of a partition that ended are closed but for those.
THEOREM OnlyLeftStay == Spec => []OrphansAreLeft
<1>1. TypeOK /\ ConnInv /\ EndInv => OrphansAreLeft
  BY DEF ConnInv, Orphans, EndInv, OrphansAreLeft
<1> QED
  BY <1>1, InvHolds, PTL

-----------------------------------------------------------------------------
(***************************************************************************)
(* Discovery.                                                              *)
(***************************************************************************)
(* DiscoveryTypeOK, by the parts of the state that the actions share. *)

KeyType ==
  /\ keys \subseteq Keys
  /\ process \in [Processes ->
       {"down", "counted", "up", "connected", "gone without", "refused", "left"}]

RequestType ==
  /\ requestKeys \in [id : 0..Len(Requests), list : 0..Len(Requests)]
  /\ putting \in 0..Len(Requests) /\ issued \in 0..Len(Requests)
  /\ rejected \subseteq DOMAIN Requests
  /\ scheduler \in [Schedulers ->
       [pc : {"polling", "id", "list", "starting", "state set", "running", "ended",
              "finished", "exited"},
        id : 0..Len(Requests), list : 0..Len(Requests)]]
  /\ \A s \in Schedulers : scheduler[s].pc # "polling" => scheduler[s].id # 0

InstanceType ==
  /\ instanceKeys \in [Partitions -> SUBSET Schedulers]
  /\ \A a \in Partitions : \A s, u \in instanceKeys[a] : s = u
  /\ state \in [Partitions -> {None, "configuring", "terminated", "error"}]

TunableType ==
  /\ param \in Values \union {None, Default} /\ mTunables \in Values \union {None, Default}
  /\ mTunablesToAdd \in BOOLEAN /\ poll \in {"first", "writing", "waiting"}

FailureType == failures \in 0..MaxFailures

\* The keys of a request hold the last one that was put, or nothing: the operator waits for
\* both to be gone, so a TfScheduler that reads both reads one request.
OneRequest ==
  /\ requestKeys.id \in {0, issued} /\ requestKeys.list \in {0, issued} /\ putting \in {0, issued}
  /\ \A s \in Schedulers : scheduler[s].id = scheduler[s].list

StoreInv ==
  KeyType /\ RequestType /\ InstanceType /\ TunableType /\ FailureType /\ OneRequest

LEMMA RequestsType ==
  /\ Len(Requests) \in Nat
  /\ DOMAIN Requests = 1..Len(Requests)
  /\ \A r \in 1..Len(Requests) : Requests[r].partition \in Partitions
BY DiscoveryAssumption DEF Partitions

\* What EXCEPT does to a TfScheduler and to the request keys.
LEMMA SetPc ==
  ASSUME RequestType, NEW s \in Schedulers,
         NEW c \in {"id", "list", "starting", "state set", "running", "ended",
              "finished", "exited"},
         scheduler[s].pc # "polling", scheduler' = [scheduler EXCEPT ![s].pc = c]
  PROVE  /\ scheduler' \in [Schedulers ->
              [pc : {"polling", "id", "list", "starting", "state set", "running", "ended",
                     "finished", "exited"},
               id : 0..Len(Requests), list : 0..Len(Requests)]]
         /\ \A u \in Schedulers :
              /\ scheduler'[u].id = scheduler[u].id /\ scheduler'[u].list = scheduler[u].list
              /\ scheduler'[u].pc # "polling" => scheduler'[u].id # 0
<1>1. \A u \in Schedulers : u # s => scheduler'[u] = scheduler[u]
  BY DEF RequestType
<1>2. scheduler'[s] = [scheduler[s] EXCEPT !.pc = c]
  BY DEF RequestType
<1>3. scheduler[s] \in
        [pc : {"polling", "id", "list", "starting", "state set", "running", "ended",
              "finished", "exited"},
         id : 0..Len(Requests), list : 0..Len(Requests)] /\ scheduler[s].id # 0
  BY DEF RequestType
<1>4. /\ scheduler'[s] \in
        [pc : {"polling", "id", "list", "starting", "state set", "running", "ended",
              "finished", "exited"},
         id : 0..Len(Requests), list : 0..Len(Requests)]
      /\ scheduler'[s].id = scheduler[s].id /\ scheduler'[s].list = scheduler[s].list
  BY <1>2, <1>3
<1>5. scheduler' \in [Schedulers ->
              [pc : {"polling", "id", "list", "starting", "state set", "running", "ended",
                     "finished", "exited"},
               id : 0..Len(Requests), list : 0..Len(Requests)]]
  BY <1>1, <1>4 DEF RequestType
<1> QED BY <1>1, <1>3, <1>4, <1>5 DEF RequestType

LEMMA SetItem ==
  ASSUME RequestType, NEW r \in 0..Len(Requests)
  PROVE  /\ [requestKeys EXCEPT !.id = r] = [id |-> r, list |-> requestKeys.list]
         /\ [requestKeys EXCEPT !.list = r] = [id |-> requestKeys.id, list |-> r]
         /\ requestKeys.id \in 0..Len(Requests) /\ requestKeys.list \in 0..Len(Requests)
<1> DEFINE I == 0..Len(Requests)
<1>1. requestKeys \in [id : I, list : I]
  BY DEF RequestType
<1>2. r \in I
  OBVIOUS
<1> HIDE DEF I
<1>3. requestKeys.id \in I /\ requestKeys.list \in I
  BY <1>1
<1>4. [requestKeys EXCEPT !.id = r] = [id |-> r, list |-> requestKeys.list]
  BY <1>1, <1>2
<1>5. [requestKeys EXCEPT !.list = r] = [id |-> requestKeys.id, list |-> r]
  BY <1>1, <1>2
<1> QED BY <1>3, <1>4, <1>5 DEF I

LEMMA ReturnParts ==
  ASSUME RequestType, OneRequest, NEW s \in Schedulers, scheduler[s].pc # "polling", Return(s)
  PROVE  /\ scheduler' \in [Schedulers ->
              [pc : {"polling", "id", "list", "starting", "state set", "running", "ended",
                     "finished", "exited"},
               id : 0..Len(Requests), list : 0..Len(Requests)]]
         /\ \A u \in Schedulers :
              /\ scheduler'[u].id = scheduler'[u].list
              /\ scheduler'[u].pc # "polling" => scheduler'[u].id # 0
<1>1. CASE IsValid(s)
  <2>1. scheduler' = [scheduler EXCEPT ![s].pc = "starting"]
    BY <1>1 DEF Return
  <2> QED BY <2>1, SetPc DEF OneRequest
<1>2. CASE ~IsValid(s)
  <2>1. scheduler' = [scheduler EXCEPT ![s] = [pc |-> "polling", id |-> 0, list |-> 0]]
    BY <1>2 DEF Return
  <2> DEFINE new == [pc |-> "polling", id |-> 0, list |-> 0]
             T == [pc : {"polling", "id", "list", "starting", "state set", "running", "ended",
                         "finished", "exited"},
                   id : 0..Len(Requests), list : 0..Len(Requests)]
  <2>2. scheduler \in [Schedulers -> T] /\ 0 \in 0..Len(Requests)
    <3>1. 0 \in 0..Len(Requests)
      BY RequestsType
    <3> QED BY <3>1 DEF RequestType
  <2>3. new \in T /\ new.id = 0 /\ new.list = 0 /\ new.pc = "polling"
    BY <2>2
  <2>4. scheduler' = [scheduler EXCEPT ![s] = new]
    BY <2>1
  <2> HIDE DEF new, T
  <2>5. scheduler' \in [Schedulers -> T]
    BY <2>2, <2>3, <2>4
  <2>6. ASSUME NEW u \in Schedulers
        PROVE  /\ scheduler'[u].id = scheduler'[u].list
               /\ scheduler'[u].pc # "polling" => scheduler'[u].id # 0
    <3>1. CASE u = s
      BY <2>2, <2>3, <2>4, <3>1
    <3>2. CASE u # s
      <4>1. scheduler'[u] = scheduler[u]
        BY <2>2, <2>4, <3>2
      <4> QED BY <4>1 DEF OneRequest, RequestType
    <3> QED BY <3>1, <3>2
  <2> QED BY <2>5, <2>6 DEF T
<1> QED BY <1>1, <1>2

LEMMA InitStore == DiscoveryInit => StoreInv
<1> SUFFICES ASSUME DiscoveryInit PROVE StoreInv
  OBVIOUS
<1>1. KeyType
  BY DEF DiscoveryInit, KeyType
<1>2. RequestType
  BY RequestsType DEF DiscoveryInit, RequestType
<1>3. InstanceType
  BY DEF DiscoveryInit, InstanceType
<1>4. TunableType
  <2>1. mTunablesToAdd \in BOOLEAN
    BY Zenon DEF DiscoveryInit
  <2> QED BY DiscoveryAssumption, <2>1 DEF DiscoveryInit, TunableType
<1>5. OneRequest
  BY DEF DiscoveryInit, OneRequest
<1>6. FailureType
  BY DiscoveryAssumption DEF DiscoveryInit, FailureType
<1> QED BY <1>1, <1>2, <1>3, <1>4, <1>5, <1>6 DEF StoreInv

-----------------------------------------------------------------------------
(* Types *)

LEMMA KeyStep ==
  ASSUME KeyType, [DiscoveryNext]_discoveryVars
  PROVE  KeyType'
<1>1. CASE UNCHANGED keyVars
  BY <1>1 DEF keyVars, KeyType
<1>2. ASSUME NEW p \in Processes, SetKey(p) \/ EraseAll(Key[p]) \/ UNCHANGED keys
      PROVE  keys' \subseteq Keys
  BY <1>2 DEF SetKey, EraseAll, KeyType, Keys
<1>3. ASSUME NEW p \in Processes, ProcessStep(p) \/ Update(p) \/ Leave(p) \/ Kill(p)
      PROVE  KeyType'
  <2>1. CASE Count(p)
    BY <2>1 DEF Count, Becomes, KeyType
  <2>2. CASE Publish(p)
    BY <2>2, <1>2 DEF Publish, Becomes, KeyType
  <2>3. CASE Contact(p)
    BY <2>3 DEF Contact, Becomes, KeyType
  <2>4. CASE Update(p)
    BY <2>4, <1>2 DEF Update, KeyType
  <2>5. CASE Leave(p)
    BY <2>5, <1>2 DEF Leave, Cleanup, Becomes, KeyType
  <2>6. CASE Kill(p)
    BY <2>6 DEF Kill, Becomes, KeyType
  <2>7. CASE GiveUp(p)
    BY <2>7, <1>2 DEF GiveUp, Cleanup, Becomes, KeyType
  <2> QED BY <1>3, <2>1, <2>2, <2>3, <2>4, <2>5, <2>6, <2>7 DEF ProcessStep
<1>4. CASE PutPartitionId \/ PutStfSenderList
  BY <1>4, <1>1 DEF PutPartitionId, PutStfSenderList
<1>5. ASSUME NEW s \in Schedulers, SchedulerStep(s) \/ MoveFails(s) PROVE KeyType'
  BY <1>5, <1>1 DEF SchedulerStep, GetItems, MoveId, MoveList, MoveFails, StartInstance, FinishInstance,
     ExitScheduler
<1>6. CASE (\E v \in Values : SetParam(v)) \/ ReadItems \/ WriteMissing \/ FailPoll \/ GetParam
  BY <1>6, <1>1 DEF SetParam, ReadItems, WriteMissing, FailPoll, GetParam
<1>7. CASE UNCHANGED discoveryVars
  BY <1>7, <1>1 DEF discoveryVars
<1> QED BY <1>3, <1>4, <1>5, <1>6, <1>7 DEF DiscoveryNext

LEMMA RequestKeysStep ==
  ASSUME RequestType, OneRequest, [DiscoveryNext]_discoveryVars
  PROVE  RequestType'
<1>0. /\ Len(Requests) \in Nat /\ DOMAIN Requests = 1..Len(Requests)
      /\ \A r \in 1..Len(Requests) : Requests[r].partition \in Partitions
      /\ 0 \in 0..Len(Requests)
  BY RequestsType
<1>1. CASE UNCHANGED <<requestKeys, putting, issued, rejected, scheduler>>
  BY <1>1 DEF RequestType
<1>2. ASSUME NEW p \in Processes, ProcessStep(p) \/ Update(p) \/ Leave(p) \/ Kill(p)
      PROVE  RequestType'
  BY <1>2, <1>1 DEF ProcessStep, Count, Publish, Contact, Update, Leave, GiveUp, Kill, requestVars
<1>3. CASE PutPartitionId
  <2>1. issued < Len(Requests) /\ issued' = issued + 1 /\ requestKeys' = [requestKeys EXCEPT !.id = issued']
    BY <1>3 DEF PutPartitionId
  <2>2. issued \in 0..Len(Requests)
    BY DEF RequestType
  <2>3. issued' \in 0..Len(Requests) /\ requestKeys' = [requestKeys EXCEPT !.id = issued']
    BY <2>1, <2>2
  <2>4. requestKeys' = [id |-> issued', list |-> requestKeys.list] /\ requestKeys.list \in 0..Len(Requests)
    BY <2>3, SetItem
  <2> QED BY <1>3, <2>3, <2>4 DEF PutPartitionId, RequestType
<1>4. CASE PutStfSenderList
  <2>1. requestKeys' = [id |-> requestKeys.id, list |-> putting] /\ requestKeys.id \in 0..Len(Requests)
        /\ putting \in 0..Len(Requests)
    BY <1>4, SetItem DEF PutStfSenderList, RequestType
  <2> QED BY <1>0, <1>4, <2>1 DEF PutStfSenderList, RequestType
<1>5. ASSUME NEW s \in Schedulers, SchedulerStep(s) \/ MoveFails(s) PROVE RequestType'
  <2>1. CASE GetItems(s)
    BY <2>1 DEF GetItems, IsComplete, RequestType
  <2>2. CASE MoveId(s)
    <3>1. requestKeys' = [id |-> 0, list |-> requestKeys.list] /\ requestKeys.list \in 0..Len(Requests)
      BY <1>0, <2>2, SetItem DEF MoveId
    <3> QED BY <1>0, <2>2, <3>1, SetPc DEF MoveId, RequestType
  <2>3. CASE MoveList(s)
    <3>1. requestKeys' = [id |-> requestKeys.id, list |-> 0] /\ requestKeys.id \in 0..Len(Requests)
      BY <1>0, <2>3, SetItem DEF MoveList
    <3>2. /\ UNCHANGED <<putting, issued>> /\ Return(s) /\ scheduler[s].pc # "polling"
          /\ rejected' = rejected \union (IF IsValid(s) THEN {} ELSE {scheduler[s].list})
      BY <2>3 DEF MoveList
    <3>3. scheduler[s].list \in 1..Len(Requests)
      <4>1. scheduler[s].list \in 0..Len(Requests)
        BY DEF RequestType
      <4>2. scheduler[s].list # 0
        BY <3>2 DEF OneRequest, RequestType
      <4> QED BY <1>0, <4>1, <4>2
    <3>4. rejected' \subseteq DOMAIN Requests
      BY <1>0, <3>2, <3>3 DEF RequestType
    <3>5. \A u \in Schedulers : scheduler'[u].pc # "polling" => scheduler'[u].id # 0
      BY <3>2, ReturnParts
    <3>6. scheduler' \in [Schedulers ->
              [pc : {"polling", "id", "list", "starting", "state set", "running", "ended",
                     "finished", "exited"},
               id : 0..Len(Requests), list : 0..Len(Requests)]]
      BY <3>2, ReturnParts
    <3>7. requestKeys' \in [id : 0..Len(Requests), list : 0..Len(Requests)]
      BY <1>0, <3>1
    <3>8. putting' \in 0..Len(Requests) /\ issued' \in 0..Len(Requests)
      BY <3>2 DEF RequestType
    <3> QED BY <3>4, <3>5, <3>6, <3>7, <3>8 DEF RequestType
  <2>7. CASE MoveFails(s)
    <3>1. Return(s) /\ scheduler[s].pc # "polling"
      BY <2>7 DEF MoveFails
    <3> QED BY <2>7, <3>1, ReturnParts DEF MoveFails, RequestType
  <2>4. CASE StartInstance(s)
    <3>1. CASE scheduler[s].pc = "starting"
      BY <2>4, <3>1, SetPc DEF StartInstance, RequestType
    <3>2. CASE scheduler[s].pc = "state set"
      BY <2>4, <3>2, SetPc DEF StartInstance, RequestType
    <3> QED BY <2>4, <3>1, <3>2 DEF StartInstance
  <2>5. CASE FinishInstance(s)
    BY <2>5, SetPc DEF FinishInstance, RequestType
  <2>6. CASE ExitScheduler(s)
    BY <2>6, SetPc DEF ExitScheduler, RequestType
  <2> QED BY <1>5, <2>1, <2>2, <2>3, <2>4, <2>5, <2>6, <2>7 DEF SchedulerStep
<1>6. CASE (\E v \in Values : SetParam(v)) \/ ReadItems \/ WriteMissing \/ FailPoll \/ GetParam
  BY <1>6, <1>1 DEF SetParam, ReadItems, WriteMissing, FailPoll, GetParam, requestVars
<1>7. CASE UNCHANGED discoveryVars
  BY <1>7, <1>1 DEF discoveryVars, requestVars
<1> QED BY <1>2, <1>3, <1>4, <1>5, <1>6, <1>7 DEF DiscoveryNext

LEMMA InstanceKeysStep ==
  ASSUME InstanceType, RequestType, [DiscoveryNext]_discoveryVars
  PROVE  InstanceType'
<1>0. /\ Len(Requests) \in Nat /\ DOMAIN Requests = 1..Len(Requests)
      /\ \A r \in 1..Len(Requests) : Requests[r].partition \in Partitions
      /\ 0 \in 0..Len(Requests)
  BY RequestsType
<1>1. CASE UNCHANGED <<instanceKeys, state>>
  BY <1>1 DEF InstanceType
<1>2. ASSUME NEW p \in Processes, ProcessStep(p) \/ Update(p) \/ Leave(p) \/ Kill(p)
      PROVE  InstanceType'
  BY <1>2, <1>1 DEF ProcessStep, Count, Publish, Contact, Update, Leave, GiveUp, Kill, requestVars
<1>3. CASE PutPartitionId \/ PutStfSenderList
  BY <1>3, <1>1 DEF PutPartitionId, PutStfSenderList
<1>4. ASSUME NEW s \in Schedulers, SchedulerStep(s) \/ MoveFails(s) PROVE InstanceType'
  <2>1. CASE GetItems(s) \/ MoveId(s) \/ MoveList(s) \/ MoveFails(s)
    BY <2>1, <1>1 DEF GetItems, MoveId, MoveList, MoveFails
  <2>5. ASSUME WriteInstance(s), UNCHANGED state PROVE InstanceType'
    <3>1. CASE UNCHANGED instanceKeys
      BY <2>5, <3>1, <1>1
    <3>2. CASE instanceKeys' = [instanceKeys EXCEPT ![PartitionOfScheduler(s)] = {s}]
      <4>1. instanceKeys' \in [Partitions -> SUBSET Schedulers]
        BY <3>2 DEF InstanceType
      <4>2. \A a \in Partitions : instanceKeys'[a] = instanceKeys[a] \/ instanceKeys'[a] = {s}
        BY <3>2 DEF InstanceType
      <4> QED BY <2>5, <4>1, <4>2 DEF InstanceType
    <3> QED BY <2>5, <3>1, <3>2 DEF WriteInstance
  <2>6. ASSUME NEW new \in {"configuring", "terminated", "error"}, WriteState(s, new),
               UNCHANGED instanceKeys
        PROVE  InstanceType'
    BY <2>6 DEF WriteState, InstanceType
  <2>2. CASE StartInstance(s)
    BY <2>2, <2>5, <2>6 DEF StartInstance
  <2>3. CASE FinishInstance(s)
    BY <2>3, <2>5, <2>6 DEF FinishInstance
  <2>4. CASE ExitScheduler(s)
    BY <2>4 DEF ExitScheduler, InstanceType
  <2> QED BY <1>4, <2>1, <2>2, <2>3, <2>4 DEF SchedulerStep
<1>5. CASE (\E v \in Values : SetParam(v)) \/ ReadItems \/ WriteMissing \/ FailPoll \/ GetParam
  BY <1>5, <1>1 DEF SetParam, ReadItems, WriteMissing, FailPoll, GetParam, requestVars
<1>6. CASE UNCHANGED discoveryVars
  BY <1>6, <1>1 DEF discoveryVars, requestVars
<1> QED BY <1>2, <1>3, <1>4, <1>5, <1>6 DEF DiscoveryNext

LEMMA TunableStep ==
  ASSUME TunableType, [DiscoveryNext]_discoveryVars
  PROVE  TunableType'
<1> USE DiscoveryAssumption
<1>1. CASE UNCHANGED tunableVars
  BY <1>1 DEF tunableVars, TunableType
<1>2. ASSUME NEW p \in Processes, ProcessStep(p) \/ Update(p) \/ Leave(p) \/ Kill(p)
      PROVE  TunableType'
  BY <1>2, <1>1 DEF ProcessStep, Count, Publish, Contact, Update, Leave, GiveUp, Kill
<1>3. CASE PutPartitionId \/ PutStfSenderList
  BY <1>3, <1>1 DEF PutPartitionId, PutStfSenderList
<1>4. ASSUME NEW s \in Schedulers, SchedulerStep(s) \/ MoveFails(s) PROVE TunableType'
  BY <1>4, <1>1 DEF SchedulerStep, GetItems, MoveId, MoveList, MoveFails, StartInstance, FinishInstance,
     ExitScheduler
<1>5. ASSUME NEW v \in Values, SetParam(v) PROVE TunableType'
  BY <1>5 DEF SetParam, TunableType
<1>6. CASE ReadItems
  BY <1>6 DEF ReadItems, TunableType
<1>7. CASE WriteMissing
  BY <1>7 DEF WriteMissing, TunableType
<1>8. CASE FailPoll
  BY <1>8 DEF FailPoll, TunableType
<1>9. CASE GetParam
  BY <1>9 DEF GetParam, TunableType
<1>10. CASE UNCHANGED discoveryVars
  BY <1>10, <1>1 DEF discoveryVars
<1> QED BY <1>2, <1>3, <1>4, <1>5, <1>6, <1>7, <1>8, <1>9, <1>10 DEF DiscoveryNext

-----------------------------------------------------------------------------
(* Requests are not mixed *)

\* The two keys never hold two requests, whatever the TfSchedulers erase.
LEMMA OneRequestStep ==
  ASSUME RequestType, OneRequest, [DiscoveryNext]_discoveryVars
  PROVE  OneRequest'
<1>0. /\ Len(Requests) \in Nat /\ DOMAIN Requests = 1..Len(Requests)
      /\ \A r \in 1..Len(Requests) : Requests[r].partition \in Partitions
      /\ 0 \in 0..Len(Requests)
  BY RequestsType
<1>1. CASE UNCHANGED <<requestKeys, putting, issued, scheduler>>
  BY <1>1 DEF OneRequest
<1>2. ASSUME NEW p \in Processes, ProcessStep(p) \/ Update(p) \/ Leave(p) \/ Kill(p)
      PROVE  OneRequest'
  BY <1>2, <1>1 DEF ProcessStep, Count, Publish, Contact, Update, Leave, GiveUp, Kill, requestVars
<1>3. CASE PutPartitionId
  BY <1>3 DEF PutPartitionId, RequestType, OneRequest
<1>4. CASE PutStfSenderList
  BY <1>4 DEF PutStfSenderList, RequestType, OneRequest
<1>5. ASSUME NEW s \in Schedulers, SchedulerStep(s) \/ MoveFails(s) PROVE OneRequest'
  <2>1. CASE GetItems(s)
    BY <2>1 DEF GetItems, IsComplete, RequestType, OneRequest
  <2>2. CASE MoveId(s)
    BY <2>2 DEF MoveId, RequestType, OneRequest
  <2>3. CASE MoveList(s)
    <3>1. /\ requestKeys' = [id |-> requestKeys.id, list |-> 0] /\ UNCHANGED <<putting, issued>>
          /\ Return(s) /\ scheduler[s].pc # "polling"
      BY <1>0, <2>3, SetItem DEF MoveList
    <3> QED BY <3>1, ReturnParts DEF OneRequest
  <2>7. CASE MoveFails(s)
    <3>1. Return(s) /\ scheduler[s].pc # "polling" /\ UNCHANGED <<requestKeys, putting, issued>>
      BY <2>7 DEF MoveFails
    <3> QED BY <3>1, ReturnParts DEF OneRequest
  <2>4. CASE StartInstance(s)
    <3>1. CASE scheduler[s].pc = "starting"
      BY <2>4, <3>1, SetPc DEF StartInstance, OneRequest
    <3>2. CASE scheduler[s].pc = "state set"
      BY <2>4, <3>2, SetPc DEF StartInstance, OneRequest
    <3> QED BY <2>4, <3>1, <3>2 DEF StartInstance
  <2>5. CASE FinishInstance(s)
    <3>1. CASE scheduler[s].pc = "running"
      BY <2>5, <3>1, SetPc DEF FinishInstance, OneRequest
    <3>2. CASE scheduler[s].pc = "ended"
      BY <2>5, <3>2, SetPc DEF FinishInstance, OneRequest
    <3> QED BY <2>5, <3>1, <3>2 DEF FinishInstance
  <2>6. CASE ExitScheduler(s)
    BY <2>6 DEF ExitScheduler, RequestType, OneRequest
  <2> QED BY <1>5, <2>1, <2>2, <2>3, <2>4, <2>5, <2>6, <2>7 DEF SchedulerStep
<1>6. CASE (\E v \in Values : SetParam(v)) \/ ReadItems \/ WriteMissing \/ FailPoll \/ GetParam
  BY <1>6, <1>1 DEF SetParam, ReadItems, WriteMissing, FailPoll, GetParam, requestVars
<1>7. CASE UNCHANGED discoveryVars
  BY <1>7, <1>1 DEF discoveryVars, requestVars
<1> QED BY <1>2, <1>3, <1>4, <1>5, <1>6, <1>7 DEF DiscoveryNext

LEMMA FailureStep ==
  ASSUME FailureType, [DiscoveryNext]_discoveryVars
  PROVE  FailureType'
<1>1. UNCHANGED failures \/ AccessFails
  <2>1. CASE \E p \in Processes : ProcessStep(p) \/ Update(p) \/ Leave(p) \/ Kill(p)
    BY <2>1 DEF ProcessStep, Count, Publish, Contact, Update, Leave, GiveUp, Cleanup, Kill
  <2>2. CASE PutPartitionId \/ PutStfSenderList
    BY <2>2 DEF PutPartitionId, PutStfSenderList
  <2>3. ASSUME NEW s \in Schedulers, SchedulerStep(s) \/ MoveFails(s)
        PROVE  UNCHANGED failures \/ AccessFails
    BY <2>3 DEF SchedulerStep, GetItems, MoveId, MoveList, MoveFails, StartInstance,
       FinishInstance, WriteState, WriteInstance, ExitScheduler
  <2>4. CASE (\E v \in Values : SetParam(v)) \/ ReadItems \/ WriteMissing \/ FailPoll \/ GetParam
    BY <2>4 DEF SetParam, ReadItems, WriteMissing, FailPoll, GetParam
  <2>5. CASE UNCHANGED discoveryVars
    BY <2>5 DEF discoveryVars
  <2> QED BY <2>1, <2>2, <2>3, <2>4, <2>5 DEF DiscoveryNext
<1> QED BY <1>1, DiscoveryAssumption DEF FailureType, AccessFails

LEMMA StoreStep == StoreInv /\ [DiscoveryNext]_discoveryVars => StoreInv'
BY KeyStep, RequestKeysStep, InstanceKeysStep, TunableStep, FailureStep, OneRequestStep DEF StoreInv

\* A partition is started with the list that belongs to it (ConsulConfig::getNewPartitionRequest),
\* with any number of TfSchedulers polling and erasing at the same time, and accesses that fail.
THEOREM NotMixed == DiscoverySpec => []RequestsAreNotMixed
<1>1. StoreInv => RequestsAreNotMixed
  BY DEF StoreInv, RequestsAreNotMixed, DiscoveryTypeOK, KeyType, RequestType, InstanceType, TunableType,
     FailureType, OneRequest
<1> QED BY <1>1, InitStore, StoreStep, PTL DEF DiscoverySpec
==============================================================================

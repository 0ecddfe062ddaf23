------------------------------ MODULE Discovery ------------------------------
(***************************************************************************)
(* ConsulConfig: what the processes do with the key-value store that they  *)
(* share.  Each publishes itself under its own key, a TfBuilder only when  *)
(* the key is not there, and erases the key when it goes.  An operator     *)
(* puts a partition request in two keys; an idle TfScheduler polls for it, *)
(* moves the keys away one by one, publishes itself and the state of the   *)
(* partition, and goes when the partition has ended.  The processes of a   *)
(* partition look for its TfScheduler.  A thread of each process copies    *)
(* the tunable parameters every 30 s and writes the defaults of those that *)
(* were looked up and missing.                                             *)
(*                                                                         *)
(* Every access to the store is atomic, a sequence of them is not; one may *)
(* fail, whether it was done or not.  The store is external, and so is the *)
(* operator, who puts a request when the keys of the one before are gone,  *)
(* and starts a TfBuilder again that gave up.  One tunable parameter       *)
(* stands for all.                                                         *)
(*                                                                         *)
(* Init, Next and the like bear the name of the module, so that one module *)
(* can extend this one and Partition.                                      *)
(***************************************************************************)
EXTENDS Integers, Sequences

CONSTANTS
  Processes,    \* StfSenders and TfBuilders
  Key,          \* [Processes -> keys]
  Erases,       \* [keys -> sets of keys]: those with this key as a prefix
  Checked,      \* the processes that publish with write(true): TfBuilders
  PartitionOf,  \* [Processes -> partitions]
  Crashing,     \* processes that may be killed, and started again
  Schedulers,
  Requests,     \* bound: the requests of the operator [partition, valid], in order
  Values,       \* values the operator may give to the parameter
  StoredFirst,  \* the first values of the parameter in the store
  MaxFailures   \* bound: failed accesses of the store

None == "none"
Default == "default"
Bad == "bad"    \* a value that cannot be parsed

Keys == {Key[p] : p \in Processes}
Partitions == {Requests[r].partition : r \in DOMAIN Requests}

ASSUME DiscoveryAssumption ==
  /\ \A p \in Processes : PartitionOf[p] \in Partitions
  /\ \A k \in Keys : k \in Erases[k] /\ Erases[k] \subseteq Keys
  /\ Checked \subseteq Processes /\ Crashing \subseteq Processes
  /\ Requests \in Seq([partition : Partitions, valid : BOOLEAN])
  /\ Default \notin Values /\ None \notin Values
  /\ StoredFirst \subseteq Values \union {None}
  /\ MaxFailures \in Nat

VARIABLES
  keys,          \* the published keys
  process,       \* of a process: what it has done
  requestKeys,   \* the request keys [id, list]: the number of the request, or 0
  putting,       \* the request whose second key the operator has still to put, or 0
  issued,        \* the requests put
  rejected,      \* the requests moved to invalid_requests
  scheduler,     \* of a TfScheduler: [pc, id, list], with the request it has read
  instanceKeys,  \* of a partition: the set of the TfScheduler in its key
  state,         \* of a partition: the partition-state key
  param,         \* the parameter in the store
  mTunables, mTunablesToAdd, poll,
  failures       \* the accesses of the store that failed

keyVars == <<keys, process>>
requestVars == <<requestKeys, putting, issued, rejected, scheduler, instanceKeys, state>>
tunableVars == <<param, mTunables, mTunablesToAdd, poll>>
discoveryVars == <<keyVars, requestVars, tunableVars, failures>>

DiscoveryInit ==
  /\ keys = {}
  /\ process = [p \in Processes |-> "down"]
  /\ requestKeys = [id |-> 0, list |-> 0] /\ putting = 0 /\ issued = 0 /\ rejected = {}
  /\ scheduler = [s \in Schedulers |-> [pc |-> "polling", id |-> 0, list |-> 0]]
  /\ instanceKeys = [a \in Partitions |-> {}]
  /\ state = [a \in Partitions |-> None]
  /\ param \in StoredFirst
  /\ mTunables = None /\ mTunablesToAdd = FALSE /\ poll = "first" /\ failures = 0

\* An access raises an exception.
AccessFails == failures < MaxFailures /\ failures' = failures + 1

-----------------------------------------------------------------------------
(* The keys of the processes *)

Becomes(p, phase) == process' = [process EXCEPT ![p] = phase]

\* write(true): the key is counted first.  The process that is refused gives up.
Count(p) ==
  /\ p \in Checked /\ process[p] = "down"
  /\ \/ Becomes(p, IF Key[p] \in keys THEN "refused" ELSE "counted") /\ UNCHANGED failures
     \/ Becomes(p, "refused") /\ AccessFails
  /\ UNCHANGED <<keys, requestVars, tunableVars>>

SetKey(p) == keys' = keys \union {Key[p]}

\* The key is set.  A TfBuilder gives up if that fails, an StfSender does not notice.
Publish(p) ==
  /\ process[p] = IF p \in Checked THEN "counted" ELSE "down"
  /\ \/ SetKey(p) /\ Becomes(p, "up") /\ UNCHANGED failures
     \/ /\ AccessFails /\ (SetKey(p) \/ UNCHANGED keys)
        /\ Becomes(p, IF p \in Checked THEN "refused" ELSE "up")
  /\ UNCHANGED <<requestVars, tunableVars>>

\* write() when a run starts or stops, or when outputs change; a failure is not noticed.
Update(p) ==
  /\ process[p] \in {"up", "connected"}
  /\ (SetKey(p) /\ UNCHANGED failures) \/ (AccessFails /\ UNCHANGED keys)
  /\ UNCHANGED <<process, requestVars, tunableVars>>

\* getTfSchedulerConfig
FindsScheduler(p) == instanceKeys[PartitionOf[p]] # {}

\* Deviation: a partition that has ended is not noticed.
ContactWaits(p) ==
  /\ process[p] = "up" /\ FindsScheduler(p) /\ Becomes(p, "connected")
  /\ UNCHANGED <<keys, requestVars, tunableVars, failures>>

\* TfSchedulerRpcClient::start, which is called again until it ends one way or the other.
Contact(p) ==
  /\ process[p] = "up"
  /\ \/ FindsScheduler(p) /\ Becomes(p, "connected")
     \/ /\ ~FindsScheduler(p) /\ state[PartitionOf[p]] \in {"terminated", "error"}
        /\ Becomes(p, "gone without")
  /\ UNCHANGED <<keys, requestVars, tunableVars, failures>>

EraseAll(k) == keys' = keys \ Erases[k]

\* cleanup(), when the process is destroyed.
Cleanup(p) ==
  \/ EraseAll(Key[p]) /\ UNCHANGED failures
  \/ AccessFails /\ (EraseAll(Key[p]) \/ UNCHANGED keys)

Leave(p) ==
  /\ process[p] \in {"up", "connected", "gone without"}
  /\ Cleanup(p) /\ Becomes(p, "left")
  /\ UNCHANGED <<requestVars, tunableVars>>


\* A TfBuilder that was refused is destroyed as well, and started again.
GiveUp(p) ==
  /\ process[p] = "refused"
  /\ Cleanup(p) /\ Becomes(p, "down")
  /\ UNCHANGED <<requestVars, tunableVars>>

Kill(p) ==
  /\ p \in Crashing /\ process[p] \in {"up", "connected"}
  /\ Becomes(p, "down")
  /\ UNCHANGED <<keys, requestVars, tunableVars, failures>>

-----------------------------------------------------------------------------
(* Partition requests *)

PutPartitionId ==
  /\ putting = 0 /\ requestKeys.id = 0 /\ requestKeys.list = 0 /\ issued < Len(Requests)
  /\ issued' = issued + 1
  /\ requestKeys' = [requestKeys EXCEPT !.id = issued']
  /\ putting' = issued'
  /\ UNCHANGED <<keyVars, rejected, scheduler, instanceKeys, state, tunableVars, failures>>

PutStfSenderList ==
  /\ putting # 0
  /\ requestKeys' = [requestKeys EXCEPT !.list = putting]
  /\ putting' = 0
  /\ UNCHANGED <<keyVars, issued, rejected, scheduler, instanceKeys, state, tunableVars, failures>>

\* Deviation: half a request is taken.
HasRequest == requestKeys.id # 0 \/ requestKeys.list # 0

\* Both keys are there.
IsComplete == requestKeys.id # 0 /\ requestKeys.list # 0

IsValid(s) ==
  scheduler[s].id # 0 /\ scheduler[s].list # 0 /\ Requests[scheduler[s].list].valid

\* getNewPartitionRequest, in its steps: the two items, and the erasing of the keys.
\* What is in the keys by then is not looked at.  (A failed read is tried again.)
GetItems(s) ==
  /\ scheduler[s].pc = "polling" /\ IsComplete
  /\ scheduler' = [scheduler EXCEPT ![s] =
                     [pc |-> "id", id |-> requestKeys.id, list |-> requestKeys.list]]
  /\ UNCHANGED <<keyVars, requestKeys, putting, issued, rejected, instanceKeys, state, tunableVars,
                 failures>>

\* Deviation: the keys of an invalid request stay.
MoveValidId(s) ==
  /\ scheduler[s].pc = "id"
  /\ requestKeys' = IF IsValid(s) THEN [requestKeys EXCEPT !.id = 0] ELSE requestKeys
  /\ scheduler' = [scheduler EXCEPT ![s].pc = IF IsValid(s) THEN "list" ELSE "polling"]
  /\ UNCHANGED <<keyVars, putting, issued, rejected, instanceKeys, state, tunableVars, failures>>

MoveId(s) ==
  /\ scheduler[s].pc = "id"
  /\ requestKeys' = [requestKeys EXCEPT !.id = 0]
  /\ scheduler' = [scheduler EXCEPT ![s].pc = "list"]
  /\ UNCHANGED <<keyVars, putting, issued, rejected, instanceKeys, state, tunableVars, failures>>

\* The caller starts a partition if the request is valid.
Return(s) ==
  scheduler' = [scheduler EXCEPT ![s] =
                  IF IsValid(s) THEN [@ EXCEPT !.pc = "starting"]
                  ELSE [pc |-> "polling", id |-> 0, list |-> 0]]

MoveList(s) ==
  /\ scheduler[s].pc = "list"
  /\ requestKeys' = [requestKeys EXCEPT !.list = 0]
  /\ rejected' = rejected \union (IF IsValid(s) THEN {} ELSE {scheduler[s].list})
  /\ Return(s)
  /\ UNCHANGED <<keyVars, putting, issued, instanceKeys, state, tunableVars, failures>>

\* An exception ends it before the first key is erased, or the second.  A valid request is
\* returned nevertheless.
MoveFails(s) ==
  /\ scheduler[s].pc \in {"id", "list"}
  /\ AccessFails /\ Return(s)
  /\ UNCHANGED <<keyVars, requestKeys, putting, issued, rejected, instanceKeys, state, tunableVars>>

PartitionOfScheduler(s) == Requests[scheduler[s].id].partition

\* write(): the state first,
WriteState(s, new) ==
  \/ state' = [state EXCEPT ![PartitionOfScheduler(s)] = new] /\ UNCHANGED failures
  \/ AccessFails /\ UNCHANGED state

\* then the key, whether that failed or not.  Nobody looks at the result.
WriteInstance(s) ==
  \/ instanceKeys' = [instanceKeys EXCEPT ![PartitionOfScheduler(s)] = {s}] /\ UNCHANGED failures
  \/ AccessFails /\ UNCHANGED instanceKeys

\* The constructor of TfSchedulerInstanceHandler.
StartInstance(s) ==
  /\ \/ /\ scheduler[s].pc = "starting" /\ WriteState(s, "configuring")
        /\ scheduler' = [scheduler EXCEPT ![s].pc = "state set"]
        /\ UNCHANGED instanceKeys
     \/ /\ scheduler[s].pc = "state set" /\ WriteInstance(s)
        /\ scheduler' = [scheduler EXCEPT ![s].pc = "running"]
        /\ UNCHANGED state
  /\ UNCHANGED <<keyVars, requestKeys, putting, issued, rejected, tunableVars>>

\* The partition ends, and its state is published with the key.
FinishInstance(s) ==
  /\ \/ /\ scheduler[s].pc = "running" /\ \E end \in {"terminated", "error"} : WriteState(s, end)
        /\ scheduler' = [scheduler EXCEPT ![s].pc = "ended"]
        /\ UNCHANGED instanceKeys
     \/ /\ scheduler[s].pc = "ended" /\ WriteInstance(s)
        /\ scheduler' = [scheduler EXCEPT ![s].pc = "finished"]
        /\ UNCHANGED state
  /\ UNCHANGED <<keyVars, requestKeys, putting, issued, rejected, tunableVars>>

\* PostRun, and the end of the process.
ExitScheduler(s) ==
  /\ scheduler[s].pc = "finished"
  /\ \/ instanceKeys' = [instanceKeys EXCEPT ![PartitionOfScheduler(s)] = {}] /\ UNCHANGED failures
     \/ AccessFails /\ UNCHANGED instanceKeys
  /\ scheduler' = [scheduler EXCEPT ![s].pc = "exited"]
  /\ UNCHANGED <<keyVars, requestKeys, putting, issued, rejected, state, tunableVars>>

-----------------------------------------------------------------------------
(* Tunable parameters *)

SetParam(v) ==
  /\ param # v
  /\ param' = v
  /\ UNCHANGED <<keyVars, requestVars, mTunables, mTunablesToAdd, poll, failures>>

\* ConsulPollingThread under mTunablesLock: the values are read, ...
ReadItems ==
  /\ poll \in {"first", "waiting"}
  /\ mTunables' = param
  /\ poll' = "writing"
  /\ UNCHANGED <<keyVars, requestVars, param, mTunablesToAdd, failures>>

\* ... and the missing ones are written.
WriteMissing ==
  /\ poll = "writing"
  /\ param' = IF mTunablesToAdd THEN Default ELSE param
  /\ mTunablesToAdd' = FALSE
  /\ poll' = "waiting"
  /\ UNCHANGED <<keyVars, requestVars, mTunables, failures>>

\* An exception ends the poll: the copy has been cleared.
FailPoll ==
  /\ AccessFails
  /\ \/ poll \in {"first", "waiting"} /\ mTunables' = None
     \/ poll = "writing" /\ UNCHANGED mTunables
  /\ poll' = "waiting"
  /\ UNCHANGED <<keyVars, requestVars, param, mTunablesToAdd>>

\* Deviation: the constructor does not wait for the first poll.
PollHasBegun == poll # "writing"

HasPolled == poll = "waiting"

\* getUInt64Param and the like.
GetParam ==
  /\ HasPolled
  /\ mTunables \in {None, Bad}
  /\ mTunablesToAdd' = TRUE
  /\ UNCHANGED <<keyVars, requestVars, param, mTunables, poll, failures>>

ProcessStep(p) == Count(p) \/ Publish(p) \/ Contact(p) \/ GiveUp(p)
SchedulerStep(s) ==
  \/ GetItems(s) \/ MoveId(s) \/ MoveList(s)
  \/ StartInstance(s) \/ FinishInstance(s) \/ ExitScheduler(s)

DiscoveryNext ==
  \/ \E p \in Processes : ProcessStep(p) \/ Update(p) \/ Leave(p) \/ Kill(p)
  \/ PutPartitionId \/ PutStfSenderList
  \/ \E s \in Schedulers : SchedulerStep(s) \/ MoveFails(s)
  \/ \E v \in Values : SetParam(v)
  \/ ReadItems \/ WriteMissing \/ FailPoll \/ GetParam

DiscoverySpec == DiscoveryInit /\ [][DiscoveryNext]_discoveryVars

\* The processes retry, one that was refused is started again, the TfSchedulers and the
\* threads poll, the operator ends what was begun.
DiscoveryFairness ==
  /\ \A p \in Processes : WF_discoveryVars(ProcessStep(p))
  /\ \A s \in Schedulers : WF_discoveryVars(SchedulerStep(s))
  /\ WF_discoveryVars(PutPartitionId) /\ WF_discoveryVars(PutStfSenderList)
  /\ WF_discoveryVars(ReadItems) /\ WF_discoveryVars(WriteMissing)

FairDiscovery == DiscoverySpec /\ DiscoveryFairness

-----------------------------------------------------------------------------
(* Properties *)

\* The types of the variables, and when a TfScheduler knows its request.
DiscoveryTypeOK ==
  /\ keys \subseteq Keys
  /\ process \in [Processes ->
       {"down", "counted", "up", "connected", "gone without", "refused", "left"}]
  /\ requestKeys \in [id : 0..Len(Requests), list : 0..Len(Requests)]
  /\ putting \in 0..Len(Requests) /\ issued \in 0..Len(Requests)
  /\ rejected \subseteq DOMAIN Requests
  /\ scheduler \in [Schedulers ->
       [pc : {"polling", "id", "list", "starting", "state set", "running", "ended",
              "finished", "exited"},
        id : 0..Len(Requests), list : 0..Len(Requests)]]
  /\ \A s \in Schedulers : scheduler[s].pc # "polling" => scheduler[s].id # 0
  /\ instanceKeys \in [Partitions -> SUBSET Schedulers]
  /\ \A a \in Partitions : \A s, u \in instanceKeys[a] : s = u
  /\ state \in [Partitions -> {None, "configuring", "terminated", "error"}]
  /\ param \in Values \union {None, Default} /\ mTunables \in Values \union {None, Default}
  /\ mTunablesToAdd \in BOOLEAN /\ poll \in {"first", "writing", "waiting"}
  /\ failures \in 0..MaxFailures

Up(p) == process[p] \in {"up", "connected"}


\* A partition is started with the list that belongs to it, although the two keys of a
\* request are put and erased one after the other.
RequestsAreNotMixed == DiscoveryTypeOK /\ \A s \in Schedulers : scheduler[s].id = scheduler[s].list

Served(r) == \E s \in Schedulers : scheduler[s].id = r /\ scheduler[s].pc = "running"

\* An access failed between the two erases: "Incomplete partition request, retrying...".
HalfIsLeft(r) ==
  /\ requestKeys = [id |-> 0, list |-> r]
  /\ \A s \in Schedulers : scheduler[s].pc = "polling"

\* A request ends with a TfScheduler that runs it, or among the rejected, as long as a
\* TfScheduler is polling, and one is all there are: with two, the slower one that rejects
\* a request erases half of the next.  If the store fails, a valid one still runs; of an
\* invalid one, half may stay, which is then polled for ever, and nothing else goes wrong.
RequestsAreServed ==
  \A r \in DOMAIN Requests :
    putting = r ~>
      \/ Served(r) \/ r \in rejected \/ \A s \in Schedulers : scheduler[s].pc = "exited"
      \/ HalfIsLeft(r) /\ ~Requests[r].valid

\* The TfScheduler is gone, and could not write that the partition has ended.
EndIsUnknown(a) ==
  /\ state[a] = "configuring"
  /\ \E s \in Schedulers : scheduler[s].pc = "exited" /\ PartitionOfScheduler(s) = a

\* A process that looks for the TfScheduler of its partition does not look for ever once
\* that has been started, unless the store failed when the end was written.
LookingEnds ==
  \A p \in Processes :
    (process[p] = "up" /\ state[PartitionOf[p]] = "configuring") ~>
      (process[p] # "up" \/ EndIsUnknown(PartitionOf[p]))

\* A value in the store before the process starts is not replaced by the default, as long
\* as it can be parsed and the store answers; and one that stays is used in the end.
ConfiguredValueIsUsed ==
  /\ (param # None /\ [](param # Bad)) => [](param # Default \/ failures > 0)
  /\ \A v \in Values : <>[](param = v) => <>[](mTunables = v)

\* "write back missing parameters": a default only goes where there was no value.
DefaultsOnlyWhereMissing == [][param' = Default => param \in {None, Default}]_discoveryVars

\* The refused TfBuilder's message, "Process with the same id already running? If not, clear
\* the key manually": the key of a process that is running is erased by itself only.
OthersKeysStay ==
  [][\A p \in Processes : Up(p) /\ Key[p] \in keys \ keys' => process'[p] = "left"]_discoveryVars
=============================================================================

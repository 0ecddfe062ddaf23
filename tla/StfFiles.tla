------------------------------ MODULE StfFiles ------------------------------
(***************************************************************************)
(* (S)TF files in a StfBuilder: SubTimeFrameFileSource replays the STFs of *)
(* files, SubTimeFrameFileSink saves what passes the pipeline to files.    *)
(*                                                                         *)
(*   fetcher -> mInputFileQueue -> reader -> mReadStfQueue -> injector     *)
(*           -> [ stage 0 -> file sink -> ] stage 1 -> output thread       *)
(*                                                                         *)
(* Each thread is a part of the state with a pc; the device thread starts  *)
(* and stops the run, and resets the task.  A remote file is copied to a   *)
(* cache and removed with the last shared_ptr to it (a file of the cache   *)
(* is a record [idx, gen], one per copy made).  An STF is its id, what it  *)
(* holds is left out; a file of n STFs is the number of them that can be   *)
(* read.  The limit of the pipeline is the one of StfBuilder; the memory   *)
(* of the STFs is in RegionAllocator.                                      *)
(***************************************************************************)
EXTENDS Integers, Sequences, FiniteSets

CONSTANTS
  Configs,      \* [local, files, stfs, repeat, count, sink, limit, runs]: where the files
                \* are, how many, the STFs in each, mRepeat, mNumFiles, is there a sink, and
                \* mMaxStfsInPipeline or 0 for no limit; bound: the runs
  QueueLimit,   \* the fetcher waits above this many queued files (4)
  MaxErrors,    \* the fetcher ends after this many failed copies (10)
  PreRead,      \* mPreReadStfs
  StfsPerFile,  \* mStfsPerFile of the sink
  MaxFaults     \* bound: failed writes and sends, and directories that cannot be made

ASSUME StfFilesAssumption ==
  /\ Configs \subseteq [local : BOOLEAN, files : Nat \ {0}, stfs : Nat \ {0},
                        repeat : BOOLEAN, count : Nat, sink : BOOLEAN, limit : Nat, runs : Nat]
  /\ \A c \in Configs : c.limit = 0 \/ c.limit >= 4
  /\ {QueueLimit, MaxErrors, PreRead, StfsPerFile} \subseteq Nat \ {0}
  /\ MaxFaults \in Nat

Absent == -1

VARIABLES
  config,
  fetch,      \* [pc, total, ok, errors, file]: with the shared_ptr it holds, as a set
  mLiveFiles, \* the files of the cache
  disk,       \* of a remote file: the STFs that can be read from its copy, or Absent
  inputs, inputsOpen,   \* mInputFileQueue
  reader,     \* [pc, idx, pos, file]
  sStfId, skipped,      \* the next id, and the ids that reads which failed have used
  reads, readsOpen,     \* mReadStfQueue
  injector,   \* [pc, stf]
  mRunning, mPaused,    \* of the source
  sinkQueue, sinkOpen, sendQueue, sendOpen,   \* the stages of the pipeline
  mNumStfs,
  lost,       \* history: the ids dropped at the limit, or lost by a send that failed
  sink,       \* [enabled, ready, running, dir, count]
  sinkEnded,  \* the thread of the sink has ended, or was not started
  writer,     \* the open file [dir, stfs], as a set
  saved,      \* the files under their final name
  output,     \* [pc, stf] of StfOutputThread
  sent,       \* what it has sent: [id, run]
  device,     \* [pc, running, inRun, run]
  faults

fetchVars == <<fetch, mLiveFiles, disk, inputs, inputsOpen>>
readVars == <<reader, sStfId, skipped, reads, readsOpen>>
limitVars == <<mNumStfs, lost>>
pipelineVars == <<sinkQueue, sinkOpen, sendQueue, sendOpen, limitVars>>
sinkVars == <<sink, sinkEnded, writer, saved, faults>>
outputVars == <<output, sent>>
vars == <<config, fetchVars, readVars, injector, mRunning, mPaused, pipelineVars, sinkVars,
          outputVars, device>>

Elements(s) == {s[i] : i \in DOMAIN s}
Files == 0 .. config.files - 1

\* InitTask: the threads are started; the source is not paused.
Init ==
  /\ config \in Configs
  /\ fetch = [pc |-> "next", total |-> 0, ok |-> 0, errors |-> 0, file |-> {}]
  /\ mLiveFiles = {} /\ disk = [i \in Files |-> Absent]
  /\ inputs = << >> /\ inputsOpen = TRUE
  /\ reader = [pc |-> "pop", idx |-> 0, pos |-> 0, file |-> {}]
  /\ sStfId = 0 /\ skipped = {} /\ reads = << >> /\ readsOpen = TRUE
  /\ injector = [pc |-> "pop", stf |-> {}]
  /\ mRunning = TRUE /\ mPaused = FALSE
  /\ sinkQueue = << >> /\ sinkOpen = TRUE /\ sendQueue = << >> /\ sendOpen = TRUE
  /\ mNumStfs = 0 /\ lost = {}
  /\ sink = [enabled |-> config.sink, ready |-> FALSE, running |-> TRUE, dir |-> 0,
             count |-> 0]
  /\ sinkEnded = ~config.sink
  /\ writer = {} /\ saved = {} /\ faults = 0
  /\ output = [pc |-> "take", stf |-> {}] /\ sent = << >>
  /\ device = [pc |-> "ready", running |-> TRUE, inRun |-> FALSE, run |-> 0]

\* ConcurrentFifo::push: nothing is taken by a queue that was stopped.
PushTo(queue, open, item) == IF open THEN Append(queue, item) ELSE queue

-----------------------------------------------------------------------------
(* The cache of fetched files *)

HeldOutside == fetch.file \union Elements(inputs) \union reader.file
Held == mLiveFiles \union HeldOutside

\* ~StfFileMeta: the copy goes with the last reference.
RemoveReleased ==
  disk' = [i \in Files |-> IF \E f \in Held \ Held' : f.idx = i THEN Absent ELSE disk[i]]

\* Deviation: the entry goes while others still hold the file.
PutAlways(i) == {f \in mLiveFiles : f.idx # i}

\* putExistingInstance: the entry goes when nobody else holds the file.
PutExistingInstance(i) == {f \in mLiveFiles : f.idx # i \/ f \in HeldOutside}

-----------------------------------------------------------------------------
(* DataFetcherThread *)

NextFile == fetch.total % config.files
IsLast == config.count > 0 /\ fetch.ok = config.count
AllListed == fetch.total >= config.files /\ ~config.repeat

MayFetch ==
  /\ fetch.pc = "next" /\ mRunning /\ ~IsLast /\ fetch.errors < MaxErrors
  /\ Len(inputs) =< QueueLimit /\ ~AllListed

FetchLocal ==
  /\ MayFetch /\ config.local
  /\ inputs' = PushTo(inputs, inputsOpen, [idx |-> NextFile, gen |-> 0])
  /\ fetch' = [fetch EXCEPT !.total = @ + 1, !.ok = @ + 1]
  /\ UNCHANGED <<config, mLiveFiles, disk, inputsOpen, readVars, injector, mRunning, mPaused,
                 pipelineVars, sinkVars, outputVars, device>>

\* getExistingInstance
FetchExisting ==
  /\ MayFetch /\ ~config.local
  /\ \E f \in mLiveFiles :
       /\ f.idx = NextFile
       /\ fetch' = [fetch EXCEPT !.pc = "push", !.total = @ + 1, !.file = {f}]
  /\ UNCHANGED <<config, mLiveFiles, disk, inputs, inputsOpen, readVars, injector, mRunning,
                 mPaused, pipelineVars, sinkVars, outputVars, device>>

\* The copy command: whatever it leaves is taken, even when it fails half-way.
FetchCopy ==
  /\ MayFetch /\ ~config.local
  /\ \A f \in mLiveFiles : f.idx # NextFile
  /\ \/ \E n \in 0 .. config.stfs : LET new == [idx |-> NextFile, gen |-> fetch.ok + 1] IN
          /\ disk' = [disk EXCEPT ![NextFile] = n]
          /\ mLiveFiles' = mLiveFiles \union {new}
          /\ fetch' = [fetch EXCEPT !.pc = "push", !.total = @ + 1, !.file = {new}]
     \/ /\ fetch' = [fetch EXCEPT !.total = @ + 1, !.errors = @ + 1]
        /\ UNCHANGED <<mLiveFiles, disk>>
  /\ UNCHANGED <<config, inputs, inputsOpen, readVars, injector, mRunning, mPaused,
                 pipelineVars, sinkVars, outputVars, device>>

FetchPush ==
  /\ fetch.pc = "push"
  /\ inputs' = IF inputsOpen THEN inputs \o <<CHOOSE f \in fetch.file : TRUE>> ELSE inputs
  /\ fetch' = [fetch EXCEPT !.pc = "release"]
  /\ UNCHANGED <<config, mLiveFiles, disk, inputsOpen, readVars, injector, mRunning, mPaused,
                 pipelineVars, sinkVars, outputVars, device>>

FetchRelease ==
  /\ fetch.pc = "release"
  /\ fetch' = [fetch EXCEPT !.pc = "next", !.ok = @ + 1, !.file = {}]
  /\ UNCHANGED <<config, mLiveFiles, inputs, inputsOpen, readVars, injector, mRunning, mPaused,
                 pipelineVars, sinkVars, outputVars, device>>
  /\ RemoveReleased

FetchEnd ==
  /\ fetch.pc = "next"
  /\ \/ ~mRunning \/ IsLast \/ fetch.errors >= MaxErrors
     \/ Len(inputs) =< QueueLimit /\ AllListed
  /\ fetch' = [fetch EXCEPT !.pc = "done"]
  /\ inputsOpen' = FALSE
  /\ UNCHANGED <<config, mLiveFiles, disk, inputs, readVars, injector, mRunning, mPaused,
                 pipelineVars, sinkVars, outputVars, device>>

-----------------------------------------------------------------------------
(* DataHandlerThread of the source: the reader.  A thread that waits in the pop of an  *)
(* empty queue leaves when the queue is stopped, not when mRunning is reset.           *)

ReadPop ==
  /\ reader.pc = "pop" /\ mRunning /\ inputs # << >>
  /\ reader' = [pc |-> "read", idx |-> Head(inputs).idx, pos |-> 0, file |-> {Head(inputs)}]
  /\ inputs' = Tail(inputs)
  /\ UNCHANGED <<config, fetch, mLiveFiles, disk, inputsOpen, sStfId, skipped, reads, readsOpen,
                 injector, mRunning, mPaused, pipelineVars, sinkVars, outputVars, device>>

\* The wait after each STF, while enough of them are read ahead.
MayRead == reader.pc = "read" /\ (reader.pos = 0 \/ Len(reads) < PreRead \/ ~mRunning)

Readable == IF config.local THEN config.stfs ELSE disk[reader.idx]

\* read(): position() = size()
AtEnd == reader.pos >= Readable

\* read() of an STF whose headers, index or data are cut off or bad: it has used an id.
ReadCut ==
  /\ AtEnd /\ Readable < config.stfs
  /\ sStfId' = sStfId + 1 /\ skipped' = skipped \union {sStfId}

\* read() of an STF that is whole
ReadWhole ==
  /\ ~AtEnd
  /\ sStfId' = sStfId + 1 /\ UNCHANGED skipped

ReadStf ==
  /\ MayRead /\ mRunning /\ readsOpen
  /\ ReadWhole
  /\ reads' = Append(reads, sStfId)
  /\ reader' = [reader EXCEPT !.pos = @ + 1]
  /\ UNCHANGED <<config, fetchVars, readsOpen, injector, mRunning, mPaused,
                 pipelineVars, sinkVars, outputVars, device>>

\* No STF was read, or the source stops: the file is released.
ReadDone ==
  /\ MayRead
  /\ \/ (~mRunning \/ ~readsOpen \/ AtEnd) /\ UNCHANGED <<sStfId, skipped>>
     \/ mRunning /\ ReadCut
  /\ reader' = [reader EXCEPT !.pc = "put", !.file = {}]
  /\ UNCHANGED <<config, fetch, mLiveFiles, inputs, inputsOpen, reads, readsOpen, injector,
                 mRunning, mPaused, pipelineVars, sinkVars, outputVars, device>>
  /\ RemoveReleased

ReadPut ==
  /\ reader.pc = "put"
  /\ mLiveFiles' = PutExistingInstance(reader.idx)
  /\ reader' = [reader EXCEPT !.pc = "pop", !.idx = 0, !.pos = 0]
  /\ UNCHANGED <<config, fetch, inputs, inputsOpen, sStfId, skipped, reads, readsOpen, injector,
                 mRunning, mPaused, pipelineVars, sinkVars, outputVars, device>>
  /\ RemoveReleased

ReadEnd ==
  /\ reader.pc = "pop"
  /\ IF inputs = << >> THEN ~inputsOpen ELSE ~mRunning
  /\ reader' = [reader EXCEPT !.pc = "done"]
  /\ readsOpen' = FALSE
  /\ UNCHANGED <<config, fetchVars, sStfId, skipped, reads, injector, mRunning, mPaused,
                 pipelineVars, sinkVars, outputVars, device>>

-----------------------------------------------------------------------------
(* DataInjectThread *)

InjectPop ==
  /\ injector.pc = "pop" /\ mRunning /\ reads # << >>
  /\ injector' = [pc |-> "queue", stf |-> {Head(reads)}]
  /\ reads' = Tail(reads)
  /\ UNCHANGED <<config, fetchVars, reader, sStfId, skipped, readsOpen, mRunning, mPaused,
                 pipelineVars, sinkVars, outputVars, device>>

InjectEnd ==
  /\ injector.pc = "pop"
  /\ IF reads = << >> THEN ~readsOpen ELSE ~mRunning
  /\ injector' = [injector EXCEPT !.pc = "end"]
  /\ UNCHANGED <<config, fetchVars, readVars, mRunning, mPaused, pipelineVars, sinkVars,
                 outputVars, device>>

\* getNextPipelineStage(eStfFileSourceOut) for an STF, after the wait while the source is
\* paused, and for the close: at the limit the oldest STF of the pipeline is dropped.
LimitReached == config.limit > 0 /\ mNumStfs + 1 >= config.limit

DropFrom(queue) ==
  /\ queue' = Tail(queue)
  /\ lost' = lost \union {Head(queue)}
  /\ UNCHANGED mNumStfs

InjectNextStage ==
  /\ \/ injector.pc = "queue" /\ (~mPaused \/ ~mRunning)
     \/ injector.pc = "end"
  /\ injector' = [injector EXCEPT !.pc = IF @ = "queue" THEN "push" ELSE "close"]
  /\ \/ LimitReached /\ sendQueue # << >> /\ DropFrom(sendQueue) /\ UNCHANGED sinkQueue
     \/ /\ LimitReached /\ sendQueue = << >> /\ sinkQueue # << >>
        /\ DropFrom(sinkQueue) /\ UNCHANGED sendQueue
     \/ /\ ~LimitReached \/ (sendQueue = << >> /\ sinkQueue = << >>)
        /\ mNumStfs' = mNumStfs + 1
        /\ UNCHANGED <<sinkQueue, sendQueue, lost>>
  /\ UNCHANGED <<config, fetchVars, readVars, mRunning, mPaused, sinkOpen, sendOpen, sinkVars,
                 outputVars, device>>

\* It asks the sink whether it is enabled; what waits for the sink is not counted.
CountUnlessSink == mNumStfs' = IF sink.enabled THEN mNumStfs - 1 ELSE mNumStfs

InjectQueue ==
  /\ injector.pc = "push"
  /\ CountUnlessSink
  /\ \E stf \in injector.stf :
       IF sink.enabled
         THEN /\ sinkQueue' = PushTo(sinkQueue, sinkOpen, stf)
              /\ UNCHANGED sendQueue
         ELSE /\ sendQueue' = PushTo(sendQueue, sendOpen, stf)
              /\ UNCHANGED sinkQueue
  /\ injector' = [pc |-> "pop", stf |-> {}]
  /\ UNCHANGED <<config, fetchVars, readVars, mRunning, mPaused, sinkOpen, sendOpen, lost,
                 sinkVars, outputVars, device>>

InjectClose ==
  /\ injector.pc = "close"
  /\ CountUnlessSink
  /\ injector' = [injector EXCEPT !.pc = "done"]
  /\ sinkOpen' = (sinkOpen /\ ~sink.enabled)
  /\ sendOpen' = (sendOpen /\ sink.enabled)
  /\ UNCHANGED <<config, fetchVars, readVars, mRunning, mPaused, sinkQueue, sendQueue, lost,
                 sinkVars, outputVars, device>>

-----------------------------------------------------------------------------
(* DataHandlerThread of the sink, and its SubTimeFrameFileWriter *)

Saves == sink.enabled /\ sink.ready

\* An STF that is not accepted (the percentage), or whose file cannot be created.
PassUnsaved == UNCHANGED <<writer, saved, faults, sink>>

\* The constructor of the writer: NAME.part, in the directory of the run
OpenFile == IF writer = {} THEN {[dir |-> sink.dir, stfs |-> << >>]} ELSE writer

\* write(): the STF is there as a whole.
Written(stf) == {[file EXCEPT !.stfs = Append(@, stf)] : file \in OpenFile}

\* ~SubTimeFrameFileWriter: NAME.part is renamed to NAME.
CloseFile(files) == writer' = {} /\ saved' = saved \union files

\* remove(): NAME.part is removed, with the STFs it has.
RemoveFile == writer' = {} /\ UNCHANGED saved

IsFull == sink.count + 1 >= StfsPerFile

\* The file is closed when it is full: of STFs, or of bytes.
AppendToFile(stf) ==
  /\ Saves
  /\ \/ /\ ~IsFull
        /\ writer' = Written(stf) /\ UNCHANGED saved
        /\ sink' = [sink EXCEPT !.count = @ + 1]
     \/ /\ CloseFile(Written(stf))
        /\ sink' = [sink EXCEPT !.count = 0]
  /\ UNCHANGED faults

\* Deviation: a file whose write has failed gets its final name.
RenameFailed ==
  /\ Saves /\ faults < MaxFaults
  /\ faults' = faults + 1
  /\ CloseFile(OpenFile)
  /\ UNCHANGED sink

\* A write fails: the file goes.  The count stays.
FailToWrite ==
  /\ Saves /\ faults < MaxFaults
  /\ faults' = faults + 1
  /\ RemoveFile
  /\ UNCHANGED sink

SinkStf ==
  /\ ~sinkEnded /\ sink.running /\ sinkQueue # << >>
  /\ LET stf == [id |-> Head(sinkQueue), run |-> device.run] IN
     \/ PassUnsaved
     \/ AppendToFile(stf)
     \/ FailToWrite
  /\ sinkQueue' = Tail(sinkQueue)
  /\ sendQueue' = PushTo(sendQueue, sendOpen, Head(sinkQueue))
  /\ mNumStfs' = mNumStfs + 1
  /\ sinkEnded' = ~sendOpen
  /\ UNCHANGED <<config, fetchVars, readVars, injector, mRunning, mPaused, sinkOpen, sendOpen,
                 lost, outputVars, device>>

\* The stage after the sink is not closed.
SinkEnd ==
  /\ ~sinkEnded
  /\ IF sinkQueue = << >> THEN ~sinkOpen ELSE ~sink.running
  /\ sinkEnded' = TRUE
  /\ UNCHANGED <<config, fetchVars, readVars, injector, mRunning, mPaused, pipelineVars,
                 sink, writer, saved, faults, outputVars, device>>

-----------------------------------------------------------------------------
(* StfOutputThread *)

OutputTake ==
  /\ output.pc = "take" /\ device.running /\ sendQueue # << >>
  /\ output' = [pc |-> "check", stf |-> {Head(sendQueue)}]
  /\ sendQueue' = Tail(sendQueue)
  /\ UNCHANGED <<config, fetchVars, readVars, injector, mRunning, mPaused, sinkQueue, sinkOpen,
                 sendOpen, limitVars, sinkVars, sent, device>>

\* Deviation: an STF whose sending has failed is queued again.
OutputSendAgain ==
  /\ output.pc = "check" /\ device.running /\ sendOpen
  /\ output' = [pc |-> "take", stf |-> {}]
  /\ \/ ~device.inRun /\ UNCHANGED <<sendQueue, sent, limitVars, faults>>
     \/ /\ device.inRun /\ mNumStfs' = mNumStfs - 1
        /\ \E stf \in output.stf : sent' = Append(sent, [id |-> stf, run |-> device.run])
        /\ UNCHANGED <<sendQueue, lost, faults>>
     \/ /\ device.inRun /\ faults < MaxFaults /\ faults' = faults + 1
        /\ \E stf \in output.stf : sendQueue' = Append(sendQueue, stf)
        /\ UNCHANGED <<sent, limitVars>>
  /\ UNCHANGED <<config, fetchVars, readVars, injector, mRunning, mPaused, sinkQueue, sinkOpen,
                 sendOpen, sink, sinkEnded, writer, saved, device>>

\* An STF is dropped, uncounted, when the process is not in a run.  In a run it is sent, or
\* sendToDpl throws and it is lost: the thread goes on with the next.
OutputSend ==
  /\ output.pc = "check" /\ device.running /\ sendOpen
  /\ output' = [pc |-> "take", stf |-> {}]
  /\ \/ ~device.inRun /\ UNCHANGED <<sent, limitVars, faults>>
     \/ /\ device.inRun /\ mNumStfs' = mNumStfs - 1
        /\ \E stf \in output.stf : sent' = Append(sent, [id |-> stf, run |-> device.run])
        /\ UNCHANGED <<lost, faults>>
     \/ /\ device.inRun /\ mNumStfs' = mNumStfs - 1
        /\ faults < MaxFaults /\ faults' = faults + 1
        /\ lost' = lost \union output.stf /\ UNCHANGED sent
  /\ UNCHANGED <<config, fetchVars, readVars, injector, mRunning, mPaused, sinkQueue, sinkOpen,
                 sendQueue, sendOpen, sink, sinkEnded, writer, saved, device>>

\* A stopped stage ends the thread, whatever is in it or in its hands.
OutputEnd ==
  /\ \/ output.pc = "check" /\ (~device.running \/ ~sendOpen)
     \/ output.pc = "take" /\ (~device.running \/ (sendQueue = << >> /\ ~sendOpen))
  /\ output' = [output EXCEPT !.pc = "done"]
  /\ device' = [device EXCEPT !.running = FALSE]
  /\ UNCHANGED <<config, fetchVars, readVars, injector, mRunning, mPaused, pipelineVars,
                 sinkVars, sent>>

-----------------------------------------------------------------------------
(* The device thread *)

\* PreRun: the source resumes, and makeDirectory makes the directory of the run, finds
\* that it is there (the sink is disabled), or throws (it is not ready).
PreRun ==
  /\ device.pc = "ready" /\ device.run < config.runs
  /\ device' = [device EXCEPT !.pc = "running", !.inRun = TRUE, !.run = @ + 1]
  /\ mPaused' = FALSE
  /\ \/ /\ sink' = IF sink.enabled THEN [sink EXCEPT !.dir = device.run + 1, !.ready = TRUE]
                   ELSE sink
        /\ UNCHANGED faults
     \/ /\ sink.enabled /\ faults < MaxFaults
        /\ faults' = faults + 1
        /\ \/ sink' = [sink EXCEPT !.enabled = FALSE]
           \/ sink' = [sink EXCEPT !.ready = FALSE]
  /\ UNCHANGED <<config, fetchVars, readVars, injector, mRunning, pipelineVars, sinkEnded, writer,
                 saved, outputVars>>

PostRun ==
  /\ device.pc = "running"
  /\ device' = [device EXCEPT !.pc = "ready", !.inRun = FALSE]
  /\ mPaused' = TRUE
  /\ UNCHANGED <<config, fetchVars, readVars, injector, mRunning, pipelineVars, sinkVars,
                 outputVars>>

\* ResetTask: the flag, then the pipeline is stopped and cleared.
ResetTask ==
  /\ device.pc = "ready"
  /\ device' = [device EXCEPT !.pc = "stopping", !.running = FALSE]
  /\ sinkQueue' = << >> /\ sendQueue' = << >> /\ sinkOpen' = FALSE /\ sendOpen' = FALSE
  /\ UNCHANGED <<config, fetchVars, readVars, injector, mRunning, mPaused, limitVars, sinkVars,
                 outputVars>>

\* Deviation: the threads are not told to leave their waits.
StopSourceStillRunning ==
  /\ device.pc = "stopping"
  /\ device' = [device EXCEPT !.pc = "joining"]
  /\ inputsOpen' = FALSE /\ readsOpen' = FALSE /\ reads' = << >>
  /\ UNCHANGED <<config, fetch, mLiveFiles, disk, inputs, reader, sStfId, skipped, injector,
                 mRunning, mPaused, pipelineVars, sinkVars, outputVars>>

\* SubTimeFrameFileSource::stop, up to the joins
StopSource ==
  /\ device.pc = "stopping"
  /\ device' = [device EXCEPT !.pc = "joining"]
  /\ mRunning' = FALSE
  /\ inputsOpen' = FALSE /\ readsOpen' = FALSE /\ reads' = << >>
  /\ UNCHANGED <<config, fetch, mLiveFiles, disk, inputs, reader, sStfId, skipped, injector,
                 mPaused, pipelineVars, sinkVars, outputVars>>

\* The three threads are joined, the directory of the cache is removed, the sink stops.
JoinSource ==
  /\ device.pc = "joining"
  /\ fetch.pc = "done" /\ reader.pc = "done" /\ injector.pc = "done"
  /\ disk' = [i \in Files |-> Absent]
  /\ sink' = [sink EXCEPT !.running = FALSE]
  /\ device' = [device EXCEPT !.pc = "joined"]
  /\ UNCHANGED <<config, fetch, mLiveFiles, inputs, inputsOpen, readVars, injector, mRunning,
                 mPaused, pipelineVars, sinkEnded, writer, saved, faults, outputVars>>

\* The sink and the output are joined; Reset destroys the sink: its file gets its name.
Reset ==
  /\ device.pc = "joined" /\ sinkEnded /\ output.pc = "done"
  /\ device' = [device EXCEPT !.pc = "down"]
  /\ CloseFile(writer)
  /\ UNCHANGED <<config, fetchVars, readVars, injector, mRunning, mPaused, pipelineVars, sink,
                 sinkEnded, faults, outputVars>>

-----------------------------------------------------------------------------
Fetcher == FetchLocal \/ FetchExisting \/ FetchCopy \/ FetchPush \/ FetchRelease \/ FetchEnd
Reader == ReadPop \/ ReadStf \/ ReadDone \/ ReadPut \/ ReadEnd
Injector == InjectPop \/ InjectEnd \/ InjectNextStage \/ InjectQueue \/ InjectClose
Sink == SinkStf \/ SinkEnd
Output == OutputTake \/ OutputSend \/ OutputEnd
Device == PreRun \/ PostRun \/ ResetTask \/ StopSource \/ JoinSource \/ Reset

Next == Fetcher \/ Reader \/ Injector \/ Sink \/ Output \/ Device

Spec == Init /\ [][Next]_vars

\* Every thread goes on; a reset that was asked for is carried out.  Runs are started,
\* stopped and reset by the operator, who need not.
FairSpec ==
  /\ Spec
  /\ WF_vars(Fetcher) /\ WF_vars(Reader) /\ WF_vars(Injector) /\ WF_vars(Sink)
  /\ WF_vars(Output) /\ WF_vars(StopSource) /\ WF_vars(JoinSource) /\ WF_vars(Reset)

-----------------------------------------------------------------------------
(* Properties *)

Instances == [idx : Files, gen : Nat]

TypeOK ==
  /\ config \in Configs
  /\ fetch.pc \in {"next", "push", "release", "done"}
  /\ {fetch.total, fetch.ok, fetch.errors} \subseteq Nat
  /\ fetch.file \subseteq Instances /\ Cardinality(fetch.file) =< 1
  /\ mLiveFiles \subseteq Instances
  /\ disk \in [Files -> Absent .. config.stfs]
  /\ inputs \in Seq(Instances)
  /\ reader.pc \in {"pop", "read", "put", "done"} /\ reader.file \subseteq Instances
  /\ reader.pos \in 0 .. config.stfs
  /\ skipped \subseteq 0 .. sStfId - 1
  /\ Elements(reads) \union injector.stf \union Elements(sinkQueue) \union Elements(sendQueue)
       \union output.stf \union {s.id : s \in Elements(sent)} \union lost \subseteq 0 .. sStfId - 1
  /\ mNumStfs \in Int
  /\ sinkEnded \in BOOLEAN /\ sink.dir \in 0 .. config.runs
  /\ sink.count \in 0 .. StfsPerFile - 1 /\ Cardinality(writer) =< 1

\* A file of the cache that is queued, or being read, is on the disk: no reader that is
\* done with it, and no second copy of it, takes it away (StfFileMeta, a map of shared_ptr
\* and a use count).  The read-ahead is bounded, over all the files: the STFs that wait
\* occupy memory of the region that the output has not yet used (mPreReadStfs).
FileIsThere ==
  /\ TypeOK
  /\ (reader.pc # "done" /\ ~config.local) =>
       \A f \in Elements(inputs) \union reader.file : disk[f.idx] # Absent
  /\ Len(reads) =< PreRead /\ Len(inputs) =< QueueLimit + 1

\* In a run none overtakes another, and STFs are lost in three places only: between two that
\* are sent there are only ids that a read which failed has used (skipped), and those that
\* the limit of the pipeline dropped or whose sending failed (lost).  A failed write, the end of
\* a file and a pause lose none.  It is so while the sink is not disabled: then the injector
\* goes past those in the queue of the sink.
SentWithoutGaps ==
  sink.enabled = config.sink =>
    \A i \in 1 .. Len(sent) - 1 :
      /\ sent[i].id < sent[i + 1].id
      /\ sent[i].run = sent[i + 1].run =>
           (sent[i].id + 1 .. sent[i + 1].id - 1) \subseteq skipped \union lost

\* A file under its final name holds one STF or more, not more than it may, in order, and
\* none that another one holds.
SavedFilesAreWhole ==
  /\ \A f \in saved :
       /\ Len(f.stfs) \in 1 .. StfsPerFile
       /\ \A i \in 1 .. Len(f.stfs) - 1 : f.stfs[i].id < f.stfs[i + 1].id
  /\ \A f, g \in saved \union writer :
       (\E s \in Elements(f.stfs) : s \in Elements(g.stfs)) => f = g

\* A file holds STFs of one run, the one of its directory.  The file that is open when the
\* run stops is written on in the next.
FilesOfOneRun == \A f \in saved : \A s \in Elements(f.stfs) : s.run = f.dir

\* A replay that ends by itself in a run has sent everything.  The output thread leaves
\* with what is in the stage that the source has closed.
ReplayIsComplete ==
  (output.pc = "done" /\ device.pc = "running") => sendQueue = << >> /\ output.stf = {}

\* A replay of finitely many files ends: the three threads pass the end on, unless the
\* source is paused.  And a reset ends: each thread gets out of the wait it is in, for a file,
\* for room, for an STF or for the end of a pause, and is joined.
ThreadsEnd ==
  /\ <>[](injector.pc = "done" \/ mPaused \/ (config.repeat /\ config.count = 0))
  /\ device.pc = "stopping" ~> device.pc = "down"

=============================================================================

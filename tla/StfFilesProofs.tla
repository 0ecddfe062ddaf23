-------------------------- MODULE StfFilesProofs --------------------------
(***************************************************************************)
(* Proofs about StfFiles, for any number of files, copies, STFs and runs,  *)
(* and any limits: a file of the cache is there while somebody needs it    *)
(* (CacheInv), what the output sends is the ids that were read, in order   *)
(* and but for those that are lost (OrderInv, GapInv), and a saved file is whole         *)
(* (SavedInv).                                                             *)
(***************************************************************************)
EXTENDS StfFiles, FiniteSetTheorems, SequenceTheorems, TLAPS

-----------------------------------------------------------------------------
(* The types of the variables, by the parts that the actions share. *)

Item == [id : Nat, run : Nat]
File == [dir : Nat, stfs : Seq(Item)]

Fetching == [pc : {"next", "push", "release", "done"}, total : Nat, ok : Nat, errors : Nat,
             file : SUBSET Instances]
Reading == [pc : {"pop", "read", "put", "done"}, idx : Files, pos : 0 .. config.stfs,
            file : SUBSET Instances]

CacheType ==
  /\ config \in Configs
  /\ fetch \in Fetching
  /\ mLiveFiles \in SUBSET Instances
  /\ disk \in [Files -> Absent .. config.stfs]
  /\ inputs \in Seq(Instances) /\ mRunning \in BOOLEAN
  /\ reader \in Reading
  /\ fetch.pc \in {"next", "done"} => fetch.file = {}
  /\ fetch.pc \in {"push", "release"} => \E f \in Instances : fetch.file = {f}

FlowType ==
  /\ sStfId \in Nat /\ skipped \in SUBSET Nat /\ lost \in SUBSET Nat /\ mNumStfs \in Int
  /\ reads \in Seq(Nat) /\ sinkQueue \in Seq(Nat) /\ sendQueue \in Seq(Nat)
  /\ injector \in [pc : {"pop", "queue", "push", "end", "close", "done"}, stf : SUBSET Nat]
  /\ injector.pc \in {"queue", "push"} => \E id \in Nat : injector.stf = {id}
  /\ injector.pc \notin {"queue", "push"} => injector.stf = {}
  /\ output \in [pc : {"take", "check", "done"}, stf : SUBSET Nat]
  /\ output.pc = "take" => output.stf = {}
  /\ output.pc = "check" => \E id \in Nat : output.stf = {id}
  /\ sent \in Seq(Item)
  /\ sinkOpen \in BOOLEAN /\ sendOpen \in BOOLEAN

SinkType ==
  /\ config \in Configs
  /\ sink \in [enabled : BOOLEAN, ready : BOOLEAN, running : BOOLEAN, dir : 0 .. config.runs,
               count : 0 .. StfsPerFile - 1]
  /\ sinkEnded \in BOOLEAN
  /\ saved \in SUBSET File
  /\ (writer = {} \/ \E file \in File : writer = {file})
  /\ device \in [pc : {"ready", "running", "stopping", "joining", "joined", "down"},
                 running : BOOLEAN, inRun : BOOLEAN, run : 0 .. config.runs]

-----------------------------------------------------------------------------
(* The cache.  Who holds a file got it from the map, which keeps one copy of *)
(* each; the map gives it up when nobody holds it.                          *)

OneOfEach == \A f, g \in mLiveFiles : f.idx = g.idx => f = g
OnDisk == \A f \in mLiveFiles : disk[f.idx] # Absent

Joined == device.pc \in {"joined", "down"}

CacheInv ==
  /\ ~config.local => HeldOutside \subseteq mLiveFiles /\ OneOfEach
  /\ ~config.local /\ ~Joined => OnDisk
  /\ Joined => fetch.pc = "done" /\ reader.pc = "done"

\* The reader begins a file with room for an STF, and the fetcher a copy with room for it.
LimitInv ==
  /\ Len(reads) =< PreRead
  /\ mRunning /\ (reader.pc # "read" \/ reader.pos = 0) => Len(reads) < PreRead
  /\ Len(inputs) =< QueueLimit + 1
  /\ fetch.pc = "push" => Len(inputs) =< QueueLimit

-----------------------------------------------------------------------------
(* The ids on their way, from what was sent back to the one to be read next. *)

Below(S, T) == \A x \in S, y \in T : x < y
Ascending(queue) == \A i, j \in DOMAIN queue : i < j => queue[i] < queue[j]

SentIds == {sent[i].id : i \in DOMAIN sent}
BehindSink == injector.stf \union Elements(reads) \union {sStfId}
BehindSend == Elements(sinkQueue) \union BehindSink
BehindOutput == Elements(sendQueue) \union BehindSend

Missing == skipped \union lost
Unbroken == sink.enabled = config.sink

OrderInv ==
  /\ Ascending(reads) /\ Ascending(sinkQueue)
  /\ Below(Elements(reads), {sStfId})
  /\ Below(injector.stf, Elements(reads) \union {sStfId})
  /\ Below(Elements(sinkQueue), BehindSink)
  /\ Below(Elements(sendQueue) \union output.stf \union SentIds \union Missing, {sStfId})
  /\ Unbroken =>
       /\ Ascending(sendQueue)
       /\ Below(Elements(sendQueue), BehindSend)
       /\ Below(output.stf, BehindOutput)
       /\ Below(SentIds, output.stf \union BehindOutput)

InFlow == output.stf \union BehindOutput
NoGap(from) == \A id \in Nat : from < id /\ id < sStfId => id \in InFlow \union Missing

\* Nothing that was read is lost while the stages are open and the sink is not disabled.
StageInv ==
  /\ ~config.sink => sinkQueue = << >> /\ ~sink.enabled /\ sinkEnded
  /\ sendOpen /\ ~sinkOpen => injector.pc = "done"
  /\ device.pc \notin {"ready", "running"} => ~sendOpen

GapInv ==
  /\ \A i \in DOMAIN sent : sent[i].run <= device.run
  /\ Unbroken /\ sendOpen => \A id \in InFlow : NoGap(id)
  /\ Unbroken /\ sendOpen /\ device.inRun /\ sent # << >> /\ sent[Len(sent)].run = device.run
       => NoGap(sent[Len(sent)].id)

-----------------------------------------------------------------------------
(* The files of the sink.  The count covers the open one, which a failed     *)
(* write removes without it.                                                *)

WrittenIds == {s.id : s \in UNION {Elements(f.stfs) : f \in saved \union writer}}
InOrder(file) == \A i, j \in DOMAIN file.stfs : i < j => file.stfs[i].id < file.stfs[j].id
Apart(f, g) == Elements(f.stfs) \cap Elements(g.stfs) = {}

SavedInv ==
  /\ \A f \in saved : Len(f.stfs) \in 1 .. StfsPerFile /\ InOrder(f)
  /\ \A f \in writer : Len(f.stfs) \in 1 .. sink.count /\ InOrder(f)
  /\ \A f, g \in saved : f = g \/ Apart(f, g)
  /\ \A f \in saved, g \in writer : Apart(f, g)
  /\ Below(WrittenIds, BehindSend)

-----------------------------------------------------------------------------
(* Queues *)

LEMMA Appended ==
  ASSUME NEW S, NEW s \in Seq(S), NEW e \in S
  PROVE  /\ Append(s, e) \in Seq(S) /\ Len(Append(s, e)) = Len(s) + 1
         /\ Append(s, e) # << >>
         /\ DOMAIN Append(s, e) = DOMAIN s \union {Len(s) + 1} /\ Len(s) + 1 \notin DOMAIN s
         /\ \A i \in DOMAIN s : Append(s, e)[i] = s[i]
         /\ Append(s, e)[Len(s) + 1] = e
         /\ Elements(Append(s, e)) = Elements(s) \union {e}
<1>1. /\ Append(s, e) \in Seq(S) /\ Len(Append(s, e)) = Len(s) + 1
      /\ DOMAIN Append(s, e) = 1 .. Len(s) + 1 /\ DOMAIN s = 1 .. Len(s) /\ Len(s) \in Nat
      /\ \A i \in 1 .. Len(s) : Append(s, e)[i] = s[i]
      /\ Append(s, e)[Len(s) + 1] = e
  BY AppendProperties, LenProperties
<1>2. DOMAIN Append(s, e) = DOMAIN s \union {Len(s) + 1} /\ Len(s) + 1 \notin DOMAIN s
  BY <1>1
<1>3. Append(s, e) # << >>
  BY <1>1
<1>4. Elements(Append(s, e)) = Elements(s) \union {e}
  <2>1. ASSUME NEW x \in Elements(Append(s, e))  PROVE x \in Elements(s) \union {e}
    BY <1>1, <1>2 DEF Elements
  <2>2. ASSUME NEW x \in Elements(s) \union {e}  PROVE x \in Elements(Append(s, e))
    BY <1>1, <1>2 DEF Elements
  <2>. QED  BY <2>1, <2>2
<1>. QED  BY <1>1, <1>2, <1>3, <1>4

LEMMA Tailed ==
  ASSUME NEW S, NEW s \in Seq(S), s # << >>
  PROVE  /\ Tail(s) \in Seq(S) /\ Len(Tail(s)) = Len(s) - 1
         /\ Head(s) \in S
         /\ \A i \in DOMAIN Tail(s) :
              i \in Nat /\ i + 1 \in DOMAIN s /\ 1 < i + 1 /\ Tail(s)[i] = s[i + 1]
         /\ 1 \in DOMAIN s /\ Head(s) = s[1]
         /\ Elements(s) = {Head(s)} \union Elements(Tail(s))
<1>1. /\ Tail(s) \in Seq(S) /\ Len(Tail(s)) = Len(s) - 1 /\ Head(s) \in S /\ Head(s) = s[1]
      /\ Len(s) \in Nat \ {0} /\ DOMAIN s = 1 .. Len(s) /\ DOMAIN Tail(s) = 1 .. Len(s) - 1
      /\ \A i \in 1 .. Len(s) - 1 : Tail(s)[i] = s[i + 1]
  BY HeadTailProperties, LenProperties, EmptySeq
<1>2. \A i \in DOMAIN Tail(s) :
        i \in Nat /\ i + 1 \in DOMAIN s /\ 1 < i + 1 /\ Tail(s)[i] = s[i + 1]
  BY <1>1
<1>3. \A i \in DOMAIN s : i = 1 \/ (i - 1 \in DOMAIN Tail(s) /\ s[i] = Tail(s)[i - 1])
  BY <1>1
<1>4. 1 \in DOMAIN s
  BY <1>1
<1>5. Elements(s) = {Head(s)} \union Elements(Tail(s))
  <2>1. ASSUME NEW x \in Elements(s)  PROVE x \in {Head(s)} \union Elements(Tail(s))
    <3>1. PICK i \in DOMAIN s : x = s[i]
      BY DEF Elements
    <3>2. CASE i = 1
      BY <1>1, <3>1, <3>2
    <3>3. CASE i - 1 \in DOMAIN Tail(s) /\ s[i] = Tail(s)[i - 1]
      <4> DEFINE t == Tail(s)
      <4>1. t[i - 1] \in Elements(t)
        BY <3>3 DEF Elements
      <4>. QED  BY <3>1, <3>3, <4>1
    <3>. QED  BY <1>3, <3>2, <3>3
  <2>2. ASSUME NEW x \in {Head(s)} \union Elements(Tail(s))  PROVE x \in Elements(s)
    BY <1>1, <1>2, <1>4 DEF Elements
  <2>. QED  BY <2>1, <2>2
<1>. QED  BY <1>1, <1>2, <1>4, <1>5

LEMMA ElementsIn ==
  ASSUME NEW S, NEW s \in Seq(S)
  PROVE  Elements(s) \subseteq S /\ DOMAIN s = 1 .. Len(s) /\ Len(s) \in Nat
BY LenProperties, ElementOfSeq DEF Elements

LEMMA NoElements == Elements(<< >>) = {} /\ \A S : << >> \in Seq(S)
BY DEF Elements

\* PushTo leaves a queue as it is, or adds the item at its end.
LEMMA Pushed ==
  ASSUME NEW S, NEW s \in Seq(S), NEW e \in S, NEW open \in BOOLEAN
  PROVE  /\ PushTo(s, open, e) \in Seq(S)
         /\ open => Elements(PushTo(s, open, e)) = Elements(s) \union {e}
         /\ ~open => PushTo(s, open, e) = s
<1>1. CASE open
  BY <1>1, Appended DEF PushTo
<1>2. CASE ~open
  BY <1>2, Zenon DEF PushTo
<1>. QED  BY <1>1, <1>2

LEMMA AscendingAppend ==
  ASSUME NEW s \in Seq(Nat), NEW e \in Nat, Ascending(s), Below(Elements(s), {e}),
         NEW open \in BOOLEAN
  PROVE  Ascending(Append(s, e)) /\ Ascending(PushTo(s, open, e))
<1>1. /\ DOMAIN Append(s, e) = DOMAIN s \union {Len(s) + 1}
      /\ \A i \in DOMAIN s : i \in 1 .. Len(s) /\ Append(s, e)[i] = s[i]
      /\ Append(s, e)[Len(s) + 1] = e /\ Len(s) \in Nat
  BY Appended, ElementsIn
<1>2. \A i \in DOMAIN s : s[i] < e
  BY DEF Below, Elements
<1>3. Ascending(Append(s, e))
  BY <1>1, <1>2 DEF Ascending
<1>. QED  BY <1>3, Zenon DEF PushTo

LEMMA AscendingTail ==
  ASSUME NEW s \in Seq(Nat), Ascending(s), s # << >>
  PROVE  Ascending(Tail(s)) /\ Below({Head(s)}, Elements(Tail(s)))
<1>1. \A i \in DOMAIN Tail(s) :
        i \in Nat /\ i + 1 \in DOMAIN s /\ 1 < i + 1 /\ Tail(s)[i] = s[i + 1]
  BY Tailed
<1>2. 1 \in DOMAIN s /\ Head(s) = s[1]
  BY Tailed
<1>3. Ascending(Tail(s))
  BY <1>1 DEF Ascending
<1>4. \A x \in Elements(Tail(s)) : Head(s) < x
  BY <1>1, <1>2 DEF Ascending, Elements
<1>. QED  BY <1>3, <1>4 DEF Below

-----------------------------------------------------------------------------
(* The types.  Each part has the actions that touch it, and those that leave *)
(* it alone.                                                                *)

Cached == <<config, fetch, mLiveFiles, disk, inputs, reader, mRunning>>
Flowing == <<sStfId, skipped, reads, injector, sinkQueue, sinkOpen, sendQueue, sendOpen,
             mNumStfs, lost, output, sent>>
Saving == <<config, sink, sinkEnded, saved, writer, device>>

LEMMA ConfigType ==
  ASSUME config \in Configs
  PROVE  /\ config.files \in Nat \ {0} /\ config.stfs \in Nat \ {0} /\ config.runs \in Nat
         /\ config.local \in BOOLEAN /\ config.sink \in BOOLEAN
         /\ Files \subseteq Nat /\ 0 \in Files
         /\ \A n \in Nat : n % config.files \in Files
         /\ Absent = -1
<1>1. /\ config.files \in Nat \ {0} /\ config.stfs \in Nat \ {0} /\ config.runs \in Nat
      /\ config.local \in BOOLEAN /\ config.sink \in BOOLEAN
  BY StfFilesAssumption
<1>. QED  BY <1>1 DEF Files, Absent

LEMMA CacheTypeInit == Init => CacheType
<1>. SUFFICES ASSUME Init  PROVE CacheType
  OBVIOUS
<1>1. config \in Configs
  BY DEF Init
<1>2. /\ config.stfs \in Nat \ {0} /\ 0 \in Files /\ Absent = -1
  BY <1>1, ConfigType
<1>. QED  BY <1>1, <1>2, NoElements DEF Init, CacheType, Fetching, Reading

LEMMA FlowTypeInit == Init => FlowType
BY NoElements DEF Init, FlowType

LEMMA SinkTypeInit == Init => SinkType
<1>. SUFFICES ASSUME Init  PROVE SinkType
  OBVIOUS
<1>1. config \in Configs
  BY DEF Init
<1>2. config.runs \in Nat /\ config.sink \in BOOLEAN
  BY <1>1, ConfigType
<1>. QED  BY <1>1, <1>2, StfFilesAssumption DEF Init, SinkType

LEMMA FileInHand ==
  ASSUME fetch \in Fetching, NEW f \in Instances,
         fetch' = [fetch EXCEPT !.pc = "push", !.total = @ + 1, !.file = {f}]
  PROVE  fetch' \in Fetching /\ fetch'.pc = "push" /\ fetch'.file = {f}
<1>1. fetch' = [pc |-> "push", total |-> fetch.total + 1, ok |-> fetch.ok,
                errors |-> fetch.errors, file |-> {f}] /\ fetch.total \in Nat
  BY DEF Fetching
<1>. QED  BY <1>1 DEF Fetching

LEMMA CacheTypeStep ==
  ASSUME CacheType, Next
  PROVE  CacheType'
<1>. DEFINE Limits == /\ Absent = -1 /\ config.stfs \in Nat \ {0} /\ 0 \in Files
                      /\ Files \subseteq Nat
<1>1. /\ Limits
      /\ fetch.total \in Nat /\ fetch.ok \in Nat /\ fetch.errors \in Nat
      /\ NextFile \in Files
  BY ConfigType DEF CacheType, Fetching, NextFile
<1>0. fetch \in Fetching /\ reader \in Reading
  BY DEF CacheType
<1>2. /\ config' = config /\ Files' = Files /\ Instances' = Instances
      /\ Fetching' = Fetching /\ Reading' = Reading
  <2>1. config' = config
    BY DEF Next, Fetcher, Reader, Injector, Sink, Output, Device, FetchLocal, FetchExisting,
           FetchCopy, FetchPush, FetchRelease, FetchEnd, ReadPop, ReadStf, ReadDone, ReadPut,
           ReadEnd, InjectPop, InjectEnd, InjectNextStage, InjectQueue,
       InjectClose, SinkStf, SinkEnd, OutputTake, OutputSend,
           OutputEnd, PreRun, PostRun, ResetTask, StopSource, JoinSource, Reset
  <2>. QED  BY <2>1 DEF Files, Instances, Fetching, Reading
<1>3. \A e \in Instances : /\ PushTo(inputs, inputsOpen, e) \in Seq(Instances)
                           /\ Append(inputs, e) \in Seq(Instances)
  BY Appended DEF CacheType, PushTo
<1>4. \A f \in [Files -> Absent .. config.stfs] :
        [i \in Files |-> IF \E h \in Held \ Held' : h.idx = i THEN Absent ELSE f[i]]
          \in [Files -> Absent .. config.stfs]
  BY <1>1
<1>5. RemoveReleased => disk' \in [Files -> Absent .. config.stfs]
  BY <1>4 DEF RemoveReleased, CacheType
<1>6. CASE UNCHANGED Cached
  BY <1>6, <1>2 DEF CacheType, Cached
<1>7. CASE FetchLocal
  <2>1. [idx |-> NextFile, gen |-> 0] \in Instances
    BY <1>1 DEF Instances
  <2>2. fetch' = [pc |-> "next", total |-> fetch.total + 1, ok |-> fetch.ok + 1,
                  errors |-> fetch.errors, file |-> {}]
    BY <1>0, <1>7 DEF FetchLocal, MayFetch, CacheType, Fetching
  <2>3. fetch' \in Fetching /\ fetch'.pc = "next" /\ fetch'.file = {}
    BY <1>1, <2>2 DEF Fetching
  <2>. QED  BY <1>1, <1>2, <1>3, <1>7, <2>1, <2>3 DEF FetchLocal, CacheType, readVars
<1>8. CASE FetchExisting
  <2>1. PICK f \in mLiveFiles :
          fetch' = [fetch EXCEPT !.pc = "push", !.total = @ + 1, !.file = {f}]
    BY <1>8 DEF FetchExisting
  <2>2. f \in Instances
    BY DEF CacheType
  <2>3. fetch' \in Fetching /\ fetch'.pc = "push" /\ fetch'.file = {f}
    BY <1>0, <2>1, <2>2, FileInHand
  <2>. QED  BY <1>1, <1>2, <1>8, <2>2, <2>3 DEF FetchExisting, CacheType, readVars
<1>9. CASE FetchCopy
  <2>. DEFINE new == [idx |-> NextFile, gen |-> fetch.ok + 1]
  <2>1. new \in Instances
    BY <1>1 DEF Instances
  <2>2. \A n \in 0 .. config.stfs :
          [disk EXCEPT ![NextFile] = n] \in [Files -> Absent .. config.stfs]
    BY <1>1 DEF CacheType
  <2>3. /\ fetch' \in Fetching
        /\ \/ fetch'.pc = "push" /\ fetch'.file = {new}
           \/ fetch'.pc = "next" /\ fetch'.file = {}
    <3>1. CASE fetch' = [fetch EXCEPT !.pc = "push", !.total = @ + 1, !.file = {new}]
      <4>. HIDE DEF new
      <4>. QED  BY <1>0, <2>1, <3>1, FileInHand
    <3>2. CASE fetch' = [fetch EXCEPT !.total = @ + 1, !.errors = @ + 1]
      <4>1. fetch' = [pc |-> "next", total |-> fetch.total + 1, ok |-> fetch.ok,
                      errors |-> fetch.errors + 1, file |-> {}]
        BY <1>0, <1>9, <3>2 DEF FetchCopy, MayFetch, CacheType, Fetching
      <4>. QED  BY <1>1, <4>1 DEF Fetching
    <3>. QED  BY <1>9, <3>1, <3>2 DEF FetchCopy
  <2>4. mLiveFiles' \in SUBSET Instances
    BY <1>9, <2>1 DEF FetchCopy, CacheType
  <2>5. disk' \in [Files -> Absent .. config.stfs]
    BY <1>9, <2>2 DEF FetchCopy, CacheType
  <2>6. UNCHANGED <<inputs, reader, mRunning>>
    BY <1>9 DEF FetchCopy, readVars
  <2>. HIDE DEF new
  <2>. QED  BY <1>2, <2>1, <2>3, <2>4, <2>5, <2>6 DEF CacheType
<1>10. CASE FetchPush
  <2>1. PICK f \in Instances : fetch.file = {f}
    BY <1>10 DEF FetchPush, CacheType
  <2>2. inputs' = inputs \/ inputs' = inputs \o <<f>>
    BY <1>10, <2>1 DEF FetchPush
  <2>3. inputs' \in Seq(Instances)
    <3>1. inputs \in Seq(Instances) /\ <<f>> \in Seq(Instances)
      BY DEF CacheType
    <3>. QED  BY <2>2, <3>1, ConcatProperties
  <2>4. fetch' \in Fetching /\ fetch'.pc = "release" /\ fetch'.file = {f}
    BY <1>10, <2>1 DEF FetchPush, CacheType, Fetching
  <2>. QED  BY <1>1, <1>2, <1>10, <2>3, <2>4 DEF FetchPush, CacheType, readVars
<1>11. CASE FetchRelease
  <2>1. fetch' = [pc |-> "next", total |-> fetch.total, ok |-> fetch.ok + 1,
                  errors |-> fetch.errors, file |-> {}]
    BY <1>0, <1>11 DEF FetchRelease, Fetching
  <2>2. fetch' \in Fetching /\ fetch'.pc = "next" /\ fetch'.file = {}
    BY <1>1, <2>1 DEF Fetching
  <2>. QED  BY <1>1, <1>2, <1>5, <1>11, <2>2 DEF FetchRelease, CacheType, readVars
<1>12. CASE FetchEnd
  <2>1. fetch' \in Fetching /\ fetch'.pc = "done" /\ fetch'.file = {}
    BY <1>12 DEF FetchEnd, CacheType, Fetching
  <2>. QED  BY <1>1, <1>2, <1>12, <2>1 DEF FetchEnd, CacheType, readVars
<1>13. CASE ReadPop
  <2>1. Head(inputs) \in Instances /\ Tail(inputs) \in Seq(Instances)
    BY <1>13, Tailed DEF ReadPop, CacheType
  <2>2. Head(inputs).idx \in Files
    BY <2>1 DEF Instances
  <2>3. reader' \in Reading
    BY <1>1, <1>13, <2>1, <2>2 DEF ReadPop, Reading
  <2>. QED  BY <1>1, <1>2, <1>13, <2>1, <2>3 DEF ReadPop, CacheType
<1>14. CASE ReadStf
  <2>1. Readable =< config.stfs /\ Readable \in Int
    <3>1. reader.idx \in Files
      BY <1>0 DEF Reading
    <3>2. disk[reader.idx] \in Absent .. config.stfs
      BY <3>1 DEF CacheType
    <3>. QED  BY <1>1, <3>2 DEF Readable
  <2>2. reader.pos + 1 \in 0 .. config.stfs
    BY <1>0, <1>1, <1>14, <2>1 DEF ReadStf, ReadWhole, AtEnd, Reading
  <2>3. reader' \in Reading
    BY <1>0, <1>14, <2>2 DEF ReadStf, Reading
  <2>. QED  BY <1>1, <1>2, <1>14, <2>3 DEF ReadStf, CacheType, fetchVars
<1>15. CASE ReadDone
  <2>1. reader' \in Reading
    BY <1>0, <1>15 DEF ReadDone, Reading
  <2>. QED  BY <1>2, <1>5, <1>15, <2>1 DEF ReadDone, CacheType
<1>16. CASE ReadPut
  <2>1. PutExistingInstance(reader.idx) \subseteq mLiveFiles
    BY DEF PutExistingInstance
  <2>2. reader' \in Reading
    <3>1. reader' = [pc |-> "pop", idx |-> 0, pos |-> 0, file |-> reader.file]
      BY <1>0, <1>16 DEF ReadPut, Reading
    <3>. QED  BY <1>0, <1>1, <3>1 DEF Reading
  <2>. QED  BY <1>1, <1>2, <1>5, <1>16, <2>1, <2>2 DEF ReadPut, CacheType
<1>17. CASE ReadEnd
  <2>1. reader' \in Reading
    BY <1>0, <1>17 DEF ReadEnd, Reading
  <2>. QED  BY <1>2, <1>17, <2>1 DEF ReadEnd, CacheType, fetchVars
<1>18. CASE JoinSource
  BY <1>1, <1>2, <1>18 DEF JoinSource, CacheType, readVars
<1>19. CASE StopSource
  BY <1>1, <1>2, <1>19 DEF StopSource, CacheType
<1>20. CASE Injector \/ Sink \/ Output \/ PreRun \/ PostRun \/ ResetTask \/ Reset
  <2>1. UNCHANGED Cached
    BY <1>20 DEF Injector, Sink, Output, InjectPop, InjectEnd, InjectNextStage, InjectQueue,
                 InjectClose, SinkStf, SinkEnd, OutputTake,
                 OutputSend, OutputEnd, PreRun, PostRun, ResetTask, Reset, Cached, fetchVars,
                 readVars
  <2>. QED  BY <1>6, <2>1
<1>. QED  BY <1>7, <1>8, <1>9, <1>10, <1>11, <1>12, <1>13, <1>14, <1>15, <1>16, <1>17, <1>18,
             <1>19, <1>20 DEF Next, Fetcher, Reader, Device

LEMMA FlowTypeStep ==
  ASSUME CacheType, FlowType, SinkType, Next
  PROVE  FlowType'
<1>1. /\ \A q \in {reads, sinkQueue, sendQueue} : q \in Seq(Nat)
      /\ sStfId \in Nat /\ sinkOpen \in BOOLEAN /\ sendOpen \in BOOLEAN /\ << >> \in Seq(Nat)
  BY NoElements DEF FlowType
<1>2. \A q \in Seq(Nat), e \in Nat :
        Append(q, e) \in Seq(Nat) /\ \A open \in BOOLEAN : PushTo(q, open, e) \in Seq(Nat)
  BY Appended, Pushed
<1>3. \A q \in Seq(Nat) : q # << >> => Head(q) \in Nat /\ Tail(q) \in Seq(Nat)
  BY Tailed
<1>4. CASE UNCHANGED Flowing
  BY <1>4 DEF FlowType, Flowing
<1>5. CASE ReadStf
  <2>1. /\ sStfId' = sStfId + 1 /\ skipped' = skipped /\ reads' = Append(reads, sStfId)
        /\ UNCHANGED <<injector, sinkQueue, sinkOpen, sendQueue, sendOpen, mNumStfs, lost, output,
                       sent>>
    BY <1>5 DEF ReadStf, ReadWhole, pipelineVars, limitVars, outputVars
  <2>2. sStfId' \in Nat /\ reads' \in Seq(Nat)
    BY <1>1, <1>2, <2>1
  <2>. QED  BY <2>1, <2>2 DEF FlowType
<1>6. CASE ReadDone
  <2>1. /\ \/ UNCHANGED <<sStfId, skipped>>
           \/ sStfId' = sStfId + 1 /\ skipped' = skipped \union {sStfId}
        /\ UNCHANGED <<reads, injector, sinkQueue, sinkOpen, sendQueue, sendOpen, mNumStfs, lost,
                       output, sent>>
    BY <1>6 DEF ReadDone, ReadCut, pipelineVars, limitVars, outputVars
  <2>2. sStfId' \in Nat
    BY <1>1, <2>1
  <2>3. skipped' \in SUBSET Nat
    BY <1>1, <2>1 DEF FlowType
  <2>. QED  BY <2>1, <2>2, <2>3 DEF FlowType
<1>7. CASE InjectPop
  <2>1. /\ injector' = [pc |-> "queue", stf |-> {Head(reads)}] /\ reads' = Tail(reads)
        /\ reads # << >>
        /\ UNCHANGED <<sStfId, skipped, sinkQueue, sinkOpen, sendQueue, sendOpen, mNumStfs, lost,
                       output, sent>>
    BY <1>7 DEF InjectPop, pipelineVars, limitVars, outputVars
  <2>2. Head(reads) \in Nat /\ Tail(reads) \in Seq(Nat)
    BY <1>1, <1>3, <2>1
  <2>. QED  BY <2>1, <2>2 DEF FlowType
<1>17. CASE InjectNextStage
  <2>1. /\ \/ injector.pc = "queue" /\ injector' = [injector EXCEPT !.pc = "push"]
           \/ injector.pc = "end" /\ injector' = [injector EXCEPT !.pc = "close"]
        /\ UNCHANGED <<sStfId, skipped, reads, sinkOpen, sendOpen, output, sent>>
    BY <1>17 DEF InjectNextStage, readVars, outputVars, FlowType
  <2>2. \/ mNumStfs' = mNumStfs + 1 /\ UNCHANGED <<sinkQueue, sendQueue, lost>>
        \/ /\ sendQueue # << >> /\ sendQueue' = Tail(sendQueue)
           /\ lost' = lost \union {Head(sendQueue)} /\ UNCHANGED <<mNumStfs, sinkQueue>>
        \/ /\ sinkQueue # << >> /\ sinkQueue' = Tail(sinkQueue)
           /\ lost' = lost \union {Head(sinkQueue)} /\ UNCHANGED <<mNumStfs, sendQueue>>
    BY <1>17 DEF InjectNextStage, DropFrom
  <2>3. /\ mNumStfs' \in Int /\ lost' \in SUBSET Nat
        /\ sinkQueue' \in Seq(Nat) /\ sendQueue' \in Seq(Nat)
    <3>1. mNumStfs' \in Int
      BY <2>2 DEF FlowType
    <3>2. sinkQueue' \in Seq(Nat) /\ sendQueue' \in Seq(Nat)
      BY <1>1, <1>3, <2>2
    <3>3. lost \in SUBSET Nat
      BY DEF FlowType
    <3>4. lost' \in SUBSET Nat
      <4>1. sinkQueue # << >> => Head(sinkQueue) \in Nat
        BY <1>1, <1>3
      <4>2. sendQueue # << >> => Head(sendQueue) \in Nat
        BY <1>1, <1>3
      <4>. QED  BY <2>2, <3>3, <4>1, <4>2
    <3>. QED  BY <3>1, <3>2, <3>4
  <2>4. injector' \in [pc : {"pop", "queue", "push", "end", "close", "done"}, stf : SUBSET Nat]
    BY <2>1 DEF FlowType
  <2>5. /\ injector'.pc \in {"push", "close"} /\ injector'.stf = injector.stf
        /\ injector'.pc = "push" => injector.pc = "queue"
        /\ injector'.pc = "close" => injector.pc = "end"
    BY <2>1 DEF FlowType
  <2>. QED  BY <2>1, <2>3, <2>4, <2>5 DEF FlowType
<1>8. CASE InjectQueue
  <2>1. PICK stf \in injector.stf :
          /\ sinkQueue' = PushTo(sinkQueue, sinkOpen, stf) \/ sinkQueue' = sinkQueue
          /\ sendQueue' = PushTo(sendQueue, sendOpen, stf) \/ sendQueue' = sendQueue
    BY <1>8 DEF InjectQueue
  <2>2. stf \in Nat
    BY DEF FlowType
  <2>3. sinkQueue' \in Seq(Nat) /\ sendQueue' \in Seq(Nat)
    BY <1>1, <1>2, <2>1, <2>2
  <2>4. /\ injector' = [pc |-> "pop", stf |-> {}]
        /\ UNCHANGED <<sStfId, skipped, reads, sinkOpen, sendOpen, lost, output, sent>>
    BY <1>8 DEF InjectQueue, readVars, outputVars
  <2>5. mNumStfs' \in Int
    BY <1>8 DEF InjectQueue, CountUnlessSink, FlowType
  <2>. QED  BY <2>3, <2>4, <2>5 DEF FlowType
<1>9. CASE InjectEnd \/ InjectClose
  <2>1. /\ injector.pc \in {"pop", "close"}
        /\ \/ injector' = [injector EXCEPT !.pc = "end"]
           \/ injector' = [injector EXCEPT !.pc = "done"]
        /\ sinkOpen' \in BOOLEAN /\ sendOpen' \in BOOLEAN
        /\ mNumStfs' \in {mNumStfs, mNumStfs - 1}
        /\ UNCHANGED <<sStfId, skipped, reads, sinkQueue, sendQueue, lost, output, sent>>
    BY <1>1, <1>9 DEF InjectEnd, InjectClose, CountUnlessSink, readVars, pipelineVars, limitVars,
                      outputVars
  <2>2. mNumStfs' \in Int
    BY <2>1 DEF FlowType
  <2>. QED  BY <2>1, <2>2 DEF FlowType
<1>10. CASE SinkStf
  <2>1. /\ sinkQueue # << >> /\ sinkQueue' = Tail(sinkQueue)
        /\ sendQueue' = PushTo(sendQueue, sendOpen, Head(sinkQueue))
        /\ mNumStfs' = mNumStfs + 1
        /\ UNCHANGED <<sStfId, skipped, reads, injector, sinkOpen, sendOpen, lost, output, sent>>
    BY <1>10 DEF SinkStf, readVars, outputVars
  <2>2. sinkQueue' \in Seq(Nat) /\ sendQueue' \in Seq(Nat)
    BY <1>1, <1>2, <1>3, <2>1
  <2>3. mNumStfs' \in Int
    BY <2>1 DEF FlowType
  <2>. QED  BY <2>1, <2>2, <2>3 DEF FlowType
<1>11. CASE OutputTake
  <2>1. /\ sendQueue # << >> /\ sendQueue' = Tail(sendQueue)
        /\ output' = [pc |-> "check", stf |-> {Head(sendQueue)}]
        /\ UNCHANGED <<sStfId, skipped, reads, injector, sinkQueue, sinkOpen, sendOpen, mNumStfs,
                       lost, sent>>
    BY <1>11 DEF OutputTake, readVars, limitVars
  <2>2. sendQueue' \in Seq(Nat) /\ Head(sendQueue) \in Nat
    BY <1>1, <1>3, <2>1
  <2>. QED  BY <2>1, <2>2 DEF FlowType
<1>12. CASE OutputSend
  <2>1. /\ output' = [pc |-> "take", stf |-> {}]
        /\ \/ sent' = sent
           \/ \E stf \in output.stf : sent' = Append(sent, [id |-> stf, run |-> device.run])
        /\ mNumStfs' \in {mNumStfs, mNumStfs - 1} /\ lost' \in {lost, lost \union output.stf}
        /\ UNCHANGED <<sStfId, skipped, reads, injector, sinkQueue, sinkOpen, sendQueue, sendOpen>>
    BY <1>12 DEF OutputSend, readVars, limitVars
  <2>2. device.run \in Nat
    BY ConfigType DEF SinkType
  <2>3. \A stf \in output.stf : [id |-> stf, run |-> device.run] \in Item
    BY <2>2 DEF Item, FlowType
  <2>4. sent' \in Seq(Item)
    <3>1. sent \in Seq(Item) /\ \A x \in Item : Append(sent, x) \in Seq(Item)
      BY Appended DEF FlowType
    <3>. QED  BY <2>1, <2>3, <3>1
  <2>5. mNumStfs' \in Int /\ lost' \in SUBSET Nat
    BY <2>1 DEF FlowType
  <2>. QED  BY <2>1, <2>4, <2>5 DEF FlowType
<1>13. CASE OutputEnd
  <2>1. /\ output' = [output EXCEPT !.pc = "done"]
        /\ UNCHANGED <<sStfId, skipped, reads, injector, sinkQueue, sinkOpen, sendQueue, sendOpen,
                       mNumStfs, lost, sent>>
    BY <1>13 DEF OutputEnd, readVars, pipelineVars, limitVars
  <2>. QED  BY <2>1 DEF FlowType
<1>14. CASE ResetTask
  <2>1. /\ sinkQueue' = << >> /\ sendQueue' = << >> /\ sinkOpen' = FALSE /\ sendOpen' = FALSE
        /\ UNCHANGED <<sStfId, skipped, reads, injector, mNumStfs, lost, output, sent>>
    BY <1>14 DEF ResetTask, readVars, limitVars, outputVars
  <2>. QED  BY <1>1, <2>1 DEF FlowType
<1>15. CASE StopSource
  <2>1. /\ reads' = << >>
        /\ UNCHANGED <<sStfId, skipped, injector, sinkQueue, sinkOpen, sendQueue, sendOpen,
                       mNumStfs, lost, output, sent>>
    BY <1>15 DEF StopSource, pipelineVars, limitVars, outputVars
  <2>. QED  BY <1>1, <2>1 DEF FlowType
<1>16. CASE Fetcher \/ ReadPop \/ ReadPut \/ ReadEnd \/ SinkEnd \/ PreRun \/ PostRun \/ JoinSource
              \/ Reset
  <2>1. UNCHANGED Flowing
    BY <1>16 DEF Fetcher, FetchLocal, FetchExisting, FetchCopy, FetchPush, FetchRelease, FetchEnd,
                 ReadPop, ReadPut, ReadEnd, SinkEnd, PreRun, PostRun, JoinSource, Reset,
                 Flowing, readVars, pipelineVars, limitVars, outputVars
  <2>. QED  BY <1>4, <2>1
<1>. QED  BY <1>5, <1>6, <1>7, <1>8, <1>9, <1>10, <1>11, <1>12, <1>13, <1>14, <1>15, <1>16,
             <1>17
          DEF Next, Reader, Injector, Sink, Output, Device

LEMMA ConfigKept == ASSUME Next PROVE config' = config
BY DEF Next, Fetcher, Reader, Injector, Sink, Output, Device, FetchLocal, FetchExisting,
       FetchCopy, FetchPush, FetchRelease, FetchEnd, ReadPop, ReadStf, ReadDone, ReadPut,
       ReadEnd, InjectPop, InjectEnd, InjectNextStage, InjectQueue,
       InjectClose, SinkStf, SinkEnd, OutputTake, OutputSend,
       OutputEnd, PreRun, PostRun, ResetTask, StopSource, JoinSource, Reset

\* What a write leaves, whether it closes the file or not: the open file with the STF, which
\* is a file of the directory of the run when there was none.
LEMMA WrittenFile ==
  ASSUME SinkType, NEW stf \in Item
  PROVE  \E dir \in Nat, s \in Seq(Item) :
           /\ OpenFile = {[dir |-> dir, stfs |-> s]}
           /\ Written(stf) = {[dir |-> dir, stfs |-> Append(s, stf)]}
           /\ [dir |-> dir, stfs |-> Append(s, stf)] \in File
           /\ \/ writer = {} /\ s = << >>
              \/ writer = {[dir |-> dir, stfs |-> s]}
<1>1. sink.dir \in Nat /\ << >> \in Seq(Item)
  BY ConfigType, NoElements DEF SinkType
<1>2. PICK dir \in Nat, s \in Seq(Item) : /\ OpenFile = {[dir |-> dir, stfs |-> s]}
                                          /\ \/ writer = {} /\ s = << >>
                                             \/ writer = {[dir |-> dir, stfs |-> s]}
  <2>1. CASE writer = {}
    BY <1>1, <2>1 DEF OpenFile
  <2>2. CASE writer # {}
    <3>1. PICK file \in File : writer = {file}
      BY <2>2 DEF SinkType
    <3>2. /\ file.dir \in Nat /\ file.stfs \in Seq(Item)
          /\ file = [dir |-> file.dir, stfs |-> file.stfs]
      BY DEF File
    <3>. QED  BY <2>2, <3>1, <3>2 DEF OpenFile
  <2>. QED  BY <2>1, <2>2
<1>3. Append(s, stf) \in Seq(Item)
  BY Appended
<1>4. Written(stf) = {[dir |-> dir, stfs |-> Append(s, stf)]}
  BY <1>2 DEF Written
<1>5. [dir |-> dir, stfs |-> Append(s, stf)] \in File
  BY <1>3 DEF File
<1>. QED  BY <1>2, <1>4, <1>5

LEMMA SinkTypeStep ==
  ASSUME FlowType, SinkType, Next
  PROVE  SinkType'
<1>1. /\ config' = config /\ config.runs \in Nat /\ StfsPerFile \in Nat \ {0}
      /\ device.run \in Nat /\ File' = File
  BY ConfigKept, ConfigType, StfFilesAssumption DEF SinkType
<1>2. CASE UNCHANGED Saving
  BY <1>2 DEF SinkType, Saving
<1>3. CASE SinkStf
  <2>. DEFINE stf == [id |-> Head(sinkQueue), run |-> device.run]
  <2>1. stf \in Item
    BY <1>1, <1>3, Tailed DEF SinkStf, FlowType, Item
  <2>2. device' = device /\ sinkEnded' \in BOOLEAN
    BY <1>3 DEF SinkStf, FlowType
  <2>3. PassUnsaved \/ AppendToFile(stf) \/ FailToWrite
    BY <1>3 DEF SinkStf
  <2>4. PICK file \in File : Written(stf) = {file}
    <3>. HIDE DEF stf
    <3>. QED  BY <2>1, WrittenFile
  <2>. HIDE DEF stf
  <2>5. CASE PassUnsaved
    BY <1>1, <2>2, <2>5 DEF PassUnsaved, SinkType
  <2>6. CASE AppendToFile(stf)
    BY <1>1, <2>2, <2>4, <2>6 DEF AppendToFile, CloseFile, IsFull, SinkType
  <2>7. CASE FailToWrite
    BY <1>1, <2>2, <2>7 DEF FailToWrite, RemoveFile, SinkType
  <2>. QED  BY <2>3, <2>5, <2>6, <2>7
<1>4. CASE SinkEnd
  BY <1>1, <1>4 DEF SinkEnd, SinkType
<1>5. CASE OutputEnd
  BY <1>1, <1>5 DEF OutputEnd, SinkType, sinkVars
<1>6. CASE PreRun
  <2>1. device.run + 1 \in 0 .. config.runs
    BY <1>1, <1>6 DEF PreRun, SinkType
  <2>2. sink' \in [enabled : BOOLEAN, ready : BOOLEAN, running : BOOLEAN, dir : 0 .. config.runs,
                   count : 0 .. StfsPerFile - 1]
    <3>1. \/ sink' = [sink EXCEPT !.dir = device.run + 1, !.ready = TRUE]
          \/ sink' = sink
          \/ sink' = [sink EXCEPT !.enabled = FALSE]
          \/ sink' = [sink EXCEPT !.ready = FALSE]
      BY <1>6 DEF PreRun
    <3>. QED  BY <2>1, <3>1 DEF SinkType
  <2>3. device' = [pc |-> "running", running |-> device.running, inRun |-> TRUE,
                   run |-> device.run + 1]
    <3>1. device' = [device EXCEPT !.pc = "running", !.inRun = TRUE, !.run = @ + 1]
      BY <1>6 DEF PreRun
    <3>. QED  BY <3>1 DEF SinkType
  <2>4. UNCHANGED <<sinkEnded, writer, saved>>
    BY <1>6 DEF PreRun
  <2>. QED  BY <1>1, <2>1, <2>2, <2>3, <2>4 DEF SinkType
<1>7. CASE PostRun \/ ResetTask \/ StopSource
  BY <1>1, <1>7 DEF PostRun, ResetTask, StopSource, SinkType, sinkVars
<1>8. CASE JoinSource
  BY <1>1, <1>8 DEF JoinSource, SinkType
<1>9. CASE Reset
  <2>1. writer \subseteq File
    BY DEF SinkType
  <2>. QED  BY <1>1, <1>9, <2>1 DEF Reset, CloseFile, SinkType
<1>10. CASE Fetcher \/ Reader \/ Injector \/ OutputTake \/ OutputSend
  <2>1. UNCHANGED Saving
    BY <1>10 DEF Fetcher, FetchLocal, FetchExisting, FetchCopy, FetchPush, FetchRelease, FetchEnd,
                 Reader, ReadPop, ReadStf, ReadDone, ReadPut, ReadEnd, Injector, InjectPop,
                 InjectEnd, InjectNextStage, InjectQueue, InjectClose, OutputTake, OutputSend,
                 Saving, sinkVars
  <2>. QED  BY <1>2, <2>1
<1>. QED  BY <1>3, <1>4, <1>5, <1>6, <1>7, <1>8, <1>9, <1>10 DEF Next, Sink, Output, Device

-----------------------------------------------------------------------------
(* The cache: only the reader lets go of a file of the map, when it puts it  *)
(* back; a file that is released by the others stays in the map.            *)

LEMMA CacheInit == Init => CacheInv /\ LimitInv
<1>. SUFFICES ASSUME Init  PROVE CacheInv /\ LimitInv
  OBVIOUS
<1>1. PreRead \in Nat \ {0} /\ QueueLimit \in Nat \ {0}
  BY StfFilesAssumption
<1>2. Elements(inputs) = {} /\ Len(inputs) = 0 /\ Len(reads) = 0
  BY NoElements, EmptySeq DEF Init
<1>. QED  BY <1>1, <1>2 DEF Init, CacheInv, LimitInv, HeldOutside, OneOfEach, OnDisk, Joined

\* A release that keeps the map and what others hold in it removes no copy.
LEMMA NothingReleased ==
  ASSUME CacheType, HeldOutside \subseteq mLiveFiles, UNCHANGED <<config, mLiveFiles>>, OnDisk,
         RemoveReleased
  PROVE  OnDisk'
<1>1. Held \ Held' = {} /\ Files' = Files
  BY DEF Held, Files
<1>2. \A i \in Files : disk'[i] = disk[i]
  BY <1>1 DEF RemoveReleased
<1>3. \A f \in mLiveFiles : f.idx \in Files
  BY DEF CacheType, Instances
<1>. QED  BY <1>2, <1>3 DEF OnDisk

LEMMA CacheInvStep ==
  ASSUME CacheType, SinkType, CacheInv, Next
  PROVE  CacheInv'
<1>1. config' = config
  BY ConfigKept
<1>2. CASE UNCHANGED <<fetch, mLiveFiles, disk, inputs, reader>> /\ (Joined' <=> Joined)
  BY <1>1, <1>2 DEF CacheInv, HeldOutside, OneOfEach, OnDisk
<1>3. CASE FetchLocal
  BY <1>1, <1>3 DEF FetchLocal, MayFetch, CacheInv, Joined, readVars
<1>4. CASE FetchExisting
  <2>1. PICK f \in mLiveFiles : fetch' = [fetch EXCEPT !.pc = "push", !.total = @ + 1, !.file = {f}]
    BY <1>4 DEF FetchExisting
  <2>2. fetch'.file = {f} /\ fetch.pc = "next" /\ ~config.local
    BY <1>4, <2>1 DEF FetchExisting, MayFetch, CacheType, Fetching
  <2>3. UNCHANGED <<mLiveFiles, disk, inputs, reader, device>>
    BY <1>4 DEF FetchExisting, readVars
  <2>4. HeldOutside' \subseteq HeldOutside \union {f}
    BY <2>2, <2>3 DEF HeldOutside
  <2>. QED  BY <1>1, <2>2, <2>3, <2>4 DEF CacheInv, OneOfEach, OnDisk, Joined
<1>5. CASE FetchCopy
  <2>. DEFINE new == [idx |-> NextFile, gen |-> fetch.ok + 1]
  <2>1. /\ fetch.pc = "next" /\ ~config.local /\ UNCHANGED <<inputs, reader, device>>
        /\ \A f \in mLiveFiles : f.idx # NextFile
    BY <1>5 DEF FetchCopy, MayFetch, readVars
  <2>2. CASE \E n \in 0 .. config.stfs : /\ disk' = [disk EXCEPT ![NextFile] = n]
                                         /\ mLiveFiles' = mLiveFiles \union {new}
                                         /\ fetch'.file = {new}
    <3>1. PICK n \in 0 .. config.stfs : /\ disk' = [disk EXCEPT ![NextFile] = n]
                                        /\ mLiveFiles' = mLiveFiles \union {new}
                                        /\ fetch'.file = {new}
      BY <2>2
    <3>2. new.idx = NextFile
      OBVIOUS
    <3>. HIDE DEF new
    <3>3. HeldOutside' \subseteq HeldOutside \union {new}
      BY <2>1, <3>1 DEF HeldOutside
    <3>4. OneOfEach => OneOfEach'
      BY <2>1, <3>1, <3>2 DEF OneOfEach
    <3>5. \A f \in mLiveFiles : disk'[f.idx] = disk[f.idx]
      BY <2>1, <3>1 DEF CacheType, Instances
    <3>6. disk'[NextFile] = n /\ n # Absent
      BY <3>1, ConfigType DEF CacheType, NextFile, Fetching
    <3>. QED  BY <1>1, <2>1, <3>1, <3>2, <3>3, <3>4, <3>5, <3>6 DEF CacheInv, OnDisk, Joined
  <2>3. CASE fetch'.file = fetch.file /\ UNCHANGED <<mLiveFiles, disk>>
    BY <1>1, <2>1, <2>3 DEF CacheInv, HeldOutside, OneOfEach, OnDisk, Joined
  <2>4. \/ \E n \in 0 .. config.stfs :
              /\ disk' = [disk EXCEPT ![NextFile] = n]
              /\ mLiveFiles' = mLiveFiles \union {new}
              /\ fetch' = [fetch EXCEPT !.pc = "push", !.total = @ + 1, !.file = {new}]
        \/ /\ fetch' = [fetch EXCEPT !.total = @ + 1, !.errors = @ + 1]
           /\ UNCHANGED <<mLiveFiles, disk>>
    BY <1>5 DEF FetchCopy
  <2>5. [fetch EXCEPT !.pc = "push", !.total = @ + 1, !.file = {new}].file = {new}
    BY DEF CacheType, Fetching
  <2>6. [fetch EXCEPT !.total = @ + 1, !.errors = @ + 1].file = fetch.file
    BY DEF CacheType, Fetching
  <2>. HIDE DEF new
  <2>. QED  BY <2>2, <2>3, <2>4, <2>5, <2>6, Zenon
<1>6. CASE FetchPush
  <2>1. PICK f \in Instances : fetch.file = {f}
    BY <1>6 DEF FetchPush, CacheType
  <2>2. /\ fetch'.file = {f} /\ fetch.pc = "push" /\ UNCHANGED <<mLiveFiles, disk, reader, device>>
        /\ inputs' = inputs \/ inputs' = inputs \o <<f>>
    BY <1>6, <2>1 DEF FetchPush, CacheType, Fetching, readVars
  <2>3. Elements(inputs') \subseteq Elements(inputs) \union {f}
    <3>1. inputs \in Seq(Instances) /\ inputs \o <<f>> = Append(inputs, f)
      BY DEF CacheType
    <3>2. Elements(Append(inputs, f)) = Elements(inputs) \union {f}
      BY <3>1, Appended
    <3>. QED  BY <2>2, <3>1, <3>2
  <2>4. HeldOutside' \subseteq HeldOutside
    BY <2>1, <2>2, <2>3 DEF HeldOutside, Elements
  <2>. QED  BY <1>1, <2>2, <2>4 DEF CacheInv, OneOfEach, OnDisk, Joined
<1>7. CASE FetchRelease
  <2>1. /\ fetch'.file = {} /\ fetch.pc = "release"
        /\ UNCHANGED <<mLiveFiles, inputs, reader, device>> /\ RemoveReleased
    BY <1>7 DEF FetchRelease, CacheType, Fetching, readVars
  <2>2. HeldOutside' \subseteq HeldOutside
    BY <2>1 DEF HeldOutside
  <2>. QED  BY <1>1, <2>1, <2>2, NothingReleased DEF CacheInv, OneOfEach, Joined
<1>8. CASE FetchEnd
  <2>1. /\ fetch'.file = fetch.file /\ fetch'.pc = "done"
        /\ UNCHANGED <<mLiveFiles, disk, inputs, reader, device>>
    BY <1>8 DEF FetchEnd, CacheType, Fetching, readVars
  <2>. QED  BY <1>1, <2>1 DEF CacheInv, HeldOutside, OneOfEach, OnDisk, Joined
<1>9. CASE ReadPop
  <2>1. /\ reader.pc = "pop" /\ reader'.file = {Head(inputs)} /\ inputs # << >>
        /\ inputs' = Tail(inputs) /\ UNCHANGED <<fetch, mLiveFiles, disk, device>>
    BY <1>9 DEF ReadPop
  <2>2. Elements(inputs) = {Head(inputs)} \union Elements(inputs')
    BY <2>1, Tailed DEF CacheType
  <2>3. HeldOutside' \subseteq HeldOutside
    BY <2>1, <2>2 DEF HeldOutside
  <2>. QED  BY <1>1, <2>1, <2>3 DEF CacheInv, OneOfEach, OnDisk, Joined
<1>10. CASE ReadStf
  <2>1. /\ reader.pc = "read" /\ reader'.file = reader.file
        /\ UNCHANGED <<fetch, mLiveFiles, disk, inputs, device>>
    BY <1>10 DEF ReadStf, MayRead, CacheType, Reading, fetchVars
  <2>. QED  BY <1>1, <2>1 DEF CacheInv, HeldOutside, OneOfEach, OnDisk, Joined
<1>11. CASE ReadDone
  <2>1. /\ reader.pc = "read" /\ reader'.file = {}
        /\ UNCHANGED <<fetch, mLiveFiles, inputs, device>> /\ RemoveReleased
    BY <1>11 DEF ReadDone, MayRead, CacheType, Reading
  <2>2. HeldOutside' \subseteq HeldOutside
    BY <2>1 DEF HeldOutside
  <2>. QED  BY <1>1, <2>1, <2>2, NothingReleased DEF CacheInv, OneOfEach, Joined
<1>12. CASE ReadPut
  <2>1. /\ reader.pc = "put" /\ reader'.file = reader.file
        /\ mLiveFiles' = PutExistingInstance(reader.idx)
        /\ UNCHANGED <<fetch, inputs, device>> /\ RemoveReleased
    BY <1>12 DEF ReadPut, CacheType, Reading
  <2>2. HeldOutside' = HeldOutside /\ mLiveFiles' \subseteq mLiveFiles
    BY <2>1 DEF HeldOutside, PutExistingInstance
  <2>3. ~config.local => HeldOutside \subseteq mLiveFiles' /\ OneOfEach'
    BY <2>1, <2>2 DEF CacheInv, PutExistingInstance, OneOfEach
  <2>4. ASSUME ~config.local, ~Joined  PROVE OnDisk'
    <3>1. Held \ Held' \subseteq mLiveFiles \ mLiveFiles'
      BY <2>2, <2>4 DEF CacheInv, Held
    <3>2. \A f \in mLiveFiles' : disk'[f.idx] = disk[f.idx]
      <4>1. ASSUME NEW f \in mLiveFiles'  PROVE ~ \E g \in Held \ Held' : g.idx = f.idx
        BY <2>2, <2>4, <3>1 DEF CacheInv, OneOfEach
      <4>2. \A f \in mLiveFiles' : f.idx \in Files
        BY <2>2 DEF CacheType, Instances
      <4>. QED  BY <2>1, <4>1, <4>2 DEF RemoveReleased
    <3>. QED  BY <2>2, <2>4, <3>2 DEF CacheInv, OnDisk
  <2>. QED  BY <1>1, <2>1, <2>2, <2>3, <2>4 DEF CacheInv, Joined
<1>13. CASE ReadEnd
  <2>1. /\ reader'.file = reader.file /\ reader'.pc = "done"
        /\ UNCHANGED <<fetch, mLiveFiles, disk, inputs, device>>
    BY <1>13 DEF ReadEnd, CacheType, Reading, fetchVars
  <2>. QED  BY <1>1, <2>1 DEF CacheInv, HeldOutside, OneOfEach, OnDisk, Joined
<1>14. CASE JoinSource
  <2>1. /\ fetch.pc = "done" /\ reader.pc = "done" /\ device'.pc = "joined"
        /\ UNCHANGED <<fetch, mLiveFiles, inputs, reader>>
    BY <1>14 DEF JoinSource, SinkType, readVars
  <2>. QED  BY <1>1, <2>1 DEF CacheInv, HeldOutside, OneOfEach, Joined
<1>15. CASE Injector \/ Sink \/ Output \/ PreRun \/ PostRun \/ ResetTask \/ StopSource \/ Reset
  <2>1. UNCHANGED <<fetch, mLiveFiles, disk, inputs, reader>>
    BY <1>15 DEF Injector, Sink, Output, InjectPop, InjectEnd, InjectNextStage, InjectQueue,
                 InjectClose, SinkStf, SinkEnd,
                 OutputTake, OutputSend, OutputEnd, PreRun, PostRun, ResetTask, StopSource, Reset,
                 fetchVars, readVars
  <2>2. \/ device'.pc = device.pc
        \/ {device.pc, device'.pc} \subseteq {"ready", "running", "stopping", "joining"}
        \/ device.pc = "joined" /\ device'.pc = "down"
    BY <1>15 DEF Injector, Sink, Output, InjectPop, InjectEnd, InjectNextStage, InjectQueue,
                 InjectClose, SinkStf, SinkEnd,
                 OutputTake, OutputSend, OutputEnd, PreRun, PostRun, ResetTask, StopSource, Reset,
                 SinkType
  <2>. QED  BY <1>2, <2>1, <2>2 DEF Joined
<1>. QED  BY <1>3, <1>4, <1>5, <1>6, <1>7, <1>8, <1>9, <1>10, <1>11, <1>12, <1>13, <1>14, <1>15
          DEF Next, Fetcher, Reader, Device

LEMMA LimitStep ==
  ASSUME CacheType, FlowType, CacheType', LimitInv, Next
  PROVE  LimitInv'
<1>1. /\ PreRead \in Nat \ {0} /\ QueueLimit \in Nat \ {0} /\ Len(reads) \in Nat
      /\ Len(inputs) \in Nat /\ reads \in Seq(Nat) /\ inputs \in Seq(Instances)
      /\ fetch \in Fetching /\ reader \in Reading /\ Len(<< >>) = 0
  BY StfFilesAssumption, ElementsIn, EmptySeq DEF FlowType, CacheType
<1>2. /\ \A x \in Nat : Len(Append(reads, x)) = Len(reads) + 1
      /\ \A x \in Instances : Len(Append(inputs, x)) = Len(inputs) + 1
      /\ reads # << >> => Len(Tail(reads)) = Len(reads) - 1
      /\ inputs # << >> => Len(Tail(inputs)) = Len(inputs) - 1
  BY <1>1, Appended, Tailed
<1>3. CASE UNCHANGED <<reads, inputs, mRunning, reader, fetch>>
  BY <1>3 DEF LimitInv
<1>4. CASE FetchLocal
  <2>1. /\ fetch'.pc # "push" /\ Len(inputs) =< QueueLimit /\ UNCHANGED <<reads, mRunning, reader>>
        /\ inputs' = PushTo(inputs, inputsOpen, [idx |-> NextFile, gen |-> 0])
    BY <1>1, <1>4 DEF FetchLocal, MayFetch, readVars, Fetching
  <2>2. [idx |-> NextFile, gen |-> 0] \in Instances
    BY <1>1, ConfigType DEF CacheType, NextFile, Fetching, Instances
  <2>3. Len(inputs') =< QueueLimit + 1
    BY <1>1, <1>2, <2>1, <2>2 DEF PushTo
  <2>. QED  BY <2>1, <2>3 DEF LimitInv
<1>5. CASE FetchExisting \/ FetchCopy
  <2>1. Len(inputs) =< QueueLimit /\ UNCHANGED <<reads, mRunning, reader, inputs>>
    BY <1>5 DEF FetchExisting, FetchCopy, MayFetch, readVars
  <2>. QED  BY <1>1, <2>1 DEF LimitInv
<1>6. CASE FetchPush
  <2>1. PICK f \in Instances : fetch.file = {f}
    BY <1>6 DEF FetchPush, CacheType
  <2>2. inputs' = inputs \/ inputs' = Append(inputs, f)
    BY <1>1, <1>6, <2>1 DEF FetchPush
  <2>3. /\ fetch'.pc # "push" /\ UNCHANGED <<reads, mRunning, reader>>
        /\ fetch.pc = "push"
    BY <1>1, <1>6 DEF FetchPush, readVars, Fetching
  <2>. QED  BY <1>1, <1>2, <2>2, <2>3 DEF LimitInv
<1>7. CASE FetchRelease \/ FetchEnd
  <2>1. fetch'.pc # "push" /\ UNCHANGED <<reads, mRunning, reader, inputs>>
    BY <1>1, <1>7 DEF FetchRelease, FetchEnd, Fetching, readVars
  <2>. QED  BY <2>1 DEF LimitInv
<1>8. CASE ReadPop
  <2>1. /\ reader.pc = "pop" /\ inputs # << >> /\ inputs' = Tail(inputs)
        /\ UNCHANGED <<reads, mRunning, fetch>>
    BY <1>8 DEF ReadPop
  <2>. QED  BY <1>1, <1>2, <2>1 DEF LimitInv
<1>9. CASE ReadStf
  <2>1. /\ reader.pc = "read" /\ (reader.pos = 0 \/ Len(reads) < PreRead) /\ mRunning
        /\ reads' = Append(reads, sStfId) /\ UNCHANGED <<mRunning, fetch, inputs>>
        /\ reader'.pc = "read" /\ reader'.pos = reader.pos + 1 /\ reader.pos \in Nat
    BY <1>1, <1>9, ConfigType DEF ReadStf, MayRead, fetchVars, Reading, CacheType
  <2>2. Len(reads) < PreRead /\ Len(reads') = Len(reads) + 1
    BY <1>2, <2>1 DEF LimitInv, FlowType
  <2>. QED  BY <1>1, <2>1, <2>2 DEF LimitInv
<1>10. CASE ReadDone
  <2>1. /\ reader.pc = "read" /\ (reader.pos = 0 \/ Len(reads) < PreRead \/ ~mRunning)
        /\ UNCHANGED <<reads, mRunning, fetch, inputs>>
    BY <1>10 DEF ReadDone, MayRead
  <2>. QED  BY <2>1 DEF LimitInv
<1>11. CASE ReadPut \/ ReadEnd
  <2>1. reader.pc # "read" /\ UNCHANGED <<reads, mRunning, fetch, inputs>>
    BY <1>11 DEF ReadPut, ReadEnd, fetchVars
  <2>. QED  BY <2>1 DEF LimitInv
<1>12. CASE InjectPop
  <2>1. reads # << >> /\ reads' = Tail(reads) /\ UNCHANGED <<reader, mRunning, fetch, inputs>>
    BY <1>12 DEF InjectPop, fetchVars
  <2>. QED  BY <1>1, <1>2, <2>1 DEF LimitInv
<1>13. CASE StopSource
  <2>1. reads' = << >> /\ mRunning' = FALSE /\ UNCHANGED <<reader, fetch, inputs>>
    BY <1>13 DEF StopSource
  <2>. QED  BY <1>1, <2>1 DEF LimitInv
<1>14. CASE InjectEnd \/ InjectNextStage \/ InjectQueue \/ InjectClose \/ Sink \/ Output
              \/ PreRun \/ PostRun \/ ResetTask \/ JoinSource \/ Reset
  <2>1. UNCHANGED <<reads, inputs, mRunning, reader, fetch>>
    BY <1>14 DEF InjectEnd, InjectNextStage, InjectQueue, InjectClose, Sink, Output, SinkStf,
                 SinkEnd, OutputTake, OutputSend, OutputEnd, PreRun, PostRun, ResetTask, JoinSource,
                 Reset, fetchVars, readVars
  <2>. QED  BY <1>3, <2>1
<1>. QED  BY <1>4, <1>5, <1>6, <1>7, <1>8, <1>9, <1>10, <1>11, <1>12, <1>13, <1>14
          DEF Next, Fetcher, Reader, Injector, Device

-----------------------------------------------------------------------------
(* What each action does to the ids on their way: one id goes one stage on.  *)

LEMMA ReadStfMoves ==
  ASSUME FlowType, ReadStf
  PROVE  /\ sStfId' = sStfId + 1 /\ reads' = Append(reads, sStfId)
         /\ Elements(reads') = Elements(reads) \union {sStfId}
         /\ UNCHANGED <<config, skipped, injector, sinkQueue, sinkOpen, sendQueue, sendOpen, lost,
                        output, sent, sink, sinkEnded, saved, writer, device>>
<1>1. Elements(Append(reads, sStfId)) = Elements(reads) \union {sStfId}
  BY Appended DEF FlowType
<1>. QED  BY <1>1 DEF ReadStf, ReadWhole, pipelineVars, limitVars, outputVars, sinkVars

LEMMA ReadDoneMoves ==
  ASSUME ReadDone
  PROVE  /\ \/ UNCHANGED <<sStfId, skipped>>
            \/ sStfId' = sStfId + 1 /\ skipped' = skipped \union {sStfId}
         /\ UNCHANGED <<config, reads, injector, sinkQueue, sinkOpen, sendQueue, sendOpen, lost,
                        output, sent, sink, sinkEnded, saved, writer, device>>
BY DEF ReadDone, ReadCut, pipelineVars, limitVars, outputVars, sinkVars

LEMMA InjectPopMoves ==
  ASSUME FlowType, InjectPop
  PROVE  /\ reads # << >> /\ Head(reads) \in Nat /\ reads' = Tail(reads)
         /\ Elements(reads) = {Head(reads)} \union Elements(reads')
         /\ injector.stf = {} /\ injector'.stf = {Head(reads)}
         /\ injector.pc = "pop" /\ injector'.pc = "queue"
         /\ UNCHANGED <<config, sStfId, skipped, sinkQueue, sinkOpen, sendQueue, sendOpen, lost,
                        output, sent, sink, sinkEnded, saved, writer, device>>
<1>1. reads # << >> /\ reads' = Tail(reads) /\ injector' = [pc |-> "queue", stf |-> {Head(reads)}]
  BY DEF InjectPop
<1>2. Head(reads) \in Nat /\ Elements(reads) = {Head(reads)} \union Elements(Tail(reads))
  BY <1>1, Tailed DEF FlowType
<1>3. injector.stf = {} /\ injector.pc = "pop"
  BY DEF InjectPop, FlowType
<1>. QED  BY <1>1, <1>2, <1>3 DEF InjectPop, pipelineVars, limitVars, outputVars, sinkVars

LEMMA InjectQueueMoves ==
  ASSUME FlowType, InjectQueue
  PROVE  \E id \in Nat :
           /\ injector.stf = {id} /\ injector'.stf = {} /\ injector.pc = "push"
           /\ injector'.pc = "pop"
           /\ \/ /\ sink.enabled /\ sinkQueue' = PushTo(sinkQueue, sinkOpen, id)
                 /\ sinkOpen => Elements(sinkQueue') = Elements(sinkQueue) \union {id}
                 /\ ~sinkOpen => sinkQueue' = sinkQueue
                 /\ sendQueue' = sendQueue
              \/ /\ ~sink.enabled /\ sendQueue' = PushTo(sendQueue, sendOpen, id)
                 /\ sendOpen => Elements(sendQueue') = Elements(sendQueue) \union {id}
                 /\ ~sendOpen => sendQueue' = sendQueue
                 /\ sinkQueue' = sinkQueue
           /\ UNCHANGED <<config, sStfId, skipped, reads, sinkOpen, sendOpen, lost, output, sent,
                          sink, sinkEnded, saved, writer, device>>
<1>1. PICK id \in Nat : injector.stf = {id}
  BY DEF InjectQueue, FlowType
<1>2. /\ injector.pc = "push" /\ injector' = [pc |-> "pop", stf |-> {}]
      /\ UNCHANGED <<config, sStfId, skipped, reads, sinkOpen, sendOpen, lost, output, sent, sink,
                     sinkEnded, saved, writer, device>>
  BY DEF InjectQueue, readVars, outputVars, sinkVars
<1>3. IF sink.enabled
        THEN sinkQueue' = PushTo(sinkQueue, sinkOpen, id) /\ sendQueue' = sendQueue
        ELSE sendQueue' = PushTo(sendQueue, sendOpen, id) /\ sinkQueue' = sinkQueue
  BY <1>1 DEF InjectQueue
<1>4. /\ sinkQueue \in Seq(Nat) /\ sendQueue \in Seq(Nat)
      /\ sinkOpen \in BOOLEAN /\ sendOpen \in BOOLEAN
  BY DEF FlowType
<1>5. /\ sinkOpen => Elements(PushTo(sinkQueue, sinkOpen, id)) = Elements(sinkQueue) \union {id}
      /\ ~sinkOpen => PushTo(sinkQueue, sinkOpen, id) = sinkQueue
      /\ sendOpen => Elements(PushTo(sendQueue, sendOpen, id)) = Elements(sendQueue) \union {id}
      /\ ~sendOpen => PushTo(sendQueue, sendOpen, id) = sendQueue
  BY <1>4, Pushed
<1>. QED  BY <1>1, <1>2, <1>3, <1>5

LEMMA SinkStfMoves ==
  ASSUME FlowType, SinkStf
  PROVE  /\ sinkQueue # << >> /\ Head(sinkQueue) \in Nat /\ sinkQueue' = Tail(sinkQueue)
         /\ Elements(sinkQueue) = {Head(sinkQueue)} \union Elements(sinkQueue')
         /\ sendQueue' = PushTo(sendQueue, sendOpen, Head(sinkQueue))
         /\ sendOpen => Elements(sendQueue') = Elements(sendQueue) \union {Head(sinkQueue)}
         /\ ~sendOpen => sendQueue' = sendQueue
         /\ ~sinkEnded
         /\ UNCHANGED <<config, sStfId, skipped, reads, injector, sinkOpen, sendOpen, lost, output,
                        sent, device>>
<1>1. sinkQueue # << >>
  BY DEF SinkStf
<1>2. /\ Head(sinkQueue) \in Nat
      /\ Elements(sinkQueue) = {Head(sinkQueue)} \union Elements(Tail(sinkQueue))
  BY <1>1, Tailed DEF FlowType
<1>3. sendQueue \in Seq(Nat) /\ sendOpen \in BOOLEAN
  BY DEF FlowType
<1>4. LET queue == PushTo(sendQueue, sendOpen, Head(sinkQueue)) IN
        /\ sendOpen => Elements(queue) = Elements(sendQueue) \union {Head(sinkQueue)}
        /\ ~sendOpen => queue = sendQueue
  BY <1>2, <1>3, Pushed
<1>. QED  BY <1>1, <1>2, <1>4 DEF SinkStf, readVars, outputVars

LEMMA OutputTakeMoves ==
  ASSUME FlowType, OutputTake
  PROVE  /\ sendQueue # << >> /\ Head(sendQueue) \in Nat /\ sendQueue' = Tail(sendQueue)
         /\ Elements(sendQueue) = {Head(sendQueue)} \union Elements(sendQueue')
         /\ output.stf = {} /\ output'.stf = {Head(sendQueue)}
         /\ UNCHANGED <<config, sStfId, skipped, reads, injector, sinkQueue, sinkOpen, sendOpen,
                        lost, sent, sink, sinkEnded, saved, writer, device>>
<1>1. /\ sendQueue # << >> /\ output' = [pc |-> "check", stf |-> {Head(sendQueue)}]
      /\ sendQueue' = Tail(sendQueue)
  BY DEF OutputTake
<1>2. /\ Head(sendQueue) \in Nat
      /\ Elements(sendQueue) = {Head(sendQueue)} \union Elements(Tail(sendQueue))
  BY <1>1, Tailed DEF FlowType
<1>3. output.stf = {}
  BY DEF OutputTake, FlowType
<1>. QED  BY <1>1, <1>2, <1>3 DEF OutputTake, readVars, limitVars, sinkVars

LEMMA OutputSendMoves ==
  ASSUME FlowType, SinkType, OutputSend
  PROVE  \E id \in Nat :
           LET stf == [id |-> id, run |-> device.run] IN
             /\ output.stf = {id} /\ output'.stf = {} /\ sendOpen
             /\ stf \in Item
             /\ \/ device.inRun /\ sent' = Append(sent, stf) /\ lost' = lost
                \/ device.inRun /\ sent' = sent /\ lost' = lost \union {id}
                \/ ~device.inRun /\ sent' = sent /\ lost' = lost
             /\ UNCHANGED <<config, sStfId, skipped, reads, injector, sinkQueue, sinkOpen,
                            sendQueue, sendOpen, sink, sinkEnded, saved, writer, device>>
<1>1. PICK id \in Nat : output.stf = {id}
  BY DEF OutputSend, FlowType
<1>2. [id |-> id, run |-> device.run] \in Item
  BY ConfigType DEF SinkType, Item
<1>3. \/ /\ device.inRun /\ sent' = Append(sent, [id |-> id, run |-> device.run])
         /\ lost' = lost
      \/ device.inRun /\ sent' = sent /\ lost' = lost \union {id}
      \/ ~device.inRun /\ sent' = sent /\ lost' = lost
  BY <1>1 DEF OutputSend, limitVars
<1>. QED  BY <1>1, <1>2, <1>3 DEF OutputSend, readVars

\* At the limit the oldest STF of one of the queues is lost.
LEMMA InjectNextStageMoves ==
  ASSUME FlowType, InjectNextStage
  PROVE  /\ injector'.stf = injector.stf
         /\ injector.pc \in {"queue", "end"} /\ injector'.pc \in {"push", "close"}
         /\ \/ UNCHANGED <<sinkQueue, sendQueue, lost>>
            \/ /\ sendQueue # << >> /\ Head(sendQueue) \in Nat /\ sendQueue' = Tail(sendQueue)
               /\ Elements(sendQueue) = {Head(sendQueue)} \union Elements(sendQueue')
               /\ lost' = lost \union {Head(sendQueue)} /\ UNCHANGED sinkQueue
            \/ /\ sinkQueue # << >> /\ Head(sinkQueue) \in Nat /\ sinkQueue' = Tail(sinkQueue)
               /\ Elements(sinkQueue) = {Head(sinkQueue)} \union Elements(sinkQueue')
               /\ lost' = lost \union {Head(sinkQueue)} /\ UNCHANGED sendQueue
         /\ UNCHANGED <<config, sStfId, skipped, reads, sinkOpen, sendOpen, output, sent, sink,
                        sinkEnded, saved, writer, device>>
<1>1. /\ injector.pc \in {"queue", "end"}
      /\ injector' = [injector EXCEPT !.pc = IF @ = "queue" THEN "push" ELSE "close"]
      /\ UNCHANGED <<config, sStfId, skipped, reads, sinkOpen, sendOpen, output, sent, sink,
                     sinkEnded, saved, writer, device>>
  BY DEF InjectNextStage, readVars, outputVars, sinkVars
<1>2. injector'.stf = injector.stf /\ injector'.pc \in {"push", "close"}
  BY <1>1 DEF FlowType
<1>3. \A q \in Seq(Nat) :
        q # << >> => Head(q) \in Nat /\ Elements(q) = {Head(q)} \union Elements(Tail(q))
  BY Tailed
<1>4. sinkQueue \in Seq(Nat) /\ sendQueue \in Seq(Nat)
  BY DEF FlowType
<1>5. \/ UNCHANGED <<sinkQueue, sendQueue, lost>>
      \/ /\ sendQueue # << >> /\ sendQueue' = Tail(sendQueue)
         /\ lost' = lost \union {Head(sendQueue)} /\ UNCHANGED sinkQueue
      \/ /\ sinkQueue # << >> /\ sinkQueue' = Tail(sinkQueue)
         /\ lost' = lost \union {Head(sinkQueue)} /\ UNCHANGED sendQueue
  BY DEF InjectNextStage, DropFrom
<1>. QED  BY <1>1, <1>2, <1>3, <1>4, <1>5

\* The actions that move no id.
Quiet == Fetcher \/ ReadPop \/ ReadPut \/ ReadEnd \/ InjectEnd \/ InjectClose \/ SinkEnd
           \/ OutputEnd \/ PreRun \/ PostRun \/ JoinSource \/ Reset

LEMMA QuietMoves ==
  ASSUME FlowType, Quiet
  PROVE  /\ injector'.stf = injector.stf /\ output'.stf = output.stf
         /\ UNCHANGED <<config, sStfId, skipped, lost, reads, sinkQueue, sendQueue, sent>>
<1>1. UNCHANGED <<config, sStfId, skipped, lost, reads, sinkQueue, sendQueue, sent>>
  BY DEF Quiet, Fetcher, FetchLocal, FetchExisting, FetchCopy, FetchPush, FetchRelease, FetchEnd,
         ReadPop, ReadPut, ReadEnd, InjectEnd, InjectClose, SinkEnd, OutputEnd, PreRun, PostRun,
         JoinSource, Reset, readVars, pipelineVars, limitVars, outputVars
<1>2. injector'.stf = injector.stf
  BY DEF Quiet, Fetcher, FetchLocal, FetchExisting, FetchCopy, FetchPush, FetchRelease, FetchEnd,
         ReadPop, ReadPut, ReadEnd, InjectEnd, InjectClose, SinkEnd, OutputEnd, PreRun, PostRun,
         JoinSource, Reset, FlowType
<1>3. output'.stf = output.stf
  BY DEF Quiet, Fetcher, FetchLocal, FetchExisting, FetchCopy, FetchPush, FetchRelease, FetchEnd,
         ReadPop, ReadPut, ReadEnd, InjectEnd, InjectClose, SinkEnd, OutputEnd, PreRun, PostRun,
         JoinSource, Reset, FlowType, outputVars
<1>. QED  BY <1>1, <1>2, <1>3

\* A reset empties queues; nothing is read then.
LEMMA ClearMoves ==
  ASSUME FlowType, ResetTask \/ StopSource
  PROVE  /\ UNCHANGED <<config, sStfId, skipped, lost, injector, output, sent, sink, sinkEnded,
                        saved, writer>>
         /\ sendOpen' = FALSE \/ UNCHANGED <<sinkQueue, sendQueue, sinkOpen, sendOpen>>
         /\ reads' \in {reads, << >>} /\ sinkQueue' \in {sinkQueue, << >>}
         /\ sendQueue' \in {sendQueue, << >>}
BY DEF ResetTask, StopSource, readVars, pipelineVars, limitVars, outputVars, sinkVars

LEMMA Actions ==
  ASSUME Next
  PROVE  ReadStf \/ ReadDone \/ InjectPop \/ InjectNextStage \/ InjectQueue \/ SinkStf
           \/ OutputTake \/ OutputSend \/ ResetTask \/ StopSource \/ Quiet
BY DEF Next, Reader, Injector, Sink, Output, Device, Quiet

-----------------------------------------------------------------------------
(* The stages *)

LEMMA StageInit == Init => StageInv
<1>. SUFFICES ASSUME Init  PROVE StageInv
  OBVIOUS
<1>1. config.sink \in BOOLEAN
  BY ConfigType DEF Init
<1>. QED  BY <1>1 DEF Init, StageInv

LEMMA StageStep ==
  ASSUME FlowType, SinkType, StageInv, Next
  PROVE  StageInv'
<1>1. config' = config /\ config.sink \in BOOLEAN
  BY ConfigKept, ConfigType DEF SinkType
<1>2. CASE ReadStf
  BY <1>2, ReadStfMoves DEF StageInv
<1>3. CASE ReadDone
  BY <1>3, ReadDoneMoves DEF StageInv
<1>4. CASE InjectPop
  BY <1>4, InjectPopMoves DEF StageInv
<1>12. CASE InjectNextStage
  BY <1>12, InjectNextStageMoves DEF StageInv
<1>5. CASE InjectQueue
  BY <1>5, InjectQueueMoves DEF StageInv
<1>6. CASE SinkStf
  BY <1>6, SinkStfMoves DEF StageInv
<1>7. CASE OutputTake
  BY <1>7, OutputTakeMoves DEF StageInv
<1>8. CASE OutputSend
  BY <1>8, OutputSendMoves DEF StageInv
<1>9. CASE ResetTask
  BY <1>1, <1>9 DEF StageInv, ResetTask, sinkVars
<1>10. CASE StopSource
  <2>1. /\ device.pc = "stopping" /\ device'.pc = "joining"
        /\ UNCHANGED <<injector, pipelineVars, sinkVars>>
    BY <1>10 DEF StopSource, SinkType
  <2>. QED  BY <1>1, <2>1 DEF StageInv, pipelineVars, limitVars, sinkVars
<1>11. CASE Quiet
  <2>1. CASE InjectClose
    <3>1. /\ injector'.pc = "done" /\ UNCHANGED <<sinkQueue, sink, sinkEnded, device>>
          /\ sendOpen' = (sendOpen /\ sink.enabled)
      BY <2>1 DEF InjectClose, FlowType, sinkVars
    <3>. QED  BY <1>1, <3>1 DEF StageInv
  <2>7. CASE InjectEnd
    <3>1. injector.pc = "pop" /\ UNCHANGED <<pipelineVars, sink, sinkEnded, device>>
      BY <2>7 DEF InjectEnd, sinkVars
    <3>. QED  BY <1>1, <3>1 DEF StageInv, pipelineVars
  <2>2. CASE SinkEnd
    BY <1>1, <2>2 DEF SinkEnd, StageInv, pipelineVars, limitVars
  <2>3. CASE OutputEnd
    <3>1. device'.pc = device.pc /\ UNCHANGED <<injector, pipelineVars, sinkVars>>
      BY <2>3 DEF OutputEnd, SinkType
    <3>. QED  BY <1>1, <3>1 DEF StageInv, pipelineVars, limitVars, sinkVars
  <2>4. CASE PreRun \/ PostRun
    <3>1. /\ device.pc \in {"ready", "running"} /\ device'.pc \in {"ready", "running"}
          /\ UNCHANGED <<injector, pipelineVars, sinkEnded>> /\ (sink'.enabled => sink.enabled)
      BY <2>4 DEF PreRun, PostRun, SinkType, sinkVars
    <3>. QED  BY <1>1, <3>1 DEF StageInv, pipelineVars, limitVars
  <2>5. CASE JoinSource \/ Reset
    <3>1. /\ device.pc \in {"joining", "joined"} /\ UNCHANGED <<injector, pipelineVars, sinkEnded>>
          /\ sink'.enabled = sink.enabled
      BY <2>5 DEF JoinSource, Reset, SinkType
    <3>. QED  BY <1>1, <3>1 DEF StageInv, pipelineVars, limitVars
  <2>6. CASE Fetcher \/ ReadPop \/ ReadPut \/ ReadEnd
    <3>1. UNCHANGED <<injector, pipelineVars, sink, sinkEnded, device>>
      BY <2>6 DEF Fetcher, FetchLocal, FetchExisting, FetchCopy, FetchPush, FetchRelease, FetchEnd,
                  ReadPop, ReadPut, ReadEnd, sinkVars
    <3>. QED  BY <1>1, <3>1 DEF StageInv, pipelineVars, limitVars
  <2>. QED  BY <1>11, <2>1, <2>2, <2>3, <2>4, <2>5, <2>6, <2>7 DEF Quiet
<1>. QED  BY <1>2, <1>3, <1>4, <1>5, <1>6, <1>7, <1>8, <1>9, <1>10, <1>11, <1>12,
             Actions

\* A sink that was disabled stays so, and a stage that is closed.
LEMMA StaysBroken ==
  ASSUME SinkType, FlowType, StageInv, Next
  PROVE  (Unbroken' => Unbroken) /\ (sendOpen' => sendOpen)
<1>1. config' = config /\ config.sink \in BOOLEAN /\ sink.enabled \in BOOLEAN
  BY ConfigKept, ConfigType DEF SinkType
<1>2. sink'.enabled => sink.enabled
  BY DEF Next, Fetcher, Reader, Injector, Sink, Output, Device, FetchLocal, FetchExisting,
         FetchCopy, FetchPush, FetchRelease, FetchEnd, ReadPop, ReadStf, ReadDone, ReadPut,
         ReadEnd, InjectPop, InjectEnd, InjectNextStage, InjectQueue,
       InjectClose, SinkStf, SinkEnd, OutputTake, OutputSend,
         OutputEnd, PreRun, PostRun, ResetTask, StopSource, JoinSource, Reset, sinkVars,
         PassUnsaved, AppendToFile, FailToWrite, SinkType
<1>3. sendOpen' => sendOpen
  BY DEF Next, Fetcher, Reader, Injector, Sink, Output, Device, FetchLocal, FetchExisting,
         FetchCopy, FetchPush, FetchRelease, FetchEnd, ReadPop, ReadStf, ReadDone, ReadPut,
         ReadEnd, InjectPop, InjectEnd, InjectNextStage, InjectQueue,
       InjectClose, SinkStf, SinkEnd, OutputTake, OutputSend,
         OutputEnd, PreRun, PostRun, ResetTask, StopSource, JoinSource, Reset, pipelineVars,
         limitVars
<1>4. sink'.enabled \in BOOLEAN
  <2>1. SinkType'
    BY SinkTypeStep
  <2>. QED  BY <2>1 DEF SinkType
<1>. QED  BY <1>1, <1>2, <1>3, <1>4 DEF Unbroken, StageInv

-----------------------------------------------------------------------------
(* The order *)

LEMMA IdTypes ==
  ASSUME FlowType
  PROVE  /\ sStfId \in Nat /\ injector.stf \subseteq Nat /\ output.stf \subseteq Nat
         /\ skipped \subseteq Nat /\ lost \subseteq Nat /\ SentIds \subseteq Nat
         /\ Elements(reads) \subseteq Nat /\ Elements(sinkQueue) \subseteq Nat
         /\ Elements(sendQueue) \subseteq Nat
         /\ reads \in Seq(Nat) /\ sinkQueue \in Seq(Nat) /\ sendQueue \in Seq(Nat)
         /\ sendOpen \in BOOLEAN /\ sinkOpen \in BOOLEAN
<1>1. ASSUME NEW i \in DOMAIN sent  PROVE sent[i].id \in Nat
  <2>1. sent[i] \in Item
    BY ElementOfSeq, LenProperties DEF FlowType
  <2>. QED  BY <2>1 DEF Item
<1>2. injector.stf \subseteq Nat /\ output.stf \subseteq Nat
  BY DEF FlowType
<1>3. /\ Elements(reads) \subseteq Nat /\ Elements(sinkQueue) \subseteq Nat
      /\ Elements(sendQueue) \subseteq Nat
  BY ElementsIn DEF FlowType
<1>. QED  BY <1>1, <1>2, <1>3 DEF FlowType, SentIds

LEMMA BelowShrinks ==
  ASSUME NEW S, NEW T, Below(S, T), NEW U, U \subseteq S, NEW V, V \subseteq T
  PROVE  Below(U, V)
BY DEF Below

\* What is below an id that waits is below the one after it.
LEMMA BelowNext ==
  ASSUME NEW n \in Nat, NEW S \in SUBSET Nat, NEW T, n \in T, Below(S, T),
         NEW U, U \subseteq T \union {n + 1}
  PROVE  Below(S, U)
BY DEF Below

LEMMA OrderInit == Init => OrderInv
<1>. SUFFICES ASSUME Init  PROVE OrderInv
  OBVIOUS
<1>1. /\ Elements(reads) = {} /\ Elements(sinkQueue) = {} /\ Elements(sendQueue) = {}
      /\ injector.stf = {} /\ output.stf = {} /\ Missing = {} /\ SentIds = {}
  BY NoElements DEF Init, SentIds, Missing
<1>2. Ascending(<< >>)
  BY DEF Ascending
<1>. QED  BY <1>1, <1>2 DEF Init, OrderInv, Below

LEMMA OrderStep ==
  ASSUME FlowType, SinkType, StageInv, OrderInv, Next
  PROVE  OrderInv'
<1>1. Unbroken' => Unbroken
  BY StaysBroken
<1>2. CASE ReadStf \/ (ReadDone /\ sStfId' = sStfId + 1)
  <2>1. /\ sStfId' = sStfId + 1
        /\ Elements(reads') \subseteq Elements(reads) \union {sStfId}
        /\ Missing' \subseteq Missing \union {sStfId}
        /\ UNCHANGED <<config, injector, sinkQueue, sendQueue, output, sent>>
    BY <1>2, ReadStfMoves, ReadDoneMoves DEF Missing
  <2>2. Ascending(reads')
    <3>1. Ascending(Append(reads, sStfId))
      BY IdTypes, AscendingAppend DEF OrderInv
    <3>. QED  BY <1>2, <3>1, ReadStfMoves, ReadDoneMoves DEF OrderInv
  <2>3. /\ sStfId \in BehindSink /\ BehindSink' \subseteq BehindSink \union {sStfId + 1}
        /\ sStfId \in BehindSend /\ BehindSend' \subseteq BehindSend \union {sStfId + 1}
        /\ sStfId \in BehindOutput /\ BehindOutput' \subseteq BehindOutput \union {sStfId + 1}
        /\ SentIds' = SentIds
    BY <2>1 DEF BehindSink, BehindSend, BehindOutput, SentIds
  <2>4. Below(Elements(reads'), {sStfId + 1})
    <3>1. /\ \A x \in Elements(reads) : x < sStfId /\ x \in Nat
          /\ sStfId \in Nat
      BY IdTypes DEF OrderInv, Below
    <3>2. \A x \in Elements(reads) : x < sStfId + 1
      BY <3>1
    <3>. QED  BY <2>1, <3>1, <3>2 DEF Below
  <2>5. Below(injector.stf, Elements(reads') \union {sStfId + 1})
    <3>1. Elements(reads') \union {sStfId + 1}
            \subseteq (Elements(reads) \union {sStfId}) \union {sStfId + 1}
      BY <2>1
    <3>. QED  BY <3>1, IdTypes, BelowNext DEF OrderInv
  <2>6. Below(Elements(sinkQueue), BehindSink')
    BY <2>3, IdTypes, BelowNext DEF OrderInv
  <2>7. Below(Elements(sendQueue) \union output.stf \union SentIds \union Missing', {sStfId + 1})
    <3>1. Missing \subseteq Nat
      BY IdTypes DEF Missing
    <3>2. \A x \in Missing \union {sStfId} : x < sStfId + 1
      BY <3>1, IdTypes DEF OrderInv, Below
    <3>3. \A x \in Elements(sendQueue) \union output.stf \union SentIds : x < sStfId + 1
      BY IdTypes DEF OrderInv, Below
    <3>. QED  BY <2>1, <3>2, <3>3 DEF Below
  <2>8. ASSUME Unbroken  PROVE Below(Elements(sendQueue), BehindSend')
    BY <2>3, <2>8, IdTypes, BelowNext DEF OrderInv
  <2>9. ASSUME Unbroken  PROVE Below(output.stf, BehindOutput')
    BY <2>3, <2>9, IdTypes, BelowNext DEF OrderInv
  <2>10. ASSUME Unbroken  PROVE Below(SentIds, output.stf \union BehindOutput')
    <3>1. /\ sStfId \in output.stf \union BehindOutput
          /\ output.stf \union BehindOutput'
               \subseteq (output.stf \union BehindOutput) \union {sStfId + 1}
      BY <2>3
    <3>. QED  BY <2>10, <3>1, IdTypes, BelowNext DEF OrderInv
  <2>. QED  BY <1>1, <2>1, <2>2, <2>3, <2>4, <2>5, <2>6, <2>7, <2>8, <2>9, <2>10 DEF OrderInv
<1>3. CASE ReadDone /\ UNCHANGED <<sStfId, skipped>>
  BY <1>1, <1>3, ReadDoneMoves DEF OrderInv, Below, BehindSink, BehindSend, BehindOutput, SentIds,
                                      Missing
<1>4. CASE InjectPop
  <2>1. Ascending(reads') /\ Below({Head(reads)}, Elements(reads'))
    BY <1>4, IdTypes, InjectPopMoves, AscendingTail DEF OrderInv
  <2>. QED  BY <1>1, <1>4, <2>1, InjectPopMoves, IdTypes
            DEF OrderInv, Below, BehindSink, BehindSend, BehindOutput, SentIds, Missing
<1>5. CASE InjectQueue
  <2>1. PICK id \in Nat :
           /\ injector.stf = {id} /\ injector'.stf = {}
           /\ \/ /\ sink.enabled /\ sinkQueue' = PushTo(sinkQueue, sinkOpen, id)
                 /\ sinkOpen => Elements(sinkQueue') = Elements(sinkQueue) \union {id}
                 /\ ~sinkOpen => sinkQueue' = sinkQueue
                 /\ sendQueue' = sendQueue
              \/ /\ ~sink.enabled /\ sendQueue' = PushTo(sendQueue, sendOpen, id)
                 /\ sendOpen => Elements(sendQueue') = Elements(sendQueue) \union {id}
                 /\ ~sendOpen => sendQueue' = sendQueue
                 /\ sinkQueue' = sinkQueue
           /\ UNCHANGED <<config, sStfId, Missing, reads, output, sent>>
    BY <1>5, InjectQueueMoves DEF Missing
  <2>2. CASE sinkQueue' = PushTo(sinkQueue, sinkOpen, id) /\ sendQueue' = sendQueue
    <3>1. Ascending(sinkQueue')
      <4>1. Below(Elements(sinkQueue), {id})
        BY <2>1 DEF OrderInv, Below, BehindSink
      <4>. QED  BY <2>2, <4>1, IdTypes, AscendingAppend DEF OrderInv
    <3>2. Elements(sinkQueue') \in {Elements(sinkQueue), Elements(sinkQueue) \union {id}}
      BY <2>1, <2>2, IdTypes, Zenon DEF PushTo
    <3>3. /\ BehindSink' \subseteq BehindSink /\ BehindSend' \subseteq BehindSend
          /\ BehindOutput' \subseteq BehindOutput /\ SentIds' = SentIds
          /\ BehindSink' \subseteq Elements(reads) \union {sStfId}
      BY <2>1, <2>2, <3>2 DEF BehindSink, BehindSend, BehindOutput, SentIds
    <3>4. Below(Elements(sinkQueue'), BehindSink')
      BY <2>1, <3>2, <3>3 DEF OrderInv, Below
    <3>5. Unbroken => /\ Below(Elements(sendQueue), BehindSend')
                      /\ Below(output.stf, BehindOutput')
                      /\ Below(SentIds, output.stf \union BehindOutput')
      BY <3>3 DEF OrderInv, Below
    <3>6. Below(injector'.stf, Elements(reads) \union {sStfId})
      BY <2>1 DEF Below
    <3>. QED  BY <1>1, <2>1, <2>2, <3>1, <3>3, <3>4, <3>5, <3>6 DEF OrderInv
  <2>3. CASE ~sink.enabled /\ sendQueue' = PushTo(sendQueue, sendOpen, id) /\ sinkQueue' = sinkQueue
    <3>1. Unbroken => sinkQueue = << >>
      BY <2>3, ConfigType DEF StageInv, Unbroken, SinkType
    <3>2. Unbroken => Ascending(sendQueue')
      <4>1. Unbroken => Below(Elements(sendQueue), {id})
        BY <2>1 DEF OrderInv, Below, BehindSink, BehindSend
      <4>. QED  BY <2>3, <4>1, IdTypes, AscendingAppend DEF OrderInv
    <3>3. Elements(sendQueue') \in {Elements(sendQueue), Elements(sendQueue) \union {id}}
      BY <2>1, <2>3, IdTypes
    <3>4. /\ BehindSink' \subseteq BehindSink
          /\ BehindSend' = Elements(sinkQueue) \union BehindSink'
          /\ BehindOutput' \subseteq BehindOutput /\ SentIds' = SentIds
          /\ BehindSink' \subseteq Elements(reads) \union {sStfId}
      BY <2>1, <2>3, <3>3 DEF BehindSink, BehindSend, BehindOutput, SentIds
    <3>5. Below(Elements(sinkQueue), BehindSink')
      BY <3>4 DEF OrderInv, Below
    <3>6. Below(injector'.stf, Elements(reads) \union {sStfId})
      BY <2>1 DEF Below
    <3>7. id < sStfId
      BY <2>1 DEF OrderInv, Below
    <3>8. Below(Elements(sendQueue') \union output.stf \union SentIds \union Missing, {sStfId})
      BY <3>3, <3>7 DEF OrderInv, Below
    <3>9. ASSUME Unbroken  PROVE Below(Elements(sendQueue'), BehindSend')
      <4>1. BehindSend' \subseteq Elements(reads) \union {sStfId}
        BY <3>1, <3>4, <3>9, NoElements
      <4>2. Below({id}, BehindSend')
        BY <2>1, <4>1 DEF OrderInv, Below
      <4>3. Below(Elements(sendQueue), BehindSend')
        BY <3>4, <3>9 DEF OrderInv, Below, BehindSend
      <4>. QED  BY <3>3, <4>2, <4>3 DEF Below
    <3>10. Unbroken => /\ Below(output.stf, BehindOutput')
                       /\ Below(SentIds, output.stf \union BehindOutput')
      BY <3>4 DEF OrderInv, Below
    <3>. QED  BY <1>1, <2>1, <2>3, <3>2, <3>4, <3>5, <3>6, <3>8, <3>9, <3>10 DEF OrderInv
  <2>. QED  BY <2>1, <2>2, <2>3
<1>6. CASE SinkStf
  <2>. DEFINE id == Head(sinkQueue)
  <2>1. /\ id \in Nat /\ Elements(sinkQueue) = {id} \union Elements(sinkQueue')
        /\ Elements(sendQueue') \in {Elements(sendQueue), Elements(sendQueue) \union {id}}
        /\ UNCHANGED <<config, sStfId, Missing, reads, injector, output, sent>>
    BY <1>6, SinkStfMoves, IdTypes DEF Missing
  <2>2. Ascending(sinkQueue') /\ Below({id}, Elements(sinkQueue'))
    BY <1>6, IdTypes, SinkStfMoves, AscendingTail DEF OrderInv
  <2>3. Unbroken => Ascending(sendQueue')
    <3>1. Unbroken => Below(Elements(sendQueue), {id})
      BY <2>1 DEF OrderInv, Below, BehindSend
    <3>. QED  BY <1>6, <2>1, <3>1, IdTypes, SinkStfMoves, AscendingAppend DEF OrderInv
  <2>. HIDE DEF id
  <2>4. /\ BehindSink' = BehindSink /\ BehindSend' = Elements(sinkQueue') \union BehindSink
        /\ BehindSend' \subseteq BehindSend /\ BehindOutput' \subseteq BehindOutput
        /\ SentIds' = SentIds
    BY <2>1 DEF BehindSink, BehindSend, BehindOutput, SentIds
  <2>5. Below(Elements(sinkQueue'), BehindSink)
    BY <2>1 DEF OrderInv, Below
  <2>6. Below(Elements(sendQueue') \union output.stf \union SentIds \union Missing, {sStfId})
    <3>1. id < sStfId
      BY <2>1 DEF OrderInv, Below, BehindSink
    <3>. QED  BY <2>1, <3>1 DEF OrderInv, Below
  <2>7. ASSUME Unbroken  PROVE Below(Elements(sendQueue'), BehindSend')
    <3>1. Below({id}, BehindSend')
      BY <2>1, <2>2, <2>4 DEF OrderInv, Below
    <3>2. Below(Elements(sendQueue), BehindSend')
      BY <2>4, <2>7 DEF OrderInv, Below
    <3>. QED  BY <2>1, <3>1, <3>2 DEF Below
  <2>8. Unbroken => /\ Below(output.stf, BehindOutput')
                    /\ Below(SentIds, output.stf \union BehindOutput')
    BY <2>4 DEF OrderInv, Below
  <2>. QED  BY <1>1, <2>1, <2>2, <2>3, <2>4, <2>5, <2>6, <2>7, <2>8 DEF OrderInv
<1>7. CASE OutputTake
  <2>. DEFINE id == Head(sendQueue)
  <2>1. /\ id \in Nat /\ Elements(sendQueue) = {id} \union Elements(sendQueue')
        /\ output.stf = {} /\ output'.stf = {id}
        /\ UNCHANGED <<config, sStfId, Missing, reads, injector, sinkQueue, sent>>
    BY <1>7, OutputTakeMoves, IdTypes DEF Missing
  <2>2. Unbroken => Ascending(sendQueue') /\ Below({id}, Elements(sendQueue'))
    BY <1>7, IdTypes, OutputTakeMoves, AscendingTail DEF OrderInv
  <2>. HIDE DEF id
  <2>3. /\ BehindSink' = BehindSink /\ BehindSend' = BehindSend
        /\ BehindOutput' = Elements(sendQueue') \union BehindSend
        /\ output'.stf \union BehindOutput' = output.stf \union BehindOutput /\ SentIds' = SentIds
    BY <2>1 DEF BehindSink, BehindSend, BehindOutput, SentIds
  <2>4. Elements(sendQueue') \union output'.stf = Elements(sendQueue) \union output.stf
    BY <2>1
  <2>5. Unbroken => Below(Elements(sendQueue'), BehindSend) /\ Below({id}, BehindOutput')
    BY <2>1, <2>2, <2>3 DEF OrderInv, Below
  <2>6. Below(Elements(sendQueue') \union output'.stf \union SentIds \union Missing, {sStfId})
    BY <2>4 DEF OrderInv
  <2>. QED  BY <1>1, <2>1, <2>2, <2>3, <2>5, <2>6 DEF OrderInv
<1>8. CASE OutputSend
  <2>1. PICK id \in Nat :
           /\ output.stf = {id} /\ output'.stf = {}
           /\ [id |-> id, run |-> device.run] \in Item
           /\ sent' = sent \/ sent' = Append(sent, [id |-> id, run |-> device.run])
           /\ Missing' \subseteq Missing \union {id}
           /\ UNCHANGED <<config, sStfId, reads, injector, sinkQueue, sendQueue>>
    BY <1>8, OutputSendMoves DEF Missing
  <2>2. SentIds' \subseteq SentIds \union {id}
    <3>. DEFINE stf == [id |-> id, run |-> device.run]
    <3>1. stf.id = id /\ sent \in Seq(Item) /\ stf \in Item
      BY <2>1 DEF FlowType
    <3>. HIDE DEF stf
    <3>2. /\ DOMAIN Append(sent, stf) = DOMAIN sent \union {Len(sent) + 1}
          /\ \A i \in DOMAIN sent : Append(sent, stf)[i] = sent[i]
          /\ Append(sent, stf)[Len(sent) + 1] = stf
      BY <3>1, Appended
    <3>3. sent' \in {sent, Append(sent, stf)}
      BY <2>1 DEF stf
    <3>. QED  BY <3>1, <3>2, <3>3 DEF SentIds
  <2>. QED  BY <1>1, <2>1, <2>2, IdTypes
            DEF OrderInv, Below, BehindSink, BehindSend, BehindOutput
<1>9. CASE ResetTask \/ StopSource
  <2>1. Ascending(<< >>) /\ Elements(<< >>) = {}
    BY NoElements DEF Ascending
  <2>2. /\ UNCHANGED <<config, sStfId, Missing, injector, output, sent>>
        /\ Ascending(reads') /\ Elements(reads') \subseteq Elements(reads)
        /\ Ascending(sinkQueue') /\ Elements(sinkQueue') \subseteq Elements(sinkQueue)
        /\ Unbroken => Ascending(sendQueue')
        /\ Elements(sendQueue') \subseteq Elements(sendQueue)
    BY <1>9, <2>1, ClearMoves DEF OrderInv, Missing
  <2>. QED  BY <1>1, <2>2, IdTypes
            DEF OrderInv, Below, BehindSink, BehindSend, BehindOutput, SentIds
<1>10. CASE Quiet
  BY <1>1, <1>10, QuietMoves
     DEF OrderInv, Below, BehindSink, BehindSend, BehindOutput, SentIds, Missing
<1>11. CASE InjectNextStage
  <2>1. /\ Missing' \subseteq Missing \union Elements(sinkQueue) \union Elements(sendQueue)
        /\ Elements(sinkQueue') \subseteq Elements(sinkQueue)
        /\ Elements(sendQueue') \subseteq Elements(sendQueue)
        /\ injector'.stf = injector.stf
        /\ UNCHANGED <<config, sStfId, reads, output, sent, sink>>
    BY <1>11, InjectNextStageMoves DEF Missing
  <2>2. Ascending(sinkQueue') /\ (Unbroken => Ascending(sendQueue'))
    BY <1>11, IdTypes, InjectNextStageMoves, AscendingTail DEF OrderInv
  <2>3. /\ BehindSink' = BehindSink /\ BehindSend' \subseteq BehindSend
        /\ BehindOutput' \subseteq BehindOutput /\ SentIds' = SentIds
    BY <2>1 DEF BehindSink, BehindSend, BehindOutput, SentIds
  <2>4. Below(Elements(sinkQueue) \union Elements(sendQueue) \union Missing', {sStfId})
    BY <2>1 DEF OrderInv, Below, BehindSink
  <2>5. Below(Elements(sendQueue') \union output.stf \union SentIds \union Missing', {sStfId})
    BY <2>1, <2>4 DEF OrderInv, Below
  <2>6. Below(Elements(sinkQueue'), BehindSink)
    BY <2>1 DEF OrderInv, Below
  <2>7. Unbroken => /\ Below(Elements(sendQueue'), BehindSend')
                    /\ Below(output.stf, BehindOutput')
                    /\ Below(SentIds, output.stf \union BehindOutput')
    BY <2>1, <2>3 DEF OrderInv, Below
  <2>. QED  BY <1>1, <2>1, <2>2, <2>3, <2>5, <2>6, <2>7 DEF OrderInv
<1>. QED  BY ReadDoneMoves, <1>2, <1>3, <1>4, <1>5, <1>6, <1>7, <1>8, <1>9, <1>10, <1>11, Actions

-----------------------------------------------------------------------------
(* No gap: an id leaves the flow when it was sent, lost, or in no run. *)

LEMMA GapInit == Init => GapInv /\ SentWithoutGaps
<1>. SUFFICES ASSUME Init  PROVE GapInv /\ SentWithoutGaps
  OBVIOUS
<1>1. sent = << >> /\ Len(sent) = 0 /\ sStfId = 0 /\ DOMAIN sent = {}
  BY EmptySeq DEF Init
<1>2. \A id : NoGap(id)
  <2>. SUFFICES ASSUME NEW from, NEW id \in Nat, id < sStfId  PROVE FALSE
    BY DEF NoGap
  <2>. QED  BY <1>1
<1>. QED  BY <1>1, <1>2 DEF GapInv, SentWithoutGaps

\* The steps that neither read nor send: what is on its way stays on its way, while the
\* stages are open.
LEMMA GapKept ==
  ASSUME FlowType, SinkType, SinkType', GapInv, Unbroken' => Unbroken, sendOpen' => sendOpen,
         UNCHANGED <<sStfId, sent>>,
         Unbroken /\ sendOpen' =>
           /\ InFlow' \subseteq InFlow /\ InFlow \union Missing \subseteq InFlow' \union Missing',
         \/ device'.run = device.run /\ (device'.inRun => device.inRun)
         \/ device'.run = device.run + 1
  PROVE  GapInv'
<1>1. device.run \in Nat /\ device'.run \in Nat
  <2>1. config.runs \in Nat /\ config'.runs \in Nat
    BY StfFilesAssumption DEF SinkType
  <2>. QED  BY <2>1 DEF SinkType
<1>2. \A i \in DOMAIN sent : sent[i].run \in Nat /\ sent[i].run =< device.run
  <2>1. \A i \in DOMAIN sent : sent[i] \in Item
    BY ElementOfSeq, LenProperties DEF FlowType
  <2>. QED  BY <2>1 DEF Item, GapInv
<1>3. \A i \in DOMAIN sent' : sent'[i].run =< device'.run
  BY <1>1, <1>2
<1>4. ASSUME Unbroken', sendOpen'  PROVE \A id : NoGap(id) => NoGap(id)'
  BY <1>4 DEF NoGap
<1>5. ASSUME Unbroken', sendOpen'  PROVE \A id \in InFlow' : NoGap(id)'
  BY <1>4, <1>5 DEF GapInv
<1>6. ASSUME Unbroken', sendOpen', device'.inRun, sent # << >>, sent[Len(sent)].run = device'.run
      PROVE  NoGap(sent[Len(sent)].id)'
  <2>1. Len(sent) \in DOMAIN sent
    <3>1. Len(sent) \in Nat /\ Len(sent) # 0 /\ DOMAIN sent = 1 .. Len(sent)
      BY <1>6, LenProperties, EmptySeq DEF FlowType
    <3>. QED  BY <3>1
  <2>2. device'.run = device.run /\ device.inRun
    BY <1>1, <1>2, <1>6, <2>1
  <2>3. NoGap(sent[Len(sent)].id)
    BY <1>6, <2>2 DEF GapInv
  <2>. QED  BY <1>4, <1>6, <2>3 DEF NoGap
<1>. QED  BY <1>3, <1>5, <1>6 DEF GapInv

LEMMA GapStep ==
  ASSUME FlowType, SinkType, StageInv, OrderInv, GapInv, Next
  PROVE  GapInv'
<1>1. (Unbroken' => Unbroken) /\ (sendOpen' => sendOpen) /\ SinkType' /\ config.sink \in BOOLEAN
  BY StaysBroken, SinkTypeStep, ConfigType DEF SinkType
<1>2. CASE ReadStf \/ (ReadDone /\ sStfId' = sStfId + 1 /\ skipped' = skipped \union {sStfId})
  <2>1. /\ sStfId' = sStfId + 1 /\ sStfId \in Nat
        /\ UNCHANGED <<config, injector, sinkQueue, sendQueue, output, sent, device>>
        /\ Missing \subseteq Missing' /\ Elements(reads) \subseteq Elements(reads')
        /\ Elements(reads') \subseteq Elements(reads) \union {sStfId}
        /\ sStfId \in Elements(reads') \union Missing'
    BY <1>2, ReadStfMoves, ReadDoneMoves, IdTypes DEF Missing
  <2>2. /\ InFlow' \subseteq InFlow \union {sStfId, sStfId + 1}
        /\ InFlow \union Missing \subseteq InFlow' \union Missing'
    BY <2>1 DEF InFlow, BehindOutput, BehindSend, BehindSink
  <2>3. \A from : NoGap(from) => NoGap(from)'
    <3>. SUFFICES ASSUME NEW from, NoGap(from), NEW id \in Nat, from < id, id < sStfId'
                  PROVE  id \in InFlow' \union Missing'
      BY DEF NoGap
    <3>1. CASE id < sStfId
      BY <2>2, <3>1 DEF NoGap
    <3>2. CASE id = sStfId
      BY <2>1, <3>2 DEF InFlow, BehindOutput, BehindSend, BehindSink
    <3>. QED  BY <2>1, <3>1, <3>2
  <2>4. \A from \in {sStfId, sStfId + 1} : NoGap(from)'
    BY <2>1 DEF NoGap
  <2>5. NoGap(sent[Len(sent)].id) => NoGap(sent[Len(sent)].id)'
    BY <2>1, <2>3 DEF NoGap
  <2>6. ASSUME Unbroken', sendOpen'  PROVE \A id \in InFlow' : NoGap(id)'
    <3>1. \A id \in InFlow : NoGap(id)'
      BY <1>1, <2>3, <2>6 DEF GapInv
    <3>2. \A id \in InFlow' : id \in InFlow \/ id = sStfId \/ id = sStfId + 1
      BY <2>2
    <3>. QED  BY <2>4, <3>1, <3>2
  <2>7. ASSUME Unbroken', sendOpen', device'.inRun, sent' # << >>,
               sent'[Len(sent')].run = device'.run
        PROVE  NoGap(sent[Len(sent)].id)'
    BY <1>1, <2>1, <2>5, <2>7 DEF GapInv
  <2>8. \A i \in DOMAIN sent' : sent'[i].run =< device'.run
    BY <2>1 DEF GapInv
  <2>. QED  BY <2>6, <2>7, <2>8 DEF GapInv
<1>3. CASE ReadDone /\ UNCHANGED <<sStfId, skipped>>
  <2>1. InFlow' = InFlow /\ UNCHANGED <<Missing, sent, device>>
    BY <1>3, ReadDoneMoves DEF Missing, InFlow, BehindOutput, BehindSend, BehindSink
  <2>. QED  BY <1>1, <1>3, <2>1, GapKept
<1>4. CASE InjectPop
  <2>1. InFlow' = InFlow /\ UNCHANGED <<sStfId, Missing, sent, device>>
    BY <1>4, InjectPopMoves DEF Missing, InFlow, BehindOutput, BehindSend, BehindSink
  <2>. QED  BY <1>1, <2>1, GapKept
<1>5. CASE InjectQueue
  <2>1. /\ UNCHANGED <<sStfId, Missing, sent, device>>
        /\ sendOpen' => InFlow' = InFlow
    <3>1. sendOpen => sinkOpen
      BY <1>5, InjectQueueMoves DEF StageInv
    <3>. QED  BY <1>1, <1>5, <3>1, InjectQueueMoves, IdTypes
              DEF Missing, InFlow, BehindOutput, BehindSend, BehindSink
  <2>. QED  BY <1>1, <2>1, GapKept
<1>6. CASE SinkStf
  <2>1. /\ UNCHANGED <<sStfId, Missing, sent, device>>
        /\ sendOpen' => InFlow' = InFlow
    BY <1>6, SinkStfMoves DEF Missing, InFlow, BehindOutput, BehindSend, BehindSink
  <2>. QED  BY <1>1, <2>1, GapKept
<1>7. CASE OutputTake
  <2>1. InFlow' = InFlow /\ UNCHANGED <<sStfId, Missing, sent, device>>
    BY <1>7, OutputTakeMoves DEF Missing, InFlow, BehindOutput, BehindSend, BehindSink
  <2>. QED  BY <1>1, <2>1, GapKept
<1>8. CASE OutputSend
  <2>. DEFINE stf(id) == [id |-> id, run |-> device.run]
  <2>1. PICK id \in Nat :
           /\ output.stf = {id} /\ output'.stf = {} /\ sendOpen /\ stf(id) \in Item
           /\ \/ device.inRun /\ sent' = Append(sent, stf(id)) /\ lost' = lost
              \/ device.inRun /\ sent' = sent /\ lost' = lost \union {id}
              \/ ~device.inRun /\ sent' = sent /\ lost' = lost
           /\ UNCHANGED <<config, sStfId, skipped, reads, injector, sinkQueue, sendQueue, sink,
                          device>>
    BY <1>8, OutputSendMoves
  <2>2. stf(id).id = id /\ stf(id).run = device.run
    OBVIOUS
  <2>. HIDE DEF stf
  <2>3. InFlow' = BehindOutput /\ InFlow = {id} \union BehindOutput
    BY <2>1 DEF InFlow, BehindOutput, BehindSend, BehindSink
  <2>4. BehindOutput \subseteq Nat /\ (Unbroken => Below({id}, BehindOutput))
    BY <2>1, IdTypes DEF OrderInv, BehindOutput, BehindSend, BehindSink
  <2>12. Missing \subseteq Missing'
    BY <2>1 DEF Missing
  <2>5. ASSUME Unbroken, NEW from \in Nat, id =< from, NoGap(from)  PROVE NoGap(from)'
    <3>. SUFFICES ASSUME NEW x \in Nat, from < x, x < sStfId  PROVE x \in InFlow' \union Missing'
      BY <2>1 DEF NoGap
    <3>1. x \in InFlow \union Missing /\ x # id
      BY <2>5 DEF NoGap
    <3>. QED  BY <2>3, <2>12, <3>1
  <2>6. ASSUME Unbroken  PROVE \A x \in InFlow' : NoGap(x)'
    BY <2>1, <2>3, <2>4, <2>5, <2>6 DEF GapInv, Below
  <2>7. ASSUME Unbroken  PROVE NoGap(id)'
    BY <2>1, <2>3, <2>5, <2>7 DEF GapInv
  <2>8. /\ DOMAIN Append(sent, stf(id)) = DOMAIN sent \union {Len(sent) + 1}
        /\ \A i \in DOMAIN sent : Append(sent, stf(id))[i] = sent[i]
        /\ Append(sent, stf(id))[Len(sent) + 1] = stf(id)
        /\ Len(Append(sent, stf(id))) = Len(sent) + 1
    BY <2>1, Appended DEF FlowType
  <2>9. device.run =< device.run
    BY ConfigType DEF SinkType
  <2>10. CASE device.inRun /\ sent' = Append(sent, stf(id)) /\ lost' = lost
    <3>1. sent'[Len(sent')].id = id
      BY <2>2, <2>8, <2>10
    <3>2. \A i \in DOMAIN sent' : sent'[i].run =< device'.run
      BY <2>1, <2>2, <2>8, <2>9, <2>10 DEF GapInv
    <3>3. Unbroken => NoGap(sent[Len(sent)].id)'
      BY <2>7, <3>1 DEF NoGap
    <3>. QED  BY <1>1, <2>6, <3>2, <3>3 DEF GapInv
  <2>11. CASE ~device.inRun /\ sent' = sent
    BY <1>1, <2>1, <2>6, <2>11 DEF GapInv
  <2>13. CASE sent' = sent /\ lost' = lost \union {id}
    <3>1. ASSUME NEW from, NoGap(from)  PROVE NoGap(from)'
      <4>1. InFlow \union Missing \subseteq InFlow' \union Missing'
        BY <2>3, <2>13, <2>1 DEF Missing
      <4>. QED  BY <2>1, <3>1, <4>1 DEF NoGap
    <3>2. NoGap(sent[Len(sent)].id) => NoGap(sent[Len(sent)].id)'
      BY <2>13, <3>1 DEF NoGap
    <3>. QED  BY <1>1, <2>1, <2>6, <2>13, <3>2 DEF GapInv
  <2>. QED  BY <2>1, <2>10, <2>11, <2>13
<1>9. CASE ResetTask \/ StopSource
  <2>1. sent' = sent /\ device'.run = device.run
    BY <1>9 DEF ResetTask, StopSource, SinkType, outputVars
  <2>2. ~sendOpen'
    BY <1>9 DEF ResetTask, StopSource, StageInv, pipelineVars, limitVars
  <2>. QED  BY <2>1, <2>2 DEF GapInv
<1>10. CASE Quiet
  <2>1. InFlow' = InFlow /\ UNCHANGED <<sStfId, Missing, sent>>
    BY <1>10, QuietMoves DEF Missing, InFlow, BehindOutput, BehindSend, BehindSink
  <2>2. \/ device'.run = device.run /\ (device'.inRun => device.inRun)
        \/ device'.run = device.run + 1
    BY <1>10 DEF Quiet, Fetcher, FetchLocal, FetchExisting, FetchCopy, FetchPush, FetchRelease,
                 FetchEnd, ReadPop, ReadPut, ReadEnd, InjectEnd, InjectClose, SinkEnd, OutputEnd,
                 PreRun, PostRun, JoinSource, Reset, SinkType
  <2>. QED  BY <1>1, <2>1, <2>2, GapKept
<1>11. CASE InjectNextStage
  <2>1. /\ InFlow' \subseteq InFlow /\ InFlow \union Missing \subseteq InFlow' \union Missing'
        /\ UNCHANGED <<sStfId, sent, device>>
    BY <1>11, InjectNextStageMoves DEF Missing, InFlow, BehindOutput, BehindSend, BehindSink
  <2>. QED  BY <1>1, <2>1, GapKept
<1>. QED  BY ReadDoneMoves, <1>2, <1>3, <1>4, <1>5, <1>6, <1>7, <1>8, <1>9, <1>10, <1>11,
             Actions

LEMMA SentStep ==
  ASSUME FlowType, SinkType, StageInv, OrderInv, GapInv, SentWithoutGaps, Next
  PROVE  SentWithoutGaps'
<1>1. Unbroken' => Unbroken
  BY StaysBroken
<1>2. CASE sent' = sent /\ Missing \subseteq Missing'
  BY <1>1, <1>2 DEF SentWithoutGaps, Unbroken, Missing
<1>3. CASE OutputSend
  <2>. DEFINE stf(id) == [id |-> id, run |-> device.run]
  <2>1. PICK id \in Nat :
           /\ output.stf = {id} /\ sendOpen /\ stf(id) \in Item
           /\ sent' = sent \/ (device.inRun /\ sent' = Append(sent, stf(id)))
           /\ Missing \subseteq Missing'
    BY <1>3, OutputSendMoves DEF Missing
  <2>2. stf(id).id = id /\ stf(id).run = device.run
    OBVIOUS
  <2>. HIDE DEF stf
  <2>3. CASE sent' = sent
    BY <1>2, <2>1, <2>3
  <2>4. CASE device.inRun /\ sent' = Append(sent, stf(id))
    <3>. SUFFICES ASSUME Unbroken', NEW i \in 1 .. Len(sent') - 1
                  PROVE  /\ sent'[i].id < sent'[i + 1].id
                         /\ sent'[i].run = sent'[i + 1].run
                              => (sent'[i].id + 1 .. sent'[i + 1].id - 1) \subseteq Missing'
      BY DEF SentWithoutGaps, Unbroken, Missing
    <3>1. /\ \A j \in DOMAIN sent : Append(sent, stf(id))[j] = sent[j]
          /\ Append(sent, stf(id))[Len(sent) + 1] = stf(id)
          /\ Len(Append(sent, stf(id))) = Len(sent) + 1
          /\ DOMAIN sent = 1 .. Len(sent) /\ Len(sent) \in Nat
      BY <2>1, Appended, LenProperties DEF FlowType
    <3>2. i \in DOMAIN sent /\ sent'[i] = sent[i]
      BY <2>4, <3>1
    <3>3. CASE i \in 1 .. Len(sent) - 1
      <4>1. sent'[i + 1] = sent[i + 1]
        BY <2>4, <3>1, <3>3
      <4>. QED  BY <1>1, <2>1, <3>2, <3>3, <4>1 DEF SentWithoutGaps, Unbroken, Missing
    <3>4. CASE i = Len(sent)
      <4>1. sent'[i + 1] = stf(id)
        BY <2>4, <3>1, <3>4
      <4>2. sent[i].id \in SentIds /\ sent[i].id \in Nat
        BY <3>2, IdTypes DEF SentIds
      <4>3. sent[i].id < id /\ id < sStfId
        BY <1>1, <2>1, <4>2 DEF OrderInv, Below
      <4>4. ASSUME sent[i].run = device.run, NEW x \in sent[i].id + 1 .. id - 1
            PROVE  x \in Missing
        <5>1. NoGap(sent[i].id)
          <6>1. sent # << >>
            BY <3>1, <3>2
          <6>. QED  BY <1>1, <2>1, <2>4, <3>4, <4>4, <6>1 DEF GapInv
        <5>2. x \in InFlow \union Missing
          <6>1. x \in Nat /\ sent[i].id < x /\ x < sStfId
            BY <4>2, <4>3, IdTypes
          <6>. QED  BY <5>1, <6>1 DEF NoGap
        <5>3. x \notin InFlow
          <6>1. x < id
            BY <4>2
          <6>2. \A y \in BehindOutput : id < y
            BY <1>1, <2>1 DEF OrderInv, Below
          <6>3. BehindOutput \subseteq Nat
            BY IdTypes DEF BehindOutput, BehindSend, BehindSink
          <6>. QED  BY <2>1, <6>1, <6>2, <6>3, <4>2 DEF InFlow
        <5>. QED  BY <5>2, <5>3
      <4>. QED  BY <2>1, <2>2, <3>2, <4>1, <4>3, <4>4
    <3>. QED  BY <3>1, <3>2, <3>3, <3>4
  <2>. QED  BY <2>1, <2>3, <2>4
<1>4. CASE ReadStf \/ ReadDone \/ InjectPop \/ InjectNextStage \/ InjectQueue \/ SinkStf
             \/ OutputTake \/ ResetTask \/ StopSource \/ Quiet
  <2>1. sent' = sent /\ Missing \subseteq Missing'
    BY <1>4, ReadStfMoves, ReadDoneMoves, InjectPopMoves, InjectNextStageMoves, InjectQueueMoves,
       SinkStfMoves, OutputTakeMoves, ClearMoves, QuietMoves DEF Missing
  <2>. QED  BY <1>2, <2>1
<1>. QED  BY <1>3, <1>4, Actions

-----------------------------------------------------------------------------
(* The saved files *)

LEMMA SavedInit == Init => SavedInv
<1>. SUFFICES ASSUME Init  PROVE SavedInv
  OBVIOUS
<1>1. saved = {} /\ writer = {} /\ WrittenIds = {}
  BY DEF Init, WrittenIds
<1>. QED  BY <1>1 DEF SavedInv, Below

LEMMA WrittenTypes ==
  ASSUME SinkType
  PROVE  /\ WrittenIds \subseteq Nat
         /\ \A f \in saved \union writer : /\ f.stfs \in Seq(Item)
                                           /\ \A i \in DOMAIN f.stfs : f.stfs[i].id \in WrittenIds
<1>1. \A f \in saved \union writer : f \in File /\ f.stfs \in Seq(Item)
  BY DEF SinkType, File
<1>2. ASSUME NEW f \in saved \union writer, NEW i \in DOMAIN f.stfs
      PROVE  f.stfs[i].id \in Nat /\ f.stfs[i].id \in WrittenIds
  <2>1. f.stfs[i] \in Item
    BY <1>1, ElementOfSeq, LenProperties
  <2>2. f.stfs[i] \in UNION {Elements(g.stfs) : g \in saved \union writer}
    BY DEF Elements
  <2>. QED  BY <2>1, <2>2 DEF Item, WrittenIds
<1>3. \A x \in WrittenIds : \E f \in saved \union writer : \E i \in DOMAIN f.stfs : x = f.stfs[i].id
  BY DEF WrittenIds, Elements
<1>. QED  BY <1>1, <1>2, <1>3

\* The file with the STF that the sink has taken, which is above all that is written.
LEMMA SavedByWrite ==
  ASSUME SinkType, SavedInv, NEW stf \in Item, Below(WrittenIds, {stf.id})
  PROVE  \E new \in File :
           /\ Written(stf) = {new}
           /\ Len(new.stfs) \in 1 .. sink.count + 1 /\ InOrder(new)
           /\ \A f \in saved : Apart(f, new) /\ Apart(new, f)
           /\ \A x \in Elements(new.stfs) : x.id \in WrittenIds \union {stf.id}
<1>1. PICK dir \in Nat, s \in Seq(Item) :
           /\ Written(stf) = {[dir |-> dir, stfs |-> Append(s, stf)]}
           /\ [dir |-> dir, stfs |-> Append(s, stf)] \in File
           /\ \/ writer = {} /\ s = << >>
              \/ writer = {[dir |-> dir, stfs |-> s]}
  BY WrittenFile
<1>. DEFINE new == [dir |-> dir, stfs |-> Append(s, stf)]
            old == [dir |-> dir, stfs |-> s]
<1>2. new.stfs = Append(s, stf) /\ old.stfs = s
  OBVIOUS
<1>. HIDE DEF new, old
<1>3. new \in File /\ Written(stf) = {new} /\ ((writer = {} /\ s = << >>) \/ writer = {old})
  BY <1>1 DEF new, old
<1>4. /\ Len(new.stfs) = Len(s) + 1 /\ Len(s) \in Nat
      /\ DOMAIN new.stfs = DOMAIN s \union {Len(s) + 1} /\ DOMAIN s = 1 .. Len(s)
      /\ \A i \in DOMAIN s : new.stfs[i] = s[i]
      /\ new.stfs[Len(s) + 1] = stf
      /\ Elements(new.stfs) = Elements(s) \union {stf}
  BY <1>2, Appended, LenProperties
<1>5. sink.count \in Nat
  BY StfFilesAssumption DEF SinkType
<1>6. /\ Len(s) =< sink.count
      /\ \A i, j \in DOMAIN s : i < j => s[i].id < s[j].id
      /\ \A i \in DOMAIN s : s[i].id \in WrittenIds
      /\ \A f \in saved : Elements(f.stfs) \cap Elements(s) = {}
  <2>1. CASE writer = {} /\ s = << >>
    <3>1. Len(s) = 0 /\ DOMAIN s = {} /\ Elements(s) = {}
      BY <2>1, EmptySeq, NoElements
    <3>. QED  BY <1>5, <3>1
  <2>2. CASE writer = {old}
    <3>1. old \in writer /\ old \in saved \union writer
      BY <2>2
    <3>2. Len(s) =< sink.count
      BY <1>2, <1>4, <1>5, <3>1 DEF SavedInv
    <3>3. InOrder(old) /\ \A f \in saved : Apart(f, old)
      BY <3>1 DEF SavedInv
    <3>4. \A i \in DOMAIN s : s[i].id \in WrittenIds
      BY <1>2, <3>1, WrittenTypes
    <3>. QED  BY <1>2, <3>2, <3>3, <3>4 DEF InOrder, Apart
  <2>. QED  BY <1>3, <2>1, <2>2
<1>7. \A i \in DOMAIN s : s[i].id < stf.id
  BY <1>6 DEF Below
<1>8. InOrder(new)
  <2>. SUFFICES ASSUME NEW i \in DOMAIN new.stfs, NEW j \in DOMAIN new.stfs, i < j
                PROVE  new.stfs[i].id < new.stfs[j].id
    BY DEF InOrder
  <2>1. i \in DOMAIN s /\ new.stfs[i] = s[i]
    BY <1>4
  <2>2. CASE j \in DOMAIN s
    BY <1>4, <1>6, <2>1, <2>2
  <2>3. CASE j = Len(s) + 1
    BY <1>4, <1>7, <2>1, <2>3
  <2>. QED  BY <1>4, <2>2, <2>3
<1>9. ASSUME NEW f \in saved  PROVE Apart(f, new) /\ Apart(new, f)
  <2>1. stf \notin Elements(f.stfs)
    <3>. SUFFICES ASSUME NEW i \in DOMAIN f.stfs, stf = f.stfs[i]  PROVE FALSE
      BY DEF Elements
    <3>1. stf.id \in WrittenIds /\ stf.id \in Nat
      BY WrittenTypes
    <3>. QED  BY <3>1 DEF Below
  <2>. QED  BY <1>4, <1>6, <2>1 DEF Apart
<1>10. \A x \in Elements(new.stfs) : x.id \in WrittenIds \union {stf.id}
  <2>1. \A x \in Elements(s) : x.id \in WrittenIds
    BY <1>6 DEF Elements
  <2>. QED  BY <1>4, <2>1
<1>. QED  BY <1>3, <1>4, <1>5, <1>6, <1>8, <1>9, <1>10

\* The steps that write nothing: the ids that are to come stay above what is written.
LEMMA SavedKept ==
  ASSUME SinkType, FlowType, SavedInv, UNCHANGED <<saved, writer>>, sink'.count = sink.count,
         BehindSend' \subseteq BehindSend \union {sStfId + 1}
  PROVE  SavedInv'
<1>1. WrittenIds' = WrittenIds
  BY DEF WrittenIds
<1>2. Below(WrittenIds, BehindSend')
  <2>1. sStfId \in BehindSend
    BY DEF BehindSend, BehindSink
  <2>. QED  BY <2>1, WrittenTypes, IdTypes, BelowNext DEF SavedInv
<1>. QED  BY <1>1, <1>2 DEF SavedInv

LEMMA SavedStep ==
  ASSUME SinkType, FlowType, OrderInv, SavedInv, Next
  PROVE  SavedInv'
<1>1. CASE ReadStf \/ ReadDone \/ InjectPop \/ InjectNextStage \/ InjectQueue \/ OutputTake
             \/ OutputSend
  <2>1. UNCHANGED <<saved, writer, sink>>
    BY <1>1, ReadStfMoves, ReadDoneMoves, InjectPopMoves, InjectNextStageMoves, InjectQueueMoves,
       OutputTakeMoves, OutputSendMoves
  <2>2. BehindSend' \subseteq BehindSend \union {sStfId + 1}
    <3>1. CASE ReadStf
      BY <3>1, ReadStfMoves DEF BehindSend, BehindSink
    <3>2. CASE ReadDone
      BY <3>2, ReadDoneMoves DEF BehindSend, BehindSink
    <3>3. CASE InjectPop
      BY <3>3, InjectPopMoves DEF BehindSend, BehindSink
    <3>4. CASE InjectQueue
      BY <3>4, InjectQueueMoves, IdTypes DEF BehindSend, BehindSink
    <3>7. CASE InjectNextStage
      BY <3>7, InjectNextStageMoves DEF BehindSend, BehindSink
    <3>5. CASE OutputTake
      BY <3>5, OutputTakeMoves DEF BehindSend, BehindSink
    <3>6. CASE OutputSend
      BY <3>6, OutputSendMoves DEF BehindSend, BehindSink
    <3>. QED  BY <1>1, <3>1, <3>2, <3>3, <3>4, <3>5, <3>6, <3>7
  <2>. QED  BY <2>1, <2>2, SavedKept
<1>2. CASE SinkStf
  <2>. DEFINE id == Head(sinkQueue)
              stf == [id |-> id, run |-> device.run]
  <2>1. /\ id \in Nat /\ Elements(sinkQueue) = {id} \union Elements(sinkQueue')
        /\ UNCHANGED <<sStfId, reads, injector>>
    BY <1>2, SinkStfMoves
  <2>2. PassUnsaved \/ AppendToFile(stf) \/ FailToWrite
    BY <1>2 DEF SinkStf
  <2>3. stf \in Item /\ stf.id = id
    BY <2>1, ConfigType DEF Item, SinkType
  <2>4. Below({id}, Elements(sinkQueue'))
    BY <1>2, IdTypes, SinkStfMoves, AscendingTail DEF OrderInv
  <2>. HIDE DEF id, stf
  <2>5. BehindSend' \subseteq BehindSend /\ BehindSink' = BehindSink /\ id \in BehindSend
    BY <2>1 DEF BehindSend, BehindSink
  <2>6. Below(WrittenIds \union {id}, BehindSend')
    <3>1. Below(WrittenIds, BehindSend')
      BY <2>5, BelowShrinks DEF SavedInv
    <3>2. Below({id}, BehindSend')
      BY <2>1, <2>4, <2>5 DEF OrderInv, Below, BehindSend
    <3>. QED  BY <3>1, <3>2 DEF Below
  <2>7. CASE PassUnsaved
    BY <2>5, <2>7, SavedKept DEF PassUnsaved
  <2>8. CASE FailToWrite
    <3>1. writer' = {} /\ saved' = saved /\ WrittenIds' \subseteq WrittenIds
      BY <2>8 DEF FailToWrite, RemoveFile, WrittenIds
    <3>2. Below(WrittenIds', BehindSend')
      BY <2>6, <3>1 DEF Below
    <3>. QED  BY <3>1, <3>2 DEF SavedInv
  <2>9. CASE AppendToFile(stf)
    <3>1. PICK new \in File :
             /\ Written(stf) = {new}
             /\ Len(new.stfs) \in 1 .. sink.count + 1 /\ InOrder(new)
             /\ \A f \in saved : Apart(f, new) /\ Apart(new, f)
             /\ \A x \in Elements(new.stfs) : x.id \in WrittenIds \union {id}
      <4>1. Below(WrittenIds, {id})
        BY <2>5 DEF SavedInv, Below
      <4>. QED  BY <2>3, <4>1, SavedByWrite
    <3>2. saved' \union writer' \subseteq saved \union {new}
      BY <2>9, <3>1 DEF AppendToFile, CloseFile
    <3>3. WrittenIds' \subseteq WrittenIds \union {id}
      BY <3>1, <3>2 DEF WrittenIds
    <3>4. Below(WrittenIds', BehindSend')
      BY <2>6, <3>3, BelowShrinks, Zenon DEF Below
    <3>5. sink.count \in 0 .. StfsPerFile - 1 /\ StfsPerFile \in Nat \ {0} /\ Len(new.stfs) \in Int
      BY <3>1, StfFilesAssumption DEF SinkType
    <3>6. CASE ~IsFull /\ writer' = {new} /\ saved' = saved
               /\ sink' = [sink EXCEPT !.count = sink.count + 1]
      <4>1. sink'.count = sink.count + 1
        BY <3>6 DEF SinkType
      <4>. QED  BY <3>1, <3>4, <3>6, <4>1 DEF SavedInv
    <3>7. CASE writer' = {} /\ saved' = saved \union {new}
      <4>1. Len(new.stfs) \in 1 .. StfsPerFile
        BY <3>1, <3>5
      <4>. QED  BY <3>1, <3>4, <3>7, <4>1 DEF SavedInv
    <3>. QED  BY <2>9, <3>1, <3>6, <3>7 DEF AppendToFile, CloseFile
  <2>. QED  BY <2>2, <2>7, <2>8, <2>9
<1>3. CASE ResetTask \/ StopSource
  <2>1. /\ Elements(reads') \subseteq Elements(reads)
        /\ Elements(sinkQueue') \subseteq Elements(sinkQueue)
    BY <1>3, ClearMoves, NoElements
  <2>2. BehindSend' \subseteq BehindSend
    BY <1>3, <2>1, ClearMoves DEF BehindSend, BehindSink
  <2>. QED  BY <1>3, <2>2, ClearMoves, SavedKept
<1>4. CASE Quiet
  <2>1. BehindSend' = BehindSend
    BY <1>4, QuietMoves DEF BehindSend, BehindSink
  <2>2. sink'.count = sink.count
    BY <1>4 DEF Quiet, Fetcher, FetchLocal, FetchExisting, FetchCopy, FetchPush, FetchRelease,
                FetchEnd, ReadPop, ReadPut, ReadEnd, InjectEnd, InjectClose, SinkEnd, OutputEnd,
                PreRun, PostRun, JoinSource, Reset, SinkType, sinkVars
  <2>3. CASE UNCHANGED <<saved, writer>>
    BY <2>1, <2>2, <2>3, SavedKept
  <2>4. CASE Reset
    <3>1. writer' = {} /\ saved' = saved \union writer
      BY <2>4 DEF Reset, CloseFile
    <3>2. WrittenIds' = WrittenIds
      BY <3>1 DEF WrittenIds
    <3>3. \A f \in writer : Len(f.stfs) \in 1 .. StfsPerFile /\ InOrder(f)
      <4>1. sink.count \in 0 .. StfsPerFile - 1 /\ StfsPerFile \in Nat
        BY StfFilesAssumption DEF SinkType
      <4>2. \A f \in writer : Len(f.stfs) \in Int
        BY DEF SavedInv
      <4>. QED  BY <4>1, <4>2 DEF SavedInv
    <3>4. \A f, g \in saved' : f = g \/ Apart(f, g)
      BY <3>1 DEF SavedInv, Apart, SinkType
    <3>. QED  BY <2>1, <3>1, <3>2, <3>3, <3>4 DEF SavedInv
  <2>. QED  BY <1>4, <2>3, <2>4
            DEF Quiet, Fetcher, FetchLocal, FetchExisting, FetchCopy, FetchPush, FetchRelease,
                FetchEnd, ReadPop, ReadPut, ReadEnd, InjectEnd, InjectClose, SinkEnd, OutputEnd,
                PreRun, PostRun, JoinSource, sinkVars
<1>. QED  BY <1>1, <1>2, <1>3, <1>4, Actions

-----------------------------------------------------------------------------
(* The theorems *)

IInv ==
  /\ CacheType /\ FlowType /\ SinkType
  /\ CacheInv /\ LimitInv
  /\ StageInv /\ OrderInv /\ GapInv /\ SentWithoutGaps
  /\ SavedInv

LEMMA IInvInit == Init => IInv
BY CacheTypeInit, FlowTypeInit, SinkTypeInit, CacheInit, StageInit, OrderInit, GapInit, SavedInit
   DEF IInv

LEMMA IInvStutter ==
  ASSUME IInv, UNCHANGED vars
  PROVE  IInv'
<1>1. UNCHANGED <<config, fetch, mLiveFiles, disk, inputs, reader, sStfId, skipped, reads, injector,
                  mRunning, sinkQueue, sinkOpen, sendQueue, sendOpen, mNumStfs, lost, sink,
                  sinkEnded, writer, saved, output, sent, device>>
  BY DEF vars, fetchVars, readVars, pipelineVars, limitVars, sinkVars, outputVars
<1>2. CacheType' /\ FlowType' /\ SinkType'
  <2>1. Files' = Files /\ Instances' = Instances /\ Fetching' = Fetching /\ Reading' = Reading
    BY <1>1 DEF Files, Instances, Fetching, Reading
  <2>2. CacheType'
    BY <1>1, <2>1 DEF IInv, CacheType
  <2>3. FlowType'
    BY <1>1 DEF IInv, FlowType
  <2>4. SinkType'
    BY <1>1 DEF IInv, SinkType
  <2>. QED  BY <2>2, <2>3, <2>4
<1>3. CacheInv' /\ LimitInv' /\ StageInv'
  BY <1>1 DEF IInv, CacheInv, HeldOutside, OneOfEach, OnDisk, Joined, LimitInv, StageInv
<1>4. BehindSink' = BehindSink /\ BehindSend' = BehindSend /\ BehindOutput' = BehindOutput
  BY <1>1 DEF BehindSink, BehindSend, BehindOutput
<1>5. OrderInv'
  BY <1>1, <1>4 DEF IInv, OrderInv, SentIds, Unbroken, Missing
<1>6. GapInv' /\ SentWithoutGaps'
  BY <1>1, <1>4 DEF IInv, GapInv, InFlow, NoGap, Unbroken, Missing, SentWithoutGaps
<1>7. SavedInv'
  BY <1>1, <1>4 DEF IInv, SavedInv, WrittenIds
<1>. QED  BY <1>2, <1>3, <1>5, <1>6, <1>7 DEF IInv

LEMMA IInvStep == IInv /\ [Next]_vars => IInv'
<1>. SUFFICES ASSUME IInv, [Next]_vars  PROVE IInv'
  OBVIOUS
<1>1. CASE Next
  <2>1. CacheType' /\ FlowType' /\ SinkType'
    BY <1>1, CacheTypeStep, FlowTypeStep, SinkTypeStep DEF IInv
  <2>2. CacheInv' /\ LimitInv'
    BY <1>1, <2>1, CacheInvStep, LimitStep DEF IInv
  <2>3. StageInv' /\ OrderInv' /\ GapInv' /\ SentWithoutGaps'
    BY <1>1, StageStep, OrderStep, GapStep, SentStep DEF IInv
  <2>4. SavedInv'
    BY <1>1, SavedStep DEF IInv
  <2>. QED  BY <2>1, <2>2, <2>3, <2>4 DEF IInv
<1>2. CASE UNCHANGED vars
  BY <1>2, IInvStutter
<1>. QED  BY <1>1, <1>2

LEMMA IInvHolds == Spec => []IInv
BY IInvInit, IInvStep, PTL DEF Spec

\* The types, and that a set that stands for one shared_ptr or one writer has one element.
LEMMA TypesImplied == IInv => TypeOK
<1>. SUFFICES ASSUME IInv  PROVE TypeOK
  OBVIOUS
<1>1. CacheType /\ FlowType /\ SinkType /\ OrderInv
  BY DEF IInv
<1>2. Cardinality({}) =< 1 /\ \A x : Cardinality({x}) =< 1
  <2>1. Cardinality({}) = 0 /\ \A x : Cardinality({x}) = 1
    BY FS_EmptySet, FS_Singleton, Zenon
  <2>. QED  BY <2>1
<1>3. Cardinality(fetch.file) =< 1
  BY <1>1, <1>2 DEF CacheType, Fetching
<1>4. Cardinality(writer) =< 1
  BY <1>1, <1>2 DEF SinkType
<1>5. skipped \subseteq 0 .. sStfId - 1 /\ mNumStfs \in Int
  BY <1>1, IdTypes DEF OrderInv, Below, Missing, FlowType
<1>6. {s.id : s \in Elements(sent)} = SentIds
  BY DEF Elements, SentIds
<1>7. Elements(reads) \union injector.stf \union Elements(sinkQueue) \union Elements(sendQueue)
        \union output.stf \union SentIds \union lost \subseteq 0 .. sStfId - 1
  <2>1. \A x \in Elements(reads) \union injector.stf \union Elements(sinkQueue)
                  \union Elements(sendQueue) \union output.stf \union SentIds \union lost :
          x \in Nat /\ x < sStfId
    BY <1>1, IdTypes DEF OrderInv, Below, BehindSink, Missing
  <2>. QED  BY <1>1, <2>1, IdTypes
<1>8. /\ config \in Configs /\ mLiveFiles \subseteq Instances
      /\ fetch.pc \in {"next", "push", "release", "done"}
      /\ {fetch.total, fetch.ok, fetch.errors} \subseteq Nat /\ fetch.file \subseteq Instances
      /\ disk \in [Files -> Absent .. config.stfs] /\ inputs \in Seq(Instances)
      /\ reader.pc \in {"pop", "read", "put", "done"} /\ reader.file \subseteq Instances
      /\ reader.pos \in 0 .. config.stfs
  BY <1>1 DEF CacheType, Fetching, Reading
<1>9. sinkEnded \in BOOLEAN /\ sink.dir \in 0 .. config.runs /\ sink.count \in 0 .. StfsPerFile - 1
  BY <1>1 DEF SinkType
<1>. QED  BY <1>3, <1>4, <1>5, <1>6, <1>7, <1>8, <1>9 DEF TypeOK

\* A file of the cache that is queued or being read is on the disk, whatever the fetcher and
\* the reader release meanwhile, and the queues of the source are bounded: in any cache, for
\* any number of copies, and through the stop of the source (putExistingInstance and
\* DataFetcherThread of SubTimeFrameFileSource, and the destructor of StfFileMeta).
THEOREM FilesStay == Spec => []FileIsThere
<1>1. IInv => FileIsThere
  <2>. SUFFICES ASSUME IInv  PROVE FileIsThere
    OBVIOUS
  <2>1. TypeOK
    BY TypesImplied
  <2>2. ASSUME reader.pc # "done", ~config.local, NEW f \in Elements(inputs) \union reader.file
        PROVE  disk[f.idx] # Absent
    <3>1. f \in HeldOutside
      BY <2>2 DEF HeldOutside
    <3>. QED  BY <2>2, <3>1 DEF IInv, CacheInv, OnDisk
  <2>3. Len(reads) =< PreRead /\ Len(inputs) =< QueueLimit + 1
    BY DEF IInv, LimitInv
  <2>. QED  BY <2>1, <2>2, <2>3 DEF FileIsThere
<1>. QED  BY <1>1, IInvHolds, PTL

\* While the sink is not disabled, the STFs that are read pass the injector, the sink and
\* the output in order, and in a run the output sends each of them but those that the limit of
\* the pipeline drops and those whose sending throws: whatever the pauses, the writes that
\* fail, and the resets (DataInjectThread, getNextPipelineStage, DataHandlerThread of the sink
\* and StfOutputThread).
THEOREM NothingIsLost == Spec => []SentWithoutGaps
<1>1. IInv => SentWithoutGaps
  BY DEF IInv
<1>. QED  BY <1>1, IInvHolds, PTL

\* Every file that the sink has given its final name has one STF or more and not more than
\* mStfsPerFile, in order, and shares none with another or with the open file: whatever the
\* writes that fail, the directories that cannot be made, and the stop of a run
\* (DataHandlerThread of SubTimeFrameFileSink and the destructor of SubTimeFrameFileWriter).
THEOREM FilesAreWhole == Spec => []SavedFilesAreWhole
<1>1. IInv => SavedFilesAreWhole
  <2>. SUFFICES ASSUME IInv  PROVE SavedFilesAreWhole
    OBVIOUS
  <2>1. SavedInv /\ SinkType
    BY DEF IInv
  <2>2. ASSUME NEW f \in saved
        PROVE  /\ Len(f.stfs) \in 1 .. StfsPerFile
               /\ \A i \in 1 .. Len(f.stfs) - 1 : f.stfs[i].id < f.stfs[i + 1].id
    <3>1. DOMAIN f.stfs = 1 .. Len(f.stfs) /\ Len(f.stfs) \in Nat
      BY <2>1, WrittenTypes, LenProperties
    <3>2. Len(f.stfs) \in 1 .. StfsPerFile /\ InOrder(f)
      BY <2>1 DEF SavedInv
    <3>. QED  BY <3>1, <3>2 DEF InOrder
  <2>3. ASSUME NEW f \in saved \union writer, NEW g \in saved \union writer,
               NEW s \in Elements(f.stfs), s \in Elements(g.stfs)
        PROVE  f = g
    <3>1. ~Apart(f, g) /\ ~Apart(g, f)
      BY <2>3 DEF Apart
    <3>2. CASE f \in writer /\ g \in writer
      BY <2>1, <3>2 DEF SinkType
    <3>. QED  BY <2>1, <3>1, <3>2 DEF SavedInv
  <2>. QED  BY <2>2, <2>3 DEF SavedFilesAreWhole
<1>. QED  BY <1>1, IInvHolds, PTL
=============================================================================

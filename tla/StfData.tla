------------------------------ MODULE StfData -------------------------------
(***************************************************************************)
(* The data of one time frame on its way from the StfBuilders to the       *)
(* consumer of the TfBuilder, and the five forms it takes: the SubTimeFrame*)
(* in memory, the records of a (S)TF file, the multipart message of DPL    *)
(* (with a header per part, or with reduced headers), and what a StfSender *)
(* sends with FairMQ or offers to be read with UCX.                        *)
(*                                                                         *)
(* A part is the place its bytes have in the memory of the node that made  *)
(* them, which is all the conversions look at.  What the name of a header  *)
(* says is the equipment; the numbers stand for the order of the           *)
(* identifiers.                                                            *)
(***************************************************************************)
EXTENDS Integers, SequencesExt

CONSTANTS
  StfSenders,   \* one StfBuilder and one StfSender on each node
  Equipment,    \* EquipmentIdentifier
  FileNodes,    \* the nodes whose StfBuilder may replay files
  RegionsOf,    \* of a node: its memory regions, a set of sets of addresses
  PartsOf,      \* bound, of a node: the parts its STF may have
  PlacesOf,     \* bound, of a node: where in its memory a part may be, and how long
  MaxGap,       \* mRmaGap: UCX reads over gaps up to this length
  LateRegions   \* may a region be registered after the sending thread has copied the list

ASSUME StfDataAssumption ==
  /\ Equipment \subseteq Nat \ {0}
  /\ FileNodes \subseteq StfSenders
  /\ RegionsOf \in [StfSenders -> SUBSET SUBSET Nat]
  /\ PartsOf \in [StfSenders -> Nat]
  /\ PlacesOf \in [StfSenders -> SUBSET [start : Nat, len : Nat \ {0}]]
  /\ MaxGap \in Nat
  /\ LateRegions \in BOOLEAN

VARIABLES
  pc,         \* of a node: how far its STF has come
  mStf,       \* of a node: the SubTimeFrame of the process that holds it
  wire,       \* of a node: the messages its STF was converted to
  sRegions,   \* of a node: the copy the sending thread has of the list of regions
  mStfVector, \* the nodes whose STF has been deserialized at the TfBuilder, in order
  mTf,        \* the TF, as a set
  mTfIdSizes, \* the size recorded for the TF, as a set
  output,     \* the messages for DPL at the TfBuilder
  made,       \* history, of a node: the data its STF was built from
  unread      \* history, of a node: the parts that UCX failed to read

nodeVars == <<pc, mStf, wire, sRegions, made, unread>>
tfVars == <<mStfVector, mTf, mTfIdSizes, output>>
vars == <<nodeVars, tfVars>>
-----------------------------------------------------------------------------
(* SubTimeFrame *)

NoData == [e \in Equipment |-> <<>>]
NewStf == [mOrigin |-> "eInvalid", mData |-> NoData, mDataSize |-> 0, mDataUpdated |-> FALSE]

(* The header of a message before updateStf() writes the fields of split payloads: the
   defaults of a DataHeader. *)
NewHeader(e) == [equipment |-> e, index |-> 0, parts |-> 1]
Message(hdr, parts) == [mHeader |-> hdr, mDataParts |-> parts]

(* addStfDataReadout(): one message per equipment. *)
AddReadout(stf, e, part) ==
  LET msgs == stf.mData[e]
  IN [stf EXCEPT !.mDataUpdated = FALSE,
        !.mData[e] = IF msgs = <<>> THEN <<Message(NewHeader(e), <<part>>)>>
                     ELSE [msgs EXCEPT ![Len(msgs)].mDataParts = Append(@, part)]]

(* addStfDataStart(), and addStfDataAppend() for the parts that follow. *)
AddMessage(stf, msg) ==
  [stf EXCEPT !.mDataUpdated = FALSE,
              !.mData[msg.mHeader.equipment] = Append(@, msg)]

(* The messages in an order of the equipments, and their parts. *)
MessagesOf(data, order) == FlattenSeq([i \in DOMAIN order |-> data[order[i]]])
PartsOfMessages(msgs) == FlattenSeq([i \in DOMAIN msgs |-> msgs[i].mDataParts])
Sorted == SetToSortSeq(Equipment, LAMBDA a, b : a < b)

SizeOf(data) ==
  FoldLeft(LAMBDA size, part : size + part.len, 0, PartsOfMessages(MessagesOf(data, Sorted)))

Updated(msg) ==
  LET n == Len(msg.mDataParts)
  IN [msg EXCEPT !.mHeader.index = IF n > 1 THEN n ELSE 0, !.mHeader.parts = n]

UpdateStf(stf) ==
  IF stf.mDataUpdated THEN stf
  ELSE [stf EXCEPT !.mDataUpdated = TRUE, !.mDataSize = SizeOf(stf.mData),
          !.mData = [e \in Equipment |->
                       [i \in DOMAIN stf.mData[e] |-> Updated(stf.mData[e][i])]]]

(* What a visitor makes of a new SubTimeFrame: accept() has updated it, so that it stays
   marked as updated unless the visitor adds a message. *)
FromMessages(origin, msgs) ==
  FoldLeft(AddMessage, UpdateStf([NewStf EXCEPT !.mOrigin = origin]), msgs)

IsNull(stf) == stf.mOrigin = "eNull" /\ UpdateStf(stf).mDataSize = 0

\* Deviation: the data of an equipment that is already there is replaced.
MergeReplacing(stf, new) ==
  IF IsNull(new) THEN stf
  ELSE [stf EXCEPT !.mOrigin = IF @ = "eNull" THEN new.mOrigin ELSE @,
          !.mData = [e \in Equipment |-> IF new.mData[e] = <<>> THEN stf.mData[e]
                                         ELSE new.mData[e]]]

(* mergeStf(): mDataUpdated stays as it is. *)
Merge(stf, new) ==
  IF IsNull(new) THEN stf
  ELSE [stf EXCEPT !.mOrigin = IF @ = "eNull" THEN new.mOrigin ELSE @,
                   !.mData = [e \in Equipment |-> stf.mData[e] \o new.mData[e]]]
-----------------------------------------------------------------------------
(* Files: a record [hdr, part] for each part, in the order of the equipments. *)

ToFile(stf) ==
  LET msgs == MessagesOf(stf.mData, Sorted)
      Records(msg) == [i \in DOMAIN msg.mDataParts |->
        [hdr |-> [msg.mHeader EXCEPT !.index = i - 1], part |-> msg.mDataParts[i]]]
  IN FlattenSeq([m \in DOMAIN msgs |-> Records(msgs[m])])

StartsMessage(record) == record.hdr.index = 0 \/ record.hdr.parts <= 1

(* A record that starts no message is added to the last one. *)
AddRecord(msgs, record) ==
  IF StartsMessage(record) THEN Append(msgs, Message(record.hdr, <<record.part>>))
  ELSE [msgs EXCEPT ![Len(msgs)].mDataParts = Append(@, record.part)]

FromFile(records) == FromMessages("eInvalid", FoldLeft(AddRecord, <<>>, records))
-----------------------------------------------------------------------------
(* DPL: headers and parts in one multipart message; the first header is of the STF itself. *)

StfHeader == 0
StfPair(stf) == <<NewHeader(StfHeader), [mOrigin |-> stf.mOrigin]>>

(* The parts of a message with reduced headers follow the header, otherwise each part has
   a header of its own. *)
Framed(msg, reduced) ==
  LET n == Len(msg.mDataParts)
  IN IF reduced THEN <<msg.mHeader>> \o msg.mDataParts
     ELSE FlattenSeq([i \in 1..n |->
            <<[msg.mHeader EXCEPT !.index = i - 1, !.parts = n], msg.mDataParts[i]>>])

ToDpl(stf, reduced) ==
  LET msgs == MessagesOf(stf.mData, Sorted)
  IN StfPair(stf) \o FlattenSeq([m \in DOMAIN msgs |-> Framed(msgs[m], reduced)])

(* How many messages belong to a header; a header of any other kind is never passed by the
   loop of the adapter, so that there must be none. *)
Extent(hdr) ==
  CASE hdr.parts <= 1 -> 2
    [] hdr.parts > 1 /\ hdr.index = 0 -> 2 * hdr.parts
    [] hdr.parts > 1 /\ hdr.index = hdr.parts -> 1 + hdr.parts

(* The message that starts at i. *)
MessageAt(messages, i) ==
  LET hdr == messages[i]
  IN CASE hdr.parts <= 1 -> Message(hdr, <<messages[i + 1]>>)
       [] hdr.parts > 1 /\ hdr.index = 0 ->
            Message([hdr EXCEPT !.index = hdr.parts],
                    [k \in 1..hdr.parts |-> messages[i + 2 * k - 1]])
       [] hdr.parts > 1 /\ hdr.index = hdr.parts ->
            Message(hdr, SubSeq(messages, i + 1, i + hdr.parts))

FromDpl(messages) ==
  LET From[i \in 1..Len(messages) + 1] ==
        IF i > Len(messages) THEN <<>>
        ELSE <<MessageAt(messages, i)>> \o From[i + Extent(messages[i])]
      IsData(msg) == msg.mHeader.equipment # StfHeader
  IN UpdateStf(FromMessages(messages[2].mOrigin, SelectSeq(From[1], IsData)))
-----------------------------------------------------------------------------
(* FairMQ and UCX: the headers with the number of parts of each, and the parts.  The order
   of the equipments is the one of an unordered map. *)

FairMQHeaders(msgs) ==
  [m \in DOMAIN msgs |-> [hdr |-> msgs[m].mHeader,
     num |-> IF msgs[m].mHeader.parts > 1 THEN msgs[m].mHeader.parts ELSE 1]]

ToFairMQ(stf, order) ==
  LET msgs == MessagesOf(stf.mData, order)
  IN [mOrigin |-> stf.mOrigin, hdrs |-> FairMQHeaders(msgs), data |-> PartsOfMessages(msgs)]

(* IovDeserializer: the parts of message m are the next num ones. *)
FromIov(origin, hdrs, data) ==
  LET First[m \in 1..Len(hdrs)] ==
        IF m = 1 THEN 1 ELSE First[m - 1] + hdrs[m - 1].num
      MessageOf(m) ==
        Message(hdrs[m].hdr, SubSeq(data, First[m], First[m] + hdrs[m].num - 1))
  IN FromMessages(origin, [m \in DOMAIN hdrs |-> MessageOf(m)])

(* regionLookup(): the sending thread looks in its copy of the list, and copies the list again,
   the largest region first, when there is none for the part. *)
Listed(regions) == SetToSortSeq(regions, LAMBDA q, r : Cardinality(q) > Cardinality(r))
Bytes(d) == d.start..(d.start + d.len - 1)
Holding(regions, d) == {i \in DOMAIN regions : Bytes(d) \subseteq regions[i]}
Lookup(s, regions, d) == IF Holding(regions, d) # {} THEN regions ELSE Listed(RegionsOf[s])

(* The difference is unsigned in the code: parts that overlap are far apart. *)
InReach(txg, d) == d.start - (txg.start + txg.len) \in 0..MaxGap

(* The next part, in the order of the addresses, extends the last transaction or starts a new
   one; the running region is a place in the copy of the list. *)
AddToTxgs(s, acc, d) ==
  LET n == Len(acc.txgs)
      copy == Lookup(s, acc.copy, d)
      place == CHOOSE i \in Holding(copy, d) : TRUE
      same == acc.running # 0 /\ copy[place] = copy[acc.running]
      regions == IF same THEN acc.regions ELSE Append(acc.regions, copy[place])
      extends == same /\ InReach(acc.txgs[n], d)
      txgs == IF extends THEN [acc.txgs EXCEPT ![n].len = d.start + d.len - acc.txgs[n].start]
              ELSE Append(acc.txgs,
                          [start |-> d.start, len |-> d.len, region |-> Len(regions)])
  IN [copy |-> copy, regions |-> regions, txgs |-> txgs,
      running |-> IF same THEN acc.running ELSE place,
      iov |-> Append(acc.iov, [d EXCEPT !.txg = Len(txgs)])]

(* The parts packed into transactions. *)
Packed(s, parts) ==
  LET pointers == {[idx |-> i, start |-> parts[i].start, len |-> parts[i].len, txg |-> 0] :
                     i \in DOMAIN parts}
      none == [copy |-> sRegions[s], regions |-> <<>>, txgs |-> <<>>, running |-> 0,
               iov |-> <<>>]
  IN FoldLeft(LAMBDA acc, d : AddToTxgs(s, acc, d), none,
              SetToSortSeq(pointers, LAMBDA c, d : c.start < d.start))

ToUCX(stf, msgs, packed) ==
  [mOrigin |-> stf.mOrigin, txgs |-> packed.txgs, iov |-> packed.iov,
   regions |-> packed.regions,
   hdrs |-> [m \in DOMAIN msgs |->
               [hdr |-> msgs[m].mHeader, num |-> Len(msgs[m].mDataParts)]]]

(* The bytes of the part are those the receiving buffer happened to hold. *)
Unread(d) == [start |-> d.start, len |-> d.len, of |-> "nobody"]
InMemoryOf(s, d) == [start |-> d.start, len |-> d.len, of |-> s]

(* The transaction is read with the key of its region, and the part cut out of it.  A read that
   fails, for a wrong key or in UCX, is not noticed: the part is cut out all the same. *)
CutOut(s, meta, failed, d) ==
  LET txg == meta.txgs[d.txg]
  IN
  IF /\ d.txg \notin failed
     /\ Bytes(txg) \subseteq meta.regions[txg.region]
     /\ d.start >= txg.start
     /\ d.start + d.len <= txg.start + txg.len
  THEN InMemoryOf(s, d)
  ELSE Unread(d)

\* Deviation: the parts stay in the order of their addresses.
UCXDataAsRead(s, meta, failed) ==
  [i \in DOMAIN meta.iov |-> CutOut(s, meta, failed, meta.iov[i])]

(* The parts in their original order. *)
UCXData(s, meta, failed) ==
  LET iov == SortSeq(meta.iov, LAMBDA a, b : a.idx < b.idx)
  IN [i \in DOMAIN iov |-> CutOut(s, meta, failed, iov[i])]
-----------------------------------------------------------------------------
(* The STF of a node *)

UsedBy(s) ==
  UNION {Bytes(p) : p \in ToSet(PartsOfMessages(MessagesOf(mStf[s].mData, Sorted)))}

(* The places for one more part. *)
FreeParts(s, used) ==
  {[start |-> p.start, len |-> p.len, of |-> s] :
     p \in {q \in PlacesOf[s] : \E r \in RegionsOf[s] : Bytes(q) \subseteq r \ used}}

CountParts(s) == Len(PartsOfMessages(MessagesOf(mStf[s].mData, Sorted)))

(* SubTimeFrameReadoutBuilder::addHbFrames() for one HBFrame of an equipment. *)
AddHbFrame(s) ==
  /\ pc[s] = "readout"
  /\ CountParts(s) < PartsOf[s]
  /\ \E e \in Equipment, part \in FreeParts(s, UsedBy(s)) :
       mStf' = [mStf EXCEPT ![s] = AddReadout(@, e, part)]
  /\ UNCHANGED <<pc, wire, sRegions, made, unread, tfVars>>

(* A message of a file that others have written: any number of them for an equipment. *)
ReadMessage(s) ==
  /\ pc[s] = "file"
  /\ CountParts(s) < PartsOf[s]
  /\ \E e \in Equipment, p \in FreeParts(s, UsedBy(s)) :
       \E rest \in {<<>>} \union {<<q>> : q \in FreeParts(s, UsedBy(s) \union Bytes(p))} :
         /\ CountParts(s) + 1 + Len(rest) <= PartsOf[s]
         /\ mStf' = [mStf EXCEPT ![s] = AddMessage(@, Message(NewHeader(e), <<p>> \o rest))]
  /\ UNCHANGED <<pc, wire, sRegions, made, unread, tfVars>>

(* The STF is complete.  It is null when there was none for an id, or when the builder refused
   data: for want of memory, after which it has no data, or because it was stopped.  What is
   read from a file has no origin. *)
StfComplete(s) ==
  /\ pc[s] \in {"readout", "file"}
  /\ pc' = [pc EXCEPT ![s] = "built"]
  /\ \/ pc[s] = "file" /\ UNCHANGED mStf
     \/ pc[s] = "readout" /\ mStf' = [mStf EXCEPT ![s].mOrigin = "eReadout"]
     \/ /\ pc[s] = "readout"
        /\ \E data \in {mStf[s].mData, NoData} :
             mStf' = [mStf EXCEPT ![s] = [NewStf EXCEPT !.mOrigin = "eNull", !.mData = data]]
  /\ made' = [made EXCEPT ![s] = mStf'[s].mData]
  /\ UNCHANGED <<wire, sRegions, unread, tfVars>>

(* The file sink has saved the STF, and it is replayed.  A file without data is not read. *)
SaveAndReplay(s) ==
  /\ pc[s] = "built"
  /\ CountParts(s) > 0
  /\ pc' = [pc EXCEPT ![s] = "replayed"]
  /\ mStf' = [mStf EXCEPT ![s] = FromFile(ToFile(UpdateStf(mStf[s])))]
  /\ UNCHANGED <<wire, sRegions, made, unread, tfVars>>

(* StfOutputThread: sendToDpl(). *)
SendToDpl(s) ==
  /\ pc[s] \in {"built", "replayed"}
  /\ pc' = [pc EXCEPT ![s] = "dpl"]
  /\ \E reduced \in BOOLEAN :
       wire' = [wire EXCEPT ![s] = ToDpl(UpdateStf(mStf[s]), reduced)]
  /\ mStf' = [mStf EXCEPT ![s] = NewStf]
  /\ UNCHANGED <<sRegions, made, unread, tfVars>>

(* StfReceiverThread of the StfSender: deserialize(). *)
ReceiveFromDpl(s) ==
  /\ pc[s] = "dpl"
  /\ pc' = [pc EXCEPT ![s] = "stfsender"]
  /\ mStf' = [mStf EXCEPT ![s] = FromDpl(wire[s])]
  /\ wire' = [wire EXCEPT ![s] = <<>>]
  /\ UNCHANGED <<sRegions, made, unread, tfVars>>

(* StfSchedulerThread: an STF of unknown origin is not announced. *)
DropUnknown(s) ==
  /\ pc[s] = "stfsender" /\ mStf[s].mOrigin = "eInvalid"
  /\ pc' = [pc EXCEPT ![s] = "dropped"]
  /\ mStf' = [mStf EXCEPT ![s] = NewStf]
  /\ UNCHANGED <<wire, sRegions, made, unread, tfVars>>

(* The DataHandlerThread of the output. *)
SendFairMQ(s) ==
  /\ pc[s] = "stfsender" /\ mStf[s].mOrigin # "eInvalid"
  /\ pc' = [pc EXCEPT ![s] = "fairmq"]
  /\ \E order \in SetToSeqs(Equipment) :
       wire' = [wire EXCEPT ![s] = ToFairMQ(UpdateStf(mStf[s]), order)]
  /\ mStf' = [mStf EXCEPT ![s] = NewStf]
  /\ UNCHANGED <<sRegions, made, unread, tfVars>>

SendUCX(s) ==
  /\ pc[s] = "stfsender" /\ mStf[s].mOrigin # "eInvalid"
  /\ pc' = [pc EXCEPT ![s] = "ucx"]
  /\ \E order \in SetToSeqs(Equipment) :
       LET stf == UpdateStf(mStf[s])
           msgs == MessagesOf(stf.mData, order)
           packed == Packed(s, PartsOfMessages(msgs))
       IN /\ wire' = [wire EXCEPT ![s] = ToUCX(stf, msgs, packed)]
          /\ sRegions' = [sRegions EXCEPT ![s] = packed.copy]
  /\ mStf' = [mStf EXCEPT ![s] = NewStf]
  /\ UNCHANGED <<made, unread, tfVars>>

(* The TfBuilder receives the STF, and deserialize_headers() makes a SubTimeFrame of it. *)
ReceiveFairMQ(s) ==
  /\ pc[s] = "fairmq"
  /\ pc' = [pc EXCEPT ![s] = "received"]
  /\ mStf' = [mStf EXCEPT ![s] = FromIov(wire[s].mOrigin, wire[s].hdrs, wire[s].data)]
  /\ wire' = [wire EXCEPT ![s] = <<>>]
  /\ mStfVector' = Append(mStfVector, s)
  /\ UNCHANGED <<sRegions, made, unread, mTf, mTfIdSizes, output>>

(* Reads that fail, or are not started because a wait for the others has failed, leave their
   transactions unread: the StfSender is told "OK" and the STF goes on. *)
ReceiveUCX(s) ==
  /\ pc[s] = "ucx"
  /\ pc' = [pc EXCEPT ![s] = "received"]
  /\ \E failed \in SUBSET DOMAIN wire[s].txgs :
       /\ mStf' = [mStf EXCEPT ![s] =
                     FromIov(wire[s].mOrigin, wire[s].hdrs, UCXData(s, wire[s], failed))]
       /\ unread' = [unread EXCEPT ![s] =
            {InMemoryOf(s, d) : d \in {c \in ToSet(wire[s].iov) : c.txg \in failed}}]
  /\ wire' = [wire EXCEPT ![s] = <<>>]
  /\ mStfVector' = Append(mStfVector, s)
  /\ UNCHANGED <<sRegions, made, mTf, mTfIdSizes, output>>

(* The last wait fails: the receiving thread leaves its loop, the STF is gone. *)
UCXThreadEnds(s) ==
  /\ pc[s] = "ucx"
  /\ pc' = [pc EXCEPT ![s] = "lost"]
  /\ wire' = [wire EXCEPT ![s] = <<>>]
  /\ UNCHANGED <<mStf, sRegions, made, unread, tfVars>>
-----------------------------------------------------------------------------
(* The TF *)

(* StfMergerThread: the first STF takes the data of the others; recordTfBuilt() asks for
   the size. *)
MergeStfs ==
  /\ mTf = {} /\ output = <<>>
  /\ mStfVector # <<>>
  /\ \A s \in StfSenders : pc[s] \in {"received", "dropped"}
  /\ LET stfs == [i \in DOMAIN mStfVector |-> mStf[mStfVector[i]]]
         tf == UpdateStf(FoldLeft(Merge, Head(stfs), Tail(stfs)))
     IN mTf' = {tf} /\ mTfIdSizes' = {tf.mDataSize}
  /\ mStf' = [s \in StfSenders |-> NewStf]
  /\ UNCHANGED <<pc, wire, sRegions, made, unread, mStfVector, output>>

(* TfForwardThread: sendToDpl(). *)
ForwardTf ==
  /\ \E tf \in mTf, reduced \in BOOLEAN : output' = ToDpl(UpdateStf(tf), reduced)
  /\ mTf' = {}
  /\ UNCHANGED <<nodeVars, mStfVector, mTfIdSizes>>

(* There is one TF at most, after it there is nothing left to do; a TF with an STF that is lost
   is not merged (TfBuilder). *)
Done ==
  /\ \/ output # <<>>
     \/ \A s \in StfSenders : pc[s] = "dropped"
     \/ \E s \in StfSenders : pc[s] = "lost"
  /\ UNCHANGED vars

(* Before its first STF the sending thread has no copy, afterwards one that may miss regions. *)
Copies(s) ==
  {Listed(regions) : regions \in IF LateRegions THEN SUBSET RegionsOf[s] ELSE {{}}}

Init ==
  /\ pc \in [StfSenders -> {"readout", "file"}]
  /\ \A s \in StfSenders : pc[s] = "file" => s \in FileNodes
  /\ mStf = [s \in StfSenders |-> NewStf]
  /\ wire = [s \in StfSenders |-> <<>>]
  /\ sRegions \in [StfSenders -> UNION {Copies(s) : s \in StfSenders}]
  /\ \A s \in StfSenders : sRegions[s] \in Copies(s)
  /\ mStfVector = <<>> /\ mTf = {} /\ mTfIdSizes = {} /\ output = <<>>
  /\ made = [s \in StfSenders |-> NoData]
  /\ unread = [s \in StfSenders |-> {}]

Next ==
  \/ \E s \in StfSenders :
       \/ AddHbFrame(s) \/ ReadMessage(s) \/ StfComplete(s) \/ SaveAndReplay(s)
       \/ SendToDpl(s) \/ ReceiveFromDpl(s) \/ DropUnknown(s)
       \/ SendFairMQ(s) \/ SendUCX(s) \/ ReceiveFairMQ(s) \/ ReceiveUCX(s)
       \/ UCXThreadEnds(s)
  \/ MergeStfs
  \/ ForwardTf
  \/ Done

Spec == Init /\ [][Next]_vars
-----------------------------------------------------------------------------
(* Properties *)

Groups(data) ==
  [e \in Equipment |-> [i \in DOMAIN data[e] |-> data[e][i].mDataParts]]

(* What must arrive of an STF: all but the parts that UCX failed to read. *)
Arriving(s) ==
  [e \in Equipment |-> [i \in DOMAIN made[s][e] |->
     LET parts == made[s][e][i].mDataParts
     IN [k \in DOMAIN parts |-> IF parts[k] \in unread[s] THEN Unread(parts[k]) ELSE parts[k]]]]

(* What the consumer of the TF must read. *)
ArrivingInOrder ==
  [e \in Equipment |-> FlattenSeq([i \in DOMAIN mStfVector |-> Arriving(mStfVector[i])[e]])]

(* Whatever way the data has taken (file, full or reduced headers, FairMQ or UCX, and its
   transactions over neighbouring parts), an STF that arrives has for every equipment the
   messages it was built from, with the same parts in the same order, and the consumer
   reads from the TF those of all STFs.  The bytes of a part are the ones it was built with,
   unless it lies in a transaction that UCX failed to read: a failed read spoils no other.
   All this if no region is registered after the sending thread copied the list (LateRegions
   is FALSE), otherwise a part may be read with the key of another region. *)
DataIsKept ==
  /\ \A s \in StfSenders :
       pc[s] \in {"replayed", "stfsender"} \/ (pc[s] = "received" /\ mTfIdSizes = {}) =>
         Groups(mStf[s].mData) = Arriving(s)
  /\ output # <<>> => Groups(FromDpl(output).mData) = ArrivingInOrder

(* "notify StfSender we completed" (TfBuilderInputUCX.cxx:442): an STF whose transfer was
   confirmed to the StfSender, which then gives its memory back, has been read. *)
ConfirmedIsRead == \A s \in StfSenders : pc[s] = "received" => unread[s] = {}

(* The bytes of the STFs that the TF was merged from. *)
Total == FoldLeft(LAMBDA size, s : size + SizeOf(made[s]), 0, mStfVector)

(* The free buffer of the TfBuilder goes down by what the TF really takes, if the STF that
   came first had data. *)
SizeIsRecorded ==
  \A size \in mTfIdSizes :
    made[Head(mStfVector)] # NoData => size = Total

(* "account the size of received TF" (TfBuilderInput.cxx:320): of every TF. *)
TfSizeIsRecorded == \A size \in mTfIdSizes : size = Total
=============================================================================

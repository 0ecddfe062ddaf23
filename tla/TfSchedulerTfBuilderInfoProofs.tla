-------------------- MODULE TfSchedulerTfBuilderInfoProofs --------------------
(***************************************************************************)
(* Proofs about TfSchedulerTfBuilderInfo: the lists of the scheduler agree *)
(* with each other, an equipment keeps its TfBuilder, and the estimates    *)
(* neither wrap nor exceed the memory by more than one TF, for any number  *)
(* of TfBuilders and TFs, and any sizes, limits and faults.                *)
(***************************************************************************)
EXTENDS TfSchedulerTfBuilderInfo, SequenceTheorems, TLAPS

(* Sequences *)

LEMMA OptionalType ==
  ASSUME NEW S
  PROVE  /\ <<>> \in Seq(S) /\ Len(<<>>) = 0
         /\ \A x \in S : <<x>> \in Seq(S) /\ Len(<<x>>) = 1 /\ <<x>>[1] = x
OBVIOUS

LEMMA OptionalValue ==
  ASSUME NEW S, NEW q \in Seq(S), q # <<>>, Len(q) <= 1
  PROVE  q[1] \in S /\ Len(q) = 1
<1>1. Len(q) \in Nat /\ Len(q) # 0
  BY EmptySeq
<1>2. Len(q) = 1
  BY <1>1
<1> QED BY <1>2, ElementOfSeq

\* What RemoveAt leaves.
LEMMA RemoveAtSpec ==
  ASSUME NEW S, NEW q \in Seq(S), NEW i \in 1..Len(q)
  PROVE  /\ RemoveAt(q, i) \in Seq(S)
         /\ Len(RemoveAt(q, i)) = Len(q) - 1
         /\ \A j \in 1 .. (Len(q) - 1) : RemoveAt(q, i)[j] = IF j < i THEN q[j] ELSE q[j + 1]
<1> DEFINE before == SubSeq(q, 1, i-1)
           after  == SubSeq(q, i+1, Len(q))
<1>0. Len(q) \in Nat /\ i \in Nat /\ i >= 1 /\ i <= Len(q)
  OBVIOUS
<1>1. before \in Seq(S) /\ Len(before) = i - 1 /\ \A j \in 1..(i-1) : before[j] = q[j]
  BY SubSeqProperties
<1>2. after \in Seq(S) /\ Len(after) = Len(q) - i /\ \A j \in 1..(Len(q)-i) : after[j] = q[j+i]
  BY SubSeqProperties
<1>3. RemoveAt(q, i) = before \o after
  BY DEF RemoveAt
<1> HIDE DEF before, after
<1>4. before \o after \in Seq(S) /\ Len(before \o after) = Len(q) - 1
  <2>1. before \o after \in Seq(S) /\ Len(before \o after) = Len(before) + Len(after)
    BY <1>1, <1>2, ConcatProperties
  <2> QED BY <1>0, <1>1, <1>2, <2>1
<1>5. ASSUME NEW j \in 1 .. (Len(q) - 1) 
      PROVE (before \o after)[j] = IF j < i THEN q[j] ELSE q[j + 1]
  <2>1. CASE j < i
    <3>1. j \in 1..(i-1) /\ j <= Len(before) /\ j \in 1..(Len(before) + Len(after))
      BY <1>0, <1>1, <1>2, <2>1
    <3> QED BY <1>1, <1>2, <2>1, <3>1, ConcatProperties
  <2>2. CASE ~(j < i)
    <3>1. j - (i-1) \in 1..(Len(q) - i) /\ ~(j <= Len(before)) /\ (j - (i-1)) + i = j + 1
          /\ j \in 1..(Len(before) + Len(after)) /\ j - Len(before) = j - (i - 1)
      BY <1>0, <1>1, <1>2, <2>2
    <3>2. (before \o after)[j] = after[j - (i - 1)]
      BY <1>1, <1>2, <3>1, ConcatProperties
    <3> QED BY <1>2, <2>2, <3>1, <3>2
  <2> QED BY <2>1, <2>2
<1> QED BY <1>3, <1>4, <1>5

-----------------------------------------------------------------------------
(* TypeOK, by the parts of the state that change together *)

ListType ==
  /\ mGlobalInfo \subseteq TfBuilders /\ lIdsToErase \subseteq TfBuilders
  /\ mReadyTfBuilders \in Seq(TfBuilders)
  /\ \A a \in mTopoTfBuilders : a.tfBuilder \in TfBuilders
  /\ \A a, other \in mTopoTfBuilders : a.equipment = other.equipment => a = other

InfoType == info \in [TfBuilders -> Infos]

ThreadType ==
  /\ source \in Sources /\ tf \in Nat /\ topo \in Nat
  /\ chosen \in Seq(Calls) /\ Len(chosen) <= 1
  /\ topoChosen \in Seq(Calls) /\ Len(topoChosen) <= 1

BuilderType ==
  /\ accepting \subseteq TfBuilders /\ dead \subseteq TfBuilders
  /\ free \in [TfBuilders -> Nat] /\ building \in [TfBuilders -> Seq(Nat)]
  /\ buffered \in [TfBuilders -> SUBSET Nat]
  /\ mLastBuiltTfId \in [TfBuilders -> Nat] /\ mNumTfsInBuilding \in [TfBuilders -> Nat]
  /\ disturbed \subseteq TfBuilders /\ failed \subseteq TfBuilders

ReportType == report \in [TfBuilders -> Seq(Updates)] /\ \A b \in TfBuilders : Len(report[b]) <= 1

\* The conjuncts of ReadyIsKnown: the ready list and the assignments of equipments follow
\* the known TfBuilders.
Listed ==
  /\ \A i \in DOMAIN mReadyTfBuilders : mReadyTfBuilders[i] \in mGlobalInfo
  /\ \A i, j \in DOMAIN mReadyTfBuilders : mReadyTfBuilders[i] = mReadyTfBuilders[j] => i = j
  /\ \A a \in mTopoTfBuilders : IsReady(a.tfBuilder)

listVars == <<mGlobalInfo, mReadyTfBuilders, mTopoTfBuilders>>

Inv == ListType /\ InfoType /\ ThreadType /\ BuilderType /\ ReportType /\ Listed

LEMMA NewInfoType == \A n \in Nat : NewInfo(n) \in Infos
BY DEF NewInfo, Infos

LEMMA UpdateType ==
  /\ \A u \in Updates : u.free_memory \in Nat /\ u.last_built_tf_id \in Nat
                        /\ u.num_tfs_in_building \in Nat
  /\ \A r \in BOOLEAN, m, l, n \in Nat :
       [running |-> r, free_memory |-> m, last_built_tf_id |-> l, num_tfs_in_building |-> n]
         \in Updates
BY Zenon DEF Updates

LEMMA EstimateType == lTfEstSize \in Nat
<1>1. TfSize \in Nat /\ sTfSizeOverestimatePercent + 100 \in Nat
  BY TfBuilderInfoAssumption
<1>2. \A x, y \in Nat : x * y \in Nat
  OBVIOUS
<1>3. \A x \in Nat : x \div 100 \in Nat
  OBVIOUS
<1> QED BY <1>1, <1>2, <1>3 DEF lTfEstSize

LEMMA InitInv == Init => Inv
<1> SUFFICES ASSUME Init PROVE Inv
  OBVIOUS
<1>1. ListType /\ Listed
  BY DEF Init, ListType, Listed
<1>2. InfoType
  BY NewInfoType DEF Init, InfoType
<1>3. ThreadType
  BY OptionalType DEF Init, ThreadType
<1>4. BuilderType
  BY TfBuilderInfoAssumption, OptionalType DEF Init, BuilderType
<1>5. ReportType
  BY OptionalType DEF Init, ReportType
<1> QED BY <1>1, <1>2, <1>3, <1>4, <1>5 DEF Inv

-----------------------------------------------------------------------------
(* The lists *)

\* The one place of a ready TfBuilder.
LEMMA PlaceFound ==
  ASSUME ListType, Listed, NEW b, IsReady(b)
  PROVE  PlaceOf(b) \in 1 .. Len(mReadyTfBuilders) /\ mReadyTfBuilders[PlaceOf(b)] = b
<1> DEFINE q == mReadyTfBuilders
<1>1. Len(q) \in Nat /\ DOMAIN q = 1 .. Len(q)
  BY DEF ListType
<1>2. PICK i \in DOMAIN q : q[i] = b
  BY DEF IsReady
<1>3. \A j \in 1 .. (i - 1) : q[j] # b
  BY <1>1, <1>2 DEF Listed
<1> QED BY <1>1, <1>2, <1>3 DEF PlaceOf

\* Removing one place of the list keeps the others, each once.
LEMMA RemovePlace ==
  ASSUME ListType, Listed, NEW p \in 1 .. Len(mReadyTfBuilders)
  PROVE  LET q == mReadyTfBuilders
             r == RemoveAt(mReadyTfBuilders, p) IN
         /\ r \in Seq(TfBuilders)
         /\ \A k \in DOMAIN r : \E i \in DOMAIN q : i # p /\ r[k] = q[i]
         /\ \A k, l \in DOMAIN r : r[k] = r[l] => k = l
         /\ \A i \in DOMAIN q : i # p => \E k \in DOMAIN r : r[k] = q[i]
<1> DEFINE q == mReadyTfBuilders
           r == RemoveAt(mReadyTfBuilders, p)
           n == Len(q)
<1>1. q \in Seq(TfBuilders) /\ n \in Nat /\ DOMAIN q = 1 .. n
  BY DEF ListType
<1>2. /\ r \in Seq(TfBuilders) /\ Len(r) = n - 1
      /\ \A j \in 1 .. (n - 1) : r[j] = IF j < p THEN q[j] ELSE q[j + 1]
  BY <1>1, RemoveAtSpec
<1>3. DOMAIN r = 1 .. (n - 1) /\ p \in 1 .. n
  BY <1>1, <1>2
<1>4. \A i, j \in 1 .. n : q[i] = q[j] => i = j
  BY <1>1 DEF Listed
<1> HIDE DEF q, r, n
<1>5. \A k \in DOMAIN r : \E i \in DOMAIN q : i # p /\ r[k] = q[i]
  <2> TAKE k \in DOMAIN r
  <2>1. CASE k < p
    BY <1>1, <1>2, <1>3, <2>1
  <2>2. CASE ~(k < p)
    <3>1. k + 1 \in 1 .. n /\ k + 1 # p
      BY <1>1, <1>3, <2>2
    <3> QED BY <1>1, <1>2, <1>3, <2>2, <3>1
  <2> QED BY <2>1, <2>2
<1>6. \A k, l \in DOMAIN r : r[k] = r[l] => k = l
  <2> SUFFICES ASSUME NEW k \in 1 .. (n - 1), NEW l \in 1 .. (n - 1), r[k] = r[l] PROVE k = l
    BY <1>3
  <2> DEFINE at(x) == IF x < p THEN x ELSE x + 1
  <2>1. \A x \in 1 .. (n - 1) : at(x) \in 1 .. n /\ r[x] = q[at(x)]
    BY <1>1, <1>2, <1>3
  <2>2. at(k) = at(l)
    BY <1>4, <2>1
  <2> QED BY <1>1, <1>3, <2>2
<1>7. \A i \in DOMAIN q : i # p => \E k \in DOMAIN r : r[k] = q[i]
  <2> SUFFICES ASSUME NEW i \in 1 .. n, i # p PROVE \E k \in 1 .. (n - 1) : r[k] = q[i]
    BY <1>1, <1>3
  <2>1. CASE i < p
    BY <1>1, <1>2, <1>3, <2>1
  <2>2. CASE ~(i < p)
    <3>1. i - 1 \in 1 .. (n - 1) /\ ~(i - 1 < p) /\ (i - 1) + 1 = i
      BY <1>1, <1>3, <2>2
    <3>2. r[i - 1] = q[i]
      BY <1>2, <3>1
    <3> QED BY <3>1, <3>2
  <2> QED BY <2>1, <2>2
<1> QED BY <1>2, <1>5, <1>6, <1>7 DEF q, r

\* After the removal of a TfBuilder it is in no list, and all others are where they were.
LEMMA Removed ==
  ASSUME ListType, Listed, NEW b, removeReadyTfBuilder(b)
  PROVE  /\ mReadyTfBuilders' \in Seq(TfBuilders)
         /\ \A a \in mTopoTfBuilders' : a.tfBuilder \in TfBuilders
         /\ \A a, other \in mTopoTfBuilders' : a.equipment = other.equipment => a = other
         /\ \A i \in DOMAIN mReadyTfBuilders' : mReadyTfBuilders'[i] \in mGlobalInfo \ {b}
         /\ \A i, j \in DOMAIN mReadyTfBuilders' :
              mReadyTfBuilders'[i] = mReadyTfBuilders'[j] => i = j
         /\ \A a \in mTopoTfBuilders' : IsReady(a.tfBuilder)'
         /\ \A c : IsReady(c)' => IsReady(c) /\ c # b
<1>1. mTopoTfBuilders' = {a \in mTopoTfBuilders : a.tfBuilder # b}
  BY DEF removeReadyTfBuilder
<1>2. CASE ~IsReady(b)
  <2>1. mReadyTfBuilders' = mReadyTfBuilders
    BY <1>2 DEF removeReadyTfBuilder
  <2> QED BY <1>1, <1>2, <2>1 DEF ListType, Listed, IsReady
<1>3. CASE IsReady(b)
  <2> DEFINE p == PlaceOf(b)
  <2>1. p \in 1 .. Len(mReadyTfBuilders) /\ mReadyTfBuilders[p] = b
    BY <1>3, PlaceFound
  <2>2. mReadyTfBuilders' = RemoveAt(mReadyTfBuilders, p)
    BY <1>3 DEF removeReadyTfBuilder
  <2>3. p \in DOMAIN mReadyTfBuilders
    BY <2>1 DEF ListType
  <2> HIDE DEF p
  <2>4. /\ mReadyTfBuilders' \in Seq(TfBuilders)
        /\ \A k \in DOMAIN mReadyTfBuilders' : \E i \in DOMAIN mReadyTfBuilders :
             i # p /\ mReadyTfBuilders'[k] = mReadyTfBuilders[i]
        /\ \A k, l \in DOMAIN mReadyTfBuilders' : mReadyTfBuilders'[k] = mReadyTfBuilders'[l] => k = l
        /\ \A i \in DOMAIN mReadyTfBuilders : i # p =>
             \E k \in DOMAIN mReadyTfBuilders' : mReadyTfBuilders'[k] = mReadyTfBuilders[i]
    BY <2>1, <2>2, RemovePlace
  <2>5. \A i \in DOMAIN mReadyTfBuilders' : mReadyTfBuilders'[i] \in mGlobalInfo \ {b}
    BY <2>1, <2>3, <2>4 DEF Listed
  <2>6. \A a \in mTopoTfBuilders' : IsReady(a.tfBuilder)'
    BY <1>1, <2>1, <2>4 DEF Listed, IsReady
  <2>7. \A c : IsReady(c)' => IsReady(c) /\ c # b
    BY <2>1, <2>3, <2>4 DEF Listed, IsReady
  <2> QED BY <1>1, <2>4, <2>5, <2>6, <2>7 DEF ListType
<1> QED BY <1>2, <1>3

LEMMA RemovedLists ==
  ASSUME ListType, Listed, NEW b, removeReadyTfBuilder(b),
         mGlobalInfo' = mGlobalInfo \/ mGlobalInfo' = mGlobalInfo \ {b},
         lIdsToErase' \subseteq lIdsToErase
  PROVE  ListType' /\ Listed'
BY Removed DEF ListType, Listed

\* The chosen TfBuilder moves to the end.
LEMMA ChosenLists ==
  ASSUME ListType, Listed, NEW p \in DOMAIN mReadyTfBuilders, ChooseTfBuilder(p),
         UNCHANGED <<mGlobalInfo, mTopoTfBuilders, lIdsToErase>>
  PROVE  ListType' /\ Listed' /\ \A b : IsReady(b)' <=> IsReady(b)
<1> DEFINE q == mReadyTfBuilders
           r == RemoveAt(mReadyTfBuilders, p)
<1>1. p \in 1 .. Len(q) /\ q[p] \in TfBuilders
  BY DEF ListType
<1>2. /\ r \in Seq(TfBuilders)
      /\ \A k \in DOMAIN r : \E i \in DOMAIN q : i # p /\ r[k] = q[i]
      /\ \A k, l \in DOMAIN r : r[k] = r[l] => k = l
      /\ \A i \in DOMAIN q : i # p => \E k \in DOMAIN r : r[k] = q[i]
  BY <1>1, RemovePlace
<1>3. mReadyTfBuilders' = Append(r, q[p])
  BY DEF ChooseTfBuilder
<1> HIDE DEF r
<1>4. /\ Append(r, q[p]) \in Seq(TfBuilders)
      /\ Len(Append(r, q[p])) = Len(r) + 1
      /\ \A k \in 1 .. Len(r) : Append(r, q[p])[k] = r[k]
      /\ Append(r, q[p])[Len(r) + 1] = q[p]
      /\ Len(r) \in Nat /\ DOMAIN r = 1 .. Len(r)
      /\ DOMAIN Append(r, q[p]) = 1 .. (Len(r) + 1)
  BY <1>1, <1>2, AppendProperties
<1>5. ListType'
  BY <1>3, <1>4 DEF ListType
<1>6. \A k \in DOMAIN mReadyTfBuilders' :
        (k \in DOMAIN r /\ mReadyTfBuilders'[k] = r[k])
          \/ (k = Len(r) + 1 /\ mReadyTfBuilders'[k] = q[p])
  BY <1>3, <1>4
<1>7. \A k \in DOMAIN r : r[k] # q[p]
  BY <1>2 DEF Listed
<1>8. \A i \in DOMAIN mReadyTfBuilders' : mReadyTfBuilders'[i] \in mGlobalInfo'
  BY <1>2, <1>6 DEF Listed
<1>9. \A i, j \in DOMAIN mReadyTfBuilders' : mReadyTfBuilders'[i] = mReadyTfBuilders'[j] => i = j
  BY <1>2, <1>6, <1>7
<1>10. \A b : IsReady(b) => IsReady(b)'
  <2> SUFFICES ASSUME NEW i \in DOMAIN q
               PROVE  \E k \in DOMAIN mReadyTfBuilders' : mReadyTfBuilders'[k] = q[i]
    BY DEF IsReady
  <2>1. CASE i = p
    BY <1>3, <1>4, <2>1
  <2>2. CASE i # p
    <3>1. PICK k \in DOMAIN r : r[k] = q[i]
      BY <1>2, <2>2
    <3> QED BY <1>3, <1>4, <3>1
  <2> QED BY <2>1, <2>2
<1>11. \A b : IsReady(b)' => IsReady(b)
  BY <1>2, <1>6 DEF IsReady
<1> QED BY <1>5, <1>8, <1>9, <1>10, <1>11 DEF Listed

\* A TfBuilder joins that is not known, so it is not in the list yet.
LEMMA JoinedLists ==
  ASSUME ListType, Listed, NEW b \in TfBuilders \ mGlobalInfo,
         mReadyTfBuilders' = Append(mReadyTfBuilders, b),
         mGlobalInfo' = mGlobalInfo \union {b},
         UNCHANGED <<mTopoTfBuilders, lIdsToErase>>
  PROVE  ListType' /\ Listed' /\ \A c : IsReady(c)' => IsReady(c) \/ c = b
<1> DEFINE q == mReadyTfBuilders
<1>1. q \in Seq(TfBuilders) /\ Len(q) \in Nat /\ DOMAIN q = 1 .. Len(q)
  BY DEF ListType
<1>2. /\ Append(q, b) \in Seq(TfBuilders)
      /\ \A k \in 1 .. Len(q) : Append(q, b)[k] = q[k]
      /\ Append(q, b)[Len(q) + 1] = b
      /\ DOMAIN Append(q, b) = 1 .. (Len(q) + 1)
  BY <1>1, AppendProperties
<1>3. ListType'
  BY <1>2 DEF ListType
<1>4. \A k \in DOMAIN mReadyTfBuilders' :
        (k \in DOMAIN q /\ mReadyTfBuilders'[k] = q[k]) \/ (k = Len(q) + 1 /\ mReadyTfBuilders'[k] = b)
  BY <1>1, <1>2
<1>5. \A k \in DOMAIN q : q[k] # b
  BY DEF Listed
<1>6. \A i \in DOMAIN mReadyTfBuilders' : mReadyTfBuilders'[i] \in mGlobalInfo'
  BY <1>4 DEF Listed
<1>7. \A i, j \in DOMAIN mReadyTfBuilders' : mReadyTfBuilders'[i] = mReadyTfBuilders'[j] => i = j
  BY <1>4, <1>5 DEF Listed
<1>8. \A c : IsReady(c) => IsReady(c)'
  BY <1>1, <1>2 DEF IsReady
<1>9. \A c : IsReady(c)' => IsReady(c) \/ c = b
  BY <1>4 DEF IsReady
<1> QED BY <1>3, <1>6, <1>7, <1>8, <1>9 DEF Listed

LEMMA SameLists ==
  ASSUME ListType, Listed, UNCHANGED listVars, lIdsToErase' \subseteq TfBuilders
  PROVE  ListType' /\ Listed'
BY DEF ListType, Listed, listVars, IsReady

-----------------------------------------------------------------------------
(* The steps *)

\* The fields of an info, whichever of them change.
LEMMA InfoFields ==
  /\ \A i \in Infos : /\ i.mEstimatedFreeMemory \in Nat /\ i.mReportedFreeMemory \in Nat
                      /\ i.mTfsInBuilding \in Nat /\ i.mLastScheduledTf \in Nat
                      /\ i.mTotalUtilization \in Nat
  /\ \A i \in Infos, n \in Nat : /\ [i EXCEPT !.mEstimatedFreeMemory = n] \in Infos
                                 /\ [i EXCEPT !.mReportedFreeMemory = n] \in Infos
                                 /\ [i EXCEPT !.mTfsInBuilding = n] \in Infos
                                 /\ [i EXCEPT !.mLastScheduledTf = n] \in Infos
                                 /\ [i EXCEPT !.mTotalUtilization = n] \in Infos
BY DEF Infos

LEMMA CallType ==
  /\ \A c \in Calls : c.tfBuilder \in TfBuilders
  /\ \A c \in Calls, a \in {"OK", "ERROR", "FAILED"} : [c EXCEPT !.answer = a] \in Calls
  /\ \A b \in TfBuilders : [tfBuilder |-> b, answer |-> "NONE"] \in Calls
BY DEF Calls

LEMMA AnsweredType ==
  ASSUME NEW call \in Seq(Calls), call # <<>>, Len(call) <= 1, NEW a \in {"OK", "ERROR", "FAILED"}
  PROVE  Answered(call, a) \in Seq(Calls) /\ Len(Answered(call, a)) <= 1
<1>1. call[1] \in Calls /\ Len(call) = 1
  BY OptionalValue
<1>2. [call[1] EXCEPT !.answer = a] \in Calls
  BY <1>1, CallType
<1>3. Answered(call, a) = [call EXCEPT ![1] = [call[1] EXCEPT !.answer = a]]
  BY <1>1 DEF Answered
<1>4. 1 \in 1 .. Len(call)
  BY <1>1
<1>5. Answered(call, a) \in Seq(Calls) /\ Len(Answered(call, a)) = Len(call)
  BY <1>2, <1>3, <1>4, ExceptSeq
<1> QED BY <1>1, <1>5

LEMMA AcceptType ==
  ASSUME BuilderType, NEW b \in TfBuilders, NEW id \in Nat, Accept(b, id)
  PROVE  building' \in [TfBuilders -> Seq(Nat)] /\ mNumTfsInBuilding' \in [TfBuilders -> Nat]
<1>1. Append(building[b], id) \in Seq(Nat)
  BY AppendProperties DEF BuilderType
<1> QED BY <1>1 DEF Accept, BuilderType

\* Messages and steps of the TfBuilders leave the scheduler alone.
LEMMA TfBuilderInv ==
  ASSUME Inv, NEW b \in TfBuilders, TfBuilderStep(b)
  PROVE  Inv'
<1>1. UNCHANGED <<schedulerVars, threadVars>>
  BY DEF TfBuilderStep, sendTfBuilderUpdate, startAcceptingTfs, stopAcceptingTfs,
     reset_run_counters, recordTfBuilt, GiveUp, Die, LoseUpdate, recordTfForwarded
<1>2. ListType' /\ Listed'
  BY <1>1, SameLists DEF Inv, schedulerVars, listVars, ListType
<1>3. InfoType' /\ ThreadType'
  BY <1>1 DEF Inv, schedulerVars, threadVars, InfoType, ThreadType
<1>4. \A r \in BOOLEAN : Report(b, r) \in Updates
  BY UpdateType DEF Report, Inv, BuilderType
<1>5. \A r \in BOOLEAN : <<Report(b, r)>> \in Seq(Updates) /\ Len(<<Report(b, r)>>) <= 1
  BY <1>4, OptionalType
<1>6. (b \in accepting) \in BOOLEAN
  <2>1. CASE b \in accepting
    <3>1. (b \in accepting) = TRUE
      BY <2>1, Zenon
    <3> QED BY <3>1, Zenon
  <2>2. CASE b \notin accepting
    <3>1. (b \in accepting) = FALSE
      BY <2>2
    <3> QED BY <3>1, Zenon
  <2> QED BY <2>1, <2>2, Zenon
<1>7. ReportType'
  <2>1. CASE sendTfBuilderUpdate(b)
    BY <1>5, <1>6, <2>1 DEF sendTfBuilderUpdate, Inv, ReportType
  <2>2. CASE startAcceptingTfs(b)
    BY <1>5, <2>2 DEF startAcceptingTfs, Inv, ReportType
  <2>3. CASE stopAcceptingTfs(b)
    BY <1>5, <2>3 DEF stopAcceptingTfs, Inv, ReportType
  <2>4. CASE LoseUpdate(b)
    BY OptionalType, <2>4 DEF LoseUpdate, Inv, ReportType
  <2>5. CASE UNCHANGED report
    BY <2>5 DEF Inv, ReportType
  <2> QED BY <2>1, <2>2, <2>3, <2>4, <2>5 DEF TfBuilderStep, reset_run_counters, recordTfBuilt,
          GiveUp, Die, recordTfForwarded
<1>8. BuilderType'
  <2>1. CASE UNCHANGED <<tfBuilderVars, disturbed, failed, accepting, dead>>
    BY <2>1 DEF Inv, BuilderType, tfBuilderVars
  <2>2. CASE startAcceptingTfs(b) \/ stopAcceptingTfs(b) \/ Die(b)
    BY <2>2 DEF startAcceptingTfs, stopAcceptingTfs, Die, Inv, BuilderType, tfBuilderVars,
       historyVars
  <2>3. CASE reset_run_counters(b)
    BY <2>3, TfBuilderInfoAssumption DEF reset_run_counters, Inv, BuilderType
  <2>4. ASSUME building[b] # <<>>
        PROVE  Head(building[b]) \in Nat /\ Tail(building[b]) \in Seq(Nat)
    BY <2>4, HeadTailProperties DEF Inv, BuilderType
  <2>5. CASE recordTfBuilt(b)
    <3> DEFINE id == Head(building[b])
    <3>1. id \in Nat /\ Tail(building[b]) \in Seq(Nat)
      BY <2>4, <2>5 DEF recordTfBuilt
    <3>2. /\ free' = [free EXCEPT ![b] = IF @ >= TfSize THEN @ - TfSize ELSE 0]
          /\ buffered' = [buffered EXCEPT ![b] = @ \union {id}]
          /\ mLastBuiltTfId' = [mLastBuiltTfId EXCEPT ![b] = IF id > @ THEN id ELSE @]
          /\ mNumTfsInBuilding' = [mNumTfsInBuilding EXCEPT ![b] = IF @ > 0 THEN @ - 1 ELSE 0]
          /\ building' = [building EXCEPT ![b] = Tail(@)]
          /\ UNCHANGED <<accepting, dead, historyVars>>
      BY <2>5 DEF recordTfBuilt
    <3> HIDE DEF id
    <3>3. free' \in [TfBuilders -> Nat] /\ mNumTfsInBuilding' \in [TfBuilders -> Nat]
      BY <3>2, TfBuilderInfoAssumption DEF Inv, BuilderType
    <3>4. buffered' \in [TfBuilders -> SUBSET Nat] /\ mLastBuiltTfId' \in [TfBuilders -> Nat]
      BY <3>1, <3>2 DEF Inv, BuilderType
    <3>5. building' \in [TfBuilders -> Seq(Nat)]
      BY <3>1, <3>2 DEF Inv, BuilderType
    <3> QED BY <3>2, <3>3, <3>4, <3>5 DEF Inv, BuilderType, historyVars
  <2>6. CASE GiveUp(b)
    BY <2>4, <2>6 DEF GiveUp, Inv, BuilderType, historyVars
  <2>7. ASSUME NEW id \in buffered[b], recordTfForwarded(b, id) PROVE BuilderType'
    BY <2>7, TfBuilderInfoAssumption DEF recordTfForwarded, Inv, BuilderType, historyVars
  <2> QED BY <2>1, <2>2, <2>3, <2>5, <2>6, <2>7 DEF TfBuilderStep, sendTfBuilderUpdate, LoseUpdate,
          historyVars
<1> QED BY <1>2, <1>3, <1>7, <1>8 DEF Inv

\* What the report of a TfBuilder says.
LEMMA ReportFields ==
  ASSUME ReportType, NEW b \in TfBuilders, report[b] # <<>>
  PROVE  /\ report[b][1] \in Updates
         /\ report[b][1].free_memory \in Nat /\ report[b][1].num_tfs_in_building \in Nat
<1>1. report[b] \in Seq(Updates) /\ Len(report[b]) <= 1
  BY DEF ReportType
<1>2. report[b][1] \in Updates
  BY <1>1, OptionalValue
<1> QED BY <1>2, UpdateType

\* A TfBuilder leaves, joins or reports.
LEMMA UpdateInv ==
  ASSUME Inv, NEW b \in TfBuilders, updateTfBuilderInfo(b)
  PROVE  Inv'
<1> DEFINE update == report[b][1]
<1>1. /\ report[b] # <<>> /\ report' = [report EXCEPT ![b] = <<>>]
      /\ UNCHANGED <<lIdsToErase, threadVars, accepting, dead, tfBuilderVars>>
      /\ \/ RemoveTfBuilder(b)
         \/ b \notin mGlobalInfo /\ AddTfBuilder(b, update)
         \/ b \in mGlobalInfo /\ UpdateTfBuilder(b, update)
  BY DEF updateTfBuilderInfo
<1>2. update.free_memory \in Nat /\ update.num_tfs_in_building \in Nat
  BY <1>1, ReportFields DEF Inv
<1> HIDE DEF update
<1>3. ReportType' /\ ThreadType'
  BY <1>1, OptionalType DEF Inv, ReportType, ThreadType, threadVars
<1>4. disturbed' \subseteq TfBuilders /\ failed' \subseteq TfBuilders
  BY <1>1 DEF RemoveTfBuilder, AddTfBuilder, UpdateTfBuilder, historyVars, Inv, BuilderType
<1>5. BuilderType'
  BY <1>1, <1>4 DEF Inv, BuilderType, tfBuilderVars
<1>6. CASE RemoveTfBuilder(b)
  <2>1. ListType' /\ Listed'
    <3>1. CASE b \in mGlobalInfo
      BY <1>1, <1>6, <3>1, RemovedLists DEF RemoveTfBuilder, Inv
    <3>2. CASE b \notin mGlobalInfo
      BY <1>1, <1>6, <3>2, SameLists DEF RemoveTfBuilder, Inv, listVars, ListType
    <3> QED BY <3>1, <3>2
  <2>2. InfoType'
    BY <1>6 DEF RemoveTfBuilder, Inv, InfoType
  <2> QED BY <1>3, <1>5, <2>1, <2>2 DEF Inv
<1>7. CASE b \notin mGlobalInfo /\ AddTfBuilder(b, update)
  <2>1. ListType' /\ Listed'
    BY <1>1, <1>7, JoinedLists DEF AddTfBuilder, Inv
  <2>2. InfoType'
    BY <1>2, <1>7, NewInfoType DEF AddTfBuilder, Inv, InfoType
  <2> QED BY <1>3, <1>5, <2>1, <2>2 DEF Inv
<1>8. CASE b \in mGlobalInfo /\ UpdateTfBuilder(b, update)
  <2>1. ListType' /\ Listed'
    BY <1>1, <1>8, SameLists DEF UpdateTfBuilder, Inv, listVars, ListType
  <2>2. info[b] \in Infos
    BY DEF Inv, InfoType
  <2>3. NewEstimate(info[b], update) \in Nat
    BY <1>2, <2>2, InfoFields DEF NewEstimate
  <2> DEFINE i1 == [info[b] EXCEPT !.mReportedFreeMemory = update.free_memory]
             i2 == [i1 EXCEPT !.mTfsInBuilding = update.num_tfs_in_building]
             i3 == [i2 EXCEPT !.mEstimatedFreeMemory = NewEstimate(info[b], update)]
  <2>4. i3 \in Infos
    BY <1>2, <2>2, <2>3, InfoFields
  <2>5. info' = [info EXCEPT ![b].mReportedFreeMemory = update.free_memory,
                             ![b].mTfsInBuilding = update.num_tfs_in_building,
                             ![b].mEstimatedFreeMemory = NewEstimate(info[b], update)]
    BY <1>8 DEF UpdateTfBuilder
  <2>6. info' = [info EXCEPT ![b] = i3]
    BY <2>5 DEF Inv, InfoType
  <2>7. InfoType'
    BY <2>4, <2>6 DEF Inv, InfoType
  <2> QED BY <1>3, <1>5, <2>1, <2>7 DEF Inv
<1> QED BY <1>1, <1>6, <1>7, <1>8

\* The housekeeping finds stale TfBuilders and removes them later.
LEMMA HousekeepingInv ==
  ASSUME Inv, CollectStale \/ \E b \in TfBuilders : EraseStale(b)
  PROVE  Inv'
<1>1. CASE CollectStale
  <2>1. /\ UNCHANGED <<listVars, info, threadVars, accepting, dead, tfBuilderVars, report, historyVars>>
        /\ lIdsToErase' \subseteq mGlobalInfo
    BY <1>1 DEF CollectStale, listVars
  <2>2. ListType' /\ Listed'
    BY <2>1, SameLists DEF Inv, ListType
  <2> QED BY <2>1, <2>2 DEF Inv, InfoType, ThreadType, BuilderType, ReportType, threadVars,
          tfBuilderVars, historyVars
<1>2. ASSUME NEW b \in TfBuilders, EraseStale(b) PROVE Inv'
  <2>1. /\ lIdsToErase' = lIdsToErase \ {b} /\ mGlobalInfo' = mGlobalInfo \ {b}
        /\ removeReadyTfBuilder(b) /\ failed' = failed \ {b}
        /\ UNCHANGED <<info, threadVars, accepting, dead, tfBuilderVars, report, disturbed>>
    BY <1>2 DEF EraseStale
  <2>2. ListType' /\ Listed'
    BY <2>1, RemovedLists DEF Inv
  <2>3. InfoType' /\ ThreadType' /\ BuilderType' /\ ReportType'
    BY <2>1 DEF Inv, InfoType, ThreadType, BuilderType, ReportType, threadVars, tfBuilderVars
  <2> QED BY <2>2, <2>3 DEF Inv
<1> QED BY <1>1, <1>2

\* The scheduling thread finds a TfBuilder: the estimate covers what is taken from it.
LEMMA FindInv ==
  ASSUME Inv, findTfBuilderForTf
  PROVE  Inv'
<1>1. /\ chosen = <<>> /\ tf <= MaxTf
      /\ UNCHANGED <<mGlobalInfo, mTopoTfBuilders, lIdsToErase, source, topo, topoChosen, accepting,
                     dead, tfBuilderVars, report, historyVars>>
  BY DEF findTfBuilderForTf
<1>2. BuilderType' /\ ReportType'
  BY <1>1 DEF Inv, BuilderType, ReportType, tfBuilderVars, historyVars
<1>3. CASE tf' = tf + 1 /\ UNCHANGED <<mReadyTfBuilders, info, chosen>>
  <2>1. ListType' /\ Listed'
    BY <1>1, <1>3, SameLists DEF Inv, listVars, ListType
  <2>2. InfoType' /\ ThreadType'
    BY <1>1, <1>3 DEF Inv, InfoType, ThreadType
  <2> QED BY <1>2, <2>1, <2>2 DEF Inv
<1>4. CASE \E i \in DOMAIN mReadyTfBuilders :
             /\ HasRoom(mReadyTfBuilders[i]) /\ ChooseTfBuilder(i)
             /\ chosen' = <<[tfBuilder |-> mReadyTfBuilders[i], answer |-> "NONE"]>> /\ tf' = tf
  <2>1. PICK i \in DOMAIN mReadyTfBuilders :
             /\ HasRoom(mReadyTfBuilders[i]) /\ ChooseTfBuilder(i)
             /\ chosen' = <<[tfBuilder |-> mReadyTfBuilders[i], answer |-> "NONE"]>> /\ tf' = tf
    BY <1>4
  <2> DEFINE b == mReadyTfBuilders[i]
  <2>2. b \in TfBuilders
    BY DEF Inv, ListType
  <2>3. ListType' /\ Listed'
    BY <1>1, <2>1, ChosenLists DEF Inv
  <2>4. [tfBuilder |-> b, answer |-> "NONE"] \in Calls
    BY <2>2, CallType
  <2>5. chosen' \in Seq(Calls) /\ Len(chosen') <= 1
    BY <2>1, <2>4, OptionalType
  <2>6. ThreadType'
    BY <1>1, <2>1, <2>5 DEF Inv, ThreadType
  <2>7. info[b] \in Infos /\ info[b].mEstimatedFreeMemory >= lTfEstSize
    BY <2>1, <2>2 DEF HasRoom, Inv, InfoType
  <2>8. info[b].mEstimatedFreeMemory - lTfEstSize \in Nat
    BY <2>7, InfoFields, EstimateType
  <2>9. [info[b] EXCEPT !.mEstimatedFreeMemory = @ - lTfEstSize] \in Infos
    BY <2>7, <2>8, InfoFields
  <2>10. info' = [info EXCEPT ![b] = [info[b] EXCEPT !.mEstimatedFreeMemory = @ - lTfEstSize]]
    BY <2>1 DEF ChooseTfBuilder
  <2>11. InfoType'
    BY <2>2, <2>9, <2>10 DEF Inv, InfoType
  <2> QED BY <1>2, <2>3, <2>6, <2>11 DEF Inv
<1> QED BY <1>3, <1>4 DEF findTfBuilderForTf

\* The call to the TfBuilder, of either thread.
LEMMA CallInv ==
  ASSUME Inv, BuildTfRequest \/ TopoBuildTfRequest
  PROVE  Inv'
<1>1. UNCHANGED <<schedulerVars, source, tf, topo, accepting, dead, free, buffered,
                  mLastBuiltTfId, report, failed>>
  BY DEF BuildTfRequest, TopoBuildTfRequest, historyVars
<1>2. ListType' /\ Listed' /\ InfoType' /\ ReportType'
  BY <1>1, SameLists DEF Inv, schedulerVars, listVars, ListType, InfoType, ReportType
<1>3. CASE BuildTfRequest
  <2>1. chosen # <<>> /\ chosen[1].tfBuilder \in TfBuilders
    BY <1>3, OptionalValue, CallType DEF BuildTfRequest, Inv, ThreadType
  <2>2. /\ \E a \in {"OK", "ERROR", "FAILED"} : chosen' = Answered(chosen, a)
        /\ Accept(chosen[1].tfBuilder, tf) \/ UNCHANGED <<building, mNumTfsInBuilding>>
        /\ UNCHANGED <<topoChosen, disturbed>>
    BY <1>3 DEF BuildTfRequest, Refuse, historyVars
  <2>3. ThreadType'
    BY <1>1, <2>1, <2>2, AnsweredType DEF Inv, ThreadType
  <2>4. building' \in [TfBuilders -> Seq(Nat)] /\ mNumTfsInBuilding' \in [TfBuilders -> Nat]
    BY <2>1, <2>2, AcceptType DEF Inv, BuilderType, ThreadType
  <2>5. BuilderType'
    BY <1>1, <2>2, <2>4 DEF Inv, BuilderType
  <2> QED BY <1>2, <2>3, <2>5 DEF Inv
<1>4. CASE TopoBuildTfRequest
  <2>1. topoChosen # <<>> /\ topoChosen[1].tfBuilder \in TfBuilders
    BY <1>4, OptionalValue, CallType DEF TopoBuildTfRequest, Inv, ThreadType
  <2>2. /\ \E a \in {"OK", "ERROR", "FAILED"} : topoChosen' = Answered(topoChosen, a)
        /\ Accept(topoChosen[1].tfBuilder, MaxTf + topo) \/ UNCHANGED <<building, mNumTfsInBuilding>>
        /\ UNCHANGED chosen /\ disturbed' = disturbed \union {topoChosen[1].tfBuilder}
    BY <1>4 DEF TopoBuildTfRequest, Refuse
  <2>3. ThreadType'
    BY <1>1, <2>1, <2>2, AnsweredType DEF Inv, ThreadType
  <2>4. MaxTf + topo \in Nat
    BY TfBuilderInfoAssumption DEF Inv, ThreadType
  <2>5. building' \in [TfBuilders -> Seq(Nat)] /\ mNumTfsInBuilding' \in [TfBuilders -> Nat]
    BY <2>1, <2>2, <2>4, AcceptType DEF Inv, BuilderType
  <2>6. BuilderType'
    BY <1>1, <2>1, <2>2, <2>5 DEF Inv, BuilderType
  <2> QED BY <1>2, <2>3, <2>6 DEF Inv
<1> QED BY <1>3, <1>4

\* After the call: a TfBuilder that could not be called leaves the lists but stays known.
LEMMA CalledInv ==
  ASSUME Inv, SchedulingThread \/ TopoSchedulingThread
  PROVE  Inv'
<1>1. UNCHANGED <<mGlobalInfo, lIdsToErase, source, accepting, dead, tfBuilderVars, report, disturbed>>
  BY DEF SchedulingThread, TopoSchedulingThread
<1>2. ReportType'
  BY <1>1 DEF Inv, ReportType
<1>3. ThreadType'
  <2>1. CASE SchedulingThread
    <3>1. tf' = tf + 1 /\ chosen' = <<>> /\ UNCHANGED <<source, topo, topoChosen>>
      BY <2>1 DEF SchedulingThread
    <3> QED BY <3>1, OptionalType DEF Inv, ThreadType
  <2>2. CASE TopoSchedulingThread
    <3>1. topo' = topo + 1 /\ topoChosen' = <<>> /\ UNCHANGED <<source, tf, chosen>>
      BY <2>2 DEF TopoSchedulingThread
    <3> QED BY <3>1, OptionalType DEF Inv, ThreadType
  <2> QED BY <2>1, <2>2
<1>4. PICK b \in TfBuilders :
        /\ FailedCall(b) \/ UNCHANGED <<mReadyTfBuilders, mTopoTfBuilders, failed>>
        /\ markTfBuilderWithTfId(b) \/ UNCHANGED info
  <2>1. CASE SchedulingThread
    <3>1. chosen[1].tfBuilder \in TfBuilders
      BY <2>1, OptionalValue, CallType DEF SchedulingThread, Inv, ThreadType
    <3> QED BY <2>1, <3>1 DEF SchedulingThread
  <2>2. CASE TopoSchedulingThread
    <3>1. topoChosen[1].tfBuilder \in TfBuilders
      BY <2>2, OptionalValue, CallType DEF TopoSchedulingThread, Inv, ThreadType
    <3> QED BY <2>2, <3>1 DEF TopoSchedulingThread
  <2> QED BY <2>1, <2>2
<1>5. ListType' /\ Listed'
  <2>1. CASE FailedCall(b)
    BY <1>1, <2>1, RemovedLists DEF FailedCall, Inv
  <2>2. CASE UNCHANGED <<mReadyTfBuilders, mTopoTfBuilders, failed>>
    BY <1>1, <2>2, SameLists DEF Inv, listVars, ListType
  <2> QED BY <1>4, <2>1, <2>2
<1>6. BuilderType'
  BY <1>1, <1>4 DEF FailedCall, Inv, BuilderType, tfBuilderVars
<1>7. InfoType'
  <2>1. CASE UNCHANGED info
    BY <2>1 DEF Inv, InfoType
  <2>2. CASE markTfBuilderWithTfId(b)
    <3> DEFINE i1 == [info[b] EXCEPT !.mLastScheduledTf = tf]
               i2 == [i1 EXCEPT !.mTfsInBuilding = info[b].mTfsInBuilding + 1]
    <3>1. info[b] \in Infos /\ tf \in Nat
      BY DEF Inv, InfoType, ThreadType
    <3>2. i2 \in Infos
      <4>1. info[b].mTfsInBuilding + 1 \in Nat
        BY <3>1, InfoFields
      <4>2. i1 \in Infos
        BY <3>1, InfoFields
      <4> HIDE DEF i1
      <4> QED BY <4>1, <4>2, InfoFields
    <3>3. info' = info \/ info' = [info EXCEPT ![b] = i2]
      BY <2>2, <3>1 DEF markTfBuilderWithTfId, Infos, Inv, InfoType
    <3> QED BY <3>2, <3>3 DEF Inv, InfoType
  <2> QED BY <1>4, <2>1, <2>2
<1> QED BY <1>2, <1>3, <1>5, <1>6, <1>7 DEF Inv

\* An equipment is assigned to a ready TfBuilder.
LEMMA TopoInv ==
  ASSUME Inv, findTfBuilderForTopoStf
  PROVE  Inv'
<1>1. UNCHANGED <<mGlobalInfo, mReadyTfBuilders, lIdsToErase, source, tf, chosen, accepting, dead,
                  tfBuilderVars, report, historyVars>>
  BY DEF findTfBuilderForTopoStf
<1>2. BuilderType' /\ ReportType'
  BY <1>1 DEF Inv, BuilderType, ReportType, tfBuilderVars, historyVars
<1>3. CASE topo' = topo + 1 /\ UNCHANGED <<info, mTopoTfBuilders, topoChosen>>
  <2>1. ListType' /\ Listed'
    BY <1>1, <1>3, SameLists DEF Inv, listVars, ListType
  <2>2. InfoType' /\ ThreadType'
    BY <1>1, <1>3 DEF Inv, InfoType, ThreadType
  <2> QED BY <1>2, <2>1, <2>2 DEF Inv
<1>4. ASSUME NEW b \in TfBuilders, TopoCandidate(TopoStfs[topo], b), Assign(TopoStfs[topo], b),
             topoChosen' = <<[tfBuilder |-> b, answer |-> "NONE"]>>, topo' = topo
      PROVE  Inv'
  <2>1. topoChosen' \in Seq(Calls) /\ Len(topoChosen') <= 1
    BY <1>4, CallType, OptionalType
  <2>2. ThreadType'
    BY <1>1, <1>4, <2>1 DEF Inv, ThreadType
  <2>3. CASE \E a \in mTopoTfBuilders : a.equipment = TopoStfs[topo]
    <3>1. UNCHANGED <<info, mTopoTfBuilders>>
      BY <1>4, <2>3 DEF Assign
    <3>2. ListType' /\ Listed'
      BY <1>1, <3>1, SameLists DEF Inv, listVars, ListType
    <3> QED BY <1>2, <2>2, <3>1, <3>2 DEF Inv, InfoType
  <2>4. CASE ~ \E a \in mTopoTfBuilders : a.equipment = TopoStfs[topo]
    <3> DEFINE new == [equipment |-> TopoStfs[topo], tfBuilder |-> b]
    <3>1. IsReady(b)
      BY <1>4, <2>4 DEF TopoCandidate
    <3>2. /\ info' = [info EXCEPT ![b].mTotalUtilization = @ + 1]
          /\ mTopoTfBuilders' = mTopoTfBuilders \union {new}
      BY <1>4, <2>4 DEF Assign
    <3>3. new.equipment = TopoStfs[topo] /\ new.tfBuilder = b
      OBVIOUS
    <3>4. info[b] \in Infos
      BY DEF Inv, InfoType
    <3>5. [info[b] EXCEPT !.mTotalUtilization = @ + 1] \in Infos
      <4>1. info[b].mTotalUtilization + 1 \in Nat
        BY <3>4, InfoFields
      <4> QED BY <3>4, <4>1, InfoFields
    <3>6. InfoType'
      BY <3>2, <3>5 DEF Inv, InfoType
    <3> HIDE DEF new
    <3>7. ListType'
      BY <1>1, <2>4, <3>2, <3>3 DEF Inv, ListType
    <3>8. Listed'
      BY <1>1, <3>1, <3>2, <3>3 DEF Inv, Listed, IsReady
    <3> QED BY <1>2, <2>2, <3>6, <3>7, <3>8 DEF Inv
  <2> QED BY <2>3, <2>4
<1> QED BY <1>3, <1>4 DEF findTfBuilderForTopoStf

LEMMA NextInv == Inv /\ [Next]_vars => Inv'
<1>1. Inv /\ UNCHANGED vars => Inv'
  <2> SUFFICES ASSUME Inv, UNCHANGED vars PROVE Inv'
    OBVIOUS
  <2>1. ListType' /\ Listed'
    BY SameLists DEF vars, schedulerVars, Inv, listVars, ListType
  <2> QED BY <2>1 DEF vars, schedulerVars, threadVars, tfBuilderVars, historyVars, Inv, InfoType,
          ThreadType, BuilderType, ReportType
<1> QED BY <1>1, TfBuilderInv, UpdateInv, HousekeepingInv, FindInv, CallInv, CalledInv, TopoInv
        DEF Next, ThreadStep, TopoThreadStep

\* Whatever reports, removals, failed calls and choices interleave, a ready TfBuilder is
\* known and is in the list once, equipments are assigned to ready TfBuilders only, and the
\* estimate of the free memory, an unsigned number from which each TF is subtracted, does not
\* fall below zero.
THEOREM ReadyAreKnown == Spec => []ReadyIsKnown
<1>1. Inv => ReadyIsKnown
  BY DEF Inv, ReadyIsKnown, TypeOK, ListType, InfoType, ThreadType, BuilderType, ReportType, Listed
<1> QED BY <1>1, InitInv, NextInv, PTL DEF Spec

-----------------------------------------------------------------------------
(* The equipments *)

\* The step that ends an assignment removes the TfBuilder from the ready list.
LEMMA AssignmentEnds ==
  ASSUME Inv, [Next]_vars, NEW a \in mTopoTfBuilders
  PROVE  a \in mTopoTfBuilders' \/ ~IsReady(a.tfBuilder)'
<1>1. ASSUME NEW b, removeReadyTfBuilder(b)
      PROVE  a \in mTopoTfBuilders' \/ ~IsReady(a.tfBuilder)'
  <2>1. \A c : IsReady(c)' => c # b
    BY <1>1, Removed DEF Inv
  <2>2. mTopoTfBuilders' = {x \in mTopoTfBuilders : x.tfBuilder # b}
    BY <1>1 DEF removeReadyTfBuilder
  <2> QED BY <2>1, <2>2
<1>2. CASE mTopoTfBuilders \subseteq mTopoTfBuilders'
  BY <1>2
<1>3. CASE TopoThreadStep
  <2>1. CASE findTfBuilderForTopoStf
    BY <1>2, <2>1 DEF findTfBuilderForTopoStf, Assign
  <2>2. CASE TopoBuildTfRequest
    BY <1>2, <2>2 DEF TopoBuildTfRequest, schedulerVars
  <2>3. CASE TopoSchedulingThread
    BY <1>1, <1>2, <2>3 DEF TopoSchedulingThread, FailedCall
  <2> QED BY <1>3, <2>1, <2>2, <2>3 DEF TopoThreadStep
<1>4. CASE ThreadStep
  <2>1. CASE findTfBuilderForTf
    BY <1>2, <2>1 DEF findTfBuilderForTf
  <2>2. CASE BuildTfRequest
    BY <1>2, <2>2 DEF BuildTfRequest, schedulerVars
  <2>3. CASE SchedulingThread
    BY <1>1, <1>2, <2>3 DEF SchedulingThread, FailedCall
  <2> QED BY <1>4, <2>1, <2>2, <2>3 DEF ThreadStep
<1>5. ASSUME NEW b \in TfBuilders, TfBuilderStep(b)
      PROVE  a \in mTopoTfBuilders' \/ ~IsReady(a.tfBuilder)'
  BY <1>2, <1>5 DEF TfBuilderStep, sendTfBuilderUpdate, startAcceptingTfs, stopAcceptingTfs,
     reset_run_counters, recordTfBuilt, GiveUp, Die, LoseUpdate, recordTfForwarded, schedulerVars
<1>6. ASSUME NEW b \in TfBuilders, updateTfBuilderInfo(b)
      PROVE  a \in mTopoTfBuilders' \/ ~IsReady(a.tfBuilder)'
  <2>1. removeReadyTfBuilder(b) \/ UNCHANGED mTopoTfBuilders
    BY <1>6 DEF updateTfBuilderInfo, RemoveTfBuilder, AddTfBuilder, UpdateTfBuilder
  <2> QED BY <1>1, <1>2, <2>1
<1>7. ASSUME NEW b \in TfBuilders, EraseStale(b)
      PROVE  a \in mTopoTfBuilders' \/ ~IsReady(a.tfBuilder)'
  BY <1>1, <1>7 DEF EraseStale
<1>8. CASE CollectStale \/ UNCHANGED vars
  BY <1>2, <1>8 DEF CollectStale, vars, schedulerVars
<1> QED BY <1>3, <1>4, <1>5, <1>6, <1>7, <1>8 DEF Next

\* The thread chooses the TfBuilder that the equipment has.
LEMMA AssignedIsChosen ==
  ASSUME Inv, [Next]_vars, NEW a \in mTopoTfBuilders, topoChosen = <<>>, topoChosen' # <<>>,
         a.equipment = TopoStfs[topo]
  PROVE  topoChosen'[1].tfBuilder = a.tfBuilder
<1>1. findTfBuilderForTopoStf
  <2>1. CASE UNCHANGED topoChosen
    BY <2>1
  <2>2. ASSUME NEW b \in TfBuilders, TfBuilderStep(b) \/ updateTfBuilderInfo(b) \/ EraseStale(b)
        PROVE  UNCHANGED topoChosen
    BY <2>2 DEF TfBuilderStep, sendTfBuilderUpdate, startAcceptingTfs, stopAcceptingTfs,
       reset_run_counters, recordTfBuilt, GiveUp, Die, LoseUpdate, recordTfForwarded,
       updateTfBuilderInfo, EraseStale, threadVars
  <2>3. CASE CollectStale \/ UNCHANGED vars
    BY <2>3 DEF CollectStale, vars, threadVars
  <2>4. CASE ThreadStep
    BY <2>4 DEF ThreadStep, findTfBuilderForTf, BuildTfRequest, SchedulingThread
  <2>5. CASE TopoBuildTfRequest \/ TopoSchedulingThread
    BY <2>5 DEF TopoBuildTfRequest, TopoSchedulingThread
  <2> QED BY <2>1, <2>2, <2>3, <2>4, <2>5 DEF Next, TopoThreadStep
<1>2. PICK b \in TfBuilders : /\ TopoCandidate(TopoStfs[topo], b)
                              /\ topoChosen' = <<[tfBuilder |-> b, answer |-> "NONE"]>>
  BY <1>1 DEF findTfBuilderForTopoStf
<1>3. topoChosen'[1].tfBuilder = b
  BY <1>2
<1>4. [equipment |-> TopoStfs[topo], tfBuilder |-> b] \in mTopoTfBuilders
  BY <1>2 DEF TopoCandidate
<1>5. \A x, y \in mTopoTfBuilders : x.equipment = y.equipment => x = y
  BY DEF Inv, ListType
<1>6. a = [equipment |-> TopoStfs[topo], tfBuilder |-> b]
  BY <1>4, <1>5
<1> QED BY <1>3, <1>6

\* An equipment that has a TfBuilder keeps it, whatever the TfBuilder reports, until that has
\* left the ready list; and its STFs go there.
THEOREM EquipmentsKeepTheirTfBuilder == Spec => SameTfBuilder
<1>1. Inv /\ [Next]_vars =>
        \A a \in mTopoTfBuilders :
          /\ a \in mTopoTfBuilders' \/ ~IsReady(a.tfBuilder)'
          /\ topoChosen = <<>> /\ topoChosen' # <<>> /\ a.equipment = TopoStfs[topo] =>
               topoChosen'[1].tfBuilder = a.tfBuilder
  BY AssignmentEnds, AssignedIsChosen
<1> QED BY <1>1, InitInv, NextInv, PTL DEF Spec, SameTfBuilder

-----------------------------------------------------------------------------
(* The estimates *)

\* Where the TF of the scheduling thread is, when it is given to this TfBuilder: on the way,
\* or taken and not yet recorded.
Waiting(b) == chosen # <<>> /\ chosen[1].tfBuilder = b /\ chosen[1].answer = "NONE"
Taken(b) == chosen # <<>> /\ chosen[1].tfBuilder = b /\ chosen[1].answer \in {"OK", "FAILED"}

\* The TFs come in order, up to that of the scheduling thread.
Reached(b, id) == id < tf \/ (id = tf /\ Taken(b))
InOrder(b) ==
  /\ Reached(b, mLastBuiltTfId[b])
  /\ \A i \in DOMAIN building[b] : Reached(b, building[b][i]) /\ mLastBuiltTfId[b] < building[b][i]
  /\ \A i, j \in DOMAIN building[b] : i < j => building[b][i] < building[b][j]

\* Since a report, the memory became less only by TFs that were built.
Reported(b) ==
  report[b] # <<>> =>
    /\ report[b][1].last_built_tf_id <= mLastBuiltTfId[b]
    /\ report[b][1].last_built_tf_id = mLastBuiltTfId[b] => report[b][1].free_memory <= free[b]

\* The scheduler has recorded all TFs but the one that its thread is at.
Recorded(b, id) == id <= info[b].mLastScheduledTf \/ (id = tf /\ Taken(b))
Marked(b) ==
  /\ Recorded(b, mLastBuiltTfId[b])
  /\ \A i \in DOMAIN building[b] : Recorded(b, building[b][i])

\* The memory of n TFs.
Size(n) == TfSize * n

\* An estimate of the free memory that is too high by one TF at most.
Covered(b, estimate) == estimate + Size(Committed(b)) <= free[b] + TfSize

\* The estimate, and what it would become with the report on the way.
Estimated(b) ==
  /\ Covered(b, info[b].mEstimatedFreeMemory)
  /\ report[b] # <<>> /\ report[b][1].last_built_tf_id >= info[b].mLastScheduledTf
       => Covered(b, report[b][1].free_memory)

Followed(b) == InOrder(b) /\ Reported(b) /\ (IsReady(b) => Marked(b) /\ Estimated(b))

EstimateInv == \A b \in TfBuilders \ disturbed : Followed(b)

LEMMA SizeSteps ==
  /\ \A n \in Nat : Size(n) \in Nat /\ Size(n + 1) = Size(n) + TfSize
  /\ Size(0) = 0 /\ Size(1) = TfSize
  /\ \A n \in Nat \ {0} : Size(n) = Size(n - 1) + TfSize
<1>1. TfSize \in Nat
  BY TfBuilderInfoAssumption
<1>2. \A n \in Nat : Size(n) \in Nat /\ Size(n + 1) = Size(n) + TfSize
  BY <1>1 DEF Size
<1>3. Size(0) = 0 /\ Size(1) = TfSize
  BY <1>1 DEF Size
<1>4. ASSUME NEW n \in Nat \ {0} PROVE Size(n) = Size(n - 1) + TfSize
  <2>1. n - 1 \in Nat /\ (n - 1) + 1 = n
    OBVIOUS
  <2> QED BY <1>2, <2>1
<1> QED BY <1>2, <1>3, <1>4

\* What the scheduler takes off its estimate covers a TF.
LEMMA EstimateCovers == TfSize \in Nat /\ lTfEstSize >= TfSize
<1>1. TfSize \in Nat /\ sTfSizeOverestimatePercent \in Nat
  BY TfBuilderInfoAssumption
<1>2. \A x, y \in Nat : x * y \in Nat /\ x * (y + 100) = x * y + 100 * x
  OBVIOUS
<1>3. PICK z \in Nat : TfSize * (sTfSizeOverestimatePercent + 100) = z + 100 * TfSize
  BY <1>1, <1>2
<1>4. \A x, y \in Nat : (x + 100 * y) \div 100 >= y
  OBVIOUS
<1> QED BY <1>1, <1>3, <1>4 DEF lTfEstSize

\* The state of one TfBuilder.
LEMMA BuilderParts ==
  ASSUME Inv, NEW b \in TfBuilders
  PROVE  /\ free[b] \in Nat /\ mLastBuiltTfId[b] \in Nat
         /\ building[b] \in Seq(Nat) /\ Len(building[b]) \in Nat
         /\ DOMAIN building[b] = 1 .. Len(building[b])
         /\ \A i \in DOMAIN building[b] : building[b][i] \in Nat
         /\ Waiting(b) => Committed(b) = Len(building[b]) + 1
         /\ ~Waiting(b) => Committed(b) = Len(building[b])
         /\ Committed(b) \in Nat
         /\ tf \in Nat
         /\ info[b].mEstimatedFreeMemory \in Nat /\ info[b].mLastScheduledTf \in Nat
         /\ report[b] # <<>> => /\ report[b][1].free_memory \in Nat
                                /\ report[b][1].last_built_tf_id \in Nat
<1>1. /\ free[b] \in Nat /\ mLastBuiltTfId[b] \in Nat
      /\ building[b] \in Seq(Nat) /\ Len(building[b]) \in Nat /\ tf \in Nat
      /\ DOMAIN building[b] = 1 .. Len(building[b])
      /\ \A i \in DOMAIN building[b] : building[b][i] \in Nat
  BY DEF Inv, BuilderType, ThreadType
<1>2. /\ Waiting(b) => Committed(b) = Len(building[b]) + 1
      /\ ~Waiting(b) => Committed(b) = Len(building[b])
  <2>1. Committed(b) = Len(building[b]) + IF Waiting(b) THEN 1 ELSE 0
    BY DEF Committed, Waiting
  <2>2. CASE Waiting(b)
    BY <2>1, <2>2
  <2>3. CASE ~Waiting(b)
    BY <1>1, <2>1, <2>3
  <2> QED BY <2>2, <2>3
<1>3. info[b].mEstimatedFreeMemory \in Nat /\ info[b].mLastScheduledTf \in Nat
  BY InfoFields DEF Inv, InfoType
<1>4. report[b] # <<>> => report[b][1].free_memory \in Nat /\ report[b][1].last_built_tf_id \in Nat
  BY ReportFields, UpdateType DEF Inv
<1>5. Committed(b) \in Nat
  BY <1>1, <1>2
<1> QED BY <1>1, <1>2, <1>3, <1>4, <1>5

-----------------------------------------------------------------------------
(* The estimates, step by step *)

\* Steps of others: this TfBuilder has no more to build, and reaches and records no less.
LEMMA Steady ==
  ASSUME Inv, Inv', NEW b \in TfBuilders, Followed(b),
         building'[b] = building[b], mLastBuiltTfId'[b] = mLastBuiltTfId[b],
         report'[b] = report[b], free'[b] = free[b],
         info'[b].mEstimatedFreeMemory = info[b].mEstimatedFreeMemory,
         info'[b].mLastScheduledTf = info[b].mLastScheduledTf,
         IsReady(b)' => IsReady(b), Waiting(b)' => Waiting(b),
         \A id \in Nat : Reached(b, id) => Reached(b, id)',
         \A id \in Nat : Recorded(b, id) => Recorded(b, id)'
  PROVE  Followed(b)'
<1>1. InOrder(b)'
  BY BuilderParts DEF Followed, InOrder
<1>2. Reported(b)'
  BY DEF Followed, Reported
<1>3. ASSUME IsReady(b) PROVE Marked(b)'
  BY <1>3, BuilderParts DEF Followed, Marked
<1>4. ASSUME NEW e \in Nat, Covered(b, e) PROVE Covered(b, e)'
  <2>1. /\ Waiting(b)' => Committed(b)' = Len(building[b]) + 1
        /\ ~Waiting(b)' => Committed(b)' = Len(building[b])
    <3>1. Committed(b)' = Len(building[b]) + IF Waiting(b)' THEN 1 ELSE 0
      BY DEF Committed, Waiting
    <3>2. CASE Waiting(b)'
      BY <3>1, <3>2
    <3>3. CASE ~Waiting(b)'
      BY <3>1, <3>3, BuilderParts
    <3> QED BY <3>2, <3>3
  <2>2. Committed(b)' = Committed(b) \/ (Committed(b)' + 1 = Committed(b) /\ Committed(b)' \in Nat)
    BY <2>1, BuilderParts
  <2>3. Size(Committed(b)') \in Nat /\ Size(Committed(b)') <= Size(Committed(b))
    <3>1. TfSize \in Nat /\ \A n \in Nat : Size(n) \in Nat /\ Size(n + 1) = Size(n) + TfSize
      BY SizeSteps, EstimateCovers
    <3>2. CASE Committed(b)' = Committed(b)
      BY <3>1, <3>2, BuilderParts
    <3>3. CASE Committed(b)' + 1 = Committed(b) /\ Committed(b)' \in Nat
      BY <3>1, <3>3
    <3> QED BY <2>2, <3>2, <3>3
  <2>4. Size(Committed(b)) \in Nat /\ free[b] \in Nat /\ TfSize \in Nat
    BY BuilderParts, SizeSteps, EstimateCovers
  <2>5. e + Size(Committed(b)) <= free[b] + TfSize
    BY <1>4 DEF Covered
  <2>6. e + Size(Committed(b)') <= free[b] + TfSize
    BY <2>3, <2>4, <2>5
  <2>7. Size(Committed(b))' = Size(Committed(b)')
    BY DEF Size
  <2> QED BY <2>6, <2>7 DEF Covered
<1>5. ASSUME IsReady(b) PROVE Estimated(b)'
  BY <1>4, <1>5, BuilderParts DEF Followed, Estimated
<1> QED BY <1>1, <1>2, <1>3, <1>5 DEF Followed

LEMMA CoveredNext ==
  ASSUME NEW b, NEW e
  PROVE  Covered(b, e)' <=> e + Size(Committed(b)') <= free'[b] + TfSize
BY DEF Covered, Size

\* The scheduling thread is at the same TF.
LEMMA Idle ==
  ASSUME Inv, Inv', NEW b \in TfBuilders, Followed(b), UNCHANGED <<chosen, tf>>,
         building'[b] = building[b], mLastBuiltTfId'[b] = mLastBuiltTfId[b],
         report'[b] = report[b], free'[b] = free[b],
         info'[b].mEstimatedFreeMemory = info[b].mEstimatedFreeMemory,
         info'[b].mLastScheduledTf = info[b].mLastScheduledTf,
         IsReady(b)' => IsReady(b)
  PROVE  Followed(b)'
<1>1. Waiting(b)' => Waiting(b)
  BY DEF Waiting
<1>2. \A id \in Nat : Reached(b, id) => Reached(b, id)'
  BY DEF Reached, Taken
<1>3. \A id \in Nat : Recorded(b, id) => Recorded(b, id)'
  BY DEF Recorded, Taken
<1> QED BY <1>1, <1>2, <1>3, Steady

\* A TfBuilder that built all that the scheduler recorded has no TF but that of the
\* scheduling thread.
LEMMA CaughtUp ==
  ASSUME Inv, NEW b \in TfBuilders, InOrder(b), Marked(b),
         mLastBuiltTfId[b] >= info[b].mLastScheduledTf
  PROVE  Committed(b) <= 1 /\ (chosen = <<>> => Committed(b) = 0)
<1>1. \A i \in DOMAIN building[b] : building[b][i] = tf /\ Taken(b)
  BY BuilderParts DEF InOrder, Marked, Recorded
<1>2. CASE Len(building[b]) = 0
  <2>1. Committed(b) <= 1
    BY <1>2, BuilderParts
  <2>2. chosen = <<>> => ~Waiting(b)
    BY DEF Waiting
  <2> QED BY <1>2, <2>1, <2>2, BuilderParts
<1>3. CASE Len(building[b]) = 1
  <2>0. 1 \in DOMAIN building[b]
    BY <1>3, BuilderParts
  <2>1. Taken(b)
    BY <1>1, <2>0
  <2>2. ~Waiting(b) /\ chosen # <<>>
    BY <2>1 DEF Taken, Waiting
  <2> QED BY <1>3, <2>2, BuilderParts
<1>4. CASE Len(building[b]) >= 2
  <2>1. 1 \in DOMAIN building[b] /\ 2 \in DOMAIN building[b]
    BY <1>4, BuilderParts
  <2>2. building[b][1] = tf /\ building[b][2] = tf /\ building[b][1] < building[b][2] /\ tf \in Nat
    BY <1>1, <2>1, BuilderParts DEF InOrder
  <2> QED BY <2>2
<1>5. Len(building[b]) \in Nat
  BY BuilderParts
<1> QED BY <1>2, <1>3, <1>4, <1>5

\* The TfBuilder reports: what the report says is below the estimate by what is recorded.
LEMMA ReportFollowed ==
  ASSUME Inv, Inv', NEW b \in TfBuilders, Followed(b), NEW r, report'[b] = <<Report(b, r)>>,
         UNCHANGED <<schedulerVars, threadVars, tfBuilderVars>>
  PROVE  Followed(b)'
<1>1. /\ UNCHANGED <<mReadyTfBuilders, info, tf, chosen, free, building, mLastBuiltTfId>>
      /\ report'[b][1].free_memory = free[b] /\ report'[b][1].last_built_tf_id = mLastBuiltTfId[b]
  BY DEF schedulerVars, threadVars, tfBuilderVars, Report
<1>2. InOrder(b)'
  BY <1>1 DEF Followed, InOrder, Reached, Taken
<1>3. Reported(b)'
  BY <1>1, BuilderParts DEF Reported
<1>4. ASSUME IsReady(b) PROVE Marked(b)'
  BY <1>1, <1>4 DEF Followed, Marked, Recorded, Taken
<1>5. ASSUME IsReady(b) PROVE Estimated(b)'
  <2>1. \A e : Covered(b, e) => Covered(b, e)'
    BY <1>1 DEF Covered, Committed
  <2>2. ASSUME mLastBuiltTfId[b] >= info[b].mLastScheduledTf PROVE Covered(b, free[b])
    <3>1. Committed(b) \in Nat /\ Committed(b) <= 1
      BY <1>5, <2>2, CaughtUp, BuilderParts DEF Followed
    <3>2. Committed(b) = 0 \/ Committed(b) = 1
      BY <3>1
    <3>3. Size(Committed(b)) = 0 \/ Size(Committed(b)) = TfSize
      BY <3>2, SizeSteps
    <3>5. TfSize \in Nat /\ free[b] \in Nat
      BY EstimateCovers, BuilderParts
    <3>4. free[b] + Size(Committed(b)) <= free[b] + TfSize
      BY <3>3, <3>5
    <3> QED BY <3>4 DEF Covered
  <2>3. Covered(b, info[b].mEstimatedFreeMemory)
    BY <1>5 DEF Followed, Estimated
  <2>4. Covered(b, info[b].mEstimatedFreeMemory)'
    BY <1>1, <2>1, <2>3
  <2>5. mLastBuiltTfId[b] >= info[b].mLastScheduledTf => Covered(b, report[b][1].free_memory)'
    BY <1>1, <2>1, <2>2
  <2> QED BY <1>1, <2>4, <2>5 DEF Estimated
<1>6. IsReady(b)' => IsReady(b)
  BY <1>1 DEF IsReady
<1> QED BY <1>2, <1>3, <1>4, <1>5, <1>6 DEF Followed

\* A report arrives or is lost.
LEMMA NoReportFollowed ==
  ASSUME Inv, Inv', NEW b \in TfBuilders, Followed(b), report'[b] = <<>>,
         UNCHANGED <<schedulerVars, threadVars, tfBuilderVars>>
  PROVE  Followed(b)'
<1>1. UNCHANGED <<mReadyTfBuilders, info, tf, chosen, free, building, mLastBuiltTfId>>
  BY DEF schedulerVars, threadVars, tfBuilderVars
<1>2. InOrder(b)' /\ Reported(b)'
  BY <1>1 DEF Followed, InOrder, Reached, Taken, Reported
<1>3. ASSUME IsReady(b) PROVE Marked(b)' /\ Estimated(b)'
  BY <1>1, <1>3 DEF Followed, Marked, Recorded, Taken, Estimated, Covered, Committed
<1>4. IsReady(b)' => IsReady(b)
  BY <1>1 DEF IsReady
<1> QED BY <1>2, <1>3, <1>4 DEF Followed

LEMMA TailParts ==
  ASSUME NEW q \in Seq(Nat), q # <<>>
  PROVE  /\ Len(q) \in Nat \ {0} /\ Tail(q) \in Seq(Nat) /\ Len(Tail(q)) = Len(q) - 1
         /\ Head(q) = q[1] /\ 1 \in DOMAIN q
         /\ DOMAIN Tail(q) = 1 .. (Len(q) - 1)
         /\ \A i \in DOMAIN Tail(q) : i + 1 \in DOMAIN q /\ i + 1 > 1 /\ Tail(q)[i] = q[i + 1]
<1>1. Len(q) \in Nat /\ Len(q) # 0
  BY EmptySeq
<1>2. Tail(q) \in Seq(Nat) /\ Len(Tail(q)) = Len(q) - 1 /\ Head(q) = q[1]
      /\ \A i \in 1 .. Len(Tail(q)) : Tail(q)[i] = q[i + 1]
  BY HeadTailProperties
<1>3. DOMAIN Tail(q) = 1 .. (Len(q) - 1) /\ DOMAIN q = 1 .. Len(q)
  BY <1>1, <1>2
<1> QED BY <1>1, <1>2, <1>3

\* A TF leaves those in building, and at most its size is taken.
LEMMA LeavesBuilding ==
  ASSUME Inv, Inv', NEW b \in TfBuilders, Followed(b), building[b] # <<>>,
         building'[b] = Tail(building[b]),
         mLastBuiltTfId'[b] \in {mLastBuiltTfId[b], Head(building[b])},
         mLastBuiltTfId'[b] = mLastBuiltTfId[b] => free'[b] = free[b],
         free[b] <= free'[b] + TfSize,
         UNCHANGED <<schedulerVars, threadVars, report>>
  PROVE  Followed(b)'
<1> DEFINE q == building[b]
<1>1. q \in Seq(Nat) /\ q # <<>>
  BY BuilderParts
<1>2. /\ Len(q) \in Nat \ {0} /\ Tail(q) \in Seq(Nat) /\ Len(Tail(q)) = Len(q) - 1
      /\ Head(q) = q[1] /\ 1 \in DOMAIN q
      /\ \A i \in DOMAIN Tail(q) :
           i \in Nat /\ i + 1 \in DOMAIN q /\ i + 1 > 1 /\ Tail(q)[i] = q[i + 1]
  <2>1. \A i \in DOMAIN Tail(q) : i \in Nat
    BY <1>1, TailParts
  <2> QED BY <1>1, <2>1, TailParts
<1>3. UNCHANGED <<mReadyTfBuilders, info, tf, chosen, report>>
  BY DEF schedulerVars, threadVars
<1>4. building'[b] = Tail(q) /\ mLastBuiltTfId'[b] \in {mLastBuiltTfId[b], q[1]}
  BY <1>2
<1>5. /\ Reached(b, mLastBuiltTfId[b])
      /\ \A i \in DOMAIN q : Reached(b, q[i]) /\ mLastBuiltTfId[b] < q[i]
      /\ \A i, j \in DOMAIN q : i < j => q[i] < q[j]
  BY DEF Followed, InOrder
<1>6. \A i \in DOMAIN q : q[i] \in Nat
  BY BuilderParts
<1> HIDE DEF q
<1>7. \A id : Reached(b, id) => Reached(b, id)'
  BY <1>3 DEF Reached, Taken
<1>8. \A id : Recorded(b, id) => Recorded(b, id)'
  BY <1>3 DEF Recorded, Taken
<1>9. InOrder(b)'
  <2>1. Reached(b, mLastBuiltTfId'[b])
    BY <1>2, <1>4, <1>5
  <2>2. ASSUME NEW i \in DOMAIN Tail(q)
        PROVE  Reached(b, Tail(q)[i]) /\ mLastBuiltTfId'[b] < Tail(q)[i]
    <3>1. i + 1 \in DOMAIN q /\ 1 < i + 1 /\ Tail(q)[i] = q[i + 1] /\ 1 \in DOMAIN q
      BY <1>2
    <3>2. q[1] < q[i + 1] /\ mLastBuiltTfId[b] < q[i + 1] /\ Reached(b, q[i + 1])
      BY <1>5, <3>1
    <3> QED BY <1>4, <3>1, <3>2
  <2>3. ASSUME NEW i \in DOMAIN Tail(q), NEW j \in DOMAIN Tail(q), i < j
        PROVE  Tail(q)[i] < Tail(q)[j]
    <3>1. i + 1 \in DOMAIN q /\ j + 1 \in DOMAIN q /\ i + 1 < j + 1
          /\ Tail(q)[i] = q[i + 1] /\ Tail(q)[j] = q[j + 1]
      BY <1>2, <2>3
    <3> QED BY <1>5, <3>1
  <2>4. Reached(b, mLastBuiltTfId[b])' /\ \A i \in DOMAIN Tail(q) : Reached(b, building[b][i])'
    BY <1>4, <1>7, <2>1, <2>2
  <2> QED BY <1>4, <2>2, <2>3, <2>4 DEF InOrder
<1>10. Reported(b)'
  <2>1. CASE report[b] = <<>>
    BY <1>3, <2>1 DEF Reported
  <2>2. CASE report[b] # <<>>
    <3>1. /\ report[b][1].last_built_tf_id <= mLastBuiltTfId[b]
          /\ report[b][1].last_built_tf_id = mLastBuiltTfId[b] => report[b][1].free_memory <= free[b]
      BY <2>2 DEF Followed, Reported
    <3>2. report[b][1].last_built_tf_id \in Nat /\ mLastBuiltTfId[b] \in Nat
      BY <2>2, BuilderParts
    <3>3. CASE mLastBuiltTfId'[b] = mLastBuiltTfId[b]
      BY <1>3, <3>1, <3>3 DEF Reported
    <3>4. CASE mLastBuiltTfId'[b] = q[1]
      <4>1. mLastBuiltTfId[b] < q[1] /\ q[1] \in Nat
        BY <1>2, <1>5, <1>6
      <4>2. report[b][1].last_built_tf_id < mLastBuiltTfId'[b]
        BY <3>1, <3>2, <3>4, <4>1
      <4>3. /\ report[b][1].last_built_tf_id <= mLastBuiltTfId'[b]
            /\ report[b][1].last_built_tf_id # mLastBuiltTfId'[b]
        BY <3>2, <3>4, <4>1, <4>2
      <4> QED BY <1>3, <4>3 DEF Reported
    <3> QED BY <1>4, <3>3, <3>4
  <2> QED BY <2>1, <2>2
<1>11. ASSUME IsReady(b) PROVE Marked(b)'
  <2>1. Recorded(b, mLastBuiltTfId[b]) /\ \A i \in DOMAIN q : Recorded(b, q[i])
    BY <1>11 DEF Followed, Marked, q
  <2>2. Recorded(b, mLastBuiltTfId'[b]) /\ \A i \in DOMAIN Tail(q) : Recorded(b, Tail(q)[i])
    BY <1>2, <1>4, <2>1
  <2>3. Recorded(b, mLastBuiltTfId[b])' /\ \A i \in DOMAIN Tail(q) : Recorded(b, building[b][i])'
    BY <1>4, <1>8, <2>2
  <2> QED BY <1>4, <2>3 DEF Marked
<1>12. ASSUME NEW e \in Nat, Covered(b, e) PROVE Covered(b, e)'
  <2>1. /\ Committed(b) \in Nat \ {0} /\ Committed(b)' = Committed(b) - 1
        /\ Committed(b)' \in Nat
    <3>1. Waiting(b)' <=> Waiting(b)
      BY <1>3 DEF Waiting
    <3>2. Len(building[b]) \in Nat \ {0} /\ Len(building'[b]) = Len(building[b]) - 1
          /\ Len(building'[b]) \in Nat
      BY <1>2, <1>4 DEF q
    <3>3. /\ Waiting(b) => Committed(b)' = Len(building'[b]) + 1
          /\ ~Waiting(b) => Committed(b)' = Len(building'[b])
      <4>1. Committed(b)' = Len(building'[b]) + IF Waiting(b)' THEN 1 ELSE 0
        BY DEF Committed, Waiting
      <4>2. CASE Waiting(b)
        BY <3>1, <4>1, <4>2
      <4>3. CASE ~Waiting(b)
        <5>1. ~Waiting(b)'
          BY <3>1, <4>3
        <5>2. Committed(b)' = Len(building'[b]) + 0
          BY <4>1, <5>1
        <5> QED BY <3>2, <4>3, <5>2
      <4> QED BY <4>2, <4>3
    <3>4. /\ Waiting(b) => Committed(b) = Len(building[b]) + 1
          /\ ~Waiting(b) => Committed(b) = Len(building[b])
      BY BuilderParts
    <3> QED BY <3>2, <3>3, <3>4
  <2>2. Size(Committed(b)) = Size(Committed(b)') + TfSize /\ Size(Committed(b)') \in Nat
    BY <2>1, SizeSteps
  <2>3. e + Size(Committed(b)) <= free[b] + TfSize
    BY <1>12 DEF Covered
  <2>4. free[b] \in Nat /\ free'[b] \in Nat /\ TfSize \in Nat
    BY EstimateCovers, BuilderParts DEF Inv, BuilderType
  <2>5. e + Size(Committed(b)') <= free'[b] + TfSize
    BY <2>2, <2>3, <2>4
  <2> QED BY <2>5, CoveredNext
<1>13. ASSUME IsReady(b) PROVE Estimated(b)'
  <2>1. Covered(b, info[b].mEstimatedFreeMemory)'
    BY <1>3, <1>12, <1>13, BuilderParts DEF Followed, Estimated
  <2>2. report[b] # <<>> /\ report[b][1].last_built_tf_id >= info[b].mLastScheduledTf
          => Covered(b, report[b][1].free_memory)'
    BY <1>3, <1>12, <1>13, BuilderParts DEF Followed, Estimated
  <2> QED BY <1>3, <2>1, <2>2 DEF Estimated
<1>14. IsReady(b)' => IsReady(b)
  BY <1>3 DEF IsReady
<1> QED BY <1>9, <1>10, <1>11, <1>13, <1>14 DEF Followed

\* A TF is forwarded: there is more memory.
LEMMA ForwardedFollowed ==
  ASSUME Inv, Inv', NEW b \in TfBuilders, Followed(b), NEW id, recordTfForwarded(b, id)
  PROVE  Followed(b)'
<1>1. /\ UNCHANGED <<mReadyTfBuilders, info, tf, chosen, report, building, mLastBuiltTfId>>
      /\ free' = [free EXCEPT ![b] = @ + TfSize]
  BY DEF recordTfForwarded, schedulerVars, threadVars
<1>2. free[b] \in Nat /\ TfSize \in Nat /\ free'[b] = free[b] + TfSize
  BY <1>1, BuilderParts, EstimateCovers DEF Inv, BuilderType
<1>3. InOrder(b)'
  BY <1>1 DEF Followed, InOrder, Reached, Taken
<1>4. Reported(b)'
  BY <1>1, <1>2, BuilderParts DEF Followed, Reported
<1>5. ASSUME NEW e \in Nat, Covered(b, e) PROVE Covered(b, e)'
  <2>1. Committed(b)' = Committed(b)
    BY <1>1 DEF Committed
  <2>2. Size(Committed(b)) \in Nat
    BY SizeSteps, BuilderParts
  <2>3. e + Size(Committed(b)) <= free'[b] + TfSize
    BY <1>2, <1>5, <2>2 DEF Covered
  <2> QED BY <2>1, <2>3, CoveredNext
<1>6. ASSUME IsReady(b) PROVE Marked(b)' /\ Estimated(b)'
  <2>1. Marked(b)'
    BY <1>1, <1>6 DEF Followed, Marked, Recorded, Taken
  <2>2. Covered(b, info[b].mEstimatedFreeMemory)'
    BY <1>1, <1>5, <1>6, BuilderParts DEF Followed, Estimated
  <2>3. report[b] # <<>> /\ report[b][1].last_built_tf_id >= info[b].mLastScheduledTf
          => Covered(b, report[b][1].free_memory)'
    BY <1>1, <1>5, <1>6, BuilderParts DEF Followed, Estimated
  <2> QED BY <1>1, <2>1, <2>2, <2>3 DEF Estimated
<1>7. IsReady(b)' => IsReady(b)
  BY <1>1 DEF IsReady
<1> QED BY <1>3, <1>4, <1>6, <1>7 DEF Followed

\* The TfBuilder itself: the steps that do not reset it.
LEMMA OwnStepFollowed ==
  ASSUME Inv, Inv', NEW b \in TfBuilders, Followed(b), TfBuilderStep(b), b \notin disturbed'
  PROVE  Followed(b)'
<1>1. building[b] # <<>> => Head(building[b]) \in Nat /\ mLastBuiltTfId[b] < Head(building[b])
  BY BuilderParts, TailParts DEF Followed, InOrder
<1>2. CASE sendTfBuilderUpdate(b) \/ startAcceptingTfs(b) \/ stopAcceptingTfs(b)
  <2>1. \E r : report'[b] = <<Report(b, r)>>
    BY <1>2 DEF sendTfBuilderUpdate, startAcceptingTfs, stopAcceptingTfs, Inv, ReportType
  <2>2. UNCHANGED <<schedulerVars, threadVars, tfBuilderVars>>
    BY <1>2 DEF sendTfBuilderUpdate, startAcceptingTfs, stopAcceptingTfs
  <2> QED BY <2>1, <2>2, ReportFollowed
<1>3. CASE reset_run_counters(b)
  BY <1>3 DEF reset_run_counters
<1>4. CASE recordTfBuilt(b)
  <2>1. /\ building[b] # <<>>
        /\ free' = [free EXCEPT ![b] = IF @ >= TfSize THEN @ - TfSize ELSE 0]
        /\ mLastBuiltTfId' = [mLastBuiltTfId EXCEPT ![b] =
             IF Head(building[b]) > @ THEN Head(building[b]) ELSE @]
        /\ building' = [building EXCEPT ![b] = Tail(@)]
        /\ UNCHANGED <<schedulerVars, threadVars, report>>
    BY <1>4 DEF recordTfBuilt
  <2>2. building'[b] = Tail(building[b])
    BY <2>1 DEF Inv, BuilderType
  <2>3. mLastBuiltTfId'[b] = Head(building[b]) /\ mLastBuiltTfId'[b] # mLastBuiltTfId[b]
    BY <1>1, <2>1, BuilderParts DEF Inv, BuilderType
  <2>4. free[b] <= free'[b] + TfSize
    BY <2>1, BuilderParts, EstimateCovers DEF Inv, BuilderType
  <2> QED BY <2>1, <2>2, <2>3, <2>4, LeavesBuilding
<1>5. CASE GiveUp(b)
  <2>1. building[b] # <<>> /\ building'[b] = Tail(building[b])
    BY <1>5 DEF GiveUp, Inv, BuilderType
  <2>2. UNCHANGED <<schedulerVars, threadVars, report, mLastBuiltTfId, free>>
    BY <1>5 DEF GiveUp
  <2>3. free[b] <= free[b] + TfSize
    BY BuilderParts, EstimateCovers
  <2> QED BY <2>1, <2>2, <2>3, LeavesBuilding
<1>6. CASE Die(b)
  <2>1. UNCHANGED <<mReadyTfBuilders, info, chosen, tf, building, mLastBuiltTfId, report, free>>
    BY <1>6 DEF Die, schedulerVars, threadVars, tfBuilderVars
  <2> QED BY <2>1, Idle DEF IsReady
<1>7. CASE LoseUpdate(b)
  <2>1. report'[b] = <<>> /\ UNCHANGED <<schedulerVars, threadVars, tfBuilderVars>>
    BY <1>7 DEF LoseUpdate, Inv, ReportType
  <2> QED BY <2>1, NoReportFollowed
<1>8. ASSUME NEW id \in buffered[b], recordTfForwarded(b, id) PROVE Followed(b)'
  BY <1>8, ForwardedFollowed
<1> QED BY <1>2, <1>3, <1>4, <1>5, <1>6, <1>7, <1>8 DEF TfBuilderStep

\* The steps of another TfBuilder.
LEMMA OtherStepFollowed ==
  ASSUME Inv, Inv', NEW b \in TfBuilders, Followed(b), NEW c \in TfBuilders \ {b},
         TfBuilderStep(c)
  PROVE  Followed(b)'
<1>1. UNCHANGED <<mReadyTfBuilders, info, chosen, tf>>
  BY DEF TfBuilderStep, sendTfBuilderUpdate, startAcceptingTfs, stopAcceptingTfs,
     reset_run_counters, recordTfBuilt, GiveUp, Die, LoseUpdate, recordTfForwarded,
     schedulerVars, threadVars
<1>2. building'[b] = building[b] /\ mLastBuiltTfId'[b] = mLastBuiltTfId[b]
  BY DEF TfBuilderStep, sendTfBuilderUpdate, startAcceptingTfs, stopAcceptingTfs,
     reset_run_counters, recordTfBuilt, GiveUp, Die, LoseUpdate, recordTfForwarded,
     tfBuilderVars, Inv, BuilderType
<1>3. report'[b] = report[b] /\ free'[b] = free[b]
  BY DEF TfBuilderStep, sendTfBuilderUpdate, startAcceptingTfs, stopAcceptingTfs,
     reset_run_counters, recordTfBuilt, GiveUp, Die, LoseUpdate, recordTfForwarded,
     tfBuilderVars, Inv, BuilderType, ReportType
<1> QED BY <1>1, <1>2, <1>3, Idle DEF IsReady

\* A report of the TfBuilder arrives: it leaves, joins, or its estimate becomes what the
\* report allows.
LEMMA UpdateFollowed ==
  ASSUME Inv, Inv', NEW b \in TfBuilders, Followed(b), updateTfBuilderInfo(b), b \notin disturbed'
  PROVE  Followed(b)'
<1> DEFINE update == report[b][1]
<1>1. /\ report[b] # <<>> /\ report'[b] = <<>>
      /\ UNCHANGED <<tf, chosen, building, free, mLastBuiltTfId, buffered>>
      /\ \/ RemoveTfBuilder(b)
         \/ b \notin mGlobalInfo /\ AddTfBuilder(b, update)
         \/ b \in mGlobalInfo /\ UpdateTfBuilder(b, update)
  BY DEF updateTfBuilderInfo, threadVars, tfBuilderVars, Inv, ReportType
<1>2. InOrder(b)' /\ Reported(b)'
  BY <1>1 DEF Followed, InOrder, Reached, Taken, Reported
<1>3. \A e : Covered(b, e) => Covered(b, e)'
  BY <1>1 DEF Covered, Committed
<1>4. update.free_memory \in Nat /\ update.last_built_tf_id \in Nat
  BY <1>1, BuilderParts
<1>5. /\ update.last_built_tf_id <= mLastBuiltTfId[b]
      /\ update.last_built_tf_id = mLastBuiltTfId[b] => update.free_memory <= free[b]
  BY <1>1 DEF Followed, Reported
<1> HIDE DEF update
<1>6. CASE RemoveTfBuilder(b)
  <2>1. ~IsReady(b)'
    <3>1. CASE b \in mGlobalInfo
      BY <1>6, <3>1, Removed DEF RemoveTfBuilder, Inv
    <3>2. CASE b \notin mGlobalInfo
      BY <1>6, <3>2 DEF RemoveTfBuilder, Inv, Listed, IsReady
    <3> QED BY <3>1, <3>2
  <2> QED BY <1>2, <2>1 DEF Followed
<1>7. CASE b \notin mGlobalInfo /\ AddTfBuilder(b, update)
  <2>1. /\ building[b] = <<>> /\ mLastBuiltTfId[b] = 0
        /\ chosen = <<>> \/ chosen[1].tfBuilder # b
        /\ info' = [info EXCEPT ![b] = NewInfo(update.free_memory)]
    BY <1>7 DEF AddTfBuilder
  <2>2. info'[b].mEstimatedFreeMemory = update.free_memory /\ info'[b].mLastScheduledTf = 0
    BY <2>1 DEF NewInfo, Inv, InfoType
  <2>3. Marked(b)'
    BY <1>1, <2>1, <2>2 DEF Marked, Recorded
  <2>4. Committed(b) = 0
    BY <2>1, EmptySeq DEF Committed
  <2>5. update.free_memory <= free[b]
    BY <1>4, <1>5, <2>1
  <2>6. Covered(b, update.free_memory)
    <3>1. TfSize \in Nat /\ free[b] \in Nat /\ Size(0) = 0
      BY EstimateCovers, SizeSteps, BuilderParts
    <3> QED BY <1>4, <2>4, <2>5, <3>1 DEF Covered
  <2>7. Estimated(b)'
    BY <1>1, <1>3, <2>2, <2>6 DEF Estimated
  <2> QED BY <1>2, <2>3, <2>7 DEF Followed
<1>8. CASE b \in mGlobalInfo /\ UpdateTfBuilder(b, update)
  <2>1. /\ info'[b].mEstimatedFreeMemory = NewEstimate(info[b], update)
        /\ info'[b].mLastScheduledTf = info[b].mLastScheduledTf
        /\ UNCHANGED mReadyTfBuilders
    BY <1>8 DEF UpdateTfBuilder, Inv, InfoType, Infos
  <2>2. IsReady(b)' => IsReady(b)
    BY <2>1 DEF IsReady
  <2>3. ASSUME IsReady(b) PROVE Marked(b)'
    BY <1>1, <2>1, <2>3 DEF Followed, Marked, Recorded, Taken
  <2>4. ASSUME IsReady(b) PROVE Covered(b, NewEstimate(info[b], update))
    <3>1. /\ Covered(b, info[b].mEstimatedFreeMemory)
          /\ update.last_built_tf_id >= info[b].mLastScheduledTf => Covered(b, update.free_memory)
      BY <1>1, <2>4 DEF Followed, Estimated, update
    <3>2. /\ info[b].mEstimatedFreeMemory \in Nat /\ info[b].mLastScheduledTf \in Nat
          /\ Size(Committed(b)) \in Nat /\ TfSize \in Nat /\ free[b] \in Nat
      BY BuilderParts, SizeSteps, EstimateCovers
    <3>3. CASE update.last_built_tf_id = info[b].mLastScheduledTf
      BY <1>4, <3>1, <3>2, <3>3 DEF NewEstimate
    <3>4. CASE /\ update.last_built_tf_id < info[b].mLastScheduledTf
               /\ info[b].mEstimatedFreeMemory > update.free_memory
      <4>1. update.free_memory + Size(Committed(b)) <= free[b] + TfSize
        BY <1>4, <3>1, <3>2, <3>4 DEF Covered
      <4> QED BY <3>4, <4>1 DEF NewEstimate, Covered
    <3>5. CASE /\ update.last_built_tf_id # info[b].mLastScheduledTf
               /\ ~(update.last_built_tf_id < info[b].mLastScheduledTf
                      /\ info[b].mEstimatedFreeMemory > update.free_memory)
      BY <3>1, <3>5 DEF NewEstimate
    <3> QED BY <3>3, <3>4, <3>5
  <2>5. ASSUME IsReady(b) PROVE Estimated(b)'
    BY <1>1, <1>3, <2>1, <2>4, <2>5 DEF Estimated
  <2> QED BY <1>2, <2>2, <2>3, <2>5 DEF Followed
<1> QED BY <1>1, <1>6, <1>7, <1>8

\* Reports of another TfBuilder, and the housekeeping.
LEMMA OtherUpdateFollowed ==
  ASSUME Inv, Inv', NEW b \in TfBuilders, Followed(b), NEW c \in TfBuilders,
         (c # b /\ updateTfBuilderInfo(c)) \/ EraseStale(c)
  PROVE  Followed(b)'
<1>1. /\ UNCHANGED <<chosen, tf, building, mLastBuiltTfId, free>>
      /\ report'[b] = report[b]
  BY DEF updateTfBuilderInfo, EraseStale, threadVars, tfBuilderVars, Inv, ReportType
<1>2. /\ info'[b].mEstimatedFreeMemory = info[b].mEstimatedFreeMemory
      /\ info'[b].mLastScheduledTf = info[b].mLastScheduledTf
  BY DEF updateTfBuilderInfo, EraseStale, RemoveTfBuilder, AddTfBuilder, UpdateTfBuilder, Inv, InfoType
<1>3. IsReady(b)' => IsReady(b)
  <2>1. CASE EraseStale(c)
    BY <2>1, Removed DEF EraseStale, Inv
  <2>2. CASE c # b /\ RemoveTfBuilder(c)
    <3>1. removeReadyTfBuilder(c) \/ UNCHANGED mReadyTfBuilders
      BY <2>2 DEF RemoveTfBuilder
    <3> QED BY <3>1, Removed DEF IsReady, Inv
  <2>3. CASE c # b /\ c \notin mGlobalInfo /\ AddTfBuilder(c, report[c][1]) /\ UNCHANGED lIdsToErase
    BY <2>3, JoinedLists DEF AddTfBuilder, Inv
  <2>4. CASE UpdateTfBuilder(c, report[c][1])
    BY <2>4 DEF UpdateTfBuilder, IsReady
  <2> QED BY <2>1, <2>2, <2>3, <2>4 DEF updateTfBuilderInfo
<1> QED BY <1>1, <1>2, <1>3, Idle

\* The scheduling thread finds another TfBuilder, or none.
LEMMA FindOther ==
  ASSUME Inv, Inv', NEW b \in TfBuilders, Followed(b), findTfBuilderForTf,
         chosen' = <<>> \/ chosen'[1].tfBuilder # b
  PROVE  Followed(b)'
<1>1. /\ chosen = <<>> /\ tf \in Nat /\ (tf' = tf \/ tf' = tf + 1)
      /\ UNCHANGED <<building, mLastBuiltTfId, free, report>>
  BY BuilderParts DEF findTfBuilderForTf, tfBuilderVars
<1> DEFINE kept == /\ info'[b].mEstimatedFreeMemory = info[b].mEstimatedFreeMemory
                   /\ info'[b].mLastScheduledTf = info[b].mLastScheduledTf
                   /\ IsReady(b)' => IsReady(b)
<1>2. kept
  <2>1. CASE UNCHANGED <<info, mReadyTfBuilders>>
    BY <2>1 DEF IsReady
  <2>2. ASSUME NEW i \in DOMAIN mReadyTfBuilders, ChooseTfBuilder(i),
               chosen' = <<[tfBuilder |-> mReadyTfBuilders[i], answer |-> "NONE"]>>
        PROVE  kept
    <3>1. mReadyTfBuilders[i] # b /\ mReadyTfBuilders[i] \in TfBuilders
      BY <2>2 DEF Inv, ListType
    <3>2. UNCHANGED <<mGlobalInfo, mTopoTfBuilders, lIdsToErase>>
      BY DEF findTfBuilderForTf
    <3>3. \A c : IsReady(c)' <=> IsReady(c)
      BY <2>2, <3>2, ChosenLists DEF Inv
    <3> QED BY <2>2, <3>1, <3>3 DEF ChooseTfBuilder, Inv, InfoType
  <2> QED BY <2>1, <2>2 DEF findTfBuilderForTf
<1>3. ~Taken(b) /\ ~Taken(b)' /\ ~Waiting(b)'
  BY <1>1 DEF Taken, Waiting
<1>4. \A id \in Nat : Reached(b, id) => Reached(b, id)'
  BY <1>1, <1>3 DEF Reached
<1>5. \A id \in Nat : Recorded(b, id) => Recorded(b, id)'
  BY <1>2, <1>3 DEF Recorded
<1> QED BY <1>1, <1>2, <1>3, <1>4, <1>5, Steady

\* The scheduling thread takes more than the size of the TF off the estimate.
LEMMA FindFollowed ==
  ASSUME Inv, Inv', NEW b \in TfBuilders, Followed(b), findTfBuilderForTf
  PROVE  Followed(b)'
<1>1. CASE chosen' = <<>> \/ chosen'[1].tfBuilder # b
  BY <1>1, FindOther
<1>2. CASE chosen' # <<>> /\ chosen'[1].tfBuilder = b
  <2>1. chosen = <<>> /\ UNCHANGED <<building, mLastBuiltTfId, free, report>>
    BY DEF findTfBuilderForTf, tfBuilderVars
  <2>2. PICK i \in DOMAIN mReadyTfBuilders :
          /\ HasRoom(mReadyTfBuilders[i]) /\ ChooseTfBuilder(i) /\ UNCHANGED tf
          /\ chosen' = <<[tfBuilder |-> mReadyTfBuilders[i], answer |-> "NONE"]>>
    BY <1>2, <2>1 DEF findTfBuilderForTf
  <2>3. mReadyTfBuilders[i] = b
    BY <1>2, <2>2
  <2>4. /\ info'[b].mEstimatedFreeMemory = info[b].mEstimatedFreeMemory - lTfEstSize
        /\ info'[b].mLastScheduledTf = info[b].mLastScheduledTf
        /\ info[b].mEstimatedFreeMemory >= lTfEstSize
    BY <2>2, <2>3 DEF ChooseTfBuilder, HasRoom, Inv, InfoType, Infos
  <2>5. IsReady(b)
    BY <2>3 DEF IsReady
  <2>6. ~Taken(b) /\ ~Taken(b)' /\ ~Waiting(b) /\ Waiting(b)'
    BY <1>2, <2>1, <2>2 DEF Taken, Waiting
  <2>7. InOrder(b)'
    BY <2>1, <2>2, <2>6 DEF Followed, InOrder, Reached
  <2>8. Reported(b)'
    BY <2>1 DEF Followed, Reported
  <2>9. Marked(b) /\ Marked(b)'
    BY <2>1, <2>4, <2>5, <2>6 DEF Followed, Marked, Recorded
  <2>10. Committed(b) \in Nat /\ Committed(b)' = Committed(b) + 1
    <3>1. Committed(b)' = Len(building'[b]) + IF Waiting(b)' THEN 1 ELSE 0
      BY DEF Committed, Waiting
    <3>2. Committed(b)' = Len(building[b]) + 1
      BY <2>1, <2>6, <3>1
    <3> QED BY <2>6, <3>2, BuilderParts
  <2>11. /\ Size(Committed(b)') = Size(Committed(b)) + TfSize /\ Size(Committed(b)) \in Nat
         /\ TfSize \in Nat /\ free[b] \in Nat /\ lTfEstSize \in Nat /\ lTfEstSize >= TfSize
    BY <2>10, SizeSteps, EstimateCovers, EstimateType, BuilderParts
  <2>12. Covered(b, info[b].mEstimatedFreeMemory)'
    <3>1. info[b].mEstimatedFreeMemory + Size(Committed(b)) <= free[b] + TfSize
      BY <2>5 DEF Followed, Estimated, Covered
    <3>2. info[b].mEstimatedFreeMemory \in Nat
      BY BuilderParts
    <3>3. info'[b].mEstimatedFreeMemory + Size(Committed(b)') <= free'[b] + TfSize
      BY <2>1, <2>4, <2>11, <3>1, <3>2
    <3> QED BY <3>3 DEF Covered, Size
  <2>13. ASSUME report[b] # <<>>, report[b][1].last_built_tf_id >= info[b].mLastScheduledTf
         PROVE  Covered(b, report[b][1].free_memory)'
    <3>1. /\ report[b][1].last_built_tf_id \in Nat /\ report[b][1].free_memory \in Nat
          /\ mLastBuiltTfId[b] \in Nat /\ info[b].mLastScheduledTf \in Nat
      BY <2>13, BuilderParts
    <3>2. /\ report[b][1].last_built_tf_id <= mLastBuiltTfId[b]
          /\ report[b][1].last_built_tf_id = mLastBuiltTfId[b] => report[b][1].free_memory <= free[b]
      BY <2>13 DEF Followed, Reported
    <3>3. mLastBuiltTfId[b] <= info[b].mLastScheduledTf
      BY <2>6, <2>9 DEF Marked, Recorded
    <3>4. Committed(b) = 0
      BY <2>1, <2>9, <2>13, <3>1, <3>2, CaughtUp DEF Followed
    <3>5. report[b][1].free_memory <= free[b]
      BY <2>13, <3>1, <3>2, <3>3
    <3>6. Size(Committed(b)') = TfSize
      BY <2>11, <3>4, SizeSteps
    <3>7. report'[b][1].free_memory + Size(Committed(b)') <= free'[b] + TfSize
      BY <2>1, <2>11, <3>1, <3>5, <3>6
    <3> QED BY <3>7 DEF Covered, Size
  <2>14. Estimated(b)'
    BY <2>1, <2>4, <2>12, <2>13 DEF Estimated
  <2> QED BY <2>7, <2>8, <2>9, <2>14 DEF Followed
<1> QED BY <1>1, <1>2

LEMMA AppendParts ==
  ASSUME NEW q \in Seq(Nat), NEW x \in Nat
  PROVE  /\ Len(q) \in Nat /\ Len(Append(q, x)) = Len(q) + 1
         /\ \A i \in DOMAIN Append(q, x) :
              /\ i \in DOMAIN q \/ i = Len(q) + 1
              /\ i \in DOMAIN q => i < Len(q) + 1 /\ Append(q, x)[i] = q[i]
              /\ i = Len(q) + 1 => Append(q, x)[i] = x
<1>1. DOMAIN q = 1 .. Len(q) /\ Len(q) \in Nat
  OBVIOUS
<1>2. /\ Append(q, x) \in Seq(Nat) /\ Len(Append(q, x)) = Len(q) + 1
      /\ \A i \in 1 .. Len(q) : Append(q, x)[i] = q[i]
      /\ Append(q, x)[Len(q) + 1] = x
  BY AppendProperties
<1>3. DOMAIN Append(q, x) = 1 .. (Len(q) + 1)
  BY <1>1, <1>2
<1> QED BY <1>1, <1>2, <1>3

\* The TfBuilder takes the TF, which comes after all others.
LEMMA TakesTf ==
  ASSUME Inv, Inv', NEW b \in TfBuilders, Followed(b), Waiting(b), Taken(b)',
         building'[b] = Append(building[b], tf),
         UNCHANGED <<schedulerVars, tf, free, mLastBuiltTfId, report>>
  PROVE  Followed(b)'
<1> DEFINE q == building[b]
           r == Append(q, tf)
<1>1. /\ building'[b] = r /\ tf \in Nat
      /\ UNCHANGED <<mReadyTfBuilders, info, tf, free, mLastBuiltTfId, report>>
  BY BuilderParts DEF schedulerVars
<1>2. /\ Len(q) \in Nat /\ Len(r) = Len(q) + 1
      /\ \A i \in DOMAIN r :
           /\ i \in DOMAIN q \/ i = Len(q) + 1
           /\ i \in DOMAIN q => i < Len(q) + 1 /\ r[i] = q[i]
           /\ i = Len(q) + 1 => r[i] = tf
  BY <1>1, BuilderParts, AppendParts
<1>3. ~Taken(b) /\ ~Waiting(b)'
  BY DEF Taken, Waiting
<1>4. \A id : Reached(b, id) => id < tf
  BY <1>3 DEF Reached
<1>5. \A id : id < tf \/ id = tf => Reached(b, id)'
  BY <1>1 DEF Reached
<1>6. /\ mLastBuiltTfId[b] < tf
      /\ \A i \in DOMAIN q : q[i] < tf /\ mLastBuiltTfId[b] < q[i]
      /\ \A i, j \in DOMAIN q : i < j => q[i] < q[j]
  BY <1>4 DEF Followed, InOrder
<1>7. \A i \in DOMAIN q : i \in Nat
  BY BuilderParts
<1>8. IsReady(b) => \A i \in DOMAIN q : Recorded(b, q[i])
  BY DEF Followed, Marked
<1> HIDE DEF r, q
<1>9. InOrder(b)'
  <2>1. \A i \in DOMAIN r : (r[i] < tf \/ r[i] = tf) /\ mLastBuiltTfId[b] < r[i]
    BY <1>2, <1>6
  <2>2. ASSUME NEW i \in DOMAIN r, NEW j \in DOMAIN r, i < j PROVE r[i] < r[j]
    <3>1. i \in DOMAIN q
      BY <1>2, <1>7, <2>2
    <3>2. CASE j \in DOMAIN q
      BY <1>2, <1>6, <2>2, <3>1, <3>2
    <3>3. CASE j = Len(q) + 1
      BY <1>2, <1>6, <3>1, <3>3
    <3> QED BY <1>2, <3>2, <3>3
  <2>3. Reached(b, mLastBuiltTfId[b])' /\ \A i \in DOMAIN r : Reached(b, building[b][i])'
    BY <1>1, <1>5, <1>6, <2>1
  <2> QED BY <1>1, <2>1, <2>2, <2>3 DEF InOrder
<1>10. Reported(b)'
  BY <1>1 DEF Followed, Reported
<1>11. \A id : Recorded(b, id) => Recorded(b, id)'
  BY <1>1, <1>3 DEF Recorded
<1>12. ASSUME IsReady(b) PROVE Marked(b)'
  <2>1. Recorded(b, mLastBuiltTfId[b])'
    BY <1>1, <1>11, <1>12 DEF Followed, Marked
  <2>2. Recorded(b, tf)'
    BY <1>1 DEF Recorded
  <2>3. \A i \in DOMAIN r : Recorded(b, building[b][i])'
    BY <1>1, <1>2, <1>8, <1>11, <1>12, <2>2
  <2> QED BY <1>1, <2>1, <2>3 DEF Marked
<1>13. Committed(b)' = Committed(b)
  <2>1. Committed(b)' = Len(building'[b]) + IF Waiting(b)' THEN 1 ELSE 0
    BY DEF Committed, Waiting
  <2>2. Committed(b)' = Len(r) + 0
    BY <1>1, <1>3, <2>1
  <2>3. Committed(b) = Len(q) + 1
    BY BuilderParts DEF q
  <2> QED BY <1>2, <2>2, <2>3
<1>14. \A e : Covered(b, e) => Covered(b, e)'
  BY <1>1, <1>13 DEF Covered
<1>15. ASSUME IsReady(b) PROVE Estimated(b)'
  BY <1>1, <1>14, <1>15 DEF Followed, Estimated
<1>16. IsReady(b)' => IsReady(b)
  BY <1>1 DEF IsReady
<1> QED BY <1>9, <1>10, <1>12, <1>15, <1>16 DEF Followed

\* The call to the TfBuilder.
LEMMA CallFollowed ==
  ASSUME Inv, Inv', NEW b \in TfBuilders, Followed(b), BuildTfRequest
  PROVE  Followed(b)'
<1> DEFINE c == chosen[1].tfBuilder
<1>1. /\ chosen # <<>> /\ chosen[1].answer = "NONE"
      /\ UNCHANGED <<schedulerVars, mReadyTfBuilders, info, tf, free, mLastBuiltTfId, report>>
      /\ \E a \in {"OK", "ERROR", "FAILED"} :
           /\ chosen' = Answered(chosen, a)
           /\ \/ Accept(c, tf) /\ a # "ERROR"
              \/ UNCHANGED building
  BY DEF BuildTfRequest, Refuse, schedulerVars
<1>2. PICK a \in {"OK", "ERROR", "FAILED"} :
        chosen' = Answered(chosen, a) /\ ((Accept(c, tf) /\ a # "ERROR") \/ UNCHANGED building)
  BY <1>1
<1>3. chosen' # <<>> /\ chosen'[1].tfBuilder = c /\ chosen'[1].answer = a
  <2>1. chosen[1] \in Calls /\ Len(chosen) = 1
    BY <1>1, OptionalValue DEF Inv, ThreadType
  <2>2. chosen' = [chosen EXCEPT ![1] = [chosen[1] EXCEPT !.answer = a]]
    BY <1>2, <2>1 DEF Answered
  <2>3. 1 \in DOMAIN chosen /\ chosen \in Seq(Calls)
    BY <2>1 DEF Inv, ThreadType
  <2>4. chosen'[1] = [chosen[1] EXCEPT !.answer = a]
    BY <2>2, <2>3
  <2>5. chosen'[1].tfBuilder = c /\ chosen'[1].answer = a
    BY <2>1, <2>4 DEF Calls
  <2>6. DOMAIN chosen' = DOMAIN chosen
    BY <2>2
  <2>7. chosen' # <<>>
    BY <2>3, <2>6
  <2> QED BY <2>5, <2>7
<1>4. ~Taken(b) /\ ~Waiting(b)'
  BY <1>1, <1>3 DEF Taken, Waiting
<1>5. CASE c = b /\ Accept(c, tf) /\ a # "ERROR"
  <2>1. Waiting(b) /\ Taken(b)'
    BY <1>1, <1>3, <1>5 DEF Waiting, Taken
  <2>2. building'[b] = Append(building[b], tf)
    BY <1>5 DEF Accept, Inv, BuilderType
  <2> QED BY <1>1, <2>1, <2>2, TakesTf
<1>6. CASE c # b \/ UNCHANGED building
  <2>1. building'[b] = building[b]
    BY <1>2, <1>6 DEF Accept, Inv, BuilderType
  <2>2. \A id \in Nat : Reached(b, id) => Reached(b, id)'
    BY <1>1, <1>4 DEF Reached
  <2>3. \A id \in Nat : Recorded(b, id) => Recorded(b, id)'
    BY <1>1, <1>4 DEF Recorded
  <2> QED BY <1>1, <1>4, <2>1, <2>2, <2>3, Steady DEF IsReady
<1> QED BY <1>2, <1>5, <1>6

\* After the call: the TF that was taken is recorded, or the TfBuilder is not ready any more.
LEMMA CalledFollowed ==
  ASSUME Inv, Inv', NEW b \in TfBuilders, Followed(b), SchedulingThread
  PROVE  Followed(b)'
<1> DEFINE c == chosen[1].tfBuilder
<1>1. /\ chosen # <<>> /\ chosen[1].answer \in {"OK", "ERROR", "FAILED"}
      /\ chosen' = <<>> /\ tf' = tf + 1 /\ tf \in Nat
      /\ UNCHANGED <<mGlobalInfo, building, mLastBuiltTfId, free, report>>
      /\ \/ chosen[1].answer = "OK" /\ markTfBuilderWithTfId(c) /\ UNCHANGED mReadyTfBuilders
         \/ chosen[1].answer = "ERROR" /\ UNCHANGED <<info, mReadyTfBuilders>>
         \/ chosen[1].answer = "FAILED" /\ FailedCall(c) /\ UNCHANGED info
  BY BuilderParts DEF SchedulingThread, tfBuilderVars
<1>2. ~Waiting(b) /\ ~Waiting(b)' /\ ~Taken(b)'
  BY <1>1 DEF Waiting, Taken
<1>3. \A id \in Nat : Reached(b, id) => Reached(b, id)'
  BY <1>1, <1>2 DEF Reached
<1>4. CASE ~Taken(b)
  <2>1. c # b \/ chosen[1].answer = "ERROR"
    BY <1>1, <1>4 DEF Taken
  <2>2. /\ info'[b].mEstimatedFreeMemory = info[b].mEstimatedFreeMemory
        /\ info'[b].mLastScheduledTf = info[b].mLastScheduledTf
    BY <1>1, <2>1 DEF markTfBuilderWithTfId, Inv, InfoType
  <2>3. IsReady(b)' => IsReady(b)
    <3>1. CASE UNCHANGED mReadyTfBuilders
      BY <3>1 DEF IsReady
    <3>2. CASE FailedCall(c)
      BY <3>2, Removed DEF FailedCall, Inv
    <3> QED BY <1>1, <3>1, <3>2
  <2>4. \A id \in Nat : Recorded(b, id) => Recorded(b, id)'
    BY <1>4, <2>2 DEF Recorded
  <2> QED BY <1>1, <1>2, <1>3, <2>2, <2>3, <2>4, Steady
<1>5. CASE Taken(b) /\ chosen[1].answer = "FAILED"
  <2>1. ~IsReady(b)'
    BY <1>1, <1>5, Removed DEF Taken, FailedCall, Inv
  <2>2. InOrder(b)'
    BY <1>1, <1>3, BuilderParts DEF Followed, InOrder
  <2>3. Reported(b)'
    BY <1>1 DEF Followed, Reported
  <2> QED BY <2>1, <2>2, <2>3 DEF Followed
<1>6. CASE Taken(b) /\ chosen[1].answer = "OK"
  <2>1. c = b /\ markTfBuilderWithTfId(b) /\ UNCHANGED mReadyTfBuilders
    BY <1>1, <1>6 DEF Taken
  <2>2. InOrder(b)'
    BY <1>1, <1>3, BuilderParts DEF Followed, InOrder
  <2>3. Reported(b)'
    BY <1>1 DEF Followed, Reported
  <2>4. IsReady(b)' => IsReady(b)
    BY <2>1 DEF IsReady
  <2>5. ASSUME IsReady(b)
        PROVE  /\ info'[b].mEstimatedFreeMemory = info[b].mEstimatedFreeMemory
               /\ info'[b].mLastScheduledTf = tf
    <3>1. b \in mGlobalInfo
      BY <2>5 DEF IsReady, Inv, Listed
    <3> QED BY <2>1, <3>1 DEF markTfBuilderWithTfId, Inv, InfoType, Infos
  <2>6. \A id \in Nat : Reached(b, id) => id <= tf
    BY <1>1 DEF Reached
  <2>7. mLastBuiltTfId[b] <= tf /\ \A i \in DOMAIN building[b] : building[b][i] <= tf
    BY <2>6, BuilderParts DEF Followed, InOrder
  <2>8. ASSUME IsReady(b) PROVE Marked(b)'
    BY <1>1, <2>5, <2>7, <2>8 DEF Marked, Recorded
  <2>9. Committed(b)' = Committed(b)
    <3>1. Committed(b)' = Len(building'[b]) + IF Waiting(b)' THEN 1 ELSE 0
      BY DEF Committed, Waiting
    <3>2. Committed(b)' = Len(building[b]) + 0
      BY <1>1, <1>2, <3>1
    <3> QED BY <1>2, <3>2, BuilderParts
  <2>10. \A e : Covered(b, e) => Covered(b, e)'
    BY <1>1, <2>9 DEF Covered
  <2>11. ASSUME IsReady(b), report[b] # <<>>, report[b][1].last_built_tf_id >= tf
         PROVE  Covered(b, report[b][1].free_memory)
    <3>1. /\ report[b][1].last_built_tf_id \in Nat /\ report[b][1].free_memory \in Nat
          /\ mLastBuiltTfId[b] \in Nat /\ info[b].mLastScheduledTf \in Nat
      BY <2>11, BuilderParts
    <3>2. /\ report[b][1].last_built_tf_id <= mLastBuiltTfId[b]
          /\ report[b][1].last_built_tf_id = mLastBuiltTfId[b] => report[b][1].free_memory <= free[b]
      BY <2>11 DEF Followed, Reported
    <3>3. mLastBuiltTfId[b] = tf /\ report[b][1].free_memory <= free[b]
      BY <1>1, <2>7, <2>11, <3>1, <3>2
    <3>4. \A i \in DOMAIN building[b] : FALSE
      BY <1>1, <2>7, <3>3, BuilderParts DEF Followed, InOrder
    <3>5. Committed(b) = 0
      BY <1>2, <3>4, BuilderParts
    <3>6. Size(Committed(b)) = 0 /\ TfSize \in Nat /\ free[b] \in Nat
      BY <3>5, SizeSteps, EstimateCovers, BuilderParts
    <3> QED BY <3>1, <3>3, <3>6 DEF Covered
  <2>12. ASSUME IsReady(b) PROVE Estimated(b)'
    <3>1. Covered(b, info[b].mEstimatedFreeMemory)'
      BY <2>5, <2>10, <2>12 DEF Followed, Estimated
    <3> QED BY <1>1, <2>5, <2>10, <2>11, <2>12, <3>1 DEF Estimated
  <2> QED BY <2>2, <2>3, <2>4, <2>8, <2>12 DEF Followed
<1>7. Taken(b) => chosen[1].answer \in {"OK", "FAILED"}
  BY DEF Taken
<1> QED BY <1>4, <1>5, <1>6, <1>7

\* The thread for topological STFs.
LEMMA TopoFollowed ==
  ASSUME Inv, Inv', NEW b \in TfBuilders, Followed(b), TopoThreadStep, b \notin disturbed'
  PROVE  Followed(b)'
<1>1. UNCHANGED <<chosen, tf, mLastBuiltTfId, free, report>>
  BY DEF TopoThreadStep, findTfBuilderForTopoStf, TopoBuildTfRequest, TopoSchedulingThread,
     tfBuilderVars
<1>2. /\ building'[b] = building[b]
      /\ info'[b].mEstimatedFreeMemory = info[b].mEstimatedFreeMemory
      /\ info'[b].mLastScheduledTf = info[b].mLastScheduledTf
  <2>1. CASE findTfBuilderForTopoStf
    <3>1. UNCHANGED building
      BY <2>1 DEF findTfBuilderForTopoStf, tfBuilderVars
    <3>2. \/ UNCHANGED info
          \/ \E c \in TfBuilders : info' = [info EXCEPT ![c].mTotalUtilization = @ + 1]
      BY <2>1 DEF findTfBuilderForTopoStf, Assign
    <3> QED BY <3>1, <3>2 DEF Inv, InfoType, Infos
  <2>2. CASE TopoBuildTfRequest
    BY <2>2 DEF TopoBuildTfRequest, Accept, Refuse, schedulerVars, Inv, BuilderType
  <2>3. CASE TopoSchedulingThread
    BY <2>3 DEF TopoSchedulingThread, tfBuilderVars
  <2> QED BY <2>1, <2>2, <2>3 DEF TopoThreadStep
<1>3. IsReady(b)' => IsReady(b)
  <2>1. CASE UNCHANGED mReadyTfBuilders
    BY <2>1 DEF IsReady
  <2>2. CASE TopoSchedulingThread
    BY <2>1, <2>2, Removed DEF TopoSchedulingThread, FailedCall, Inv
  <2> QED BY <2>1, <2>2 DEF TopoThreadStep, findTfBuilderForTopoStf, TopoBuildTfRequest, schedulerVars
<1> QED BY <1>1, <1>2, <1>3, Idle

\* No step makes a TfBuilder undisturbed again.
LEMMA StaysDisturbed == Inv /\ [Next]_vars => disturbed \subseteq disturbed'
<1> SUFFICES ASSUME Inv, [Next]_vars PROVE disturbed \subseteq disturbed'
  OBVIOUS
<1>1. CASE CollectStale \/ UNCHANGED vars
  BY <1>1 DEF CollectStale, vars, historyVars
<1>2. ASSUME NEW b \in TfBuilders, TfBuilderStep(b) \/ EraseStale(b)
      PROVE  disturbed \subseteq disturbed'
  BY <1>2 DEF TfBuilderStep, sendTfBuilderUpdate, startAcceptingTfs, stopAcceptingTfs,
     reset_run_counters, recordTfBuilt, GiveUp, Die, LoseUpdate, recordTfForwarded, EraseStale,
     historyVars
<1>3. ASSUME NEW b \in TfBuilders, updateTfBuilderInfo(b)
      PROVE  disturbed \subseteq disturbed'
  BY <1>3 DEF updateTfBuilderInfo, RemoveTfBuilder, AddTfBuilder, UpdateTfBuilder, historyVars
<1>4. CASE ThreadStep \/ TopoThreadStep
  BY <1>4 DEF ThreadStep, findTfBuilderForTf, BuildTfRequest, SchedulingThread, TopoThreadStep,
     findTfBuilderForTopoStf, TopoBuildTfRequest, TopoSchedulingThread, historyVars
<1> QED BY <1>1, <1>2, <1>3, <1>4 DEF Next

LEMMA InitEstimate == Init => EstimateInv
<1> SUFFICES ASSUME Init, NEW b \in TfBuilders PROVE Followed(b)
  BY DEF EstimateInv
<1>1. /\ building[b] = <<>> /\ mLastBuiltTfId[b] = 0 /\ report[b] = <<>> /\ tf = 1
      /\ DOMAIN building[b] = {}
  BY DEF Init
<1>2. InOrder(b)
  BY <1>1 DEF InOrder, Reached
<1>3. Reported(b) /\ ~IsReady(b)
  BY <1>1 DEF Reported, Init, IsReady
<1> QED BY <1>2, <1>3 DEF Followed

LEMMA NextEstimate == Inv /\ Inv' /\ EstimateInv /\ [Next]_vars => EstimateInv'
<1> SUFFICES ASSUME Inv, Inv', EstimateInv, [Next]_vars, NEW b \in TfBuilders, b \notin disturbed'
             PROVE  Followed(b)'
  BY DEF EstimateInv
<1>1. Followed(b)
  BY StaysDisturbed DEF EstimateInv
<1>2. CASE CollectStale \/ UNCHANGED vars
  <2>1. UNCHANGED <<mReadyTfBuilders, info, chosen, tf, building, mLastBuiltTfId, report, free>>
    BY <1>2 DEF CollectStale, vars, schedulerVars, threadVars, tfBuilderVars
  <2> QED BY <1>1, <2>1, Idle DEF IsReady
<1>3. ASSUME NEW c \in TfBuilders, TfBuilderStep(c) PROVE Followed(b)'
  BY <1>1, <1>3, OwnStepFollowed, OtherStepFollowed
<1>4. ASSUME NEW c \in TfBuilders, updateTfBuilderInfo(c) \/ EraseStale(c) PROVE Followed(b)'
  BY <1>1, <1>4, UpdateFollowed, OtherUpdateFollowed
<1>5. CASE ThreadStep
  BY <1>1, <1>5, FindFollowed, CallFollowed, CalledFollowed DEF ThreadStep
<1>6. CASE TopoThreadStep
  BY <1>1, <1>6, TopoFollowed
<1> QED BY <1>2, <1>3, <1>4, <1>5, <1>6 DEF Next

\* Reports and the scheduling thread cross at any step; still what the scheduler believes to
\* be free in a TfBuilder is there after the TfBuilder built all that was given to it, but
\* for one TF.
THEOREM EstimateIsCovered == Spec => []OvercommitsOneTf
<1>1. Inv /\ EstimateInv => OvercommitsOneTf
  BY DEF EstimateInv, Followed, Estimated, Covered, Size, OvercommitsOneTf
<1>2. Init => Inv /\ EstimateInv
  BY InitInv, InitEstimate
<1>3. Inv /\ EstimateInv /\ [Next]_vars => (Inv /\ EstimateInv)'
  BY NextInv, NextEstimate
<1> QED BY <1>1, <1>2, <1>3, PTL DEF Spec
=============================================================================

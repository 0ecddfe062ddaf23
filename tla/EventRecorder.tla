---------------------------- MODULE EventRecorder ----------------------------
(***************************************************************************)
(* EventRecorder (common/base/Utilities.h): the set of TF ids that a       *)
(* component has already dealt with, kept as a growing bit set that starts *)
(* at the FIRST id ever recorded.  An id below that one is not recorded:   *)
(* SetEvent leaves the recorder alone and GetEvent answers false.          *)
(***************************************************************************)
EXTENDS Integers, Sequences, FiniteSets

\* The initial mFirstEvent, uint64_t(-1) in the code.
NoEvent == -1

EmptyRecorder == [first |-> NoEvent, events |-> {}]

Recorders(Ids) == [first : Ids \cup {NoEvent}, events : SUBSET Ids]

GetEvent(r, e) ==
  /\ r.first # NoEvent
  /\ e >= r.first
  /\ e \in r.events

FirstEvent(r, e) == IF r.first = NoEvent THEN e ELSE r.first

\* SetEvent(order[1]), SetEvent(order[2]), ... one after the other: the first
\* call fixes mFirstEvent, and the ids below it are ignored.
SetEvents(r, order) ==
  LET first == FirstEvent(r, order[1])
  IN  [first  |-> first,
       events |-> r.events \cup {e \in {order[i] : i \in DOMAIN order} : e >= first}]

SetEvent(r, e) == SetEvents(r, <<e>>)

\* Id e was given to the recorder, or lies where the recorder is blind.
Covers(r, e) == e \in r.events \/ (r.first # NoEvent /\ e < r.first)
=============================================================================

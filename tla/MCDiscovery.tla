----------------------------- MODULE MCDiscovery -----------------------------
(* Instances of Discovery: one partition with two TfBuilders, one of which is started
   twice, or with two StfSenders. *)
EXTENDS Discovery, TLC

CONSTANTS flp1, flp10, b1, twin, sched1, sched2, p1, p2

\* The key of flp1 is a prefix of that of flp10; the twin has the id of b1.
KeyOf == flp1 :> "flp1" @@ flp10 :> "flp10" @@ b1 :> "b1" @@ twin :> "b1"
ErasedWith == [k \in Keys |-> IF k = "flp1" THEN {"flp1", "flp10"} \cap Keys ELSE {k}]
AllInP1 == [p \in Processes |-> p1]

\* A request that is rejected and one that is served.
InvalidThenValid == <<[partition |-> p2, valid |-> FALSE], [partition |-> p1, valid |-> TRUE]>>
OneValid == <<[partition |-> p1, valid |-> TRUE]>>
=============================================================================

----------------------------- MODULE MCTfBuilder -----------------------------
(* Two StfSenders and two runs.  In the first there are two TFs, one of a  *)
(* single StfSender, which may come late, after the second run has started *)
(* over it.  The second is a topological run; its TF may come early.       *)
EXTENDS TfBuilder

CONSTANTS s1, s2

Physics(r, i) == [run |-> r, id |-> i, stfs |-> {s1, s2}]
Single(r, i, s) == [run |-> r, id |-> i, stfs |-> {s}]

MCTfs == {Physics(1, 1), Single(1, 2, s1), Single(2, 1, s2)}
MCEarlyTfs == {Single(2, 1, s2)}
MCLateTfs == {Single(1, 2, s1)}
MCRefused == {Stf(Physics(1, 1), s1), Stf(Single(1, 2, s1), s1)}
MCUnanswered == {Stf(Physics(1, 1), s1)}
MCUnreliable == {Stf(Physics(1, 1), s2)}

\* Two physics runs, for AddedLast and DeletedIsThere, and the STF of one that is refused.
PhysicsRuns == {Single(1, 1, s1), Single(1, 2, s1), Single(2, 1, s2)}
OneRefused == {Stf(Single(1, 1, s1), s1)}
=============================================================================

------------------------- MODULE MCStfSenderOutput -------------------------
(* Model values for StfSenderOutput: the same id in two runs. *)
EXTENDS StfSenderOutput

MCTwoStfs == {[run |-> 1, id |-> 2], [run |-> 2, id |-> 2]}
=============================================================================

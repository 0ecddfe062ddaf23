---------------------- MODULE MCTfSchedulerTfBuilderInfo ----------------------
(* One TfBuilder with all faults and two TFs; and two TfBuilders, of which *)
(* one may fail, with two STFs of one equipment.                           *)
EXTENDS TfSchedulerTfBuilderInfo

CONSTANTS b1, b2

MCTopoStfs == <<"ITS", "ITS">>
MCJoining == {<<"DEFAULT", b1>>, <<"TOPOLOGICAL", b1>>, <<"TOPOLOGICAL", b2>>}
MCOneJoining == {<<"DEFAULT", b1>>}
MCFailing == {<<"DEFAULT", b1>>, <<"TOPOLOGICAL", b1>>}
MCRestarting == {<<"DEFAULT", b1>>}
MCSilent == {<<"DEFAULT", b1>>}
=============================================================================

----------------------------- MODULE MCStfFiles -----------------------------
(* Instances of StfFiles: a remote file read three times while the source is paused, two
   remote files, a local file that is saved again in two runs, and one read twice in a
   limited pipeline; and, larger, five STFs that are saved again in a limited pipeline. *)
EXTENDS StfFiles

RemoteFile == [local |-> FALSE, files |-> 1, stfs |-> 1, repeat |-> TRUE, count |-> 3,
               sink |-> FALSE, limit |-> 0, runs |-> 0]
TwoRemoteFiles == [local |-> FALSE, files |-> 2, stfs |-> 1, repeat |-> FALSE, count |-> 0,
                   sink |-> FALSE, limit |-> 0, runs |-> 1]
SavedInTwoRuns == [local |-> TRUE, files |-> 1, stfs |-> 2, repeat |-> FALSE, count |-> 0,
                   sink |-> TRUE, limit |-> 0, runs |-> 2]
Limited == [local |-> TRUE, files |-> 1, stfs |-> 2, repeat |-> TRUE, count |-> 2,
            sink |-> FALSE, limit |-> 4, runs |-> 1]
LimitedAndSaved == [SavedInTwoRuns EXCEPT !.stfs = 5, !.limit = 4, !.runs = 1]

All == {RemoteFile, TwoRemoteFiles, SavedInTwoRuns, Limited}
AtTheLimit == {Limited, LimitedAndSaved}
=============================================================================

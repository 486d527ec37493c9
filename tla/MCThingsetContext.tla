------------------------- MODULE MCThingsetContext -------------------------
(***************************************************************************)
(* Small instances of ThingsetContext for TLC.                             *)
(***************************************************************************)
EXTENDS ThingsetContext, TLC

CONSTANTS t1, t2, t3

AllZero == [o \in Objects |-> 0]

\* two subset masks, and the items an export_item may name
TwoSubsets == {{1, 2}, {2}}
WideScopes == {{1, 3}, {2, 3}}

OneShotOps == SinglePassReaders \cup SinglePassWriters
ProgressiveOps == {"export_progressively", "import_progressively"}
EveryOp == OneShotOps \cup ProgressiveOps
MixedOps == {"read_request", "write_request", "export_progressively", "import_progressively"}
ExportOps == {"export_subsets", "write_request"}

NoIds == {}
OneUnknownId == {9}

ThreadSymmetry == Permutations(Threads)
=============================================================================

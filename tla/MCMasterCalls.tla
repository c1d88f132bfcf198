--------------------------- MODULE MCMasterCalls ---------------------------
(* MasterCalls with OneMaster's history variable beside it: FairCallsSpec,  *)
(* as one next-state relation.                                              *)
EXTENDS MasterCalls, OneMaster

HistoryInit == CallsInit /\ contested = FALSE
HistoryNext == CallsNext /\ ContestedNext
HistorySpec == HistoryInit /\ [][HistoryNext]_<<allVars, contested>> /\ CallsFairness
=============================================================================

----------------------------- MODULE MCRequests -----------------------------
(* The parts of MCTools, and the language server with two checks of one file *)
(* and a request, still one of them at a time.                              *)
EXTENDS MCTools, PatchSafety, TLC

CheckSymmetry == Permutations(Checks)

partVars == <<part, limiterVars, treeVars, contextVars>>

RequestsInit ==
    /\ Init     \* of PatchSafety: no language server is started yet
    /\ \/ MCInit
       \/ part = [name |-> "server"] /\ LimiterIdle /\ TreeIdle /\ ContextIdle

RequestsNext ==
    \/ MCNext /\ UNCHANGED vars
    \/ Works("server") /\ Next /\ UNCHANGED partVars

RequestsSpec == RequestsInit /\ [][RequestsNext]_<<partVars, vars>>
=============================================================================

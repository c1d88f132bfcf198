----------------------------- MODULE FileIndex -----------------------------
(***************************************************************************)
(* What the index promises to a search, whatever happens inside: for each  *)
(* file it serves the chunks of one version of the file, all of them, or   *)
(* something a search must not rely on (0: nothing, or a part); and having *)
(* served a version in full it never again serves an older one in full.    *)
(***************************************************************************)
EXTENDS Integers

CONSTANTS Files, MaxVersion

VARIABLES
    written,   \* file -> the newest version it ever had
    served,    \* file -> the version whose chunks are all there, or 0
    newest     \* file -> the newest version ever served

Init ==
    /\ written \in [Files -> {0, 1}]
    /\ served = [f \in Files |-> 0]
    /\ newest = [f \in Files |-> 0]

Write(f) ==
    /\ written[f] < MaxVersion
    /\ written' = [written EXCEPT ![f] = @ + 1]
    /\ UNCHANGED <<served, newest>>

\* A version at least as new as any served so far becomes searchable.
Publish(f) ==
    \E v \in newest[f]..written[f] :
        /\ v # 0
        /\ served' = [served EXCEPT ![f] = v]
        /\ newest' = [newest EXCEPT ![f] = v]
        /\ UNCHANGED written

\* The index loses some files, in part or altogether.
Withdraw ==
    /\ \E gone \in SUBSET Files :
        served' = [f \in Files |-> IF f \in gone THEN 0 ELSE served[f]]
    /\ UNCHANGED <<written, newest>>

Next == Withdraw \/ \E f \in Files : Write(f) \/ Publish(f)

Spec == Init /\ [][Next]_<<written, served, newest>>
=============================================================================

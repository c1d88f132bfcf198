----------------------------- MODULE LiveIndex -----------------------------
(***************************************************************************)
(* What the watcher makes of the files it indexes, from the events alone.  *)
(* Which files it can know nothing of is not in the program's state: it is *)
(* a history variable added here.                                          *)
(***************************************************************************)
EXTENDS IndexProperties

VARIABLE lost    \* files whose newest change the watcher will never hear of

\* The operation the content of f calls for after this step.
newOp(f) == IF disk'[f] = 0 THEN "delete" ELSE "index"

\* A change is lost when no operation for it is pending after it, and when a
\* Chmod event takes the place of the operation that was.
LostNext ==
    lost' = {f \in Files :
                IF disk'[f] # disk[f]
                THEN pending'[f] # newOp(f)
                ELSE \/ f \in lost
                     \/ pending[f] \in {"index", "delete"} /\ pending'[f] = "chmod"}

LiveInit == Init /\ lost = {}
LiveNext == Next /\ LostNext
LiveSpec == LiveInit /\ [][LiveNext]_<<vars, lost>> /\ Fairness

\* A save or a removal that the debounce kept until its timer fired makes the
\* index what a fresh index of the file would be, whatever happened to the file,
\* its earlier events, and the other files before: once the files stop changing,
\* every file the watcher indexes and whose last change reached processPending
\* is indexed as it is.  (Init knows versions 0 and 1; later ones are saves.)
LiveConverges == <>[](\A f \in Watched : last[f] > 1 /\ f \notin lost => InSync(f))

\* The same of every file saved while the watcher runs.  It does not hold: a
\* Chmod event within the half second of a Write replaces it.
EverySaveIndexed == <>[](\A f \in Watched : last[f] > 1 => InSync(f))
=============================================================================

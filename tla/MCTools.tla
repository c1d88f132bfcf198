------------------------------ MODULE MCTools ------------------------------
(***************************************************************************)
(* Small instances of the parts that share no state with the others: one   *)
(* part works in a behaviour, and the rest keeps still.                    *)
(***************************************************************************)
EXTENDS Chunker, RateLimiter, WatchedTree, RelatedContext

CONSTANTS
    MaxText,                                    \* of the texts that are cut
    root, sub, subsub, leaf, vendor, package,   \* directories
    target, imported, other, i1, i2             \* files, and what one imports

VARIABLE part    \* what works, with its input when it is computed at once

ParentDir == [d \in Dirs |-> CASE d \in {root, sub, vendor} -> root
                               [] d = subsub -> sub [] d = leaf -> subsub [] d = package -> vendor]
ExactPath == [i \in Imports |-> IF i = i1 THEN imported ELSE other]
LoosePaths == [i \in Imports |-> {imported, other}]
TextInputs == UNION {[1 .. n -> {Newline, "letter"}] : n \in 0 .. MaxText}

\* No entity, or up to three.
EntityInputs(text) ==
    {E \in {{}} \cup {{p, q, r} : p, q, r \in Places(text)} : IsTree(E)}

Works(p) == part.name = p

MCInit ==
    \/ /\ LimiterIdle /\ TreeIdle /\ ContextIdle
       /\ \E t \in TextInputs, s \in BOOLEAN :
             \E E \in IF s THEN EntityInputs(t) ELSE {{}} :
                part = [name |-> "chunks", text |-> t, supported |-> s, entities |-> E]
    \/ part = [name |-> "limit"] /\ LimiterInit /\ TreeIdle /\ ContextIdle
    \/ part = [name |-> "tree"] /\ TreeInit /\ LimiterIdle /\ ContextIdle
    \/ part = [name |-> "context"] /\ ContextInit /\ LimiterIdle /\ TreeIdle

MCNext ==
    /\ UNCHANGED part
    /\ \/ Works("limit") /\ LimiterNext /\ UNCHANGED <<treeVars, contextVars>>
       \/ Works("tree") /\ TreeNext /\ UNCHANGED <<limiterVars, contextVars>>
       \/ Works("context") /\ ContextNext /\ UNCHANGED <<limiterVars, treeVars>>

MCSpec == MCInit /\ [][MCNext]_<<part, limiterVars, treeVars, contextVars>>

\* CreateChunks: every rune that is not blank is in a chunk, no chunk's passage is
\* longer than the limit, it knows the line it starts on, and no passage as short
\* as the overlap is cut in two.
EveryTextServed ==
    Works("chunks") => ChunksServe(part.text, part.supported, part.entities)
=============================================================================

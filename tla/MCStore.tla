------------------------------ MODULE MCStore ------------------------------
(***************************************************************************)
(* Constants for the two models of the store, of which one works in a      *)
(* behaviour: its clients, over two records of one path and one of another *)
(* and two texts a record can have, of two terms; or a hybrid search, over *)
(* two projects whose records compete for the places of a ranking, one of  *)
(* them without a function_score.                                          *)
(***************************************************************************)
EXTENDS LexicalStore, HybridSearch, TLC

CONSTANTS r1, r2, r3, p1, p2, c1, c2, t1, t2, projA, projB

MCPathOf == (r1 :> p1) @@ (r2 :> p1) @@ (r3 :> p2)
MCDisjoint == (c1 :> {p1}) @@ (c2 :> {p2})
MCTokens ==
    LET words(a, b) == (t1 :> a) @@ (t2 :> b) IN
    (r1 :> <<words(1, 0), words(2, 1)>>) @@
    (r2 :> <<words(1, 2), words(0, 1)>>) @@
    (r3 :> <<words(2, 0), words(1, 1)>>)

MCProjectOf == (r1 :> projA) @@ (r2 :> projA) @@ (r3 :> projB)
MCPriority == (r1 :> 2) @@ (r2 :> 1) @@ (r3 :> 1)
MCBoost == (r1 :> 2) @@ (r2 :> 1) @@ (r3 :> 0)
MCSimilarities == -1..1
MCBoth == <<projA, projB>>

-----------------------------------------------------------------------------

VARIABLE searching

\* No search is asked for.
SearchIdle ==
    /\ similarity = [d \in Documents |-> 0] /\ relevance = similarity
    /\ present = {} /\ entries = {} /\ held = {} /\ changes = <<>>
    /\ vector = search /\ lexical = search
    /\ answer = [pc |-> "none", records |-> <<>>]

StoreInit ==
    /\ LexicalInit
    /\ \/ searching = FALSE /\ SearchIdle
       \/ searching = TRUE /\ SearchInit

StoreNext ==
    /\ UNCHANGED searching
    /\ \/ ~searching /\ LexicalNext /\ UNCHANGED searchVars
       \/ searching /\ SearchNext /\ UNCHANGED <<vars, idx>>

StoreSpec == StoreInit /\ [][StoreNext]_<<searching, searchVars, vars, idx>>
=============================================================================

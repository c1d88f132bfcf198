---------------------------- MODULE LexicalStore ----------------------------
(***************************************************************************)
(* The store with the BM25 index it really keeps: VectorStore's steps, and *)
(* beside them the posting lists of LexicalIndex.  bm25, the text each     *)
(* identifier was last indexed with, is then the history that the posting  *)
(* lists, lengths and average must stay true to.                           *)
(***************************************************************************)
EXTENDS VectorStore, LexicalIndex, FiniteSetsExt

CONSTANT Tokens   \* record -> text -> how often each term occurs in it

\* lexicalDocumentText appends the path to the content, so a text has tokens.
ASSUME TokensAssumption ==
    /\ Tokens \in [Records -> [Texts -> [Terms -> Nat]]]
    /\ \A r \in Records, v \in Texts : Tokens[r][v] # NoTokens

VARIABLE idx      \* the Index: its four fields

LexicalInit == Init /\ idx = NewIndex

\* rebuildLexicalIndex adds what the collection holds, one document after
\* another; the order only decides in which order a term lists them.
rebuiltIndex ==
    FoldSet(LAMBDA r, i : Add(i, r, Tokens[r][collection[r]]), NewIndex, Stored)

LexicalNext ==
    \/ Connect /\ idx' = rebuiltIndex
    \/ \E c \in Clients :
        \/ StoreStep(c) /\ UNCHANGED idx
        \/ \E r \in Records :
            \/ bm25Add(c, r) /\ idx' = Add(idx, r, Tokens[r][op[c].batch[r]])
            \/ LexicalRemove(c, r) /\ idx' = removeLocked(idx, r)

LexicalSpec == LexicalInit /\ [][LexicalNext]_<<vars, idx>>

-----------------------------------------------------------------------------
(* Properties. *)

text(r) == IF bm25[r] = None THEN NoTokens ELSE Tokens[r][bm25[r]]

\* After any history of Add and Remove each term lists each document that has
\* it exactly once, with its count: what idf (len(posts)) and the TF component
\* of Search are computed from.
PostingsExact ==
    \A t \in Terms :
        /\ IsInjective(idx.postings[t])
        /\ Range(idx.postings[t]) =
               {[doc |-> r, tf |-> text(r)[t]] : r \in {x \in Records : text(x)[t] > 0}}

\* The average that Add and Remove derive from the one before is the average of
\* the documents there are: avgLen is their total length over docCount.
AverageExact ==
    LET held == {r \in Records : bm25[r] # None}
        lengths == [r \in held |-> TextLen(text(r))] IN
    /\ idx.docLen = lengths
    /\ idx.docCount = Cardinality(held)
    /\ idx.avgLen = Average(SumFunction(lengths), Cardinality(held))

\* Every match raises a document's score: no term is listed in more documents
\* than there are, so its idf, the logarithm of (N - df + 0.5) / (df + 0.5) + 1,
\* is positive, and Search never divides by an average length of zero.
ScoresPositive ==
    /\ \A t \in Terms : 2 * (idx.docCount - df(idx, t)) + 1 > 0
    /\ \A q \in SUBSET Terms : Scored(idx, q) # {} => idx.docCount > 0 /\ idx.avgLen.sum > 0

\* The statistics that Search computes its scores from are those of the
\* documents there are, after any history of Add and Remove: the entries of
\* every term, the lengths and their average, and the idf that follows.
StatisticsExact == PostingsExact /\ AverageExact /\ ScoresPositive

\* Where inserts do not fail and no call is at work, a lexical search scores
\* exactly the documents of the collection that contain one of its terms.
SearchExact ==
    \A q \in SUBSET Terms, r \in Records :
        Quiet(r) /\ ~Exposed(r) =>
            (r \in Scored(idx, q) <=>
                collection[r] # None /\ \E t \in q : Tokens[r][collection[r]][t] > 0)
=============================================================================

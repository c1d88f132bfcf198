--------------------------- MODULE LexicalIndex ---------------------------
(***************************************************************************)
(* The BM25 inverted index (internal/db/lexical/bm25.go) as a value:       *)
(* posting lists, document lengths and the running average length that Add *)
(* and Remove keep up to date step by step.  Both hold the mutex from      *)
(* start to end, so each is one operator.  A text is the number of times   *)
(* each term occurs in it; the average is kept as a quotient, as a float   *)
(* would hold it.                                                          *)
(***************************************************************************)
EXTENDS Integers, Sequences, FiniteSets, Functions

CONSTANT Terms    \* the tokens of the texts and queries

ASSUME TermsAssumption == Terms # {} /\ IsFiniteSet(Terms)

NoTokens == [t \in Terms |-> 0]
TextLen(x) == SumFunction(x)

Zero == [sum |-> 0, count |-> 1]

NewIndex == [postings |-> [t \in Terms |-> <<>>],   \* an absent list is empty
             docLen   |-> [d \in {} |-> 0],
             docCount |-> 0,
             avgLen   |-> Zero]

\* avgLen * n, exact whenever n is the number of documents avgLen is of
totalLen(i, n) == (i.avgLen.sum * n) \div i.avgLen.count

Average(sum, count) == IF count > 0 THEN [sum |-> sum, count |-> count] ELSE Zero

\* A pass over posts that leaves out the entries of d.
filtered(posts, d) ==
    LET pass[n \in 0 .. Len(posts)] ==
            IF n = 0 THEN <<>>
            ELSE IF posts[n].doc # d THEN Append(pass[n - 1], posts[n]) ELSE pass[n - 1]
    IN  pass[Len(posts)]

\* mutant: the count is not yet lowered when the total is taken
removeWithNewCount(i, d) ==
    IF d \notin DOMAIN i.docLen THEN i
    ELSE [postings |-> [t \in Terms |-> filtered(i.postings[t], d)],
          docLen   |-> Restrict(i.docLen, DOMAIN i.docLen \ {d}),
          docCount |-> i.docCount - 1,
          avgLen   |-> Average(totalLen(i, i.docCount - 1) - i.docLen[d], i.docCount - 1)]

\* mutant: the posting lists are left as they are
removeKeepingPostings(i, d) ==
    IF d \notin DOMAIN i.docLen THEN i
    ELSE [i EXCEPT !.docLen = Restrict(@, DOMAIN @ \ {d}),
                   !.docCount = @ - 1,
                   !.avgLen = Average(totalLen(i, i.docCount) - i.docLen[d], i.docCount - 1)]

removeLocked(i, d) ==
    IF d \notin DOMAIN i.docLen THEN i
    ELSE [postings |-> [t \in Terms |-> filtered(i.postings[t], d)],
          docLen   |-> Restrict(i.docLen, DOMAIN i.docLen \ {d}),
          docCount |-> i.docCount - 1,
          avgLen   |-> Average(totalLen(i, i.docCount) - i.docLen[d], i.docCount - 1)]

\* Add after the old entry is gone.
add(i, d, x) ==
    LET j == removeLocked(i, d) IN
    [postings |-> [t \in Terms |->
                       IF x[t] > 0 THEN Append(j.postings[t], [doc |-> d, tf |-> x[t]])
                       ELSE j.postings[t]],
     docLen   |-> [e \in DOMAIN j.docLen \cup {d} |->
                       IF e = d THEN TextLen(x) ELSE j.docLen[e]],
     docCount |-> j.docCount + 1,
     avgLen   |-> Average(totalLen(j, j.docCount) + TextLen(x), j.docCount + 1)]

\* A text without tokens leaves the index as it is, an old entry included.
Add(i, d, x) == IF x = NoTokens THEN i ELSE add(i, d, x)

df(i, t) == Len(i.postings[t])

\* The documents that Search gives a score for the query terms q.
Scored(i, q) == {p.doc : p \in UNION {Range(i.postings[t]) : t \in q}}
=============================================================================

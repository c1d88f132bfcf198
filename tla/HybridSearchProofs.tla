------------------------- MODULE HybridSearchProofs -------------------------
(***************************************************************************)
(* For any store, rankings and changes of the store during the call: what  *)
(* HybridSearch returns is sound; it is all that can be returned when      *)
(* nothing changes, and it fails only when documents are deleted; and a    *)
(* record that beats another in every respect comes before it.             *)
(***************************************************************************)
EXTENDS HybridSearch, FiniteSetTheorems, TLAPS

-----------------------------------------------------------------------------
(* Rankings. *)

LEMMA LeastOf ==
    ASSUME NEW a \in Nat, NEW b \in Nat
    PROVE  Min({a, b}) = IF a <= b THEN a ELSE b
<1>1. \E x \in {a, b} : \A y \in {a, b} : x =< y
  OBVIOUS
<1> QED
  BY <1>1 DEF Min

LEMMA TakeIs ==
    ASSUME NEW S, NEW s \in Seq(S), NEW k \in Nat
    PROVE  /\ Take(s, k) \in Seq(S)
           /\ Len(Take(s, k)) = IF k <= Len(s) THEN k ELSE Len(s)
           /\ \A i \in 1..Len(Take(s, k)) : Take(s, k)[i] = s[i]
           /\ Range(Take(s, k)) \subseteq Range(s)
           /\ IsInjective(s) => IsInjective(Take(s, k))
<1>1. Len(s) \in Nat /\ DOMAIN s = 1..Len(s)
  OBVIOUS
<1>2. PICK n : n = Min({k, Len(s)})
  OBVIOUS
<1>3. n \in 0..Len(s) /\ n = IF k <= Len(s) THEN k ELSE Len(s)
  BY <1>1, <1>2, LeastOf
<1>4. Take(s, k) = SubSeq(s, 1, n)
  BY <1>2 DEF Take
<1>5. /\ SubSeq(s, 1, n) \in Seq(S) /\ Len(SubSeq(s, 1, n)) = n
      /\ \A i \in 1..n : SubSeq(s, 1, n)[i] = s[i]
  BY <1>3
<1>6. DOMAIN SubSeq(s, 1, n) = 1..n
  BY <1>5
<1>7. n \in Nat /\ n <= Len(s)
  <2>1. PICK m : m = Len(s)
    OBVIOUS
  <2>2. m \in Nat /\ n \in 0..m
    BY <1>1, <1>3, <2>1
  <2>3. n \in Nat /\ n <= m
    BY <2>2
  <2> QED
    BY <2>1, <2>3
<1>8. Range(SubSeq(s, 1, n)) \subseteq Range(s)
  <2>1. \A i \in 1..n : i \in 1..Len(s)
    BY <1>1, <1>7
  <2> QED
    BY <1>1, <1>5, <1>6, <2>1 DEF Range
<1>9. IsInjective(s) => IsInjective(SubSeq(s, 1, n))
  BY <1>1, <1>5, <1>6, <1>7 DEF IsInjective
<1> QED
  BY <1>3, <1>4, <1>5, <1>8, <1>9

\* What is ahead of something that is taken is taken.
LEMMA TakenBefore ==
    ASSUME NEW S, NEW s \in Seq(S), NEW k \in Nat, NEW x, NEW y,
           x \in Range(s), y \in Range(Take(s, k)), Before(s, x, y)
    PROVE  x \in Range(Take(s, k)) /\ Before(Take(s, k), x, y)
<1> DEFINE t == Take(s, k)
<1>1. /\ t \in Seq(S) /\ Len(t) = IF k <= Len(s) THEN k ELSE Len(s)
      /\ \A i \in 1..Len(t) : t[i] = s[i]
  BY TakeIs
<1> HIDE DEF t
<1>2. Len(t) \in Nat /\ Len(s) \in Nat /\ Len(t) <= Len(s)
  BY <1>1
<1>3. DOMAIN t = 1..Len(t) /\ DOMAIN s = 1..Len(s)
  BY <1>1
<1>4. PICK i \in 1..Len(s) : s[i] = x
  BY <1>3 DEF Range
<1>5. PICK j \in 1..Len(t) : t[j] = y
  BY <1>3 DEF Range, t
<1>6. i < j
  BY <1>1, <1>2, <1>4, <1>5 DEF Before
<1>7. i \in 1..Len(t) /\ t[i] = x
  BY <1>1, <1>2, <1>4, <1>5, <1>6
<1>8. Before(t, x, y)
  BY <1>1, <1>2 DEF Before
<1> QED
  BY <1>3, <1>7, <1>8 DEF Range, t

LEMMA FallingIsBefore ==
    ASSUME NEW S, NEW s \in Seq(S), NEW key, \A x \in S : key[x] \in Int, Falling(s, key),
           NEW x \in S, NEW y \in S, key[x] > key[y]
    PROVE  Before(s, x, y)
<1> SUFFICES ASSUME NEW i \in 1..Len(s), NEW j \in 1..Len(s), s[i] = x, s[j] = y, ~(i < j)
             PROVE  FALSE
  BY DEF Before
<1>1. i # j
  OBVIOUS
<1>2. j < i
  BY <1>1
<1>3. key[y] >= key[x]
  BY <1>2 DEF Falling
<1> QED
  BY <1>3

LEMMA RankedIs ==
    ASSUME NEW S, IsFiniteSet(S), NEW key, NEW t \in Ranked(S, key)
    PROVE  /\ t \in Seq(S) /\ Len(t) = Cardinality(S) /\ Range(t) = S
           /\ IsInjective(t) /\ Falling(t, key)
<1>1. Cardinality(S) \in Nat
  BY FS_CardinalityType
<1>2. t \in Bijection(1..Cardinality(S), S) /\ Falling(t, key)
  BY DEF Ranked
<1>3. t \in [1..Cardinality(S) -> S] /\ IsInjective(t) /\ \A x \in S : \E i \in 1..Cardinality(S) : t[i] = x
  BY <1>2 DEF Bijection, Injection, Surjection
<1>4. t \in Seq(S) /\ Len(t) = Cardinality(S)
  BY <1>1, <1>3
<1>5. Range(t) = S
  BY <1>3 DEF Range
<1> QED
  BY <1>2, <1>3, <1>4, <1>5

LEMMA SortedIs ==
    ASSUME NEW S, NEW s \in Seq(S), NEW key, NEW t \in Sorted(s, key)
    PROVE  /\ t \in Seq(S) /\ Len(t) = Len(s) /\ Range(t) = Range(s) /\ Falling(t, key)
           /\ IsInjective(s) => IsInjective(t)
<1> DEFINE n == Len(s)
<1>1. n \in Nat /\ DOMAIN s = 1..n
  OBVIOUS
<1>2. PICK p \in Bijection(1..n, 1..n) : t = [i \in 1..n |-> s[p[i]]] /\ Falling(t, key)
  BY DEF Sorted
<1>3. /\ p \in [1..n -> 1..n] /\ \A i, j \in 1..n : p[i] = p[j] => i = j
      /\ \A j \in 1..n : \E i \in 1..n : p[i] = j
  <2>1. PICK D : D = 1..n
    OBVIOUS
  <2>2. p \in Injection(D, D) /\ p \in Surjection(D, D)
    BY <2>1 DEF Bijection
  <2>3. p \in [D -> D] /\ \A j \in D : \E i \in D : p[i] = j
    BY <2>2 DEF Surjection
  <2>4. \A i, j \in D : p[i] = p[j] => i = j
    BY <2>2, <2>3 DEF Injection, IsInjective
  <2> QED
    BY <2>1, <2>3, <2>4
<1>4. \A i \in 1..n : s[p[i]] \in S
  <2>1. \A i \in 1..n : s[i] \in S
    OBVIOUS
  <2> HIDE DEF n
  <2>2. \A i \in 1..n : p[i] \in 1..n
    BY <1>3
  <2> QED
    BY <2>1, <2>2
<1> HIDE DEF n
<1>5. t \in Seq(S) /\ Len(t) = n
  BY <1>1, <1>2, <1>4
<1>6. DOMAIN t = 1..n /\ \A i \in 1..n : t[i] = s[p[i]]
  BY <1>2
<1>7. Range(t) = Range(s)
  <2>1. ASSUME NEW i \in 1..n PROVE t[i] \in Range(s)
    <3>1. p[i] \in 1..n /\ t[i] = s[p[i]]
      BY <1>3, <1>6
    <3> QED
      BY <1>1, <3>1 DEF Range
  <2>2. ASSUME NEW j \in 1..n PROVE s[j] \in Range(t)
    <3>1. PICK i \in 1..n : p[i] = j
      BY <1>3
    <3>2. t[i] = s[j]
      BY <1>6, <3>1
    <3> QED
      BY <1>6, <3>2 DEF Range
  <2>3. \A x \in Range(t) : x \in Range(s)
    BY <1>6, <2>1 DEF Range
  <2>4. \A x \in Range(s) : x \in Range(t)
    BY <1>1, <2>2 DEF Range
  <2> QED
    BY <2>3, <2>4
<1>8. IsInjective(s) => IsInjective(t)
  <2> SUFFICES ASSUME IsInjective(s), NEW i \in 1..n, NEW j \in 1..n, t[i] = t[j] PROVE i = j
    BY <1>6 DEF IsInjective
  <2>1. p[i] \in 1..n /\ p[j] \in 1..n /\ s[p[i]] = s[p[j]]
    BY <1>3, <1>6
  <2>2. p[i] = p[j]
    BY <1>1, <2>1 DEF IsInjective
  <2> QED
    BY <1>3, <2>2
<1> QED
  BY <1>2, <1>5, <1>6, <1>7, <1>8 DEF n

-----------------------------------------------------------------------------
(* Types. *)

LEMMA Limits ==
    /\ topK \in Nat /\ topK > 0 /\ expandedTopK \in Nat /\ topK <= expandedTopK
    /\ FetchMultiplier \in Nat /\ FetchMultiplier > 0 /\ MaxScore \in Nat
    /\ lexicalWeight \in Nat /\ lexicalWeight > 0
<1>1. topK \in Nat /\ topK > 0 /\ Expanded \in Nat /\ Expanded > 0
  BY LimitsAssumption
<1>2. PICK e \in Nat : Expanded = e + 1
  BY <1>1
<1>3. topK * (e + 1) = topK * e + topK /\ topK * e \in Nat
  BY <1>1
<1>4. expandedTopK \in Nat /\ topK <= expandedTopK
  BY <1>1, <1>2, <1>3 DEF expandedTopK
<1> QED
  BY <1>1, <1>4, LimitsAssumption

LEMMA QueriesAre ==
    /\ Len(Queries) \in Nat /\ DOMAIN Queries = 1..Len(Queries)
    /\ \A i \in 1..Len(Queries) : Matching(Queries[i]) \subseteq Wanted
    /\ \A q : Matching(q) \subseteq Documents
    /\ Wanted = UNION {Matching(Queries[i]) : i \in 1..Len(Queries)}
<1>1. Queries \in Seq(Range(projectIDs) \cup {"all"})
  <2>1. CASE projectIDs = <<>>
    BY <2>1 DEF Queries
  <2>2. CASE projectIDs # <<>>
    <3>1. projectIDs \in Seq(Range(projectIDs))
      BY ProjectsAssumption
    <3>2. \A S, T : S \subseteq T => Seq(S) \subseteq Seq(T)
      OBVIOUS
    <3>3. Seq(Range(projectIDs)) \subseteq Seq(Range(projectIDs) \cup {"all"})
      BY <3>2
    <3>4. Queries = projectIDs
      BY <2>2 DEF Queries
    <3> QED
      BY <3>1, <3>3, <3>4
  <2> QED
    BY <2>1, <2>2
<1>2. Len(Queries) \in Nat /\ DOMAIN Queries = 1..Len(Queries)
  BY <1>1
<1>3. Range(Queries) = {Queries[i] : i \in 1..Len(Queries)}
  BY <1>2 DEF Range
<1>4. Wanted = UNION {Matching(Queries[i]) : i \in 1..Len(Queries)}
  <2>1. \A x : x \in Wanted <=> \E q \in Range(Queries) : x \in Matching(q)
    BY DEF Wanted
  <2> QED
    BY <1>3, <2>1
<1>5. \A q : Matching(q) \subseteq Documents
  BY DEF Matching
<1> QED
  BY <1>2, <1>4, <1>5

LEMMA ClampedIs ==
    ASSUME NEW n \in Nat, n # 0
    PROVE  clamped(n) \in 1..expandedTopK /\ clamped(n) <= n
           /\ clamped(n) = IF expandedTopK <= n THEN expandedTopK ELSE n
BY Limits, LeastOf DEF clamped

LEMMA FetchIs == ASSUME NEW n \in Nat PROVE fetchK(n) \in Nat
BY Limits DEF fetchK

Changing == {"bm25.Add", "AddDocuments", "bm25.Remove", "Delete"}
USE DEF Changing

LEMMA FiniteStore ==
    ASSUME SearchTypeOK, NEW S, S \subseteq present \/ S \subseteq entries \/ S \subseteq Documents
    PROVE  IsFiniteSet(S) /\ Cardinality(S) \in Nat
BY DocumentsAssumption, FS_Subset, FS_CardinalityType DEF SearchTypeOK

LEMMA SearchFields ==
    ASSUME SearchTypeOK
    PROVE  \A x \in {vector, lexical} :
              /\ x \in Searches /\ x.pc \in Phases /\ x.count \in Nat /\ x.found \in Seq(Documents)
              /\ x.asked \in Nat /\ x.asked <= Len(Queries) /\ x.hits \subseteq Documents
<1>1. vector \in Searches /\ lexical \in Searches
  BY DEF SearchTypeOK
<1>2. \A x \in Searches :
         /\ x.pc \in Phases /\ x.count \in Nat /\ x.found \in Seq(Documents)
         /\ x.asked \in Nat /\ x.asked <= Len(Queries) /\ x.hits \subseteq Documents
  <2> TAKE x \in Searches
  <2>1. /\ x.pc \in Phases /\ x.count \in Nat /\ x.found \in Seq(Documents)
        /\ x.asked \in 0..Len(Queries) /\ x.hits \subseteq Documents
    BY DEF Searches
  <2>2. Len(Queries) \in Nat
    BY QueriesAre
  <2> QED
    BY <2>1, <2>2
<1> QED
  BY <1>1, <1>2

\* A record with some fields changed is still a search.
LEMMA StillSearch ==
    ASSUME NEW x \in Searches
    PROVE  /\ \A p \in Phases : [x EXCEPT !.pc = p] \in Searches
           /\ \A p \in Phases, n \in Nat : [x EXCEPT !.pc = p, !.count = n] \in Searches
           /\ \A p \in Phases, h \in SUBSET Documents : [x EXCEPT !.pc = p, !.hits = h] \in Searches
           /\ \A p \in Phases, s \in Seq(Documents) : [x EXCEPT !.pc = p, !.found = s] \in Searches
           /\ \A s \in Seq(Documents) : x.asked < Len(Queries) =>
                 [x EXCEPT !.asked = @ + 1, !.found = @ \o s] \in Searches
<1>1. x.found \in Seq(Documents) /\ x.asked \in 0..Len(Queries) /\ Len(Queries) \in Nat
  BY QueriesAre DEF Searches
<1>2. \A s \in Seq(Documents) : x.found \o s \in Seq(Documents)
  BY <1>1
<1>3. x.asked < Len(Queries) => x.asked + 1 \in 0..Len(Queries)
  BY <1>1
<1> QED
  BY <1>2, <1>3 DEF Searches

LEMMA VectorQueryFinds ==
    ASSUME SearchTypeOK, VectorQuery, vector.count <= Cardinality(present)
    PROVE  \E t \in Seq(Documents), n \in Nat :
              /\ n = vector.count /\ vector.asked + 1 \in 1..Len(Queries)
              /\ Range(t) = present \cap Matching(Queries[vector.asked + 1])
              /\ IsInjective(t) /\ Falling(t, similarity)
              /\ vector' = [vector EXCEPT !.asked = @ + 1, !.found = @ \o Take(t, n)]
<1> DEFINE S == present \cap Matching(Queries[vector.asked + 1])
<1>1. vector.count \in Nat /\ vector.asked \in Nat /\ vector.asked < Len(Queries)
  BY SearchFields DEF VectorQuery
<1>2. Cardinality(present) \in Nat
  BY FiniteStore
<1>3. PICK t \in Ranked(S, similarity) :
         vector' = [vector EXCEPT !.asked = @ + 1, !.found = @ \o Take(t, vector.count)]
  <2>1. ~(vector.count > Cardinality(present))
    BY <1>1, <1>2
  <2> QED
    BY <2>1, Zenon DEF VectorQuery
<1>4. IsFiniteSet(S) /\ S \subseteq Documents
  BY FiniteStore DEF SearchTypeOK
<1>5. t \in Seq(S) /\ Range(t) = S /\ IsInjective(t) /\ Falling(t, similarity)
  <2> HIDE DEF S
  <2> QED
    BY <1>3, <1>4, RankedIs
<1>6. t \in Seq(Documents)
  BY <1>4, <1>5
<1>7. vector.asked + 1 \in 1..Len(Queries)
  BY <1>1, QueriesAre
<1> QED
  BY <1>1, <1>3, <1>5, <1>6, <1>7

LEMMA VectorRankFinds ==
    ASSUME SearchTypeOK, VectorRank
    PROVE  \E t, u \in Seq(Documents), n \in Nat :
              /\ n = vector.count
              /\ t \in Sorted(vector.found, similarity) /\ u \in Sorted(Take(t, n), Prioritised)
              /\ vector' = [vector EXCEPT !.pc = "done", !.found = u]
<1>1. vector.count \in Nat /\ vector.found \in Seq(Documents)
  BY SearchFields
<1>2. PICK t \in Sorted(vector.found, similarity) : \E u \in Sorted(Take(t, vector.count), Prioritised) :
         vector' = [vector EXCEPT !.pc = "done", !.found = u]
  BY DEF VectorRank
<1>3. t \in Seq(Documents)
  BY <1>1, SortedIs
<1>4. PICK u \in Sorted(Take(t, vector.count), Prioritised) :
         vector' = [vector EXCEPT !.pc = "done", !.found = u]
  BY <1>2
<1>5. Take(t, vector.count) \in Seq(Documents)
  BY <1>1, <1>3, TakeIs
<1>6. u \in Seq(Documents)
  BY <1>4, <1>5, SortedIs
<1> QED
  BY <1>1, <1>3, <1>4, <1>6

LEMMA LexicalQueryFinds ==
    ASSUME SearchTypeOK, LexicalQuery, lexical.count <= Cardinality(present)
    PROVE  \E t \in Seq(Documents) :
              /\ lexical.asked + 1 \in 1..Len(Queries)
              /\ Range(t) = present \cap Matching(Queries[lexical.asked + 1]) \cap lexical.hits
              /\ IsInjective(t)
              /\ lexical' = [lexical EXCEPT !.asked = @ + 1, !.found = @ \o t]
<1> DEFINE S == present \cap Matching(Queries[lexical.asked + 1]) \cap lexical.hits
<1>1. lexical.count \in Nat /\ lexical.asked \in Nat /\ lexical.asked < Len(Queries)
  BY SearchFields DEF LexicalQuery
<1>2. Cardinality(present) \in Nat
  BY FiniteStore
<1>3. PICK t \in Ranked(S, relevance) : lexical' = [lexical EXCEPT !.asked = @ + 1, !.found = @ \o t]
  <2>1. ~(lexical.count > Cardinality(present))
    BY <1>1, <1>2
  <2> QED
    BY <2>1, Zenon DEF LexicalQuery
<1>4. IsFiniteSet(S) /\ S \subseteq Documents
  BY FiniteStore DEF SearchTypeOK
<1>5. t \in Seq(S) /\ Range(t) = S /\ IsInjective(t)
  <2> HIDE DEF S
  <2> QED
    BY <1>3, <1>4, RankedIs
<1>6. t \in Seq(Documents)
  BY <1>4, <1>5
<1>7. lexical.asked + 1 \in 1..Len(Queries)
  BY <1>1, QueriesAre
<1> QED
  BY <1>3, <1>5, <1>6, <1>7

LEMMA LexicalRankFinds ==
    ASSUME SearchTypeOK, LexicalRank
    PROVE  \E t \in Seq(Documents) :
              /\ t \in Sorted(lexical.found, relevance)
              /\ lexical' = [lexical EXCEPT !.pc = "done", !.found = Take(t, expandedTopK)]
<1>1. lexical.found \in Seq(Documents)
  BY SearchFields
<1>2. PICK t \in Sorted(lexical.found, relevance) :
         lexical' = [lexical EXCEPT !.pc = "done", !.found = Take(t, expandedTopK)]
  BY DEF LexicalRank, ranked
<1>3. t \in Seq(Documents)
  BY <1>1, SortedIs
<1> QED
  BY <1>2, <1>3

\* The best entries of the lexical index.
LEMMA LexicalBM25Finds ==
    ASSUME SearchTypeOK, LexicalBM25
    PROVE  \E t \in Seq(Documents), n \in Nat :
              /\ Range(t) = {r \in entries : relevance[r] > 0} /\ Falling(t, relevance)
              /\ lexical' = IF Range(Take(t, n)) = {} THEN [lexical EXCEPT !.pc = "done"]
                            ELSE [lexical EXCEPT !.pc = "query", !.hits = Range(Take(t, n))]
              /\ Range(Take(t, n)) \subseteq Range(t)
<1> DEFINE S == {r \in entries : relevance[r] > 0}
<1>1. lexical.count \in Nat
  BY SearchFields
<1>2. PICK n \in Nat : n = fetchK(lexical.count)
  BY <1>1, FetchIs
<1>3. PICK t \in Ranked(S, relevance) :
         lexical' = IF Range(Take(t, n)) = {} THEN [lexical EXCEPT !.pc = "done"]
                    ELSE [lexical EXCEPT !.pc = "query", !.hits = Range(Take(t, n))]
  BY <1>2 DEF LexicalBM25
<1>4. IsFiniteSet(S) /\ S \subseteq Documents
  BY FiniteStore DEF SearchTypeOK
<1>5. t \in Seq(S) /\ Range(t) = S /\ Falling(t, relevance)
  <2> HIDE DEF S
  <2> QED
    BY <1>3, <1>4, RankedIs
<1>6. t \in Seq(Documents)
  BY <1>4, <1>5
<1>7. Range(Take(t, n)) \subseteq Range(t)
  BY <1>6, TakeIs
<1> QED
  BY <1>3, <1>5, <1>6, <1>7

fusedScore == [r \in candidates |-> fused(r)]

LEMMA FuseFinds ==
    ASSUME SearchTypeOK, Fuse, "failed" \notin {vector.pc, lexical.pc}
    PROVE  \E t \in Seq(Documents) :
              /\ Range(t) = candidates /\ IsInjective(t) /\ Falling(t, fusedScore)
              /\ Len(t) = Cardinality(candidates) /\ IsFiniteSet(candidates)
              /\ answer' = [pc |-> "answered", records |-> Take(t, topK)]
<1> DEFINE S == candidates
<1>2. PICK t \in Ranked(S, fusedScore) :
         answer' = [pc |-> "answered", records |-> Take(t, topK)]
  BY DEF Fuse, selected, fusedScore
<1>3. S \subseteq Documents
  <2>1. \A s \in Seq(Documents) : Range(s) \subseteq Documents
    BY DEF Range
  <2> QED
    BY <2>1 DEF candidates, SearchTypeOK, Searches
<1>4. IsFiniteSet(S)
  BY <1>3, FiniteStore
<1>5. /\ t \in Seq(S) /\ Range(t) = S /\ IsInjective(t) /\ Falling(t, fusedScore)
      /\ Len(t) = Cardinality(S)
  <2> HIDE DEF S
  <2> QED
    BY <1>2, <1>4, RankedIs
<1>6. t \in Seq(Documents)
  BY <1>3, <1>5
<1> QED
  BY <1>2, <1>4, <1>5, <1>6

LEMMA SearchTypes == SearchTypeOK /\ [SearchNext]_searchVars => SearchTypeOK'
<1> SUFFICES ASSUME SearchTypeOK, [SearchNext]_searchVars PROVE SearchTypeOK'
  OBVIOUS
<1> USE DEF store
<1>s. vector \in Searches /\ lexical \in Searches
      /\ \A p \in {"count", "bm25", "query", "done", "failed"} : p \in Phases
  BY DEF SearchTypeOK, Phases
<1>v. ASSUME UNCHANGED <<similarity, relevance, store, lexical, answer>>, vector' \in Searches
      PROVE  SearchTypeOK'
  BY <1>v DEF SearchTypeOK
<1>l. ASSUME UNCHANGED <<similarity, relevance, store, vector, answer>>, lexical' \in Searches
      PROVE  SearchTypeOK'
  BY <1>l DEF SearchTypeOK
<1>1. CASE VectorCount
  <2>1. Cardinality(present) \in Nat
    BY FiniteStore
  <2>2. Cardinality(present) # 0 => clamped(Cardinality(present)) \in Nat
    BY <2>1, ClampedIs, Limits
  <2> QED
    BY <1>1, <1>s, <1>v, <2>1, <2>2, StillSearch DEF VectorCount
<1>2. CASE VectorQuery
  <2>1. CASE vector.count <= Cardinality(present)
    <3>1. PICK t \in Seq(Documents), n \in Nat :
             vector' = [vector EXCEPT !.asked = @ + 1, !.found = @ \o Take(t, n)]
      BY <1>2, <2>1, VectorQueryFinds
    <3>2. Take(t, n) \in Seq(Documents) /\ vector.asked < Len(Queries)
      BY <1>2, TakeIs DEF VectorQuery
    <3> QED
      BY <1>2, <1>s, <1>v, <3>1, <3>2, StillSearch DEF VectorQuery
  <2>2. CASE ~(vector.count <= Cardinality(present))
    <3>1. vector.count \in Nat /\ Cardinality(present) \in Nat
      BY FiniteStore, SearchFields
    <3>2. vector' = [vector EXCEPT !.pc = "failed"]
      <4>1. vector.count > Cardinality(present)
        BY <2>2, <3>1
      <4> QED
        BY <1>2, <4>1, Zenon DEF VectorQuery
    <3> QED
      BY <1>2, <1>s, <1>v, <3>2, StillSearch DEF VectorQuery
  <2> QED
    BY <2>1, <2>2
<1>3. CASE VectorRank
  <2>1. PICK u \in Seq(Documents) : vector' = [vector EXCEPT !.pc = "done", !.found = u]
    BY <1>3, VectorRankFinds
  <2> QED
    BY <1>3, <1>s, <1>v, <2>1, StillSearch DEF VectorRank
<1>4. CASE LexicalCount
  <2>1. Cardinality(present) \in Nat
    BY FiniteStore
  <2> QED
    BY <1>4, <1>s, <1>l, <2>1, StillSearch DEF LexicalCount
<1>5. CASE LexicalBM25
  <2>1. PICK t \in Seq(Documents), n \in Nat :
           /\ Range(t) = {r \in entries : relevance[r] > 0}
           /\ lexical' = IF Range(Take(t, n)) = {} THEN [lexical EXCEPT !.pc = "done"]
                         ELSE [lexical EXCEPT !.pc = "query", !.hits = Range(Take(t, n))]
           /\ Range(Take(t, n)) \subseteq Range(t)
    BY <1>5, LexicalBM25Finds
  <2>2. Range(Take(t, n)) \in SUBSET Documents
    BY <2>1 DEF SearchTypeOK
  <2> QED
    BY <1>5, <1>s, <1>l, <2>1, <2>2, StillSearch DEF LexicalBM25
<1>6. CASE LexicalQuery
  <2>1. CASE lexical.count <= Cardinality(present)
    <3>1. PICK t \in Seq(Documents) : lexical' = [lexical EXCEPT !.asked = @ + 1, !.found = @ \o t]
      BY <1>6, <2>1, LexicalQueryFinds
    <3>2. lexical.asked < Len(Queries)
      BY <1>6 DEF LexicalQuery
    <3> QED
      BY <1>6, <1>s, <1>l, <3>1, <3>2, StillSearch DEF LexicalQuery
  <2>2. CASE ~(lexical.count <= Cardinality(present))
    <3>1. lexical.count \in Nat /\ Cardinality(present) \in Nat
      BY FiniteStore, SearchFields
    <3>2. lexical' = [lexical EXCEPT !.pc = "failed"]
      <4>1. lexical.count > Cardinality(present)
        BY <2>2, <3>1
      <4> QED
        BY <1>6, <4>1, Zenon DEF LexicalQuery
    <3> QED
      BY <1>6, <1>s, <1>l, <3>2, StillSearch DEF LexicalQuery
  <2> QED
    BY <2>1, <2>2
<1>7. CASE LexicalRank
  <2>1. PICK t \in Seq(Documents) :
           lexical' = [lexical EXCEPT !.pc = "done", !.found = Take(t, expandedTopK)]
    BY <1>7, LexicalRankFinds
  <2>2. Take(t, expandedTopK) \in Seq(Documents)
    BY Limits, TakeIs
  <2> QED
    BY <1>7, <1>s, <1>l, <2>1, <2>2, StillSearch DEF LexicalRank
<1>8. CASE Fuse
  <2>1. UNCHANGED <<similarity, relevance, store, vector, lexical>>
    BY <1>8 DEF Fuse
  <2>2. answer' \in [pc : {"none", "answered", "error"}, records : Seq(Documents)]
    <3>1. CASE "failed" \in {vector.pc, lexical.pc}
      BY <1>8, <3>1 DEF Fuse, SearchTypeOK
    <3>2. CASE "failed" \notin {vector.pc, lexical.pc}
      <4>1. PICK t \in Seq(Documents) : answer' = [pc |-> "answered", records |-> Take(t, topK)]
        BY <1>8, <3>2, FuseFinds
      <4>2. Take(t, topK) \in Seq(Documents)
        BY Limits, TakeIs
      <4> QED
        BY <4>1, <4>2
    <3> QED
      BY <3>1, <3>2
  <2> QED
    BY <2>1, <2>2 DEF SearchTypeOK
<1>9. ASSUME NEW r \in Documents, NEW which \in Changing,
             Change(r, which)
      PROVE  SearchTypeOK'
  <2>1. /\ UNCHANGED <<similarity, relevance, vector, lexical, answer>>
        /\ changes' = Append(changes, <<r, which>>) /\ held' = held \cup present'
        /\ present' \subseteq Documents /\ entries' \subseteq Documents
    BY <1>9 DEF Change, SearchTypeOK
  <2> QED
    BY <2>1 DEF SearchTypeOK
<1>10. CASE UNCHANGED searchVars
  BY <1>10 DEF searchVars, SearchTypeOK
<1> QED
  BY <1>1, <1>2, <1>3, <1>4, <1>5, <1>6, <1>7, <1>8, <1>9, <1>10 DEF SearchNext

LEMMA SearchStarts == SearchInit => SearchTypeOK
BY QueriesAre DEF SearchInit, SearchTypeOK, Searches, search, Phases

-----------------------------------------------------------------------------
(* What is found, and when a search fails. *)

LEMMA RangeOfAppend ==
    ASSUME NEW S, NEW s \in Seq(S), NEW x
    PROVE  Range(Append(s, x)) = Range(s) \cup {x}
<1>1. Len(s) \in Nat /\ DOMAIN s = 1..Len(s) /\ DOMAIN Append(s, x) = 1..Len(s) + 1
  OBVIOUS
<1>2. /\ \A i \in 1..Len(s) : Append(s, x)[i] = s[i]
      /\ Append(s, x)[Len(s) + 1] = x
  OBVIOUS
<1>3. 1..Len(s) + 1 = 1..Len(s) \cup {Len(s) + 1}
  BY <1>1
<1> QED
  BY <1>1, <1>2, <1>3 DEF Range

LEMMA RangeOfConcat ==
    ASSUME NEW S, NEW s \in Seq(S), NEW t \in Seq(S)
    PROVE  /\ s \o t \in Seq(S) /\ Len(s \o t) = Len(s) + Len(t)
           /\ \A i \in 1..Len(s) : (s \o t)[i] = s[i]
           /\ \A i \in 1..Len(t) : (s \o t)[Len(s) + i] = t[i]
           /\ Range(s \o t) = Range(s) \cup Range(t)
           /\ IsInjective(s) /\ IsInjective(t) /\ Range(s) \cap Range(t) = {} => IsInjective(s \o t)
<1> DEFINE u == s \o t
<1>1. /\ u \in Seq(S) /\ Len(u) = Len(s) + Len(t) /\ Len(s) \in Nat /\ Len(t) \in Nat
      /\ \A i \in 1..Len(s) : u[i] = s[i]
      /\ \A i \in 1..Len(t) : u[Len(s) + i] = t[i]
  OBVIOUS
<1>2. /\ DOMAIN s = 1..Len(s) /\ DOMAIN t = 1..Len(t) /\ DOMAIN u = 1..Len(u)
  OBVIOUS
<1> HIDE DEF u
<1>3. \A i \in 1..Len(u) : i \in 1..Len(s) \/ \E j \in 1..Len(t) : i = Len(s) + j
  <2> TAKE i \in 1..Len(u)
  <2>1. CASE i <= Len(s)
    BY <1>1, <2>1
  <2>2. CASE ~(i <= Len(s))
    <3>1. i - Len(s) \in 1..Len(t) /\ i = Len(s) + (i - Len(s))
      BY <1>1, <2>2
    <3> QED
      BY <3>1
  <2> QED
    BY <2>1, <2>2
<1>4. \A i \in 1..Len(s) : i \in 1..Len(u)
  BY <1>1
<1>5. \A i \in 1..Len(t) : Len(s) + i \in 1..Len(u)
  BY <1>1
<1>6. Range(u) = Range(s) \cup Range(t)
  <2>1. ASSUME NEW i \in 1..Len(u) PROVE u[i] \in Range(s) \cup Range(t)
    <3>1. CASE i \in 1..Len(s)
      <4>1. u[i] = s[i]
        BY <1>1, <3>1
      <4> QED
        BY <1>2, <3>1, <4>1 DEF Range
    <3>2. ASSUME NEW j \in 1..Len(t), i = Len(s) + j PROVE u[i] \in Range(t)
      <4>1. u[i] = t[j]
        BY <1>1, <3>2
      <4> QED
        BY <1>2, <4>1 DEF Range
    <3> QED
      BY <1>3, <3>1, <3>2
  <2>2. \A x \in Range(s) : x \in Range(u)
    BY <1>1, <1>2, <1>4 DEF Range
  <2>3. \A x \in Range(t) : x \in Range(u)
    BY <1>1, <1>2, <1>5 DEF Range
  <2>4. \A x \in Range(u) : x \in Range(s) \cup Range(t)
    BY <1>2, <2>1 DEF Range
  <2> QED
    BY <2>2, <2>3, <2>4
<1>7. ASSUME IsInjective(s), IsInjective(t), Range(s) \cap Range(t) = {}
      PROVE  IsInjective(u)
  <2> SUFFICES ASSUME NEW i \in 1..Len(u), NEW j \in 1..Len(u), u[i] = u[j] PROVE i = j
    BY <1>2 DEF IsInjective
  <2>1. CASE i \in 1..Len(s) /\ j \in 1..Len(s)
    BY <1>1, <1>2, <1>7, <2>1 DEF IsInjective
  <2>2. ASSUME NEW k \in 1..Len(t), i = Len(s) + k, NEW l \in 1..Len(t), j = Len(s) + l PROVE i = j
    <3>1. u[i] = t[k] /\ u[j] = t[l]
      BY <1>1, <2>2
    <3>2. k \in DOMAIN t /\ l \in DOMAIN t
      BY <1>2
    <3>3. k = l
      BY <1>7, <2>2, <3>1, <3>2 DEF IsInjective
    <3> QED
      BY <2>2, <3>3
  <2>3. ASSUME NEW k \in 1..Len(t), i = Len(s) + k, j \in 1..Len(s) PROVE FALSE
    <3>1. u[i] \in Range(t) /\ u[j] \in Range(s)
      BY <1>1, <1>2, <2>3 DEF Range
    <3> QED
      BY <1>7, <3>1
  <2>4. ASSUME NEW l \in 1..Len(t), j = Len(s) + l, i \in 1..Len(s) PROVE FALSE
    <3>1. u[j] \in Range(t) /\ u[i] \in Range(s)
      BY <1>1, <1>2, <2>4 DEF Range
    <3> QED
      BY <1>7, <3>1
  <2> QED
    BY <1>3, <2>1, <2>2, <2>3, <2>4
<1> QED
  BY <1>1, <1>6, <1>7 DEF u

\* A change is noted, and what it is about is in the store as long as before.
LEMMA ChangeNotes ==
    ASSUME SearchTypeOK, NEW r \in Documents,
           NEW which \in Changing, Change(r, which)
    PROVE  /\ changed' = changed \cup {r} /\ changes' # <<>>
           /\ Range(changes') = Range(changes) \cup {<<r, which>>}
           /\ held \subseteq held' /\ held' \subseteq held \cup {r}
           /\ \A x \in Documents \ {r} : /\ x \in present' <=> x \in present
                                         /\ x \in entries' <=> x \in entries
           /\ which = "Delete" \/ present \subseteq present'
           /\ UNCHANGED <<similarity, relevance, vector, lexical, answer>>
<1>1. changes' = Append(changes, <<r, which>>) /\ held' = held \cup present'
      /\ UNCHANGED <<similarity, relevance, vector, lexical, answer>>
  BY DEF Change
<1>2. changes \in Seq(Documents \X Changing)
      /\ present \subseteq held
  BY DEF SearchTypeOK
<1>3. Range(changes') = Range(changes) \cup {<<r, which>>}
  BY <1>1, <1>2, RangeOfAppend
<1>4. changed' = changed \cup {r}
  <2>1. <<r, which>>[1] = r
    OBVIOUS
  <2>2. changed = {c[1] : c \in Range(changes)} /\ changed' = {c[1] : c \in Range(changes')}
    BY DEF changed
  <2>3. PICK S : S = Range(changes)
    OBVIOUS
  <2>4. PICK c0 : c0 = <<r, which>>
    OBVIOUS
  <2>5. {c[1] : c \in S \cup {c0}} = {c[1] : c \in S} \cup {c0[1]}
    OBVIOUS
  <2> QED
    BY <1>3, <2>1, <2>2, <2>3, <2>4, <2>5
<1>5. changes' # <<>>
  BY <1>1, <1>2
<1>6. /\ \A x \in Documents \ {r} : /\ x \in present' <=> x \in present
                                    /\ x \in entries' <=> x \in entries
      /\ which = "Delete" \/ present \subseteq present'
      /\ present' \subseteq present \cup {r}
  BY DEF Change
<1> QED
  BY <1>1, <1>2, <1>3, <1>4, <1>5, <1>6

LEMMA SteadyStep == SearchTypeOK /\ SteadyInv /\ [SearchNext]_searchVars => SteadyInv'
<1> SUFFICES ASSUME SearchTypeOK, SteadyInv, [SearchNext]_searchVars PROVE SteadyInv'
  OBVIOUS
<1>1. CASE UNCHANGED store
  BY <1>1 DEF store, SteadyInv, changed
<1>2. ASSUME NEW r \in Documents, NEW which \in Changing,
             Change(r, which)
      PROVE  SteadyInv'
  BY <1>2, ChangeNotes DEF SteadyInv
<1>3. UNCHANGED store \/ \E r \in Documents, which \in Changing :
         Change(r, which)
  BY DEF SearchNext, searchVars, VectorCount, VectorQuery, VectorRank, LexicalCount, LexicalBM25, LexicalQuery,
         LexicalRank, Fuse
<1> QED
  BY <1>1, <1>2, <1>3

LEMMA VectorQueried ==
    ASSUME SearchTypeOK, VectorQuery, vector.count <= Cardinality(present)
    PROVE  /\ vector'.pc = "query" /\ vector'.count = vector.count
           /\ Range(vector'.found) \subseteq
                 Range(vector.found) \cup (present \cap Matching(Queries[vector.asked + 1]))
<1>1. PICK t \in Seq(Documents), n \in Nat :
         /\ Range(t) = present \cap Matching(Queries[vector.asked + 1])
         /\ vector' = [vector EXCEPT !.asked = @ + 1, !.found = @ \o Take(t, n)]
  BY VectorQueryFinds
<1>2. vector \in Searches /\ vector.pc = "query" /\ vector.found \in Seq(Documents)
  BY SearchFields DEF VectorQuery
<1>3. Range(Take(t, n)) \subseteq Range(t) /\ Take(t, n) \in Seq(Documents)
  BY TakeIs
<1>4. Range(vector.found \o Take(t, n)) = Range(vector.found) \cup Range(Take(t, n))
  BY <1>2, <1>3, RangeOfConcat
<1>5. /\ vector'.pc = "query" /\ vector'.count = vector.count
      /\ vector'.found = vector.found \o Take(t, n)
  BY <1>1, <1>2 DEF Searches
<1> QED
  BY <1>1, <1>3, <1>4, <1>5

LEMMA VectorRanked ==
    ASSUME SearchTypeOK, VectorRank
    PROVE  vector'.pc = "done" /\ Range(vector'.found) \subseteq Range(vector.found)
<1>1. PICK t, u \in Seq(Documents), n \in Nat :
         /\ t \in Sorted(vector.found, similarity) /\ u \in Sorted(Take(t, n), Prioritised)
         /\ vector' = [vector EXCEPT !.pc = "done", !.found = u]
  BY VectorRankFinds
<1>2. vector \in Searches /\ vector.found \in Seq(Documents)
  BY SearchFields
<1>3. Range(t) = Range(vector.found)
  BY <1>1, <1>2, SortedIs
<1>4. Range(Take(t, n)) \subseteq Range(t) /\ Take(t, n) \in Seq(Documents)
  BY TakeIs
<1>5. Range(u) = Range(Take(t, n))
  BY <1>1, <1>4, SortedIs
<1>6. vector'.pc = "done" /\ vector'.found = u
  BY <1>1, <1>2 DEF Searches
<1> QED
  BY <1>3, <1>4, <1>5, <1>6

LEMMA LexicalQueried ==
    ASSUME SearchTypeOK, LexicalQuery, lexical.count <= Cardinality(present)
    PROVE  /\ lexical'.pc = "query" /\ lexical'.count = lexical.count
           /\ Range(lexical'.found) \subseteq
                 Range(lexical.found) \cup (present \cap Matching(Queries[lexical.asked + 1]))
<1>1. PICK t \in Seq(Documents) :
         /\ Range(t) = present \cap Matching(Queries[lexical.asked + 1]) \cap lexical.hits
         /\ lexical' = [lexical EXCEPT !.asked = @ + 1, !.found = @ \o t]
  BY LexicalQueryFinds
<1>2. lexical \in Searches /\ lexical.pc = "query" /\ lexical.found \in Seq(Documents)
  BY SearchFields DEF LexicalQuery
<1>3. Range(lexical.found \o t) = Range(lexical.found) \cup Range(t)
  BY <1>2, RangeOfConcat
<1>4. /\ lexical'.pc = "query" /\ lexical'.count = lexical.count
      /\ lexical'.found = lexical.found \o t
  BY <1>1, <1>2 DEF Searches
<1> QED
  BY <1>1, <1>3, <1>4

LEMMA LexicalRanked ==
    ASSUME SearchTypeOK, LexicalRank
    PROVE  lexical'.pc = "done" /\ Range(lexical'.found) \subseteq Range(lexical.found)
<1>1. PICK t \in Seq(Documents) :
         /\ t \in Sorted(lexical.found, relevance)
         /\ lexical' = [lexical EXCEPT !.pc = "done", !.found = Take(t, expandedTopK)]
  BY LexicalRankFinds
<1>2. lexical \in Searches /\ lexical.found \in Seq(Documents)
  BY SearchFields
<1>3. Range(t) = Range(lexical.found)
  BY <1>1, <1>2, SortedIs
<1>4. Range(Take(t, expandedTopK)) \subseteq Range(t)
  BY Limits, TakeIs
<1>5. lexical'.pc = "done" /\ lexical'.found = Take(t, expandedTopK)
  BY <1>1, <1>2 DEF Searches
<1> QED
  BY <1>3, <1>4, <1>5

LEMMA VectorFails ==
    ASSUME SearchTypeOK, VectorQuery, ~(vector.count <= Cardinality(present))
    PROVE  vector' = [vector EXCEPT !.pc = "failed"] /\ vector'.found = vector.found
           /\ vector'.pc = "failed"
<1>1. vector.count \in Nat /\ Cardinality(present) \in Nat /\ vector \in Searches
  BY FiniteStore, SearchFields
<1>2. vector.count > Cardinality(present)
  BY <1>1
<1>3. vector' = [vector EXCEPT !.pc = "failed"]
  BY <1>2, Zenon DEF VectorQuery
<1> QED
  BY <1>1, <1>3 DEF Searches

LEMMA LexicalFails ==
    ASSUME SearchTypeOK, LexicalQuery, ~(lexical.count <= Cardinality(present))
    PROVE  lexical' = [lexical EXCEPT !.pc = "failed"] /\ lexical'.found = lexical.found
           /\ lexical'.pc = "failed"
<1>1. lexical.count \in Nat /\ Cardinality(present) \in Nat /\ lexical \in Searches
  BY FiniteStore, SearchFields
<1>2. lexical.count > Cardinality(present)
  BY <1>1
<1>3. lexical' = [lexical EXCEPT !.pc = "failed"]
  BY <1>2, Zenon DEF LexicalQuery
<1> QED
  BY <1>1, <1>3 DEF Searches

LEMMA FoundStep == SearchTypeOK /\ FoundInv /\ [SearchNext]_searchVars => FoundInv'
<1> SUFFICES ASSUME SearchTypeOK, FoundInv, [SearchNext]_searchVars PROVE FoundInv'
  OBVIOUS
<1>s. vector \in Searches /\ lexical \in Searches /\ present \subseteq held
  BY DEF SearchTypeOK
<1>q. \A i \in 1..Len(Queries) : Matching(Queries[i]) \subseteq Wanted
  BY QueriesAre
<1>w. \A s \in {vector, lexical} : s.asked < Len(Queries) =>
         present \cap Matching(Queries[s.asked + 1]) \subseteq Wanted \cap held
  <2> SUFFICES ASSUME NEW s \in {vector, lexical}, s.asked < Len(Queries)
               PROVE  present \cap Matching(Queries[s.asked + 1]) \subseteq Wanted \cap held
    OBVIOUS
  <2>1. s.asked \in Nat /\ Len(Queries) \in Nat
    BY SearchFields, QueriesAre
  <2>2. s.asked + 1 \in 1..Len(Queries)
    BY <2>1
  <2> QED
    BY <1>s, <1>q, <2>2
<1>v. ASSUME UNCHANGED <<similarity, relevance, store, lexical, answer>>,
             \/ Range(vector'.found) \subseteq Range(vector.found)
             \/ Range(vector'.found) \subseteq Range(vector.found) \cup (Wanted \cap held)
      PROVE  FoundInv'
  BY <1>v DEF FoundInv, store
<1>l. ASSUME UNCHANGED <<similarity, relevance, store, vector, answer>>,
             \/ Range(lexical'.found) \subseteq Range(lexical.found)
             \/ Range(lexical'.found) \subseteq Range(lexical.found) \cup (Wanted \cap held)
      PROVE  FoundInv'
  BY <1>l DEF FoundInv, store
<1>1. CASE VectorCount
  <2>1. vector'.found = vector.found
    BY <1>1, <1>s DEF VectorCount, Searches
  <2> QED
    BY <1>1, <1>v, <2>1 DEF VectorCount
<1>2. CASE VectorQuery
  <2>1. CASE vector.count <= Cardinality(present)
    BY <1>2, <1>v, <1>w, <2>1, VectorQueried DEF VectorQuery
  <2>2. CASE ~(vector.count <= Cardinality(present))
    BY <1>2, <1>v, <2>2, VectorFails DEF VectorQuery
  <2> QED
    BY <2>1, <2>2
<1>3. CASE VectorRank
  BY <1>3, <1>v, VectorRanked DEF VectorRank
<1>4. CASE LexicalCount
  <2>1. lexical'.found = lexical.found
    BY <1>4, <1>s DEF LexicalCount, Searches
  <2> QED
    BY <1>4, <1>l, <2>1 DEF LexicalCount
<1>5. CASE LexicalBM25
  <2>1. lexical'.found = lexical.found
    BY <1>5, <1>s DEF LexicalBM25, Searches
  <2> QED
    BY <1>5, <1>l, <2>1 DEF LexicalBM25
<1>6. CASE LexicalQuery
  <2>1. CASE lexical.count <= Cardinality(present)
    BY <1>6, <1>l, <1>w, <2>1, LexicalQueried DEF LexicalQuery
  <2>2. CASE ~(lexical.count <= Cardinality(present))
    BY <1>6, <1>l, <2>2, LexicalFails DEF LexicalQuery
  <2> QED
    BY <2>1, <2>2
<1>7. CASE LexicalRank
  BY <1>7, <1>l, LexicalRanked DEF LexicalRank
<1>8. CASE Fuse
  BY <1>8 DEF Fuse, FoundInv, store
<1>9. ASSUME NEW r \in Documents, NEW which \in Changing,
             Change(r, which)
      PROVE  FoundInv'
  BY <1>9, ChangeNotes DEF FoundInv
<1>10. CASE UNCHANGED searchVars
  BY <1>10 DEF searchVars, store, FoundInv
<1> QED
  BY <1>1, <1>2, <1>3, <1>4, <1>5, <1>6, <1>7, <1>8, <1>9, <1>10 DEF SearchNext

LEMMA CountStep == SearchTypeOK /\ CountInv /\ [SearchNext]_searchVars => CountInv'
<1> SUFFICES ASSUME SearchTypeOK, CountInv, [SearchNext]_searchVars PROVE CountInv'
  OBVIOUS
<1>s. vector \in Searches /\ lexical \in Searches
  BY DEF SearchTypeOK
<1>n. Cardinality(present) \in Nat
  BY FiniteStore
<1>v. ASSUME UNCHANGED <<similarity, relevance, store, lexical, answer>>,
             ~Shrunk => /\ vector'.pc # "failed"
                        /\ vector'.pc \in {"bm25", "query"} => vector'.count <= Cardinality(present)
      PROVE  CountInv'
  BY <1>v DEF CountInv, Counted, Shrunk, store
<1>l. ASSUME UNCHANGED <<similarity, relevance, store, vector, answer>>,
             ~Shrunk => /\ lexical'.pc # "failed"
                        /\ lexical'.pc \in {"bm25", "query"} => lexical'.count <= Cardinality(present)
      PROVE  CountInv'
  BY <1>l DEF CountInv, Counted, Shrunk, store
<1>1. CASE VectorCount
  <2>1. CASE Cardinality(present) = 0
    <3>1. vector'.pc = "done"
      BY <1>1, <1>s, <2>1 DEF VectorCount, Searches
    <3> QED
      BY <1>1, <1>v, <3>1 DEF VectorCount
  <2>2. CASE Cardinality(present) # 0
    <3>1. vector'.pc = "query" /\ vector'.count = clamped(Cardinality(present))
      BY <1>1, <1>s, <2>2 DEF VectorCount, Searches
    <3>2. clamped(Cardinality(present)) <= Cardinality(present)
      BY <1>n, <2>2, ClampedIs
    <3> QED
      BY <1>1, <1>v, <3>1, <3>2 DEF VectorCount
  <2> QED
    BY <2>1, <2>2
<1>2. CASE VectorQuery
  <2>1. CASE vector.count <= Cardinality(present)
    BY <1>2, <1>v, <2>1, VectorQueried DEF VectorQuery
  <2>2. CASE ~(vector.count <= Cardinality(present))
    <3>1. Shrunk
      BY <1>2, <2>2 DEF CountInv, Counted, VectorQuery
    <3> QED
      BY <1>2, <1>v, <3>1 DEF VectorQuery
  <2> QED
    BY <2>1, <2>2
<1>3. CASE VectorRank
  BY <1>3, <1>v, VectorRanked DEF VectorRank
<1>4. CASE LexicalCount
  <2>1. CASE Cardinality(present) = 0
    <3>1. lexical'.pc = "done"
      BY <1>4, <1>s, <2>1 DEF LexicalCount, Searches
    <3> QED
      BY <1>4, <1>l, <3>1 DEF LexicalCount
  <2>2. CASE Cardinality(present) # 0
    <3>1. lexical'.pc = "bm25" /\ lexical'.count = Cardinality(present)
      BY <1>4, <1>s, <2>2 DEF LexicalCount, Searches
    <3> QED
      BY <1>4, <1>l, <1>n, <3>1 DEF LexicalCount
  <2> QED
    BY <2>1, <2>2
<1>5. CASE LexicalBM25
  <2>1. lexical'.count = lexical.count /\ lexical'.pc # "failed"
    BY <1>5, <1>s DEF LexicalBM25, Searches
  <2>2. ~Shrunk => lexical.count <= Cardinality(present)
    BY <1>5 DEF CountInv, Counted, LexicalBM25
  <2> QED
    BY <1>5, <1>l, <2>1, <2>2 DEF LexicalBM25
<1>6. CASE LexicalQuery
  <2>1. CASE lexical.count <= Cardinality(present)
    BY <1>6, <1>l, <2>1, LexicalQueried DEF LexicalQuery
  <2>2. CASE ~(lexical.count <= Cardinality(present))
    <3>1. Shrunk
      BY <1>6, <2>2 DEF CountInv, Counted, LexicalQuery
    <3> QED
      BY <1>6, <1>l, <3>1 DEF LexicalQuery
  <2> QED
    BY <2>1, <2>2
<1>7. CASE LexicalRank
  BY <1>7, <1>l, LexicalRanked DEF LexicalRank
<1>8. CASE Fuse
  BY <1>8 DEF Fuse, CountInv, Counted, Shrunk, store
<1>9. ASSUME NEW r \in Documents, NEW which \in Changing,
             Change(r, which)
      PROVE  CountInv'
  <2>1. Range(changes') = Range(changes) \cup {<<r, which>>} /\ vector' = vector /\ lexical' = lexical
    BY <1>9, ChangeNotes
  <2>2. CASE which = "Delete"
    <3>1. <<r, which>> \in Range(changes') /\ <<r, which>>[2] = "Delete"
      BY <2>1, <2>2
    <3>2. Shrunk'
      BY <3>1, Zenon DEF Shrunk
    <3> QED
      BY <3>2 DEF CountInv, Counted
  <2>3. CASE which # "Delete"
    <3>1. Shrunk => Shrunk'
      BY <2>1 DEF Shrunk
    <3>2. present \subseteq present' /\ present' \subseteq Documents
      BY <1>9, <2>3, ChangeNotes DEF Change, SearchTypeOK
    <3>3. IsFiniteSet(present')
      BY <3>2, FiniteStore
    <3>4. Cardinality(present) <= Cardinality(present') /\ Cardinality(present') \in Nat
      BY <3>2, <3>3, FS_Subset, FS_CardinalityType
    <3>5. vector.count \in Nat /\ lexical.count \in Nat
      BY SearchFields
    <3> QED
      BY <1>n, <2>1, <3>1, <3>4, <3>5 DEF CountInv, Counted
  <2> QED
    BY <2>2, <2>3
<1>10. CASE UNCHANGED searchVars
  BY <1>10 DEF searchVars, store, CountInv, Counted, Shrunk
<1> QED
  BY <1>1, <1>2, <1>3, <1>4, <1>5, <1>6, <1>7, <1>8, <1>9, <1>10 DEF SearchNext

LEMMA SoundStep ==
    /\ SearchTypeOK /\ FoundInv /\ CountInv /\ AnswerSound /\ FailsOnlyWhenShrunk
    /\ [SearchNext]_searchVars
    => AnswerSound' /\ FailsOnlyWhenShrunk'
<1> SUFFICES ASSUME SearchTypeOK, FoundInv, CountInv, AnswerSound, FailsOnlyWhenShrunk, [SearchNext]_searchVars
             PROVE  AnswerSound' /\ FailsOnlyWhenShrunk'
  OBVIOUS
<1>1. CASE UNCHANGED <<store, answer>>
  BY <1>1 DEF AnswerSound, FailsOnlyWhenShrunk, store
<1>2. CASE Fuse
  <2>1. held' = held /\ changes' = changes
    BY <1>2 DEF Fuse, store
  <2>2. CASE "failed" \in {vector.pc, lexical.pc}
    <3>1. answer'.pc = "error" /\ answer'.records = answer.records
      BY <1>2, <2>2 DEF Fuse, SearchTypeOK
    <3>2. Shrunk
      BY <2>2 DEF CountInv, Counted
    <3> QED
      BY <2>1, <3>1, <3>2 DEF AnswerSound, FailsOnlyWhenShrunk, Shrunk
  <2>3. CASE "failed" \notin {vector.pc, lexical.pc}
    <3>1. PICK t \in Seq(Documents) :
             /\ Range(t) = candidates /\ IsInjective(t)
             /\ answer' = [pc |-> "answered", records |-> Take(t, topK)]
      BY <1>2, <2>3, FuseFinds
    <3>2. /\ Len(Take(t, topK)) <= topK /\ IsInjective(Take(t, topK))
          /\ Range(Take(t, topK)) \subseteq Range(t)
      <4>1. Len(t) \in Nat /\ topK \in Nat
        BY Limits
      <4>2. /\ Len(Take(t, topK)) = IF topK <= Len(t) THEN topK ELSE Len(t)
            /\ IsInjective(Take(t, topK)) /\ Range(Take(t, topK)) \subseteq Range(t)
        BY <3>1, <4>1, TakeIs
      <4> QED
        BY <4>1, <4>2
    <3>3. candidates \subseteq Wanted \cap held
      BY DEF candidates, FoundInv
    <3>4. answer'.pc = "answered" /\ answer'.records = Take(t, topK)
      BY <3>1
    <3> QED
      BY <2>1, <3>1, <3>2, <3>3, <3>4 DEF AnswerSound, FailsOnlyWhenShrunk
  <2> QED
    BY <2>2, <2>3
<1>3. ASSUME NEW r \in Documents, NEW which \in Changing,
             Change(r, which)
      PROVE  AnswerSound' /\ FailsOnlyWhenShrunk'
  BY <1>3, ChangeNotes DEF AnswerSound, FailsOnlyWhenShrunk
<1> QED
  BY <1>1, <1>2, <1>3 DEF SearchNext, searchVars, store, VectorCount, VectorQuery, VectorRank, LexicalCount,
     LexicalBM25, LexicalQuery, LexicalRank

Basics ==
    SearchTypeOK /\ SteadyInv /\ FoundInv /\ CountInv /\ AnswerSound /\ FailsOnlyWhenShrunk

LEMMA BasicsStart == SearchInit => Basics
<1> SUFFICES ASSUME SearchInit PROVE Basics
  OBVIOUS
<1>1. /\ vector = search /\ lexical = search /\ answer = [pc |-> "none", records |-> <<>>]
      /\ present \subseteq Documents /\ entries = present /\ held = present
  BY DEF SearchInit
<1>2. search.pc = "count" /\ search.found = <<>> /\ answer.pc = "none" /\ answer.records = <<>>
  BY <1>1 DEF search
<1>3. Range(<<>>) = {} /\ IsInjective(<<>>) /\ Len(<<>>) = 0
  BY DEF Range, IsInjective
<1> QED
  BY <1>1, <1>2, <1>3, Limits, SearchStarts
     DEF Basics, SteadyInv, FoundInv, CountInv, Counted, AnswerSound, FailsOnlyWhenShrunk

LEMMA BasicsStep == Basics /\ [SearchNext]_searchVars => Basics'
BY SearchTypes, SteadyStep, FoundStep, CountStep, SoundStep DEF Basics

\* What is returned was in the collection during the call, belongs to a project
\* asked for, comes once and is not too much of it, whatever changes the store.
THEOREM AnswersAreSound == SearchSpec => []AnswerSound
<1>1. Basics => AnswerSound
  BY DEF Basics
<1> QED
  BY BasicsStart, BasicsStep, <1>1, PTL DEF SearchSpec

-----------------------------------------------------------------------------
(* How many, and in which order. *)

LEMMA LengthIsCardinality ==
    ASSUME NEW S, NEW s \in Seq(S), IsInjective(s)
    PROVE  IsFiniteSet(Range(s)) /\ Cardinality(Range(s)) = Len(s)
<1>1. Len(s) \in Nat /\ DOMAIN s = 1..Len(s)
  OBVIOUS
<1>2. s \in [1..Len(s) -> Range(s)] /\ \A x \in Range(s) : \E i \in 1..Len(s) : s[i] = x
  BY <1>1 DEF Range
<1>3. s \in Surjection(1..Len(s), Range(s)) /\ s \in Injection(1..Len(s), Range(s))
  BY <1>2 DEF Surjection, Injection
<1>4. IsFiniteSet(1..Len(s)) /\ Cardinality(1..Len(s)) = Len(s)
  <2>1. PICK m \in Nat : m = Len(s)
    BY <1>1
  <2>2. 1 \in Int /\ m \in Int /\ (1 > m => m = 0) /\ m - 1 + 1 = m
    OBVIOUS
  <2>3. IsFiniteSet(1..m) /\ Cardinality(1..m) = m
    BY <2>2, FS_Interval
  <2> QED
    BY <2>1, <2>3
<1>5. /\ IsFiniteSet(Range(s))
      /\ Cardinality(Range(s)) = Cardinality(1..Len(s)) <=> s \in Injection(1..Len(s), Range(s))
  BY <1>3, <1>4, FS_Surjection
<1> QED
  BY <1>3, <1>4, <1>5

\* The places in t of n records of s in a row are all before place j.
AllBefore(s, t, lo, n, j) == \A k \in lo+1..lo+n, i \in 1..Len(t) : t[i] = s[k] => i < j

\* n records do not have their places among fewer than n.
LEMMA NoRoom ==
    ASSUME NEW S, NEW s \in Seq(S), NEW t \in Seq(S), IsInjective(s), Range(s) \subseteq Range(t),
           NEW lo \in Nat, NEW n \in Nat, lo + n <= Len(s), NEW j \in 1..n,
           AllBefore(s, t, lo, n, j)
    PROVE  FALSE
<1> DEFINE A == lo+1..lo+n
           B == 1..j-1
<1>1. /\ Len(s) \in Nat /\ DOMAIN s = 1..Len(s)
      /\ Len(t) \in Nat /\ DOMAIN t = 1..Len(t)
  OBVIOUS
<1>2. \A k \in A : k \in 1..Len(s)
  BY <1>1
<1>3. \A k \in A : \E i \in 1..Len(t) : t[i] = s[k]
  <2> TAKE k \in A
  <2>1. s[k] \in Range(s)
    BY <1>1, <1>2 DEF Range
  <2> QED
    BY <1>1, <2>1 DEF Range
<1>4. PICK f : f = [k \in A |-> CHOOSE i \in 1..Len(t) : t[i] = s[k]]
  OBVIOUS
<1>5. \A k \in A : f[k] \in 1..Len(t) /\ t[f[k]] = s[k]
  BY <1>3, <1>4
<1>6. \A k \in A : f[k] \in B
  BY <1>1, <1>5 DEF AllBefore
<1>7. \A k, l \in A : f[k] = f[l] => k = l
  BY <1>1, <1>2, <1>5 DEF IsInjective
<1>8. f \in Injection(A, B)
  BY <1>4, <1>6, <1>7 DEF Injection, IsInjective
<1>9. IsFiniteSet(A) /\ Cardinality(A) = n /\ IsFiniteSet(B) /\ Cardinality(B) = j - 1
  <2>1. lo+1 \in Int /\ lo+n \in Int /\ ~(lo+1 > lo+n) /\ (lo+n) - (lo+1) + 1 = n
    OBVIOUS
  <2>2. IsFiniteSet(A) /\ Cardinality(A) = n
    BY <2>1, FS_Interval
  <2>3. 1 \in Int /\ j-1 \in Int /\ (j-1) - 1 + 1 = j - 1 /\ (1 > j-1 => j-1 = 0)
    OBVIOUS
  <2>4. IsFiniteSet(B) /\ Cardinality(B) = j - 1
    BY <2>3, FS_Interval
  <2> QED
    BY <2>2, <2>4
<1>10. Cardinality(A) <= Cardinality(B)
  <2> HIDE DEF A, B
  <2> QED
    BY <1>8, <1>9, FS_Injection
<1> QED
  BY <1>9, <1>10

LEMMA BeforeIsAhead ==
    ASSUME NEW S, NEW s \in Seq(S), NEW x, NEW j \in 1..Len(s), Before(s, x, s[j]),
           NEW i \in 1..Len(s), s[i] = x
    PROVE  i < j
BY DEF Before

\* What is taken of a ranking leaves out only what comes behind it.
LEMMA TakenOrBehind ==
    ASSUME NEW S, NEW t \in Seq(S), NEW n \in Nat, NEW key, Falling(t, key),
           \A y \in S : key[y] \in Int,
           NEW x \in Range(t), x \notin Range(Take(t, n))
    PROVE  Len(Take(t, n)) = n /\ \A i \in 1..n : key[Take(t, n)[i]] >= key[x]
<1> DEFINE b == Take(t, n)
<1>1. /\ Len(b) = IF n <= Len(t) THEN n ELSE Len(t)
      /\ \A i \in 1..Len(b) : b[i] = t[i]
      /\ b \in Seq(S)
  BY TakeIs
<1> HIDE DEF b
<1>2. Len(t) \in Nat /\ Len(b) \in Nat /\ DOMAIN t = 1..Len(t) /\ DOMAIN b = 1..Len(b)
  BY <1>1
<1>3. PICK k \in 1..Len(t) : t[k] = x
  BY <1>2 DEF Range
<1>4. k \notin 1..Len(b)
  <2> SUFFICES ASSUME k \in 1..Len(b) PROVE FALSE
    OBVIOUS
  <2>1. b[k] = x
    BY <1>1, <1>3
  <2>2. x \in Range(b)
    BY <1>2, <2>1 DEF Range
  <2> QED
    BY <2>2 DEF b
<1>5. Len(b) = n /\ n < k
  <2>1. PICK l \in Nat, m \in Nat : l = Len(b) /\ m = Len(t)
    BY <1>2
  <2>2. l = (IF n <= m THEN n ELSE m) /\ k \in 1..m /\ k \notin 1..l
    BY <1>1, <1>3, <1>4, <2>1
  <2> QED
    BY <2>1, <2>2
<1>6. \A i \in 1..n : key[b[i]] >= key[x]
  BY <1>1, <1>2, <1>3, <1>5 DEF Falling
<1> QED
  BY <1>5, <1>6 DEF b

-----------------------------------------------------------------------------
(* The projects that have been queried. *)

\* No project is named twice, and none is called as what stands for no filter.
DistinctProjects == IsInjective(projectIDs) /\ "all" \notin Range(projectIDs)

LEMMA ProjectsApart ==
    ASSUME DistinctProjects, NEW i \in 1..Len(Queries), NEW j \in 1..Len(Queries), i # j
    PROVE  Matching(Queries[i]) \cap Matching(Queries[j]) = {}
<1>1. CASE projectIDs = <<>>
  <2>1. Len(Queries) = 1
    BY <1>1 DEF Queries
  <2> QED
    BY <2>1
<1>2. CASE projectIDs # <<>>
  <2>1. Queries = projectIDs
    BY <1>2 DEF Queries
  <2>2. i \in DOMAIN projectIDs /\ j \in DOMAIN projectIDs
    BY <2>1, QueriesAre
  <2>3. projectIDs[i] # projectIDs[j] /\ projectIDs[i] # "all" /\ projectIDs[j] # "all"
    BY <2>2 DEF DistinctProjects, IsInjective, Range
  <2> QED
    BY <2>1, <2>3 DEF Matching
<1> QED
  BY <1>1, <1>2

LEMMA AskedGrows ==
    ASSUME NEW s, NEW w, s.asked \in Nat, w.asked = s.asked + 1
    PROVE  Covered(w) = Covered(s) \cup Matching(Queries[s.asked + 1])
<1>1. 1..w.asked = 1..s.asked \cup {s.asked + 1}
  OBVIOUS
<1>2. Covered(w) = UNION {Matching(Queries[i]) : i \in 1..s.asked \cup {s.asked + 1}}
  BY <1>1 DEF Covered
<1> QED
  BY <1>2 DEF Covered

LEMMA AskedApart ==
    ASSUME DistinctProjects, NEW s, s.asked \in Nat, s.asked < Len(Queries)
    PROVE  Covered(s) \cap Matching(Queries[s.asked + 1]) = {}
<1>1. Len(Queries) \in Nat
  BY QueriesAre
<1>2. s.asked + 1 \in 1..Len(Queries)
  BY <1>1
<1>3. ASSUME NEW i \in 1..s.asked
      PROVE  Matching(Queries[i]) \cap Matching(Queries[s.asked + 1]) = {}
  <2>1. i \in 1..Len(Queries) /\ i # s.asked + 1
    BY <1>1
  <2> QED
    BY <1>2, <2>1, ProjectsApart
<1> QED
  BY <1>3 DEF Covered

LEMMA AskedAll == ASSUME NEW s, s.asked = Len(Queries) PROVE Covered(s) = Wanted
BY QueriesAre DEF Covered

LEMMA NothingAsked == ASSUME NEW s, s.asked = 0 PROVE Covered(s) = {}
BY DEF Covered

-----------------------------------------------------------------------------
(* The vector search. *)

LEMMA OutdoneStays ==
    ASSUME SearchTypeOK, NEW s \in Seq(Documents), NEW b \in Seq(Documents), NEW n \in Nat, NEW x,
           Outdone(s, n, x)
    PROVE  Outdone(s \o b, n, x)
<1>1. PICK lo \in 0..Len(s) : lo + n <= Len(s)
         /\ \A j \in lo+1..lo+n : similarity[s[j]] >= similarity[x]
  BY DEF Outdone
<1>2. /\ Len(s \o b) = Len(s) + Len(b) /\ Len(s) \in Nat /\ Len(b) \in Nat
      /\ \A i \in 1..Len(s) : (s \o b)[i] = s[i]
  BY RangeOfConcat
<1>3. lo \in 0..Len(s \o b) /\ lo + n <= Len(s \o b)
  BY <1>1, <1>2
<1>4. \A j \in lo+1..lo+n : similarity[(s \o b)[j]] >= similarity[x]
  <2> TAKE j \in lo+1..lo+n
  <2>1. j \in 1..Len(s)
    BY <1>1, <1>2
  <2>2. (s \o b)[j] = s[j]
    BY <1>2, <2>1
  <2> QED
    BY <1>1, <2>2
<1> QED
  BY <1>3, <1>4 DEF Outdone

LEMMA BlockOutdoes ==
    ASSUME SearchTypeOK, NEW s \in Seq(Documents), NEW b \in Seq(Documents), NEW n \in Nat, NEW x,
           Len(b) = n, \A i \in 1..n : similarity[b[i]] >= similarity[x]
    PROVE  Outdone(s \o b, n, x)
<1>1. /\ Len(s \o b) = Len(s) + n /\ Len(s) \in Nat
      /\ \A i \in 1..n : (s \o b)[Len(s) + i] = b[i]
  <2>1. Len(s) \in Nat
    OBVIOUS
  <2>2. /\ Len(s \o b) = Len(s) + Len(b)
        /\ \A i \in 1..Len(b) : (s \o b)[Len(s) + i] = b[i]
    OBVIOUS
  <2> QED
    BY <2>1, <2>2
<1>2. PICK lo \in Nat : lo = Len(s)
  BY <1>1
<1>3. lo \in 0..Len(s \o b) /\ lo + n <= Len(s \o b)
  BY <1>1, <1>2
<1>4. \A j \in lo+1..lo+n : similarity[(s \o b)[j]] >= similarity[x]
  <2> TAKE j \in lo+1..lo+n
  <2>1. PICK i \in 1..n : i = j - lo
    OBVIOUS
  <2>2. j = Len(s) + i
    BY <1>2, <2>1
  <2> QED
    BY <1>1, <2>1, <2>2
<1> QED
  BY <1>3, <1>4 DEF Outdone

LEMMA ScoresAre ==
    ASSUME SearchTypeOK
    PROVE  /\ \A x \in Documents : similarity[x] \in Int
           /\ \A x \in Documents : relevance[x] \in Nat /\ relevance[x] \in Int
           /\ \A x \in Documents : Priority[x] \in Nat /\ Priority[x] > 0
           /\ \A x \in Documents : Boost[x] \in Nat
<1>1. similarity \in [Documents -> Int] /\ relevance \in [Documents -> 0..MaxScore] /\ MaxScore \in Nat
  BY Limits, SimilaritiesAssumption DEF SearchTypeOK
<1>2. Priority \in [Documents -> Nat \ {0}] /\ Boost \in [Documents -> Nat]
  BY BoostAssumption
<1> QED
  BY <1>1, <1>2

LEMMA VectorQueryGood ==
    ASSUME DistinctProjects, SearchTypeOK, SteadyInv, VectorGood(vector), VectorQuery,
           vector.count <= Cardinality(present)
    PROVE  \E w : w = vector' /\ VectorGood(w)
<1>1. PICK t \in Seq(Documents), n \in Nat :
         /\ n = vector.count /\ vector.asked + 1 \in 1..Len(Queries)
         /\ Range(t) = present \cap Matching(Queries[vector.asked + 1])
         /\ IsInjective(t) /\ Falling(t, similarity)
         /\ vector' = [vector EXCEPT !.asked = @ + 1, !.found = @ \o Take(t, n)]
  BY VectorQueryFinds
<1>2. PICK w : w = vector'
  OBVIOUS
<1>3. PICK b : b = Take(t, n)
  OBVIOUS
<1>4. PICK f \in Seq(Documents) : f = vector.found
  BY SearchFields
<1>5. PICK M : M = Matching(Queries[vector.asked + 1])
  OBVIOUS
<1>6. vector \in Searches /\ vector.asked \in Nat /\ vector.pc = "query" /\ vector.asked < Len(Queries)
  BY SearchFields DEF VectorQuery
<1>7. w.pc = "query" /\ w.count = n /\ w.asked = vector.asked + 1 /\ w.found = f \o b
  BY <1>1, <1>2, <1>3, <1>4, <1>6 DEF Searches
<1>8. Covered(w) = Covered(vector) \cup M /\ Covered(vector) \cap M = {}
  BY <1>5, <1>6, <1>7, AskedGrows, AskedApart
<1>9. /\ n \in 1..expandedTopK
      /\ changes = <<>> => n = clamped(Cardinality(present))
      /\ IsInjective(f) /\ Range(f) \subseteq Covered(vector)
      /\ \A x \in Steady \cap Covered(vector) : x \in Range(f) \/ Outdone(f, n, x)
  BY <1>1, <1>4, <1>6 DEF VectorGood
<1>10. /\ b \in Seq(Documents) /\ IsInjective(b) /\ Range(b) \subseteq Range(t)
       /\ Range(t) = present \cap M
  BY <1>1, <1>3, <1>5, TakeIs
<1>11. /\ Range(w.found) = Range(f) \cup Range(b)
       /\ IsInjective(w.found)
  <2>1. Range(f) \cap Range(b) = {}
    BY <1>8, <1>9, <1>10
  <2> QED
    BY <1>7, <1>9, <1>10, <2>1, RangeOfConcat
<1>12. ASSUME NEW x \in Steady \cap Covered(w)
       PROVE  x \in Range(w.found) \/ Outdone(w.found, n, x)
  <2>1. CASE x \in Covered(vector)
    <3>1. CASE x \in Range(f)
      BY <1>11, <3>1
    <3>2. CASE Outdone(f, n, x)
      BY <1>7, <1>10, <3>2, OutdoneStays
    <3> QED
      BY <1>9, <2>1, <3>1, <3>2
  <2>2. CASE x \in M
    <3>1. x \in Range(t)
      <4>1. x \in held /\ x \notin changed /\ held \subseteq Documents
        BY DEF Steady, SearchTypeOK
      <4> QED
        BY <1>10, <2>2, <4>1 DEF SteadyInv
    <3>2. CASE x \in Range(b)
      BY <1>11, <3>2
    <3>3. CASE x \notin Range(b)
      <4>1. Len(b) = n /\ \A i \in 1..n : similarity[b[i]] >= similarity[x]
        BY <1>1, <1>3, <3>1, <3>3, ScoresAre, TakenOrBehind
      <4> QED
        BY <1>7, <1>10, <4>1, BlockOutdoes
    <3> QED
      BY <3>2, <3>3
  <2> QED
    BY <1>8, <2>1, <2>2
<1>13. VectorGood(w)
  BY <1>7, <1>8, <1>9, <1>10, <1>11, <1>12 DEF VectorGood
<1> QED
  BY <1>2, <1>13

LEMMA Products ==
    ASSUME NEW a \in Nat, NEW b \in Nat, NEW c \in Nat, NEW d \in Nat, a > b, c >= d, c > 0
    PROVE  a * c > b * d
<1>1. PICK e \in Nat : a = b + (e + 1)
  <2>1. a - b - 1 \in Nat /\ a = b + ((a - b - 1) + 1)
    OBVIOUS
  <2> QED
    BY <2>1
<1>2. PICK g \in Nat : c = d + g
  <2>1. c - d \in Nat /\ c = d + (c - d)
    OBVIOUS
  <2> QED
    BY <2>1
<1>3. (b + (e + 1)) * c = b * c + (e + 1) * c
  OBVIOUS
<1>4. b * (d + g) = b * d + b * g
  OBVIOUS
<1>5. (e + 1) * c = e * c + c
  OBVIOUS
<1>6. b * g \in Nat /\ e * c \in Nat /\ b * d \in Nat /\ b * c \in Nat
  OBVIOUS
<1>7. a * c = b * c + (e * c + c) /\ b * c = b * d + b * g
  BY <1>1, <1>2, <1>3, <1>4, <1>5
<1>8. PICK p \in Nat, q \in Nat, x \in Nat : p = b * g /\ q = e * c /\ x = b * d
  BY <1>6
<1>9. a * c = (x + p) + (q + c)
  BY <1>7, <1>8
<1>10. (x + p) + (q + c) > x
  OBVIOUS
<1> QED
  BY <1>8, <1>9, <1>10

\* The same where the smaller factor may be negative.
LEMMA SignedProducts ==
    ASSUME NEW a \in Nat, NEW b \in Int, NEW c \in Nat, NEW d \in Nat, a > b, c >= d, c > 0, d > 0
    PROVE  a * c > b * d
<1>1. CASE b >= 0
  BY <1>1, Products
<1>2. CASE b < 0
  <2>1. PICK e \in Nat : b = -(e + 1)
    <3>1. -b - 1 \in Nat /\ b = -((-b - 1) + 1)
      BY <1>2
    <3> QED
      BY <3>1
  <2>2. (-(e + 1)) * d = -(e * d) - d /\ e * d \in Nat
    OBVIOUS
  <2>3. b * d < 0
    BY <2>1, <2>2
  <2>4. a * c \in Nat
    OBVIOUS
  <2> QED
    BY <2>3, <2>4
<1> QED
  BY <1>1, <1>2

\* What is outdone by n is not more similar than one of the n most similar.
LEMMA OutdoneIsBehind ==
    ASSUME SearchTypeOK, NEW f \in Seq(Documents), NEW t \in Seq(Documents), NEW n \in Nat,
           IsInjective(f), Range(t) = Range(f), Falling(t, similarity),
           NEW x \in Documents, Outdone(f, n, x), NEW y \in Range(Take(t, n))
    PROVE  ~(similarity[x] > similarity[y])
<1> SUFFICES ASSUME similarity[x] > similarity[y] PROVE FALSE
  OBVIOUS
<1>1. PICK lo \in 0..Len(f) : lo + n <= Len(f)
         /\ \A j \in lo+1..lo+n : similarity[f[j]] >= similarity[x]
  BY DEF Outdone
<1>2. PICK b : b = Take(t, n)
  OBVIOUS
<1>3. /\ Len(b) = IF n <= Len(t) THEN n ELSE Len(t)
      /\ \A i \in 1..Len(b) : b[i] = t[i]
      /\ b \in Seq(Documents)
  BY <1>2, TakeIs
<1>4. DOMAIN b = 1..Len(b) /\ Len(t) \in Nat /\ Len(f) \in Nat
  BY <1>3
<1>5. PICK j \in 1..Len(b) : b[j] = y
  BY <1>2, <1>4 DEF Range
<1>6. j \in 1..n /\ j \in 1..Len(t) /\ t[j] = y
  BY <1>3, <1>4, <1>5
<1>7. ASSUME NEW k \in lo+1..lo+n, NEW i \in 1..Len(t), t[i] = f[k] PROVE i < j
  <2>1. similarity[t[i]] >= similarity[x]
    BY <1>1, <1>7
  <2>2. t[i] \in Documents /\ t[j] \in Documents
    BY <1>6
  <2>3. similarity[t[i]] \in Int /\ similarity[t[j]] \in Int /\ similarity[x] \in Int
    BY <2>2, ScoresAre
  <2>4. ~(similarity[t[j]] >= similarity[t[i]])
    BY <1>6, <2>1, <2>3
  <2>5. i # j
    BY <2>3, <2>4
  <2>6. ~(j < i)
    BY <1>6, <2>4 DEF Falling
  <2> QED
    BY <1>6, <2>5, <2>6
<1>8. lo \in Nat /\ lo + n <= Len(f) /\ j \in 1..n /\ Range(f) \subseteq Range(t)
  BY <1>1, <1>4, <1>6
<1>9. AllBefore(f, t, lo, n, j)
  BY <1>7 DEF AllBefore
<1> QED
  BY <1>8, <1>9, NoRoom

LEMMA VectorRankGood ==
    ASSUME SearchTypeOK, SteadyInv, FoundInv, VectorGood(vector), VectorRank
    PROVE  \E w : w = vector' /\ VectorGood(w)
<1>1. PICK t, u \in Seq(Documents), n \in Nat :
         /\ n = vector.count
         /\ t \in Sorted(vector.found, similarity) /\ u \in Sorted(Take(t, n), Prioritised)
         /\ vector' = [vector EXCEPT !.pc = "done", !.found = u]
  BY VectorRankFinds
<1>2. PICK w : w = vector'
  OBVIOUS
<1>3. PICK b : b = Take(t, n)
  OBVIOUS
<1>4. PICK f \in Seq(Documents) : f = vector.found
  BY SearchFields
<1>5. vector \in Searches /\ vector.pc = "query" /\ vector.asked = Len(Queries)
  BY SearchFields DEF VectorRank
<1>6. w.pc = "done" /\ w.found = u
  BY <1>1, <1>2, <1>5 DEF Searches
<1>7. Covered(vector) = Wanted
  BY <1>5, AskedAll
<1>8. /\ n \in 1..expandedTopK
      /\ changes = <<>> => n = clamped(Cardinality(present))
      /\ IsInjective(f)
      /\ \A x \in Steady \cap Wanted : x \in Range(f) \/ Outdone(f, n, x)
  BY <1>1, <1>4, <1>5, <1>7 DEF VectorGood
<1>9. Len(t) = Len(f) /\ Range(t) = Range(f) /\ Falling(t, similarity) /\ IsInjective(t)
  BY <1>1, <1>4, <1>8, SortedIs
<1>10. /\ b \in Seq(Documents) /\ Len(b) = (IF n <= Len(f) THEN n ELSE Len(f))
       /\ Range(b) \subseteq Range(t) /\ IsInjective(b)
  BY <1>3, <1>9, TakeIs
<1>11. Len(u) = Len(b) /\ Range(u) = Range(b) /\ Falling(u, Prioritised) /\ IsInjective(u)
  BY <1>1, <1>3, <1>10, SortedIs
<1>12. Len(f) \in Nat /\ n \in Nat /\ n <= expandedTopK /\ expandedTopK \in Nat
  BY <1>8, Limits
<1>13. Len(u) <= expandedTopK
  BY <1>10, <1>11, <1>12
<1>14. ASSUME NEW r \in Range(u) \ changed, NEW s \in Wanted \cap Steady,
              similarity[s] > similarity[r], similarity[s] >= 0, Priority[s] >= Priority[r]
       PROVE  s \in Range(u) /\ Before(u, s, r)
  <2>1. r \in Range(b) /\ r \in Documents /\ s \in Documents
    <3>1. \A S : S \in Seq(Documents) => Range(S) \subseteq Documents
      BY DEF Range
    <3> QED
      BY <1>10, <1>11, <3>1 DEF Steady, SearchTypeOK
  <2>2. s \in Range(t)
    BY <1>3, <1>8, <1>9, <1>14, <2>1, OutdoneIsBehind
  <2>3. Before(t, s, r)
    BY <1>9, <1>14, <2>1, ScoresAre, FallingIsBefore
  <2>4. s \in Range(b)
    BY <1>3, <2>1, <2>2, <2>3, TakenBefore
  <2>5. \A x \in Documents : Prioritised[x] = similarity[x] * Priority[x] /\ Prioritised[x] \in Int
    BY ScoresAre DEF Prioritised
  <2>6. Prioritised[s] > Prioritised[r]
    <3>1. /\ similarity[s] \in Nat /\ similarity[r] \in Int /\ Priority[s] \in Nat /\ Priority[r] \in Nat
          /\ Priority[s] > 0 /\ Priority[r] > 0
      BY <1>14, <2>1, ScoresAre
    <3>2. similarity[s] * Priority[s] > similarity[r] * Priority[r]
      BY <1>14, <3>1, SignedProducts
    <3> QED
      BY <2>1, <2>5, <3>2
  <2>7. Before(u, s, r)
    BY <1>11, <2>1, <2>5, <2>6, FallingIsBefore
  <2> QED
    BY <1>11, <2>4, <2>7
<1>15. ASSUME changes = <<>> PROVE NoMoreThan(expandedTopK, u, Wanted \cap present)
  <2>1. PICK W : W = Wanted \cap present
    OBVIOUS
  <2>2. /\ IsFiniteSet(present) /\ IsFiniteSet(W) /\ W \subseteq present
        /\ Cardinality(present) \in Nat /\ Cardinality(W) \in Nat
    BY <2>1, FiniteStore
  <2>3. Cardinality(W) <= Cardinality(present)
    BY <2>2, FS_Subset
  <2>4. W \subseteq Steady \cap Wanted
    <3>1. changed = {}
      BY <1>15 DEF changed, Range
    <3> QED
      BY <2>1, <3>1 DEF Steady, SearchTypeOK
  <2>5. Cardinality(W) <= Len(f) \/ n <= Len(f)
    <3>1. CASE W \subseteq Range(f)
      <4>1. IsFiniteSet(Range(f)) /\ Cardinality(Range(f)) = Len(f)
        BY <1>8, LengthIsCardinality
      <4> QED
        BY <3>1, <4>1, FS_Subset
    <3>2. ASSUME NEW x \in W, x \notin Range(f) PROVE n <= Len(f)
      <4>1. Outdone(f, n, x)
        BY <1>8, <2>4, <3>2
      <4> QED
        BY <1>12, <4>1 DEF Outdone
    <3> QED
      BY <3>1, <3>2
  <2>6. Cardinality(present) = 0 \/ n = IF expandedTopK <= Cardinality(present) THEN expandedTopK
                                           ELSE Cardinality(present)
    BY <1>8, <1>15, <2>2, ClampedIs
  <2>7. PICK c \in Nat, m \in Nat, l \in Nat, e \in Nat :
           c = Cardinality(present) /\ m = Cardinality(W) /\ l = Len(f) /\ e = expandedTopK
    BY <1>12, <2>2
  <2>8. IF e <= m THEN e <= Len(u) ELSE m <= Len(u)
    BY <1>10, <1>11, <1>12, <1>8, <2>3, <2>5, <2>6, <2>7
  <2> QED
    BY <2>1, <2>7, <2>8 DEF NoMoreThan
<1>16. VectorGood(w)
  <2>1. \A r \in Range(u) \ changed : \A s \in Wanted \cap Steady :
           Nearer(s, r) => s \in Range(u) /\ Before(u, s, r)
    BY <1>14 DEF Nearer
  <2> QED
    BY <1>6, <1>11, <1>13, <1>15, <2>1 DEF VectorGood
<1> QED
  BY <1>2, <1>16

LEMMA VectorCountGood ==
    ASSUME SearchTypeOK, VectorGood(vector), VectorCount
    PROVE  \E w : w = vector' /\ VectorGood(w)
<1>1. PICK w : w = vector'
  OBVIOUS
<1>2. vector \in Searches /\ vector.pc = "count" /\ Cardinality(present) \in Nat
  BY SearchFields, FiniteStore DEF VectorCount
<1>3. vector.found = <<>> /\ vector.asked = 0
  BY <1>2 DEF VectorGood
<1>4. Range(<<>>) = {} /\ IsInjective(<<>>) /\ Len(<<>>) = 0
  BY DEF Range, IsInjective
<1>5. CASE Cardinality(present) = 0
  <2>1. w.pc = "done" /\ w.found = <<>>
    BY <1>1, <1>2, <1>3, <1>5 DEF VectorCount, Searches
  <2>2. Cardinality(Wanted \cap present) = 0
    <3>1. IsFiniteSet(present)
      BY FiniteStore
    <3>2. /\ Cardinality(Wanted \cap present) <= Cardinality(present)
          /\ Cardinality(Wanted \cap present) \in Nat
      BY <3>1, FS_Subset, FS_CardinalityType
    <3> QED
      BY <1>5, <3>2
  <2>3. NoMoreThan(expandedTopK, <<>>, Wanted \cap present)
    BY <1>4, <2>2, Limits DEF NoMoreThan
  <2>4. 0 <= expandedTopK
    BY Limits
  <2>5. VectorGood(w)
    BY <1>4, <2>1, <2>3, <2>4 DEF VectorGood
  <2> QED
    BY <1>1, <2>5
<1>6. CASE Cardinality(present) # 0
  <2>1. /\ w.pc = "query" /\ w.count = clamped(Cardinality(present)) /\ w.found = <<>>
        /\ w.asked = 0
    BY <1>1, <1>2, <1>3, <1>6 DEF VectorCount, Searches
  <2>2. Covered(w) = {}
    BY <2>1, NothingAsked
  <2>3. w.count \in 1..expandedTopK
    BY <1>2, <1>6, <2>1, ClampedIs
  <2>4. VectorGood(w)
    BY <1>4, <2>1, <2>2, <2>3 DEF VectorGood
  <2> QED
    BY <1>1, <2>4
<1> QED
  BY <1>5, <1>6

LEMMA VectorStep ==
    /\ DistinctProjects /\ SearchTypeOK /\ SteadyInv /\ FoundInv /\ VectorInv /\ [SearchNext]_searchVars
    => VectorInv'
<1> SUFFICES ASSUME DistinctProjects, SearchTypeOK, SteadyInv, FoundInv, VectorInv, [SearchNext]_searchVars
             PROVE  VectorInv'
  OBVIOUS
<1>i. VectorGood(vector)
  BY DEF VectorInv
<1>v. ASSUME UNCHANGED <<similarity, store>>, \E w : w = vector' /\ VectorGood(w)
      PROVE  VectorInv'
  <2>1. PICK w : w = vector' /\ VectorGood(w)
    BY <1>v
  <2>2. /\ similarity' = similarity /\ changes' = changes /\ present' = present /\ held' = held
        /\ vector' = w
    BY <1>v, <2>1 DEF store
  <2>3. changed' = changed /\ Steady' = Steady
    BY <2>2 DEF changed, Steady
  <2> QED
    BY <2>1, <2>2, <2>3 DEF VectorInv, VectorGood, Nearer, Outdone
<1>u. ASSUME UNCHANGED <<similarity, store, vector>> PROVE VectorInv'
  BY <1>i, <1>u, <1>v
<1>1. CASE VectorCount
  BY <1>i, <1>1, <1>v, VectorCountGood DEF VectorCount
<1>2. CASE VectorQuery
  <2>1. CASE vector.count <= Cardinality(present)
    BY <1>i, <1>2, <1>v, <2>1, VectorQueryGood DEF VectorQuery
  <2>2. CASE ~(vector.count <= Cardinality(present))
    <3>1. PICK w : w = vector'
      OBVIOUS
    <3>2. w.pc = "failed" /\ w.found = vector.found
      BY <1>2, <2>2, <3>1, VectorFails
    <3>3. VectorGood(w)
      BY <1>i, <3>2 DEF VectorGood
    <3> QED
      BY <1>2, <1>v, <3>1, <3>3 DEF VectorQuery
  <2> QED
    BY <2>1, <2>2
<1>3. CASE VectorRank
  BY <1>i, <1>3, <1>v, VectorRankGood DEF VectorRank
<1>4. CASE LexicalCount \/ LexicalBM25 \/ LexicalQuery \/ LexicalRank \/ Fuse \/ UNCHANGED searchVars
  BY <1>4, <1>u DEF LexicalCount, LexicalBM25, LexicalQuery, LexicalRank, Fuse, searchVars
<1>5. ASSUME NEW r \in Documents, NEW which \in Changing,
             Change(r, which)
      PROVE  VectorInv'
  <2>1. /\ changed' = changed \cup {r} /\ changes' # <<>> /\ held' \subseteq held \cup {r}
        /\ similarity' = similarity /\ vector' = vector
    BY <1>5, ChangeNotes
  <2>2. changed \subseteq changed' /\ Steady' \subseteq Steady
    BY <2>1 DEF Steady
  <2> QED
    BY <1>i, <2>1, <2>2 DEF VectorInv, VectorGood, Nearer, Outdone
<1> QED
  BY <1>1, <1>2, <1>3, <1>4, <1>5 DEF SearchNext

-----------------------------------------------------------------------------
(* LexicalSearch. *)

LEMMA LexicalCountGood ==
    ASSUME SearchTypeOK, LexicalGood(lexical), LexicalCount
    PROVE  \E w : w = lexical' /\ LexicalGood(w)
<1>1. PICK w : w = lexical'
  OBVIOUS
<1>2. lexical \in Searches /\ lexical.pc = "count"
  BY SearchFields DEF LexicalCount
<1>3. lexical.found = <<>> /\ lexical.asked = 0
  BY <1>2 DEF LexicalGood
<1>4. Range(<<>>) = {} /\ IsInjective(<<>>) /\ Len(<<>>) = 0
  BY DEF Range, IsInjective
<1>5. w.pc \in {"done", "bm25"} /\ w.found = <<>> /\ w.asked = 0
  BY <1>1, <1>2, <1>3 DEF LexicalCount, Searches
<1>6. 0 <= expandedTopK
  BY Limits
<1>7. LexicalGood(w)
  BY <1>4, <1>5, <1>6 DEF LexicalGood
<1> QED
  BY <1>1, <1>7

LEMMA LexicalBM25Good ==
    ASSUME SearchTypeOK, SteadyInv, LexicalGood(lexical), LexicalBM25
    PROVE  \E w : w = lexical' /\ LexicalGood(w)
<1>1. PICK w : w = lexical'
  OBVIOUS
<1>2. lexical \in Searches /\ lexical.pc = "bm25"
  BY SearchFields DEF LexicalBM25
<1>3. lexical.found = <<>> /\ lexical.asked = 0
  BY <1>2 DEF LexicalGood
<1>4. Range(<<>>) = {} /\ IsInjective(<<>>) /\ Len(<<>>) = 0 /\ 0 <= expandedTopK
  BY Limits DEF Range, IsInjective
<1>5. PICK t \in Seq(Documents), n \in Nat :
         /\ Range(t) = {r \in entries : relevance[r] > 0} /\ Falling(t, relevance)
         /\ lexical' = IF Range(Take(t, n)) = {} THEN [lexical EXCEPT !.pc = "done"]
                       ELSE [lexical EXCEPT !.pc = "query", !.hits = Range(Take(t, n))]
         /\ Range(Take(t, n)) \subseteq Range(t)
  BY LexicalBM25Finds
<1>6. PICK H : H = Range(Take(t, n))
  OBVIOUS
<1>7. CASE H = {}
  <2>1. w.pc = "done" /\ w.found = <<>>
    BY <1>1, <1>2, <1>3, <1>5, <1>6, <1>7 DEF Searches
  <2>2. LexicalGood(w)
    BY <1>4, <2>1 DEF LexicalGood
  <2> QED
    BY <1>1, <2>2
<1>8. CASE H # {}
  <2>1. w.pc = "query" /\ w.found = <<>> /\ w.asked = 0 /\ w.hits = H
    BY <1>1, <1>2, <1>3, <1>5, <1>6, <1>8 DEF Searches
  <2>2. Covered(w) = {}
    BY <2>1, NothingAsked
  <2>3. ASSUME NEW r \in H
        PROVE  relevance[r] > 0 /\ \A s \in Steady : relevance[s] > relevance[r] => s \in H
    <3>1. r \in Range(t) /\ relevance[r] > 0 /\ r \in Documents /\ relevance[r] \in Nat
      BY <1>5, <1>6, ScoresAre DEF SearchTypeOK
    <3>2. ASSUME NEW s \in Steady, relevance[s] > relevance[r] PROVE s \in H
      <4>1. s \in Documents /\ s \in entries /\ relevance[s] \in Nat
        BY ScoresAre DEF Steady, SteadyInv, SearchTypeOK
      <4>2. s \in Range(t)
        BY <1>5, <3>1, <3>2, <4>1
      <4>3. Before(t, s, r)
        BY <1>5, <3>1, <3>2, <4>1, ScoresAre, FallingIsBefore
      <4> QED
        BY <1>6, <4>2, <4>3, TakenBefore
    <3> QED
      BY <3>1, <3>2
  <2>4. LexicalGood(w)
    BY <1>4, <2>1, <2>2, <2>3 DEF LexicalGood
  <2> QED
    BY <1>1, <2>4
<1> QED
  BY <1>7, <1>8

LEMMA LexicalQueryGood ==
    ASSUME DistinctProjects, SearchTypeOK, SteadyInv, LexicalGood(lexical), LexicalQuery,
           lexical.count <= Cardinality(present)
    PROVE  \E w : w = lexical' /\ LexicalGood(w)
<1>1. PICK t \in Seq(Documents) :
         /\ lexical.asked + 1 \in 1..Len(Queries)
         /\ Range(t) = present \cap Matching(Queries[lexical.asked + 1]) \cap lexical.hits
         /\ IsInjective(t)
         /\ lexical' = [lexical EXCEPT !.asked = @ + 1, !.found = @ \o t]
  BY LexicalQueryFinds
<1>2. PICK w : w = lexical'
  OBVIOUS
<1>3. PICK f \in Seq(Documents) : f = lexical.found
  BY SearchFields
<1>4. PICK M : M = Matching(Queries[lexical.asked + 1])
  OBVIOUS
<1>5. /\ lexical \in Searches /\ lexical.asked \in Nat /\ lexical.pc = "query"
      /\ lexical.asked < Len(Queries)
  BY SearchFields DEF LexicalQuery
<1>6. /\ w.pc = "query" /\ w.asked = lexical.asked + 1 /\ w.found = f \o t
      /\ w.hits = lexical.hits
  BY <1>1, <1>2, <1>3, <1>5 DEF Searches
<1>7. Covered(w) = Covered(lexical) \cup M /\ Covered(lexical) \cap M = {}
  BY <1>4, <1>5, <1>6, AskedGrows, AskedApart
<1>8. /\ IsInjective(f) /\ Range(f) \subseteq Covered(lexical) \cap lexical.hits
      /\ \A r \in lexical.hits \ changed :
            relevance[r] > 0 /\ \A s \in Steady : relevance[s] > relevance[r] => s \in lexical.hits
      /\ Steady \cap lexical.hits \cap Covered(lexical) \subseteq Range(f)
  BY <1>3, <1>5 DEF LexicalGood
<1>9. Range(w.found) = Range(f) \cup Range(t) /\ IsInjective(w.found)
  <2>1. Range(f) \cap Range(t) = {}
    BY <1>1, <1>4, <1>7, <1>8
  <2> QED
    BY <1>1, <1>6, <1>8, <2>1, RangeOfConcat
<1>10. Steady \cap w.hits \cap Covered(w) \subseteq Range(w.found)
  <2>1. Steady \subseteq present
    BY DEF Steady, SteadyInv, SearchTypeOK
  <2> QED
    BY <1>1, <1>4, <1>6, <1>7, <1>8, <1>9, <2>1
<1>11. LexicalGood(w)
  BY <1>1, <1>4, <1>6, <1>7, <1>8, <1>9, <1>10 DEF LexicalGood
<1> QED
  BY <1>2, <1>11

LEMMA LexicalRankGood ==
    ASSUME SearchTypeOK, SteadyInv, LexicalGood(lexical), LexicalRank
    PROVE  \E w : w = lexical' /\ LexicalGood(w)
<1>1. PICK t \in Seq(Documents) :
         /\ t \in Sorted(lexical.found, relevance)
         /\ lexical' = [lexical EXCEPT !.pc = "done", !.found = Take(t, expandedTopK)]
  BY LexicalRankFinds
<1>2. PICK w : w = lexical'
  OBVIOUS
<1>3. PICK f \in Seq(Documents) : f = lexical.found
  BY SearchFields
<1>4. PICK b : b = Take(t, expandedTopK)
  OBVIOUS
<1>5. lexical \in Searches /\ lexical.pc = "query" /\ lexical.asked = Len(Queries)
  BY SearchFields DEF LexicalRank
<1>6. w.pc = "done" /\ w.found = b
  BY <1>1, <1>2, <1>4, <1>5 DEF Searches
<1>7. Covered(lexical) = Wanted
  BY <1>5, AskedAll
<1>8. /\ IsInjective(f) /\ Range(f) \subseteq lexical.hits
      /\ \A r \in lexical.hits \ changed :
            relevance[r] > 0 /\ \A s \in Steady : relevance[s] > relevance[r] => s \in lexical.hits
      /\ Steady \cap lexical.hits \cap Wanted \subseteq Range(f)
  BY <1>3, <1>5, <1>7 DEF LexicalGood
<1>9. Range(t) = Range(f) /\ Falling(t, relevance) /\ IsInjective(t)
  BY <1>1, <1>3, <1>8, SortedIs
<1>10. expandedTopK \in Nat
  BY Limits
<1>11. /\ Len(b) = (IF expandedTopK <= Len(t) THEN expandedTopK ELSE Len(t))
       /\ Range(b) \subseteq Range(t) /\ IsInjective(b)
  BY <1>4, <1>9, <1>10, TakeIs
<1>12. Len(b) <= expandedTopK
  <2>1. Len(t) \in Nat
    OBVIOUS
  <2> QED
    BY <1>10, <1>11, <2>1
<1>13. ASSUME NEW r \in Range(b) \ changed
       PROVE  /\ relevance[r] > 0
              /\ \A s \in Wanted \cap Steady : relevance[s] > relevance[r] => s \in Range(b) /\ Before(b, s, r)
  <2>1. r \in Range(t) /\ r \in lexical.hits \ changed
    BY <1>8, <1>9, <1>11
  <2>2. r \in Documents
    BY <2>1, SearchFields
  <2>3. ASSUME NEW s \in Wanted \cap Steady, relevance[s] > relevance[r]
        PROVE  s \in Range(b) /\ Before(b, s, r)
    <3>1. s \in Range(t)
      BY <1>8, <1>9, <2>1, <2>3
    <3>2. s \in Documents
      BY DEF Steady, SearchTypeOK
    <3>3. Before(t, s, r)
      BY <1>9, <2>2, <2>3, <3>2, ScoresAre, FallingIsBefore
    <3> QED
      BY <1>4, <1>10, <3>1, <3>3, TakenBefore
  <2> QED
    BY <1>8, <2>1, <2>3
<1>14. LexicalGood(w)
  BY <1>6, <1>11, <1>12, <1>13 DEF LexicalGood
<1> QED
  BY <1>2, <1>14

LEMMA LexicalStep ==
    DistinctProjects /\ SearchTypeOK /\ SteadyInv /\ LexicalInv /\ [SearchNext]_searchVars => LexicalInv'
<1> SUFFICES ASSUME DistinctProjects, SearchTypeOK, SteadyInv, LexicalInv, [SearchNext]_searchVars
             PROVE  LexicalInv'
  OBVIOUS
<1>i. LexicalGood(lexical)
  BY DEF LexicalInv
<1>l. ASSUME UNCHANGED <<relevance, store>>, \E w : w = lexical' /\ LexicalGood(w)
      PROVE  LexicalInv'
  <2>1. PICK w : w = lexical' /\ LexicalGood(w)
    BY <1>l
  <2>2. relevance' = relevance /\ changes' = changes /\ held' = held /\ lexical' = w
    BY <1>l, <2>1 DEF store
  <2>3. changed' = changed /\ Steady' = Steady
    BY <2>2 DEF changed, Steady
  <2> QED
    BY <2>1, <2>2, <2>3 DEF LexicalInv, LexicalGood
<1>u. ASSUME UNCHANGED <<relevance, store, lexical>> PROVE LexicalInv'
  BY <1>i, <1>u, <1>l
<1>1. CASE LexicalCount
  BY <1>i, <1>1, <1>l, LexicalCountGood DEF LexicalCount
<1>2. CASE LexicalBM25
  BY <1>i, <1>2, <1>l, LexicalBM25Good DEF LexicalBM25
<1>3. CASE LexicalQuery
  <2>1. CASE lexical.count <= Cardinality(present)
    BY <1>i, <1>3, <1>l, <2>1, LexicalQueryGood DEF LexicalQuery
  <2>2. CASE ~(lexical.count <= Cardinality(present))
    <3>1. PICK w : w = lexical'
      OBVIOUS
    <3>2. w.pc = "failed" /\ w.found = lexical.found
      BY <1>3, <2>2, <3>1, LexicalFails
    <3>3. LexicalGood(w)
      BY <1>i, <3>2 DEF LexicalGood
    <3> QED
      BY <1>3, <1>l, <3>1, <3>3 DEF LexicalQuery
  <2> QED
    BY <2>1, <2>2
<1>4. CASE LexicalRank
  BY <1>i, <1>4, <1>l, LexicalRankGood DEF LexicalRank
<1>5. CASE VectorCount \/ VectorQuery \/ VectorRank \/ Fuse \/ UNCHANGED searchVars
  BY <1>5, <1>u DEF VectorCount, VectorQuery, VectorRank, Fuse, searchVars
<1>6. ASSUME NEW r \in Documents, NEW which \in Changing,
             Change(r, which)
      PROVE  LexicalInv'
  <2>1. /\ changed' = changed \cup {r} /\ held' \subseteq held \cup {r}
        /\ relevance' = relevance /\ lexical' = lexical
    BY <1>6, ChangeNotes
  <2>2. changed \subseteq changed' /\ Steady' \subseteq Steady
    BY <2>1 DEF Steady
  <2> QED
    BY <1>i, <2>1, <2>2 DEF LexicalInv, LexicalGood
<1> QED
  BY <1>1, <1>2, <1>3, <1>4, <1>5, <1>6 DEF SearchNext

-----------------------------------------------------------------------------
(* Reciprocal rank fusion. *)

LEMMA Quotient ==
    ASSUME NEW n \in Nat, NEW b \in Nat, b > 0
    PROVE  n \div b \in Nat /\ (n \div b) * b <= n /\ n < (n \div b) * b + b
OBVIOUS

LEMMA QuotientIs ==
    ASSUME NEW n \in Nat, NEW b \in Nat, b > 0, NEW q \in Nat, q * b <= n
    PROVE  q <= n \div b
<1>1. PICK p \in Nat : p = n \div b /\ n < p * b + b
  BY Quotient
<1> SUFFICES ASSUME p < q PROVE FALSE
  BY <1>1
<1>2. PICK e \in Nat : q = p + 1 + e
  <2>1. q - p - 1 \in Nat /\ q = p + 1 + (q - p - 1)
    BY <1>1
  <2> QED
    BY <2>1
<1>3. q * b = p * b + b + e * b /\ e * b \in Nat /\ p * b \in Nat
  <2>1. (p + 1 + e) * b = p * b + b + e * b
    BY <1>1
  <2>2. e * b \in Nat /\ p * b \in Nat
    BY <1>1
  <2> QED
    BY <1>2, <2>1, <2>2
<1> QED
  BY <1>1, <1>3

LEMMA ProductUpTo ==
    ASSUME NEW a \in Nat, NEW b \in Nat, NEW m \in Nat, a <= m, b <= m
    PROVE  a * b <= m * m
<1>1. PICK c \in Nat, d \in Nat : m = a + c /\ m = b + d
  <2>1. m - a \in Nat /\ m - b \in Nat /\ m = a + (m - a) /\ m = b + (m - b)
    OBVIOUS
  <2> QED
    BY <2>1
<1>2. (a + c) * (b + d) = a * b + a * d + c * b + c * d
  OBVIOUS
<1>3. a * b \in Nat /\ a * d \in Nat /\ c * b \in Nat /\ c * d \in Nat
  OBVIOUS
<1> QED
  BY <1>1, <1>2, <1>3

\* Quotients by a and by b differ as long as a * b is not more than what is divided.
LEMMA QuotientFalls ==
    ASSUME NEW n \in Nat, NEW a \in Nat, NEW b \in Nat, 0 < a, a < b, a * b <= n
    PROVE  n \div a > n \div b /\ n \div b > 0
<1>1. PICK q \in Nat : q = n \div b /\ q * b <= n
  BY Quotient
<1>2. a <= q
  BY <1>1, QuotientIs
<1>3. (q + 1) * a <= n
  <2>1. PICK e \in Nat : b = a + 1 + e
    <3>1. b - a - 1 \in Nat /\ b = a + 1 + (b - a - 1)
      OBVIOUS
    <3> QED
      BY <3>1
  <2>2. q * (a + 1 + e) = q * a + q + q * e
    OBVIOUS
  <2>3. (q + 1) * a = q * a + a
    OBVIOUS
  <2>4. q * a \in Nat /\ q * e \in Nat
    OBVIOUS
  <2> QED
    BY <1>1, <1>2, <2>1, <2>2, <2>3, <2>4
<1>4. q + 1 <= n \div a
  BY <1>3, QuotientIs
<1>5. n \div a \in Nat
  BY Quotient
<1> QED
  BY <1>1, <1>2, <1>4, <1>5

\* The ranks that occur are told apart.
LEMMA ReciprocalFalls ==
    ASSUME NEW i \in Nat, NEW j \in Nat, 1 <= i, i < j, j <= 3001
    PROVE  /\ reciprocal(i) \in Nat /\ reciprocal(j) \in Nat /\ reciprocal(j) > 0
           /\ reciprocal(i) > reciprocal(j)
<1>1. PICK n \in Nat, m \in Nat : n = 61 * 62 * 63 * 64 /\ m = 3061
  BY SMT
<1>2. PICK a \in Nat, b \in Nat : a = 60 + i /\ b = 60 + j
  BY SMT
<1>3. 0 < a /\ a < b /\ a <= m /\ b <= m
  BY <1>1, <1>2, SMT
<1>4. a * b <= m * m
  BY <1>3, ProductUpTo, SMT
<1>5. m * m <= n
  BY <1>1, SMT
<1>6. a * b \in Nat /\ m * m \in Nat
  BY SMT
<1>7. a * b <= n
  BY <1>4, <1>5, <1>6, SMT
<1>8. n \div a > n \div b /\ n \div b > 0 /\ n \div a \in Nat /\ n \div b \in Nat
  BY <1>3, <1>7, Quotient, QuotientFalls, SMT
<1>9. reciprocal(i) = n \div a /\ reciprocal(j) = n \div b
  BY <1>1, <1>2, SMT DEF reciprocal
<1> QED
  BY <1>8, <1>9, SMT

LEMMA NoPlace ==
    ASSUME NEW s, NEW r, {i \in 1..Len(s) : s[i] = r} = {}
    PROVE  places(s, r) = 0
<1> DEFINE adds(g) == g = [S \in SUBSET {} |->
                             IF S = {} THEN 0
                             ELSE reciprocal(CHOOSE x \in S : TRUE) + g[S \ {CHOOSE x \in S : TRUE}]]
           total == CHOOSE g : adds(g)
<1>1. places(s, r) = total[{}]
  BY DEF places, MapThenSumSet, MapThenFoldSet
<1>2. adds([S \in SUBSET {} |-> 0])
  OBVIOUS
<1>3. adds(total)
  <2> HIDE DEF adds
  <2> QED
    BY <1>2
<1> HIDE DEF total
<1>4. total[{}] = 0
  BY <1>3
<1> QED
  BY <1>1, <1>4

LEMMA OnePlace ==
    ASSUME NEW s, NEW r, NEW k, {i \in 1..Len(s) : s[i] = r} = {k}, reciprocal(k) \in Nat
    PROVE  places(s, r) = reciprocal(k)
<1> DEFINE adds(g) == g = [S \in SUBSET {k} |->
                             IF S = {} THEN 0
                             ELSE reciprocal(CHOOSE x \in S : TRUE) + g[S \ {CHOOSE x \in S : TRUE}]]
           total == CHOOSE g : adds(g)
           h == [S \in SUBSET {k} |-> IF S = {} THEN 0 ELSE reciprocal(k)]
<1>1. places(s, r) = total[{k}]
  BY DEF places, MapThenSumSet, MapThenFoldSet
<1>2. \A S \in SUBSET {k} : S # {} => (CHOOSE x \in S : TRUE) = k /\ S \ {CHOOSE x \in S : TRUE} = {}
  OBVIOUS
<1>3. PICK v \in Nat : v = reciprocal(k)
  OBVIOUS
<1>4. \A S \in SUBSET {k} :
         h[S] = IF S = {} THEN 0
                ELSE reciprocal(CHOOSE x \in S : TRUE) + h[S \ {CHOOSE x \in S : TRUE}]
  <2> TAKE S \in SUBSET {k}
  <2>1. CASE S = {}
    BY <2>1
  <2>2. CASE S # {}
    <3>1. (CHOOSE x \in S : TRUE) = k /\ S \ {CHOOSE x \in S : TRUE} = {}
      BY <1>2, <2>2
    <3>2. h[S] = v /\ h[{}] = 0
      BY <1>3, <2>2
    <3> HIDE DEF h
    <3>3. h[S \ {CHOOSE x \in S : TRUE}] = 0
      BY <3>1, <3>2, Zenon
    <3>4. reciprocal(CHOOSE x \in S : TRUE) = v
      BY <1>3, <3>1, Zenon
    <3>5. v + 0 = v
      OBVIOUS
    <3>6. reciprocal(CHOOSE x \in S : TRUE) + h[S \ {CHOOSE x \in S : TRUE}] = v
      BY <3>3, <3>4, <3>5, Zenon
    <3> QED
      BY <2>2, <3>2, <3>6, Zenon
  <2> QED
    BY <2>1, <2>2
<1>5. adds(h)
  BY <1>4
<1>6. adds(total)
  <2> HIDE DEF adds, h
  <2> QED
    BY <1>5
<1> HIDE DEF total
<1>7. total[{}] = 0 /\ total[{k}] = reciprocal(k) + total[{}]
  <2> DEFINE x == CHOOSE y \in {k} : TRUE
  <2>1. total[{}] = 0 /\ total[{k}] = reciprocal(x) + total[{k} \ {x}]
    BY <1>6
  <2>2. x = k /\ {k} \ {x} = {}
    BY <1>2
  <2> HIDE DEF x
  <2> QED
    BY <2>1, <2>2, Zenon
<1> QED
  BY <1>1, <1>3, <1>7

\* Where a record without repetitions has its places.
LEMMA PlacesAre ==
    ASSUME NEW s \in Seq(Documents), IsInjective(s), Len(s) <= 3000
    PROVE  /\ \A x : places(s, x) \in Nat
           /\ \A x : x \notin Range(s) => places(s, x) = 0
           /\ \A x \in Range(s) : places(s, x) > 0
           /\ \A x, y \in Range(s) : x # y /\ Before(s, x, y) => places(s, x) > places(s, y)
<1>1. Len(s) \in Nat /\ DOMAIN s = 1..Len(s)
  OBVIOUS
<1>2. ASSUME NEW x, x \notin Range(s) PROVE places(s, x) = 0
  <2>1. {i \in 1..Len(s) : s[i] = x} = {}
    BY <1>1, <1>2 DEF Range
  <2> QED
    BY <2>1, NoPlace
<1>3. ASSUME NEW k \in 1..Len(s)
      PROVE  reciprocal(k) \in Nat /\ reciprocal(k) > 0 /\ places(s, s[k]) = reciprocal(k)
  <2>1. k \in Nat /\ 1 <= k /\ k + 1 \in Nat /\ k < k + 1 /\ k + 1 <= 3001
    BY <1>1, SMT
  <2>2. reciprocal(k) \in Nat /\ reciprocal(k + 1) \in Nat
        /\ reciprocal(k + 1) > 0 /\ reciprocal(k) > reciprocal(k + 1)
    BY <2>1, ReciprocalFalls, SMT
  <2>3. reciprocal(k) > 0
    BY <2>2, SMT
  <2>4. PICK x : x = s[k]
    OBVIOUS
  <2>5. {i \in 1..Len(s) : s[i] = x} = {k}
    BY <1>1, <2>4, SMT DEF IsInjective
  <2>6. places(s, x) = reciprocal(k)
    BY <2>2, <2>5, OnePlace, SMT
  <2> QED
    BY <2>2, <2>3, <2>4, <2>6, SMT
<1>4. \A x \in Range(s) : \E k \in 1..Len(s) : s[k] = x
  BY <1>1, SMT DEF Range
<1>5. ASSUME NEW x \in Range(s), NEW y \in Range(s), x # y, Before(s, x, y)
      PROVE  places(s, x) > places(s, y)
  <2>1. PICK i \in 1..Len(s) : s[i] = x
    BY <1>4
  <2>2. PICK j \in 1..Len(s) : s[j] = y
    BY <1>4
  <2>3. i < j
    BY <1>5, <2>1, <2>2 DEF Before
  <2>4. i \in Nat /\ j \in Nat /\ 1 <= i /\ j <= 3001
    BY <1>1, SMT
  <2>5. reciprocal(i) > reciprocal(j)
    BY <2>3, <2>4, ReciprocalFalls, SMT
  <2>6. places(s, x) = reciprocal(i) /\ places(s, y) = reciprocal(j)
    BY <1>3, <2>1, <2>2, SMT
  <2> QED
    BY <2>5, <2>6, SMT
<1>6. \A x \in Range(s) : places(s, x) \in Nat /\ places(s, x) > 0
  BY <1>3, <1>4, SMT
<1>7. \A x : places(s, x) \in Nat
  BY <1>2, <1>6, SMT
<1> QED
  BY <1>2, <1>5, <1>6, <1>7, SMT

fusion(a, v, l) == a * (2 * v + lexicalWeight * l)

\* Better in one ranking and not worse in the other is more when both are fused.
LEMMA FusedIsMore ==
    ASSUME NEW v \in Nat, NEW w \in Nat, NEW l \in Nat, NEW m \in Nat,
           NEW a \in Nat, NEW b \in Nat, a >= b, a > 0,
           v >= w, l >= m, v > w \/ l > m
    PROVE  fusion(a, v, l) > fusion(b, w, m)
<1>1. PICK c \in Nat : c = lexicalWeight /\ c > 0
  BY Limits
<1>2. c * l \in Nat /\ c * m \in Nat
  OBVIOUS
<1>3. l > m => c * l > c * m
  <2>1. l > m => l * c > m * c
    BY <1>1, Products
  <2>2. l * c = c * l /\ m * c = c * m
    OBVIOUS
  <2> QED
    BY <2>1, <2>2
<1>4. l = m => c * l = c * m
  OBVIOUS
<1>5. PICK x \in Nat, y \in Nat : x = 2 * v + c * l /\ y = 2 * w + c * m
  BY <1>2
<1>6. x > y
  BY <1>2, <1>3, <1>4, <1>5
<1>7. x * a > y * b
  BY <1>6, Products
<1>8. x * a = a * x /\ y * b = b * y
  OBVIOUS
<1> QED
  BY <1>1, <1>5, <1>7, <1>8 DEF fusion

-----------------------------------------------------------------------------
(* The answer. *)

\* In t a record is ahead of those with a lower fused score.
RankedByFusion(t) ==
    \A x, y \in candidates :
        fused(x) \in Nat /\ fused(y) \in Nat /\ fused(x) > fused(y) => Before(t, x, y)

\* What Fuse answers.
LEMMA FuseAnswers ==
    ASSUME SearchTypeOK, Fuse, "failed" \notin {vector.pc, lexical.pc}
    PROVE  \E t, rec \in Seq(Documents) :
              /\ rec = Take(t, topK) /\ answer'.records = rec /\ answer'.pc = "answered"
              /\ Range(t) = candidates /\ IsInjective(t) /\ IsInjective(rec)
              /\ Len(t) = Cardinality(candidates) /\ IsFiniteSet(candidates)
              /\ Len(rec) = IF topK <= Len(t) THEN topK ELSE Len(t)
              /\ RankedByFusion(t)
              /\ UNCHANGED <<similarity, relevance, store, vector, lexical>>
<1>1. PICK t \in Seq(Documents) :
         /\ Range(t) = candidates /\ IsInjective(t) /\ Falling(t, fusedScore)
         /\ Len(t) = Cardinality(candidates) /\ IsFiniteSet(candidates)
         /\ answer' = [pc |-> "answered", records |-> Take(t, topK)]
  BY FuseFinds
<1>2. PICK rec : rec = Take(t, topK)
  OBVIOUS
<1>3. /\ rec \in Seq(Documents) /\ IsInjective(rec)
      /\ Len(rec) = IF topK <= Len(t) THEN topK ELSE Len(t)
  BY <1>1, <1>2, Limits, TakeIs
<1>4. ASSUME NEW x \in candidates, NEW y \in candidates, fused(x) \in Nat, fused(y) \in Nat,
             fused(x) > fused(y), NEW i \in 1..Len(t), NEW j \in 1..Len(t), t[i] = x, t[j] = y
      PROVE  i < j
  <2> SUFFICES ASSUME ~(i < j) PROVE FALSE
    OBVIOUS
  <2>1. fusedScore[x] = fused(x) /\ fusedScore[y] = fused(y)
    BY DEF fusedScore
  <2>2. j # i
    <3>1. x # y
      BY <1>4
    <3> QED
      BY <1>4, <3>1
  <2>3. j < i
    BY <2>2
  <2>4. fusedScore[t[j]] >= fusedScore[t[i]]
    BY <1>1, <2>3 DEF Falling
  <2> QED
    BY <1>4, <2>1, <2>4
<1>5. UNCHANGED <<similarity, relevance, store, vector, lexical>>
  BY DEF Fuse
<1>6. RankedByFusion(t)
  BY <1>4 DEF RankedByFusion, Before
<1> QED
  BY <1>1, <1>2, <1>3, <1>5, <1>6

LEMMA FusedIsNat ==
    ASSUME NEW v \in Nat, NEW l \in Nat, NEW a \in Nat
    PROVE  fusion(a, v, l) \in Nat
<1>1. PICK c \in Nat : c = lexicalWeight
  BY Limits
<1>2. c * l \in Nat
  OBVIOUS
<1>3. PICK x \in Nat : x = 2 * v + c * l
  BY <1>2
<1>4. a * x \in Nat
  OBVIOUS
<1> QED
  BY <1>1, <1>3, <1>4 DEF fusion

\* The ranks of the records that are fused are ranks that reciprocal tells apart.
RanksApart == expandedTopK <= 3000

LEMMA FuseDominates ==
    ASSUME SearchTypeOK, VectorInv, LexicalInv, RanksApart, Fuse
    PROVE  DominanceRespected'
<1>1. CASE "failed" \in {vector.pc, lexical.pc}
  <2>1. answer'.pc = "error"
    BY <1>1 DEF Fuse, SearchTypeOK
  <2> QED
    BY <2>1 DEF DominanceRespected, Answered
<1>2. CASE "failed" \notin {vector.pc, lexical.pc}
  <2>1. PICK t, rec \in Seq(Documents) :
           /\ rec = Take(t, topK) /\ answer'.records = rec
           /\ Range(t) = candidates /\ IsInjective(t) /\ IsInjective(rec)
           /\ RankedByFusion(t)
           /\ UNCHANGED <<similarity, relevance, store, vector, lexical>>
    BY <1>2, FuseAnswers
  <2>2. vector.pc = "done" /\ lexical.pc = "done"
    BY <1>2 DEF Fuse
  <2>3. PICK v \in Seq(Documents), l \in Seq(Documents) : v = vector.found /\ l = lexical.found
    BY SearchFields
  <2>4. /\ IsInjective(v) /\ Len(v) <= expandedTopK
        /\ \A r \in Range(v) \ changed : \A s \in Wanted \cap Steady :
              Nearer(s, r) => s \in Range(v) /\ Before(v, s, r)
    BY <2>2, <2>3 DEF VectorInv, VectorGood
  <2>5. /\ IsInjective(l) /\ Len(l) <= expandedTopK
        /\ \A r \in Range(l) \ changed :
              /\ relevance[r] > 0
              /\ \A s \in Wanted \cap Steady : relevance[s] > relevance[r] => s \in Range(l) /\ Before(l, s, r)
    BY <2>2, <2>3 DEF LexicalInv, LexicalGood
  <2>6. Len(v) <= 3000 /\ Len(l) <= 3000
    <3>1. Len(v) \in Nat /\ Len(l) \in Nat /\ expandedTopK \in Nat
      BY Limits
    <3> QED
      BY <2>4, <2>5, <3>1, SMT DEF RanksApart
  <2>7. candidates = Range(v) \cup Range(l) /\ candidates \subseteq Documents
    <3>1. Range(v) \subseteq Documents /\ Range(l) \subseteq Documents
      BY DEF Range
    <3> QED
      BY <2>3, <3>1 DEF candidates
  <2>8. \A x : fused(x) = fusion(Boost[x], places(v, x), places(l, x))
    BY <2>3 DEF fused, fusion
  <2>9. \A x : places(v, x) \in Nat /\ places(l, x) \in Nat
    BY <2>4, <2>5, <2>6, PlacesAre
  <2>10. \A x \in Documents : fused(x) \in Nat
    <3> TAKE x \in Documents
    <3>1. PICK a \in Nat, p \in Nat, q \in Nat : a = Boost[x] /\ p = places(v, x) /\ q = places(l, x)
      BY <2>9, ScoresAre
    <3>2. fusion(a, p, q) \in Nat
      BY FusedIsNat
    <3> QED
      BY <2>8, <3>1, <3>2
  <2>11. ASSUME NEW r \in Range(rec), NEW s \in Wanted \cap Steady, r \notin changed,
                Dominates(s, r), Boost[s] > 0
         PROVE  /\ s \in Range(rec)
                /\ \A i, j \in 1..Len(rec) : rec[i] = s /\ rec[j] = r => i < j
    <3>1. r \in candidates /\ r \in Documents /\ s \in Documents
      <4>1. Range(rec) \subseteq Range(t)
        BY <2>1, Limits, TakeIs
      <4> QED
        BY <2>1, <2>7, <4>1 DEF Steady, SearchTypeOK
    <3>2. /\ similarity[s] > similarity[r] /\ similarity[s] >= 0 /\ Priority[s] >= Priority[r] /\ Boost[s] >= Boost[r]
          /\ relevance[s] > relevance[r] \/ relevance[r] = 0
      BY <2>11 DEF Dominates, Nearer
    <3>3. s # r
      BY <3>1, <3>2, ScoresAre
    <3>4. IF r \in Range(v) THEN s \in Range(v) /\ places(v, s) > places(v, r)
          ELSE places(v, r) = 0
      <4>1. CASE r \in Range(v)
        <5>1. s \in Range(v) /\ Before(v, s, r)
          BY <2>4, <2>11, <4>1 DEF Dominates
        <5> QED
          BY <2>4, <2>6, <3>3, <4>1, <5>1, PlacesAre
      <4>2. CASE r \notin Range(v)
        BY <2>4, <2>6, <4>2, PlacesAre
      <4> QED
        BY <4>1, <4>2
    <3>5. IF r \in Range(l) THEN s \in Range(l) /\ places(l, s) > places(l, r)
          ELSE places(l, r) = 0
      <4>1. CASE r \in Range(l)
        <5>1. relevance[r] > 0 /\ relevance[r] \in Nat
          BY <2>5, <2>11, <3>1, <4>1, ScoresAre
        <5>2. relevance[s] > relevance[r]
          BY <3>2, <5>1
        <5>3. s \in Range(l) /\ Before(l, s, r)
          BY <2>5, <2>11, <4>1, <5>2
        <5> QED
          BY <2>5, <2>6, <3>3, <4>1, <5>3, PlacesAre
      <4>2. CASE r \notin Range(l)
        BY <2>5, <2>6, <4>2, PlacesAre
      <4> QED
        BY <4>1, <4>2
    <3>6. s \in candidates
      BY <2>7, <3>1, <3>4, <3>5
    <3>7. /\ places(v, s) >= places(v, r) /\ places(l, s) >= places(l, r)
          /\ places(v, s) > places(v, r) \/ places(l, s) > places(l, r)
      <4>1. r \in Range(v) \/ r \in Range(l)
        BY <2>7, <3>1
      <4>2. PICK p \in Nat, q \in Nat, x \in Nat, y \in Nat :
               p = places(v, s) /\ q = places(v, r) /\ x = places(l, s) /\ y = places(l, r)
        BY <2>9
      <4>3. /\ IF r \in Range(v) THEN p > q ELSE q = 0
            /\ IF r \in Range(l) THEN x > y ELSE y = 0
        BY <3>4, <3>5, <4>2
      <4>4. p >= q /\ x >= y /\ (p > q \/ x > y)
        BY <4>1, <4>3
      <4> QED
        BY <4>2, <4>4
    <3>8. fused(s) > fused(r)
      <4>1. PICK a \in Nat, b \in Nat : a = Boost[s] /\ b = Boost[r] /\ a > 0 /\ a >= b
        BY <2>11, <3>1, <3>2, ScoresAre
      <4>2. PICK p \in Nat, q \in Nat, x \in Nat, y \in Nat :
               p = places(v, s) /\ q = places(v, r) /\ x = places(l, s) /\ y = places(l, r)
        BY <2>9
      <4>3. p >= q /\ x >= y /\ (p > q \/ x > y)
        BY <3>7, <4>2
      <4>4. fusion(a, p, x) > fusion(b, q, y)
        BY <4>1, <4>3, FusedIsMore, Zenon
      <4>5. fused(s) = fusion(a, p, x) /\ fused(r) = fusion(b, q, y)
        BY <2>8, <4>1, <4>2
      <4> QED
        BY <4>4, <4>5
    <3>9. Before(t, s, r)
      <4>1. fused(s) \in Nat /\ fused(r) \in Nat
        BY <2>10, <3>1
      <4> QED
        BY <2>1, <3>1, <3>6, <3>8, <4>1 DEF RankedByFusion
    <3>10. s \in Range(rec) /\ Before(rec, s, r)
      BY <2>1, <2>11, <3>6, <3>9, Limits, TakenBefore
    <3> QED
      BY <3>10 DEF Before
  <2>12. /\ similarity' = similarity /\ relevance' = relevance /\ changed' = changed /\ held' = held
    BY <2>1 DEF store, changed
  <2>13. ASSUME NEW r \in Range(rec), NEW s \in (Wanted \cap held) \ changed, r \notin changed,
                Dominates(s, r), Boost[s] > 0
         PROVE  s \in Range(rec) /\ (Place(s) < Place(r))'
    <3>1. s \in Wanted \cap Steady
      BY DEF Steady
    <3>2. /\ s \in Range(rec)
          /\ \A i, j \in 1..Len(rec) : rec[i] = s /\ rec[j] = r => i < j
      BY <2>11, <2>13, <3>1
    <3>3. Len(rec) \in Nat /\ DOMAIN rec = 1..Len(rec)
      OBVIOUS
    <3>4. (\E i \in 1..Len(rec) : rec[i] = s) /\ (\E i \in 1..Len(rec) : rec[i] = r)
      BY <3>2, <3>3 DEF Range
    <3> DEFINE p == CHOOSE i \in 1..Len(rec) : rec[i] = s
               q == CHOOSE i \in 1..Len(rec) : rec[i] = r
    <3>6. p \in 1..Len(rec) /\ rec[p] = s /\ q \in 1..Len(rec) /\ rec[q] = r
      BY <3>4, Zenon
    <3>8. Place(s)' = p /\ Place(r)' = q
      BY <2>1 DEF Place
    <3> HIDE DEF p, q
    <3>7. p < q
      BY <3>2, <3>6
    <3> QED
      BY <3>2, <3>7, <3>8
  <2> QED
    BY <2>1, <2>12, <2>13 DEF DominanceRespected, Dominates, Nearer, InOrder
<1> QED
  BY <1>1, <1>2

LEMMA FuseIsFull ==
    ASSUME SearchTypeOK, SteadyInv, FoundInv, VectorInv, Fuse
    PROVE  FullAnswer'
<1>1. CASE "failed" \in {vector.pc, lexical.pc}
  <2>1. answer'.pc = "error"
    BY <1>1 DEF Fuse, SearchTypeOK
  <2> QED
    BY <2>1 DEF FullAnswer, Answered
<1>2. CASE "failed" \notin {vector.pc, lexical.pc}
  <2>1. PICK t, rec \in Seq(Documents) :
           /\ answer'.records = rec
           /\ Len(t) = Cardinality(candidates) /\ IsFiniteSet(candidates)
           /\ Len(rec) = IF topK <= Len(t) THEN topK ELSE Len(t)
           /\ UNCHANGED <<similarity, relevance, store, vector, lexical>>
    BY <1>2, FuseAnswers
  <2>2. changes' = changes /\ present' = present
    BY <2>1 DEF store
  <2> SUFFICES ASSUME changes = <<>>
               PROVE  Len(rec) = Min({topK, Cardinality(Wanted \cap present)})
    BY <2>1, <2>2 DEF FullAnswer
  <2>3. PICK W : W = Wanted \cap present
    OBVIOUS
  <2>4. IsFiniteSet(W) /\ Cardinality(W) \in Nat
    BY <2>3, FiniteStore
  <2>5. candidates \subseteq W
    <3>1. changed = {}
      BY DEF changed, Range
    <3>2. held \subseteq present
      BY <3>1 DEF SteadyInv, SearchTypeOK
    <3> QED
      BY <2>3, <3>2 DEF candidates, FoundInv
  <2>6. Cardinality(candidates) <= Cardinality(W) /\ Cardinality(candidates) \in Nat
    BY <2>1, <2>4, <2>5, FS_Subset, FS_CardinalityType
  <2>7. PICK f \in Seq(Documents) : f = vector.found
    BY SearchFields
  <2>8. vector.pc = "done"
    BY <1>2 DEF Fuse
  <2>9. IsInjective(f) /\ NoMoreThan(expandedTopK, f, W)
    BY <2>3, <2>7, <2>8 DEF VectorInv, VectorGood
  <2>10. Len(f) <= Cardinality(candidates)
    <3>1. Range(f) \subseteq candidates
      BY <2>7 DEF candidates
    <3>2. Cardinality(Range(f)) = Len(f)
      BY <2>9, LengthIsCardinality
    <3> QED
      BY <2>1, <3>1, <3>2, FS_Subset
  <2>11. PICK c \in Nat, m \in Nat, l \in Nat, e \in Nat :
            c = Cardinality(candidates) /\ m = Cardinality(W) /\ l = Len(f) /\ e = expandedTopK
    <3>1. Len(f) \in Nat
      OBVIOUS
    <3> QED
      BY <2>4, <2>6, <3>1, Limits
  <2>12. /\ c <= m /\ l <= c /\ topK <= e /\ topK \in Nat
         /\ IF e <= m THEN e <= l ELSE m <= l
    BY <2>6, <2>9, <2>10, <2>11, Limits DEF NoMoreThan
  <2>13. Len(rec) = IF topK <= m THEN topK ELSE m
    <3>1. Len(rec) = IF topK <= c THEN topK ELSE c
      BY <2>1, <2>11
    <3> QED
      BY <2>12, <3>1
  <2>14. Min({topK, m}) = IF topK <= m THEN topK ELSE m
    BY <2>12, LeastOf
  <2> QED
    BY <2>3, <2>11, <2>13, <2>14
<1> QED
  BY <1>1, <1>2

LEMMA LateStep ==
    SearchTypeOK /\ Late /\ [SearchNext]_searchVars =>
       /\ Late'
       /\ Fuse \/ answer'.pc = "none" \/ UNCHANGED searchVars
<1> SUFFICES ASSUME SearchTypeOK, Late, [SearchNext]_searchVars
             PROVE  Late' /\ (Fuse \/ answer'.pc = "none" \/ UNCHANGED searchVars)
  OBVIOUS
<1>1. CASE Fuse
  BY <1>1 DEF Fuse, Late
<1>2. CASE VectorCount \/ VectorQuery \/ VectorRank
  <2>1. answer' = answer /\ vector.pc \notin {"done", "failed"}
    BY <1>2 DEF VectorCount, VectorQuery, VectorRank
  <2> QED
    BY <2>1 DEF Late
<1>3. CASE LexicalCount \/ LexicalBM25 \/ LexicalQuery \/ LexicalRank
  <2>1. answer' = answer /\ lexical.pc \notin {"done", "failed"}
    BY <1>3 DEF LexicalCount, LexicalBM25, LexicalQuery, LexicalRank
  <2> QED
    BY <2>1 DEF Late
<1>4. ASSUME NEW r \in Documents, NEW which \in Changing,
             Change(r, which)
      PROVE  Late' /\ answer'.pc = "none"
  BY <1>4 DEF Change, Late
<1>5. CASE UNCHANGED searchVars
  BY <1>5 DEF searchVars, Late
<1> QED
  BY <1>1, <1>2, <1>3, <1>4, <1>5 DEF SearchNext

FullInv == Basics /\ VectorInv /\ Late /\ FullAnswer

DominanceInv == Basics /\ VectorInv /\ LexicalInv /\ Late /\ DominanceRespected

LEMMA SearchesBegin == SearchInit => FullInv /\ DominanceInv
<1> SUFFICES ASSUME SearchInit PROVE FullInv /\ DominanceInv
  OBVIOUS
<1>1. /\ vector = search /\ lexical = search /\ answer = [pc |-> "none", records |-> <<>>]
  BY DEF SearchInit
<1>2. /\ vector.pc = "count" /\ vector.found = <<>> /\ vector.asked = 0
      /\ lexical.pc = "count" /\ lexical.found = <<>> /\ lexical.asked = 0 /\ answer.pc = "none"
  BY <1>1 DEF search
<1>3. IsInjective(<<>>)
  BY DEF IsInjective
<1>4. VectorInv /\ LexicalInv
  BY <1>2, <1>3 DEF VectorInv, VectorGood, LexicalInv, LexicalGood
<1>5. Late /\ FullAnswer /\ DominanceRespected
  BY <1>2 DEF Late, FullAnswer, DominanceRespected, Answered
<1> QED
  BY <1>4, <1>5, BasicsStart DEF FullInv, DominanceInv

LEMMA FullStep == DistinctProjects /\ FullInv /\ [SearchNext]_searchVars => FullInv'
<1> SUFFICES ASSUME DistinctProjects, FullInv, [SearchNext]_searchVars PROVE FullInv'
  OBVIOUS
<1>1. Basics' /\ VectorInv' /\ Late' /\ (Fuse \/ answer'.pc = "none" \/ UNCHANGED searchVars)
  BY BasicsStep, VectorStep, LateStep DEF FullInv, Basics
<1>2. CASE Fuse
  BY <1>1, <1>2, FuseIsFull DEF FullInv, Basics
<1>3. CASE answer'.pc = "none"
  BY <1>1, <1>3 DEF FullInv, FullAnswer, Answered
<1>4. CASE UNCHANGED searchVars
  BY <1>1, <1>4 DEF FullInv, FullAnswer, Answered, searchVars, store
<1> QED
  BY <1>1, <1>2, <1>3, <1>4

LEMMA DominanceStep ==
    DistinctProjects /\ RanksApart /\ DominanceInv /\ [SearchNext]_searchVars => DominanceInv'
<1> SUFFICES ASSUME DistinctProjects, RanksApart, DominanceInv, [SearchNext]_searchVars PROVE DominanceInv'
  OBVIOUS
<1>1. /\ Basics' /\ VectorInv' /\ LexicalInv' /\ Late'
      /\ Fuse \/ answer'.pc = "none" \/ UNCHANGED searchVars
  BY BasicsStep, VectorStep, LexicalStep, LateStep DEF DominanceInv, Basics
<1>2. CASE Fuse
  BY <1>1, <1>2, FuseDominates DEF DominanceInv, Basics
<1>3. CASE answer'.pc = "none"
  BY <1>1, <1>3 DEF DominanceInv, DominanceRespected, Answered
<1>4. CASE UNCHANGED searchVars
  <2>1. /\ answer' = answer /\ held' = held /\ similarity' = similarity /\ relevance' = relevance
        /\ changes' = changes
    BY <1>4 DEF searchVars, store
  <2>2. changed' = changed /\ (Answered' <=> Answered)
    BY <2>1 DEF changed, Answered
  <2>3. \A r : Place(r)' = Place(r)
    BY <2>1 DEF Place
  <2>4. \A s, r : Dominates(s, r)' <=> Dominates(s, r)
    BY <2>1, Zenon DEF Dominates, Nearer
  <2>7. \A s, r : InOrder(s, r)' <=> InOrder(s, r)
    BY <2>1, <2>3, Zenon DEF InOrder
  <2>5. DominanceRespected
    BY DEF DominanceInv
  <2>6. DominanceRespected'
    BY <2>1, <2>2, <2>4, <2>5, <2>7, Zenon DEF DominanceRespected
  <2> QED
    BY <1>1, <2>6 DEF DominanceInv
<1> QED
  BY <1>1, <1>2, <1>3, <1>4

\* When no project is named twice, a search fails only if a delete took documents
\* away under it, and in a store that does not change its answer is as long as it can be.
THEOREM SearchesAreServed == DistinctProjects => (SearchSpec => []ServedInFull)
<1> SUFFICES ASSUME DistinctProjects PROVE SearchSpec => []ServedInFull
  OBVIOUS
<1>1. SearchInit => FullInv
  BY SearchesBegin
<1>2. FullInv /\ [SearchNext]_searchVars => FullInv'
  BY FullStep
<1>3. FullInv => ServedInFull
  BY DEF FullInv, Basics, ServedInFull
<1> QED
  BY <1>1, <1>2, <1>3, PTL DEF SearchSpec

\* When no project is named twice and the ranks are told apart, a record that
\* beats another in every respect, and has a score to be ranked by, is answered, and
\* ahead of it, whatever changes the rest of the store during the call: with boosts
\* of 0, without vectors and with negative similarities among the others.
THEOREM BetterComesFirst == DistinctProjects /\ RanksApart => (SearchSpec => []DominanceRespected)
<1> SUFFICES ASSUME DistinctProjects, RanksApart PROVE SearchSpec => []DominanceRespected
  OBVIOUS
<1>1. SearchInit => DominanceInv
  BY SearchesBegin
<1>2. DominanceInv /\ [SearchNext]_searchVars => DominanceInv'
  BY DominanceStep
<1>3. DominanceInv => DominanceRespected
  BY DEF DominanceInv
<1> QED
  BY <1>1, <1>2, <1>3, PTL DEF SearchSpec

=============================================================================

---------------------------- MODULE HybridSearch ----------------------------
(***************************************************************************)
(* One call of HybridSearch (internal/db/store.go) while the store         *)
(* changes: a vector search and a LexicalSearch run at the same time, each *)
(* reads the collection several times, and their rankings are fused.       *)
(* Similarities and BM25 scores are small numbers chosen at the start, a   *)
(* record without a vector (a file_meta has only zeros) taken to be 0 like *)
(* anything.  Boosts are scaled to whole numbers; a category narrows every *)
(* query the way a project does and is left out.                           *)
(***************************************************************************)
EXTENDS Integers, Sequences, FiniteSets, Functions, FiniteSetsExt

CONSTANTS
    Documents,
    ProjectOf,        \* metadata "project_id"
    projectIDs,       \* the argument: a sequence, empty for every project
    topK,             \* the argument
    Priority,         \* metadata "priority"
    Boost,            \* the priority times function_score and recency: 0 for
                      \* the chunks between the entities of a file and for those
                      \* of fastChunk, whose FunctionScore is never set
    lexicalWeight,    \* 2, or 3 when the query has an identifier (in halves)
    FetchMultiplier,  \* extras LexicalSearch asks BM25 for (3 in the code)
    Expanded,         \* ExpandedFetchMultiplier (2 in the code)
    Similarities,     \* BOUND: the similarities there are, negative ones too
    MaxScore,         \* BOUND: BM25 scores
    MaxChanges        \* BOUND: changes of the store during the call

ASSUME DocumentsAssumption == IsFiniteSet(Documents)
ASSUME BoostAssumption == Priority \in [Documents -> Nat \ {0}] /\ Boost \in [Documents -> Nat]
ASSUME SimilaritiesAssumption == Similarities \subseteq Int
ASSUME LimitsAssumption ==
    {topK, FetchMultiplier, Expanded, MaxScore, lexicalWeight} \subseteq Nat \ {0}
ASSUME ProjectsAssumption == projectIDs \in Seq(Range(projectIDs))

VARIABLES
    similarity,   \* record -> its similarity to the query's vector
    relevance,    \* record -> its BM25 score for the query's terms, 0 without one
    present,      \* the records in the collection
    entries,      \* the records in the lexical index
    changes,      \* history: the changes of the store, <<record, which>>
    held,         \* history: the records the collection has held
    vector,       \* the goroutine that runs Search
    lexical,      \* the goroutine that runs LexicalSearch
    answer        \* what HybridSearch returned

store == <<present, entries, changes, held>>
searchVars == <<similarity, relevance, store, vector, lexical, answer>>

expandedTopK == topK * Expanded

\* The projects that are queried one after another, "all" for no filter.
Queries == IF projectIDs = <<>> THEN <<"all">> ELSE projectIDs
Matching(q) == {r \in Documents : q = "all" \/ ProjectOf[r] = q}
Wanted == UNION {Matching(q) : q \in Range(Queries)}

\* A search: how many documents it asks for, the projects it has queried, what
\* it found, and for LexicalSearch the best entries of the lexical index.
search == [pc |-> "count", count |-> 0, asked |-> 0, found |-> <<>>, hits |-> {}]

SearchInit ==
    /\ similarity \in [Documents -> Similarities]
    /\ relevance \in [Documents -> 0..MaxScore]
    /\ present \in SUBSET Documents
    /\ entries = present /\ held = present /\ changes = <<>>
    /\ vector = search /\ lexical = search
    /\ answer = [pc |-> "none", records |-> <<>>]

-----------------------------------------------------------------------------
(* Rankings.  Equal keys come in any order (maps, sort.Slice). *)

Take(s, k) == SubSeq(s, 1, Min({k, Len(s)}))

Falling(s, key) == \A i, j \in 1..Len(s) : i < j => key[s[i]] >= key[s[j]]

\* The rearrangements of s by falling key.
Sorted(s, key) ==
    LET n == Len(s) IN
    {t \in {[i \in 1..n |-> s[p[i]]] : p \in Bijection(1..n, 1..n)} : Falling(t, key)}

\* The rankings of a set of records by falling key.
Ranked(S, key) ==
    LET n == Cardinality(S) IN {t \in Bijection(1..n, S) : Falling(t, key)}

-----------------------------------------------------------------------------
(* The vector search (SearchWithScore). *)

\* mutant: more documents are asked for than there are
unclamped(n) == expandedTopK

clamped(n) == Min({expandedTopK, n})

VectorCount ==
    /\ vector.pc = "count"
    /\ LET n == Cardinality(present) IN
       vector' = IF n = 0 THEN [vector EXCEPT !.pc = "done"]
                 ELSE [vector EXCEPT !.pc = "query", !.count = clamped(n)]
    /\ UNCHANGED <<similarity, relevance, store, lexical, answer>>

\* chromem refuses a query for more documents than the collection has, then
\* takes the most similar of those that match.
VectorQuery ==
    /\ vector.pc = "query" /\ vector.asked < Len(Queries)
    /\ LET q == Queries[vector.asked + 1] IN
       IF vector.count > Cardinality(present)
       THEN vector' = [vector EXCEPT !.pc = "failed"]
       ELSE \E t \in Ranked(present \cap Matching(q), similarity) :
              vector' = [vector EXCEPT !.asked = @ + 1, !.found = @ \o Take(t, vector.count)]
    /\ UNCHANGED <<similarity, relevance, store, lexical, answer>>

Prioritised == [r \in Documents |-> similarity[r] * Priority[r]]

\* The best of all projects, and those again by similarity times priority.
VectorRank ==
    /\ vector.pc = "query" /\ vector.asked = Len(Queries)
    /\ \E t \in Sorted(vector.found, similarity) :
       \E u \in Sorted(Take(t, vector.count), Prioritised) :
          vector' = [vector EXCEPT !.pc = "done", !.found = u]
    /\ UNCHANGED <<similarity, relevance, store, lexical, answer>>

-----------------------------------------------------------------------------
(* LexicalSearch. *)

\* BM25's answer counts the documents of every project.
fetchK(n) == IF expandedTopK <= n \div FetchMultiplier THEN expandedTopK * FetchMultiplier ELSE n

LexicalCount ==
    /\ lexical.pc = "count"
    /\ LET n == Cardinality(present) IN
       lexical' = IF n = 0 THEN [lexical EXCEPT !.pc = "done"]
                  ELSE [lexical EXCEPT !.pc = "bm25", !.count = n]
    /\ UNCHANGED <<similarity, relevance, store, vector, answer>>

LexicalBM25 ==
    /\ lexical.pc = "bm25"
    /\ \E t \in Ranked({r \in entries : relevance[r] > 0}, relevance) :
       LET best == Range(Take(t, fetchK(lexical.count))) IN
       lexical' = IF best = {} THEN [lexical EXCEPT !.pc = "done"]
                  ELSE [lexical EXCEPT !.pc = "query", !.hits = best]
    /\ UNCHANGED <<similarity, relevance, store, vector, answer>>

\* Every document of the project, and of those the ones among the hits.
LexicalQuery ==
    /\ lexical.pc = "query" /\ lexical.asked < Len(Queries)
    /\ LET S == present \cap Matching(Queries[lexical.asked + 1]) \cap lexical.hits IN
       IF lexical.count > Cardinality(present)
       THEN lexical' = [lexical EXCEPT !.pc = "failed"]
       ELSE \E t \in Ranked(S, relevance) :
              lexical' = [lexical EXCEPT !.asked = @ + 1, !.found = @ \o t]
    /\ UNCHANGED <<similarity, relevance, store, vector, answer>>

\* mutant: the documents stay in the order of the projects
unranked(s) == {s}

ranked(s) == Sorted(s, relevance)

LexicalRank ==
    /\ lexical.pc = "query" /\ lexical.asked = Len(Queries)
    /\ \E t \in ranked(lexical.found) :
          lexical' = [lexical EXCEPT !.pc = "done", !.found = Take(t, expandedTopK)]
    /\ UNCHANGED <<similarity, relevance, store, vector, answer>>

-----------------------------------------------------------------------------
(* Reciprocal rank fusion. *)

\* 1 / (60 + i) in units that keep it whole for the ranks 1 to 4.
reciprocal(i) == (61 * 62 * 63 * 64) \div (60 + i)

\* The sum over the places r has in a ranking.
places(s, r) == MapThenSumSet(reciprocal, {i \in 1..Len(s) : s[i] = r})

\* mutant: the ranks count from the other end
reversed(r) == Boost[r] * (lexicalWeight * places(lexical.found, r) - 2 * places(vector.found, r))

fused(r) == Boost[r] * (2 * places(vector.found, r) + lexicalWeight * places(lexical.found, r))

candidates == Range(vector.found) \cup Range(lexical.found)

\* mutant: one record too many is returned
oneMore(s) == Take(s, topK + 1)

selected(s) == Take(s, topK)

Fuse ==
    /\ answer.pc = "none"
    /\ {vector.pc, lexical.pc} \subseteq {"done", "failed"}
    /\ IF "failed" \in {vector.pc, lexical.pc}
       THEN answer' = [answer EXCEPT !.pc = "error"]
       ELSE LET score == [r \in candidates |-> fused(r)] IN
            \E t \in Ranked(candidates, score) :
               answer' = [pc |-> "answered", records |-> selected(t)]
    /\ UNCHANGED <<similarity, relevance, store, vector, lexical>>

-----------------------------------------------------------------------------
(* What others do to the store meanwhile: the halves of Insert and of the  *)
(* deletes in their order (VectorStore).                                   *)

Change(r, which) ==
    /\ answer.pc = "none" /\ Len(changes) < MaxChanges
    /\ \/ which = "bm25.Add" /\ r \notin entries \cup present
          /\ entries' = entries \cup {r} /\ UNCHANGED present
       \/ which = "AddDocuments" /\ r \in entries \ present
          /\ present' = present \cup {r} /\ UNCHANGED entries
       \/ which = "bm25.Remove" /\ r \in entries \cap present
          /\ entries' = entries \ {r} /\ UNCHANGED present
       \/ which = "Delete" /\ r \in present \ entries
          /\ present' = present \ {r} /\ UNCHANGED entries
    /\ changes' = Append(changes, <<r, which>>)
    /\ held' = held \cup present'
    /\ UNCHANGED <<similarity, relevance, vector, lexical, answer>>

SearchNext ==
    \/ VectorCount \/ VectorQuery \/ VectorRank
    \/ LexicalCount \/ LexicalBM25 \/ LexicalQuery \/ LexicalRank
    \/ Fuse
    \/ \E r \in Documents, which \in {"bm25.Add", "AddDocuments", "bm25.Remove", "Delete"} :
          Change(r, which)

SearchSpec == SearchInit /\ [][SearchNext]_searchVars

-----------------------------------------------------------------------------
(* Properties. *)

Answered == answer.pc = "answered"
changed == {c[1] : c \in Range(changes)}
Place(r) == CHOOSE i \in 1..Len(answer.records) : answer.records[i] = r

\* What is returned was in the collection during the call, belongs to one of the
\* projects asked for and comes once, and there is no more of it than asked for.
AnswerSound ==
    /\ Len(answer.records) <= topK
    /\ IsInjective(answer.records)
    /\ Range(answer.records) \subseteq Wanted \cap held

\* A record of an entity that is at least as good as another by both searches and
\* by its metadata, and better by one, is not ranked behind it nor left out for it,
\* whatever happens to other records during the call.  (A priority makes a negative
\* similarity smaller, so only similarities from 0 up are claimed to be ordered.)
Nearer(s, r) ==
    similarity[s] > similarity[r] /\ similarity[s] >= 0 /\ Priority[s] >= Priority[r]

Dominates(s, r) ==
    /\ Nearer(s, r) /\ Boost[s] >= Boost[r]
    /\ relevance[s] > relevance[r] \/ relevance[r] = 0

InOrder(s, r) == s \in Range(answer.records) /\ Place(s) < Place(r)

DominanceRespected ==
    Answered =>
        \A r \in Range(answer.records) : \A s \in (Wanted \cap held) \ changed :
            r \notin changed /\ Dominates(s, r) /\ Boost[s] > 0 => InOrder(s, r)

\* The same of every record.  It does not hold: a function_score of 0 takes the
\* ranks of both searches away, and what has a score of 0 comes in any order.
BestFirst ==
    Answered =>
        \A r \in Range(answer.records) : \A s \in (Wanted \cap held) \ changed :
            r \notin changed /\ Dominates(s, r) => InOrder(s, r)

\* In a store that does not change the answer has as many records as it can.
FullAnswer ==
    Answered /\ changes = <<>> =>
        Len(answer.records) = Min({topK, Cardinality(Wanted \cap present)})

\* The search fails only when documents were deleted during the call.
FailsOnlyWhenShrunk == answer.pc = "error" => \E c \in Range(changes) : c[2] = "Delete"

\* A search that runs beside changes is served: with an error only when a
\* delete took documents away under it, in full when nothing changes.
ServedInFull == FullAnswer /\ FailsOnlyWhenShrunk

-----------------------------------------------------------------------------
(* What they rest on.                                                      *)

Phases == {"count", "bm25", "query", "done", "failed"}

Searches == [pc : Phases, count : Nat, asked : 0..Len(Queries), found : Seq(Documents),
             hits : SUBSET Documents]

SearchTypeOK ==
    /\ similarity \in [Documents -> Similarities] /\ relevance \in [Documents -> 0..MaxScore]
    /\ present \subseteq held /\ held \subseteq Documents /\ entries \subseteq Documents
    /\ changes \in Seq(Documents \X {"bm25.Add", "AddDocuments", "bm25.Remove", "Delete"})
    /\ vector \in Searches /\ lexical \in Searches
    /\ answer \in [pc : {"none", "answered", "error"}, records : Seq(Documents)]

\* What a record nobody touched is: in both indexes or in neither.
Steady == held \ changed

SteadyInv == \A x \in Documents \ changed : (x \in held <=> x \in present) /\ (x \in entries <=> x \in held)

FoundInv == Range(vector.found) \cup Range(lexical.found) \subseteq Wanted \cap held

Shrunk == \E c \in Range(changes) : c[2] = "Delete"

\* Documents are counted before they are asked for, and none go but by a delete.
Counted(s) ==
    ~Shrunk => /\ s.pc # "failed"
               /\ s.pc \in {"bm25", "query"} => s.count <= Cardinality(present)

CountInv == Counted(vector) /\ Counted(lexical)

\* The projects a search has queried, and their records.
Covered(s) == UNION {Matching(Queries[i]) : i \in 1..s.asked}

Before(s, x, y) == \A i, j \in 1..Len(s) : s[i] = x /\ s[j] = y => i < j

\* Where x is not found, n that are at least as similar are.
Outdone(s, n, x) ==
    \E lo \in 0..Len(s) : lo + n <= Len(s) /\ \A j \in lo+1..lo+n : similarity[s[j]] >= similarity[x]

NoMoreThan(n, s, S) == IF n <= Cardinality(S) THEN n <= Len(s) ELSE Cardinality(S) <= Len(s)

VectorGood(v) ==
    /\ v.pc = "count" => v.found = <<>> /\ v.asked = 0
    /\ IsInjective(v.found)
    /\ v.pc = "query" =>
          /\ v.count \in 1..expandedTopK
          /\ changes = <<>> => v.count = clamped(Cardinality(present))
          /\ Range(v.found) \subseteq Covered(v)
          /\ \A x \in Steady \cap Covered(v) :
                x \in Range(v.found) \/ Outdone(v.found, v.count, x)
    /\ v.pc = "done" =>
          /\ Len(v.found) <= expandedTopK
          /\ \A r \in Range(v.found) \ changed : \A s \in Wanted \cap Steady :
                Nearer(s, r) => s \in Range(v.found) /\ Before(v.found, s, r)
          /\ changes = <<>> => NoMoreThan(expandedTopK, v.found, Wanted \cap present)

VectorInv == VectorGood(vector)

LexicalGood(v) ==
    /\ v.pc \in {"count", "bm25"} => v.found = <<>> /\ v.asked = 0
    /\ IsInjective(v.found)
    /\ v.pc = "query" =>
          /\ Range(v.found) \subseteq Covered(v) \cap v.hits
          /\ \A r \in v.hits \ changed :
                relevance[r] > 0 /\ \A s \in Steady : relevance[s] > relevance[r] => s \in v.hits
          /\ Steady \cap v.hits \cap Covered(v) \subseteq Range(v.found)
    /\ v.pc = "done" =>
          /\ Len(v.found) <= expandedTopK
          /\ \A r \in Range(v.found) \ changed :
                /\ relevance[r] > 0
                /\ \A s \in Wanted \cap Steady : relevance[s] > relevance[r] =>
                      s \in Range(v.found) /\ Before(v.found, s, r)

LexicalInv == LexicalGood(lexical)

\* After the answer nothing happens.
Late == answer.pc = "none" \/ {vector.pc, lexical.pc} \subseteq {"done", "failed"}

=============================================================================

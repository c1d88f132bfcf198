---------------------------- MODULE UsageReports ----------------------------
(***************************************************************************)
(* find_dead_code and find_missing_tests (internal/mcp/handlers_analysis.  *)
(* go): two reports about the chunks the indexer has stored, each with its *)
(* own notion of which files count and of what a use is.  A name is a      *)
(* symbol that is defined, called or imported; which of the files that     *)
(* define it is shown is left out.                                         *)
(***************************************************************************)
EXTENDS FiniteSets

CONSTANTS
    Names,
    EntryPoints,     \* main, NewServer, TestX, ...: never dead
    Private,         \* those that start with an underscore
    AfterFirstDot,   \* name -> what follows its first dot, or the name
    AfterLastDot     \* name -> what follows its last dot, or the name

VARIABLE records     \* what is in the store

\* A chunk, with what its path tells: it is a test file's, it has target_path as
\* a prefix, one of exclude_paths occurs in it, it is a library's internal one.
\* symbols are those it defines, uses its calls and relationships, words are of
\* its content.
Chunk == [test : BOOLEAN, below : BOOLEAN, excluded : BOOLEAN, internal : BOOLEAN,
          symbols : SUBSET Names, uses : SUBSET Names, words : SUBSET Names]

createChunkRecord(chunk) == [type |-> "chunk", chunk |-> chunk]

Init == records = {}

Insert(chunk) == records' = records \cup {createChunkRecord(chunk)}

Next == \E chunk \in Chunk : Insert(chunk)

Spec == Init /\ [][Next]_records

\* Both reports take the symbols of records of these types.
Structural == {"function", "class", "variable", "arrow_function"}

declared(R) == UNION {r.chunk.symbols : r \in {x \in R : x.type \in Structural}}
used(R) == UNION {r.chunk.uses : r \in R}

TestRecords == {r \in records : r.chunk.test}

-----------------------------------------------------------------------------
(* find_dead_code. *)

\* target: a target_path is given.  What is outside of it is not searched for
\* uses either.
considered(target) == {r \in records \ TestRecords : target => r.chunk.below}

exporting(R, library) == {r \in R : IF library THEN r.chunk.internal ELSE ~r.chunk.excluded}

unusedIn(R, n) == n \notin used(R) /\ AfterFirstDot[n] \notin used(R)

handleFindDeadCode(target, library) ==
    LET R == considered(target)
    IN  {n \in declared(exporting(R, library)) \ EntryPoints : unusedIn(R, n)}

-----------------------------------------------------------------------------
(* find_missing_tests. *)

untested(n) ==
    LET mentioned == used(TestRecords) \cup UNION {r.chunk.words : r \in TestRecords}
    IN  n \notin mentioned /\ AfterLastDot[n] \notin mentioned

handleFindMissingTests ==
    {n \in declared(records \ TestRecords) \ Private : untested(n)}

-----------------------------------------------------------------------------
(* What is said of the two reports.  Neither holds: every record that the  *)
(* indexer stores is of type chunk, and the reports look at others.        *)

\* Whatever an indexed file defines and nothing uses is reported as dead code.
UnusedIsReported ==
    \A r \in exporting(considered(FALSE), FALSE) : \A n \in r.chunk.symbols \ EntryPoints :
        unusedIn(considered(FALSE), n) => n \in handleFindDeadCode(FALSE, FALSE)

\* Whatever an indexed file defines and no test mentions is reported as untested.
UntestedIsReported ==
    \A r \in records \ TestRecords : \A n \in r.chunk.symbols \ Private :
        untested(n) => n \in handleFindMissingTests
=============================================================================

------------------------------ MODULE Chunker ------------------------------
(***************************************************************************)
(* How a file's text becomes chunks (internal/indexer/chunker.go).  A text *)
(* is a sequence of runes, each a newline or not: a newline is also what   *)
(* is blank.  What tree-sitter finds in it is given by the places of the   *)
(* entities, which are those of the nodes of one tree: two of them are     *)
(* nested or have nothing in common.  A chunk is a place in the text, from *)
(* a rune to the one behind its last, with the lines it says it is on.     *)
(***************************************************************************)
EXTENDS Naturals, Sequences, FiniteSets

CONSTANTS
    MaxRunes, Overlap,        \* of splitIfNeeded: 8000 and 800
    ChunkSize, FastOverlap    \* of fastChunk: 3000 and 500

ASSUME ChunkerAssumption ==
    /\ MaxRunes \in Nat /\ Overlap \in Nat /\ Overlap < MaxRunes
    /\ ChunkSize \in Nat /\ FastOverlap \in Nat /\ FastOverlap < ChunkSize

Newline == "newline"

\* The places of the text, as tree-sitter numbers its bytes.
Places(text) == {p \in (0 .. Len(text)) \X (0 .. Len(text)) : p[1] < p[2]}

Inside(p, q) == q[1] <= p[1] /\ p[2] <= q[2]
Apart(p, q) == p[2] <= q[1] \/ q[2] <= p[1]

IsTree(entities) == \A p, q \in entities : Inside(p, q) \/ Inside(q, p) \/ Apart(p, q)

runes(p) == p[1] + 1 .. p[2]

countLines(text, n) == Cardinality({i \in 1 .. n : text[i] = Newline})

blank(text, p) == \A i \in runes(p) : text[i] = Newline

-----------------------------------------------------------------------------
(* Cutting a place that is too long. *)

\* mutant: each part starts where the one before it ended
withoutOverlap(size, overlap) == size

step(size, overlap) == size - overlap

\* Where the parts of p start: a step apart, until one reaches the end.
starts(p, size, overlap) ==
    {i \in p[1] .. p[2] - 1 :
        \E k \in 0 .. p[2] - p[1] :
            /\ i = p[1] + k * step(size, overlap)
            /\ k > 0 => i - step(size, overlap) + size < p[2]}

partEnd(p, i, size) == IF i + size > p[2] THEN p[2] ELSE i + size

parts(p, size, overlap) == {<<i, partEnd(p, i, size)>> : i \in starts(p, size, overlap)}

chunk(place, first, last) == [place |-> place, startLine |-> first, endLine |-> last]

newlinesIn(text, p) == countLines(text, p[2]) - countLines(text, p[1])

lineOfPart(text, c, i) == c.startLine + newlinesIn(text, <<c.place[1], i>>)

\* The end line of a part is counted from the start line of the whole.
splitIfNeeded(text, c) ==
    IF c.place[2] - c.place[1] <= MaxRunes THEN {c}
    ELSE {chunk(p, lineOfPart(text, c, p[1]), c.startLine + newlinesIn(text, p)) :
             p \in parts(c.place, MaxRunes, Overlap)}

fastChunk(text) ==
    LET line(p) == countLines(text, p[1]) + 1
    IN  IF text = <<>> THEN {}
        ELSE {chunk(p, line(p), line(p) + newlinesIn(text, p)) :
                 p \in parts(<<0, Len(text)>>, ChunkSize, FastOverlap)}

-----------------------------------------------------------------------------
(* treeSitterChunk. *)

\* An entity is the place of a node that one of the queries captures; two
\* captures of one place are one entity (seen).
entity(text, p) == chunk(p, countLines(text, p[1]) + 1, countLines(text, p[2]) + 1)

topLevel(entities) == {p \in entities : \A q \in entities \ {p} : ~Inside(p, q)}

\* The gaps: from the end of a top-level entity, or the start of the text, to
\* the next one, or to the end.
gaps(text, entities) ==
    LET ends == {0} \cup {p[2] : p \in topLevel(entities)}
        begins == {p[1] : p \in topLevel(entities)} \cup {Len(text)}
    IN  {p \in Places(text) :
            /\ p[1] \in ends /\ p[2] \in begins
            /\ \A q \in topLevel(entities) : Apart(p, q)
            /\ ~blank(text, p)}

gapChunk(text, p) == chunk(p, countLines(text, p[1]) + 1, countLines(text, p[2]))

treeSitterChunk(text, entities) ==
    LET pieces == {gapChunk(text, p) : p \in gaps(text, entities)}
                     \cup {entity(text, p) : p \in entities}
    IN  IF pieces = {} THEN fastChunk(text)
        ELSE UNION {splitIfNeeded(text, c) : c \in pieces}

\* supported: whether the file's extension has a grammar.  (Of each chunk this is
\* its passage of the text, without the context that is put before it.)
CreateChunks(text, supported, entities) ==
    IF supported THEN treeSitterChunk(text, entities) ELSE fastChunk(text)

-----------------------------------------------------------------------------
(* What the chunks of a text owe whoever searches for it. *)

\* Every rune that is not blank is in a chunk.
NothingLost(text, chunks) ==
    \A i \in 1 .. Len(text) : text[i] # Newline => \E c \in chunks : i \in runes(c.place)

\* The passage of a chunk is no longer than the limit.  (The string that is
\* embedded is: CreateChunks puts the file, the entity, its docstring and its
\* calls before the passage, after the splitting.)
Bounded(chunks) ==
    \A c \in chunks : c.place[2] - c.place[1] <= IF MaxRunes > ChunkSize THEN MaxRunes ELSE ChunkSize

\* A passage as short as the overlap, and the rune after it, is not cut in two:
\* some chunk has it whole when a gap, an entity or the text has.
PassagesWhole(wholes, chunks, overlap) ==
    \A w \in wholes : \A i \in w[1] .. w[2] - 1 :
        LET passage == <<i, partEnd(w, i, overlap + 1)>>
        IN  \E c \in chunks : Inside(passage, c.place)

LinesRight(text, chunks) == \A c \in chunks : c.startLine = countLines(text, c.place[1]) + 1

ChunksServe(text, supported, entities) ==
    LET chunks == CreateChunks(text, supported, entities)
        wholes == entities \cup gaps(text, entities)
    IN  /\ NothingLost(text, chunks)
        /\ Bounded(chunks)
        /\ LinesRight(text, chunks)
        /\ IF supported /\ wholes # {}
           THEN PassagesWhole(wholes, chunks, Overlap)
           ELSE PassagesWhole(IF text = <<>> THEN {} ELSE {<<0, Len(text)>>}, chunks, FastOverlap)
=============================================================================

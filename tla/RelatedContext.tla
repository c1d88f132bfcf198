--------------------------- MODULE RelatedContext ---------------------------
(***************************************************************************)
(* get_related_context (internal/mcp/handlers_analysis.go): the chunks of  *)
(* a file, of the files it imports and of those that use its symbols, in   *)
(* one answer of at most so many tokens.  Its maps are iterated in any     *)
(* order, so which chunks still fit depends on the run.                    *)
(***************************************************************************)
EXTENDS Naturals, FiniteSets, FiniteSetsExt

CONSTANTS
    Chunks,            \* the records of the store
    Paths, Target,     \* their paths, and the one that is asked for
    Imports, Symbols,  \* what the chunks of the target may import and define
    Exact, Loose,      \* import -> the path it resolves to; the paths that contain it
    MaxContextTokens, MaxUsages

ASSUME RelatedContextAssumption ==
    /\ IsFiniteSet(Chunks) /\ Target \in Paths
    /\ Exact \in [Imports -> Paths] /\ Loose \in [Imports -> SUBSET Paths]
    /\ MaxContextTokens \in Nat /\ MaxUsages \in Nat

VARIABLES
    index,      \* chunk -> its path and its tokens
    reply       \* the answer as it is written

contextVars == <<index, reply>>

\* ClampInt(max_tokens, 1, MaxContextTokens), and the whole for none.
Asked(tokens) ==
    IF tokens = 0 \/ tokens > MaxContextTokens THEN MaxContextTokens ELSE tokens

asking(tokens, imports, symbols) ==
    [phase |-> "start", max |-> Asked(tokens), imports |-> imports, symbols |-> symbols,
     todo |-> {}, tokens |-> 0, times |-> [c \in Chunks |-> 0], seen |-> {}, omitted |-> {}]

ContextInit ==
    /\ index \in [Chunks -> [path : Paths, tokens : 1 .. MaxContextTokens]]
    /\ \E tokens \in 0 .. MaxContextTokens + 1, I \in SUBSET Imports, S \in SUBSET Symbols :
          reply = asking(tokens, I, S)

ContextIdle ==
    /\ index = [c \in Chunks |-> [path |-> Target, tokens |-> 1]]
    /\ reply = [asking(0, {}, {}) EXCEPT !.phase = "idle"]

ChunksOf(P) == {c \in Chunks : index[c].path \in P}

\* Without a record of the file there is no answer.
readFile ==
    /\ reply.phase = "start"
    /\ reply' = IF ChunksOf({Target}) = {} THEN [reply EXCEPT !.phase = "none"]
                ELSE [reply EXCEPT !.phase = "files", !.todo = ChunksOf({Target})]
    /\ UNCHANGED index

\* mutant: the chunk's own tokens are not counted in
hasRoom(c) == reply.tokens < reply.max

fits(c) == reply.tokens + index[c].tokens <= reply.max

written(c) == [reply EXCEPT !.todo = @ \ {c}, !.seen = @ \cup {c},
                            !.tokens = @ + index[c].tokens, !.times[c] = @ + 1]

\* A chunk of the file, or of one it imports.  (Chunks of other projects are
\* written too.)
writeChunk(c) ==
    /\ reply.phase = "files" /\ c \in reply.todo
    /\ reply' = IF fits(c) THEN written(c)
                ELSE [reply EXCEPT !.todo = @ \ {c}, !.seen = @ \cup {c},
                                   !.omitted = @ \cup {index[c].path}]
    /\ UNCHANGED index

\* The chunks at the path of an import, or else those whose path contains it.
nextImport(i) ==
    /\ reply.phase = "files" /\ reply.todo = {} /\ i \in reply.imports
    /\ LET exact == ChunksOf({Exact[i]})
       IN  reply' = [reply EXCEPT !.imports = @ \ {i},
                                  !.todo = IF exact # {} THEN exact ELSE ChunksOf(Loose[i])]
    /\ UNCHANGED index

importsDone ==
    /\ reply.phase = "files" /\ reply.todo = {} /\ reply.imports = {}
    /\ reply' = [reply EXCEPT !.phase = "usages"]
    /\ UNCHANGED index

\* LexicalSearch finds some chunks, or fails.
nextSymbol(s) ==
    /\ reply.phase = "usages" /\ reply.todo = {} /\ s \in reply.symbols
    /\ \E found \in SUBSET Chunks :
          /\ Cardinality(found) <= MaxUsages
          /\ reply' = [reply EXCEPT !.symbols = @ \ {s}, !.todo = found]
    /\ UNCHANGED index

writeSample(c) ==
    /\ reply.phase = "usages" /\ c \in reply.todo
    /\ reply' = IF index[c].path # Target /\ fits(c) THEN written(c)
                ELSE [reply EXCEPT !.todo = @ \ {c}]
    /\ UNCHANGED index

ContextNext ==
    \/ readFile
    \/ \E c \in Chunks : writeChunk(c)
    \/ \E i \in Imports : nextImport(i)
    \/ importsDone
    \/ \E s \in Symbols : nextSymbol(s)
    \/ \E c \in Chunks : writeSample(c)

ContextSpec == ContextInit /\ [][ContextNext]_contextVars

TokensWritten == LET tokens(c) == reply.times[c] * index[c].tokens
                 IN  MapThenSumSet(tokens, Chunks)

\* In whatever order the chunks come, and however often one comes again, the
\* answer stays within the tokens asked for; no chunk of the file or of its
\* imports is left out of it without its file being named; and a file is named
\* only for a chunk that does not fit into what room there is at the end.
ContextKept ==
    /\ TokensWritten <= reply.max
    /\ \A c \in reply.seen : reply.times[c] > 0 \/ index[c].path \in reply.omitted
    /\ \A p \in reply.omitted :
          \E c \in ChunksOf({p}) : reply.tokens + index[c].tokens > reply.max

-----------------------------------------------------------------------------
(* What ContextKept rests on. *)

ContextTypeOK ==
    /\ index \in [Chunks -> [path : Paths, tokens : 1 .. MaxContextTokens]]
    /\ reply \in [phase : {"start", "none", "files", "usages"}, max : 0 .. MaxContextTokens,
                  imports : SUBSET Imports, symbols : SUBSET Symbols, todo : SUBSET Chunks,
                  tokens : Nat, times : [Chunks -> Nat], seen : SUBSET Chunks,
                  omitted : SUBSET Paths]

\* The tokens are counted as they are written, and never given back.
ContextInv ==
    /\ TokensWritten = reply.tokens /\ reply.tokens <= reply.max
    /\ ContextKept
=============================================================================

-------------------------- MODULE IndexProperties --------------------------
(***************************************************************************)
(* What the indexing pipeline is for: the type invariant, the safety       *)
(* invariants, the action properties and the liveness properties of        *)
(* IndexPipeline.                                                          *)
(***************************************************************************)
EXTENDS IndexPipeline

\* The variables stay within their types, and no two records of the
\* collection share an identifier (chromem keys documents by ID).
TypeOK ==
    /\ disk \in [Files -> Hashes]
    /\ last \in [Files -> Hashes]
    /\ db \subseteq Doc
    /\ \A d, e \in db : SameId(d, e) => d = e
    /\ status \in Statuses
    /\ run \in [Indexers -> Run]
    /\ watch \in Watch
    /\ pending \in [Files -> {"none", "index", "delete", "chmod"}]
    /\ processing \in [Files -> {"none", "index", "delete"}]

-----------------------------------------------------------------------------

\* scanner.go reads a file's hash when it lists the file and its content much
\* later, and stamps the records with the early hash.  A chunk stamped with the
\* hash the file has now still holds the text the file has now, so comparing
\* hashes never takes old text for fresh: whoever indexes, at whatever speed,
\* through crashes and refused store calls (unless old content comes back).
StampedFresh ==
    \A d \in Chunks : disk[d.path] # 0 /\ d.hash = disk[d.path] => d.src = disk[d.path]

\* deleteByFilter before Insert: the chunks of a path in the store are never
\* of two versions of the file, not even while a run is replacing them, after
\* it panicked or when the process died in the middle.
GhostFree == \A d, e \in Chunks : d.path = e.path => d.src = e.src

\* Records of f are still on their way into the store.
InFlight(f) ==
    \/ \E r \in Indexers : \E d \in run[r].batch : d.path = f
    \/ watch.pc = "insert" /\ watch.path = f

\* What runStatus counts as "Fully Indexed", and the next run skips.
FullyIndexed(f) == disk[f] # 0 /\ MetaHash(f) = disk[f]

\* A file that index_status reports as fully indexed, and that every later run
\* will skip, has all the chunks of its content and no others.
FullyIndexedIsComplete ==
    \A f \in Files : FullyIndexed(f) /\ ~InFlight(f) => DocsOf(f) = Complete(f, disk[f])

\* Stale records are found through their file_meta (cleanupStaleFiles walks the
\* hash mapping), so a path with chunks has one, unless it is on its way.
NoOrphanChunks ==
    \A d \in Chunks : MetaHash(d.path) # NoMeta \/ InFlight(d.path)

\* The vector of a chunk was computed from the text of that chunk.  It is not
\* where EmbedBatch fails and then one Embed call does: prepareRecords pairs
\* chunks and vectors by position.
EmbeddingsAligned == \A d \in Chunks : d.emb = d.idx

\* When no run is active the project's status is not an in-progress one.
SettledStatus ==
    (\A r \in Indexers : run[r].pc = "idle")
        => status \notin {"initializing", "scanning", "indexing"}

-----------------------------------------------------------------------------

\* A run that reports "Completed" leaves every file it listed, and that has not
\* changed since it was hashed, completely indexed, and no record of a file
\* that was gone when it listed and still is.
CompletedMeansIndexed ==
    [][\A r \in Indexers : complete(r) =>
        \A f \in Files :
            IF f \in run[r].listed
            THEN disk[f] # 0 /\ run[r].hashes[f] = disk[f]
                    => DocsOf(f) = Complete(f, disk[f])
            ELSE disk[f] = 0 => DocsOf(f) = {}]_vars

-----------------------------------------------------------------------------

InSync(f) == DocsOf(f) = IF disk[f] = 0 THEN {} ELSE Complete(f, disk[f])

\* Once the files stop changing, the index becomes what a fresh index of them
\* would be, and stays so: edits that overtook a run are picked up by a later one.
Converges == <>[](\A f \in Files : InSync(f))
=============================================================================

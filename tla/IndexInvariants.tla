-------------------------- MODULE IndexInvariants --------------------------
(***************************************************************************)
(* Inductive strengthenings of the safety properties of IndexPipeline, the *)
(* invariants the proofs of IndexPipelineProofs carry from step to step.   *)
(***************************************************************************)
EXTENDS IndexProperties

\* A chunk's stamp is no newer than its text, its text no newer than the file.
Stamped(d) == d.idx = Meta \/ (d.hash <= d.src /\ d.src <= last[d.path])

\* StampedFresh, strengthened to hashes and records still on their way.
FreshRun(x) ==
    /\ \A f \in Files : x.hashes[f] <= last[f]
    /\ \A d \in x.batch : Stamped(d)
    /\ \A res \in x.results : \A d \in res.docs : Stamped(d)

FreshInv ==
    /\ \A f \in Files : disk[f] \in {0, last[f]}
    /\ \A r \in Indexers : FreshRun(run[r])
    /\ watch.hash <= last[watch.path]
    /\ \A d \in db \cup watch.docs : Stamped(d)

-----------------------------------------------------------------------------
(* One indexer, no watcher. *)

OnlyWriter(w) == Indexers = {w} /\ "watch" \notin Env

WatcherIdle ==
    /\ watch = idleWatch
    /\ \A f \in Files : pending[f] = "none" /\ processing[f] = "none"

BatchOf(x, f) == {d \in x.batch : d.path = f}

\* A path passes through todo, tasks, results and batch one after the other,
\* so a run handles it once.
OncePerPath(x) ==
    /\ x.pc \in {"idle", "scan", "map"} => x.tasks = {}
    /\ x.pc = "discover" => x.tasks \cap x.todo = {}
    /\ x.pc \notin {"collect", "insert"} => x.results = {} /\ x.batch = {}
    /\ \A res \in x.results :
        /\ res.path \notin x.tasks
        /\ \A d \in res.docs : res.indexed /\ d.path = res.path
        /\ \A other \in x.results : other.path = res.path => other = res
        /\ BatchOf(x, res.path) = {}
    /\ \A f \in x.tasks : BatchOf(x, f) = {}

OneSource(docs) == \A d, e \in docs : d.idx # Meta /\ e.idx # Meta => d.src = e.src

\* GhostFree, strengthened to the records in results and batch.
GhostInv(w) ==
    /\ \A res \in run[w].results : OneSource(res.docs)
    /\ \A f \in Files : OneSource(DocsOf(f) \cup BatchOf(run[w], f))

\* Where there are chunks there is a file_meta record.
Headed(docs) == (\E d \in docs : d.idx # Meta) => \E d \in docs : d.idx = Meta

\* NoOrphanChunks, strengthened: while the run inserts, the file_meta record may
\* still be in the batch; a run that dies at any other time takes with it nothing
\* that the chunks in the store need.
HeadedInv(w) ==
    /\ \A res \in run[w].results : Headed(res.docs)
    /\ \A f \in Files :
        /\ Headed(DocsOf(f) \cup BatchOf(run[w], f))
        /\ run[w].pc # "insert" => Headed(DocsOf(f))

\* All the records of one version of f, perhaps under an older hash.
Whole(f, docs) ==
    \E v \in Versions, h \in Hashes :
        /\ h <= v /\ v <= last[f]
        /\ docs = prepareRecords(f, v, h, TextsOf(v))

\* FullyIndexedIsComplete, strengthened: what is stored of a file and what is
\* in the batch make up a whole set of records, or there is nothing.
WholeInv(w) ==
    /\ \A res \in run[w].results : res.indexed => Whole(res.path, res.docs)
    /\ \A f \in Files :
        LET docs == DocsOf(f) \cup BatchOf(run[w], f) IN docs = {} \/ Whole(f, docs)
    /\ \A f \in Files : run[w].pc # "insert" /\ BatchOf(run[w], f) # {} => DocsOf(f) = {}

\* f is gone, or is not what the run hashed any more.
Moved(x, f) == disk[f] = 0 \/ disk[f] # x.hashes[f]

\* What a run has done or will do about a file it listed and hashed.
Handled(x, f) ==
    \/ Moved(x, f)
    \/ f \in x.tasks
    \/ \E res \in x.results : res.path = f
    \/ createFileMetaRecord(f, x.hashes[f]) \in DocsOf(f) \cup BatchOf(x, f)

Working == {"discover", "clean", "collect", "insert"}

\* CompletedMeansIndexed, strengthened to a run that is going on: what it still
\* owes the files it listed, and what is left of those it did not list.
DueInv(w) ==
    LET x == run[w] IN
    /\ x.pc = "discover" => x.mapping = GetPathHashMapping /\ x.todo \subseteq x.listed
    /\ x.pc = "clean" => x.todo \cap x.listed = {}
    /\ x.pc \in Working =>
        /\ x.tasks \subseteq x.listed
        /\ \A res \in x.results :
            /\ res.path \in x.listed
            /\ IF res.indexed
               THEN createFileMetaRecord(res.path, x.hashes[res.path]) \in res.docs
               ELSE Moved(x, res.path)
        /\ \A f \in x.listed : Handled(x, f) \/ (x.pc = "discover" /\ f \in x.todo)
        /\ \A f \in Files \ x.listed :
            /\ BatchOf(x, f) = {}
            /\ DocsOf(f) = {} \/ x.pc = "discover" \/ (x.pc = "clean" /\ f \in x.todo)
=============================================================================

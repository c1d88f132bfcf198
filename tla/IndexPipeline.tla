--------------------------- MODULE IndexPipeline ---------------------------
(***************************************************************************)
(* The indexing pipeline of one project: the files on disk, the records of *)
(* the vector store that stand for them, the full-index runs               *)
(* (internal/indexer/scanner.go IndexFullCodebase, started by the index    *)
(* worker, by -index or by live indexing), the file watcher's single-file  *)
(* index (IndexSingleFile) and prefix delete, the delete_context tool, and *)
(* a crash of the process, whose memory is lost and whose collection is    *)
(* on disk.                                                                *)
(*                                                                         *)
(* A file's content is a version number; its SHA-256 hash is that number,  *)
(* 0 the hash string "" GetHash returns with an error.  One store call is  *)
(* one step, except AddDocuments, which adds the records one by one.       *)
(***************************************************************************)
EXTENDS Integers, FiniteSets

CONSTANTS
    Files,        \* the project's paths that the scanner admits
    Watched,      \* those whose extension the watcher indexes
    Indexers,     \* the goroutines that may run IndexFullCodebase
    Workers,      \* those that are the index worker; the others are -index
                  \* and live indexing, which leave the status alone
    MaxVersion,   \* BOUND: number of versions a file may go through
    ChunkCount,   \* chunks CreateChunks cuts a version into
    BatchLimit,   \* records at which collectResults flushes (50 in the code)
    Env           \* what the surroundings may do, a subset of EnvKinds

\* "watch"  the file watcher runs          "clear"  delete_context is called
\* "crash"  the process dies               "revert" old content comes back
\* "query"  a store query is refused       "insert" AddDocuments gives up
\* "embed"  EmbedBatch fails               "panic"  ProcessFile panics
\* "scan"   the root cannot be walked
\* "unseen" a change is made where the watcher does not look (yet)
EnvKinds == {"watch", "clear", "crash", "revert", "query",
             "insert", "embed", "panic", "scan", "unseen"}

Versions == 1..MaxVersion
Hashes == 0..MaxVersion
NoMeta == -1
Meta == -1          \* the idx of a file_meta record

ASSUME FilesAssumption == Files # {}
ASSUME SubsetAssumption == Watched \subseteq Files /\ Workers \subseteq Indexers
ASSUME MaxVersionAssumption == MaxVersion \in Nat \ {0}
ASSUME ChunkCountAssumption == ChunkCount \in [Versions -> Nat]
ASSUME BatchLimitAssumption == BatchLimit \in Nat \ {0}
ASSUME EnvAssumption == Env \subseteq EnvKinds

VARIABLES
    disk,      \* file -> its content's version, 0 when it does not exist
    last,      \* file -> the newest version it ever had
    db,        \* the records of the collection, one per identifier
    status,    \* the project_status record's content
    run,       \* indexer -> the local state of its IndexFullCodebase call
    watch,     \* the watcher's IndexSingleFile call
    pending,   \* file -> the operation runDebounce remembers for it
    processing \* file -> the operation processPending still has to carry out

vars == <<disk, last, db, status, run, watch, pending, processing>>

-----------------------------------------------------------------------------
(* Records.  A chunk is identified by path and position, a file_meta by its *)
(* path; src is the version whose text it holds, emb the position of the   *)
(* text its vector was computed from.                                      *)

Doc == [path : Files, idx : {Meta} \cup Nat, src : Hashes,
        emb : {Meta} \cup Nat, hash : Hashes]

SameId(d, e) == d.path = e.path /\ d.idx = e.idx
DocsOf(f) == {d \in db : d.path = f}
Chunks == {d \in db : d.idx # Meta}

TextsOf(v) == 0..(ChunkCount[v] - 1)

createChunkRecord(f, v, h, i, k) ==
    [path |-> f, idx |-> i, src |-> v, emb |-> k, hash |-> h]

\* (Definitions headed "mutant" are faulty versions of the one after them: no
\* action uses them, and a run with one in the other's place must find its
\* property violated.)
\* mutant: the empty hash of a file that could not be read becomes a missing one
metaWithoutHash(f, h) ==
    [path |-> f, idx |-> Meta, src |-> 0, emb |-> Meta, hash |-> IF h = 0 THEN NoMeta ELSE h]

createFileMetaRecord(f, h) ==
    [path |-> f, idx |-> Meta, src |-> 0, emb |-> Meta, hash |-> h]

\* The records built when exactly the texts in `done` got a vector: the i-th
\* chunk takes the i-th vector there is.
prepareRecords(f, v, h, done) ==
    {createChunkRecord(f, v, h, Cardinality({j \in done : j < k}), k) : k \in done}
        \cup {createFileMetaRecord(f, h)}

\* EmbedBatch embeds all the texts; when it fails, embedSequentially embeds
\* those it can and drops the others.
embedSequentially(v) == IF "embed" \in Env THEN SUBSET TextsOf(v) ELSE {TextsOf(v)}

Complete(f, v) == prepareRecords(f, v, v, TextsOf(v))

\* The hash GetPathHashMapping gives for a path, NoMeta when it has none.
MetaHash(f) ==
    IF \E d \in DocsOf(f) : d.idx = Meta
    THEN (CHOOSE d \in DocsOf(f) : d.idx = Meta).hash
    ELSE NoMeta

GetPathHashMapping == [f \in Files |-> MetaHash(f)]

-----------------------------------------------------------------------------
(* Store calls, as the next value of db. *)

\* chromem: a document replaces the one with its ID.
AddDocument(d) == {e \in db : ~SameId(d, e)} \cup {d}

\* mutant: the filter of GetPathHashMapping, with its "type": "file_meta"
deleteFileMeta(f) == {d \in db : ~(d.path = f /\ d.idx = Meta)}

DeleteByPath(f) == db \ DocsOf(f)

\* deleteByFilter: its query is refused when the collection shrank since it
\* was counted, and then nothing is deleted.
DeleteOutcomes(f) ==
    {DeleteByPath(f)} \cup (IF "query" \in Env THEN {db} ELSE {})

-----------------------------------------------------------------------------
(* One IndexFullCodebase call. *)

Result == [path : Files, indexed : BOOLEAN, docs : SUBSET Doc]

Run == [pc      : {"idle", "scan", "map", "discover", "clean", "collect", "insert"},
        listed  : SUBSET Files,              \* what ScanFiles returned
        todo    : SUBSET Files,              \* not yet hashed, or stale
        mapping : [Files -> {NoMeta} \cup Hashes],
        hashes  : [Files -> Hashes],         \* GetHash at discovery
        tasks   : SUBSET Files,              \* in the tasks channel
        results : SUBSET Result,             \* in the results channel
        batch   : SUBSET Doc,
        partial : BOOLEAN]                   \* summary.Status "partially_completed"

NoMapping == [f \in Files |-> NoMeta]

idleRun == [pc |-> "idle", listed |-> {}, todo |-> {}, mapping |-> NoMapping,
            hashes |-> [f \in Files |-> 0], tasks |-> {}, results |-> {},
            batch |-> {}, partial |-> FALSE]

Watch == [pc : {"idle", "hashed", "loaded", "insert"}, path : Files,
          hash : Hashes, docs : SUBSET Doc]

idleWatch == [pc |-> "idle", path |-> CHOOSE f \in Files : TRUE, hash |-> 0, docs |-> {}]

nothingPending == [f \in Files |-> "none"]

Statuses == {"none", "initializing", "scanning", "indexing",
             "completed", "error", "panic"}

\* SetStatus deletes the status record and inserts another; its callers ignore
\* a delete that is refused (the old status stays) and an insert that fails.
StatusAfter(old, new) ==
    {new} \cup (IF "query" \in Env THEN {old} ELSE {})
          \cup (IF "insert" \in Env THEN {"none"} ELSE {})

SetStatus(new) == status' \in StatusAfter(status, new)

Init ==
    /\ disk \in [Files -> {0, 1}]
    /\ last = disk
    /\ db = {}
    /\ status = "none"
    /\ run = [r \in Indexers |-> idleRun]
    /\ watch = idleWatch
    /\ pending = nothingPending
    /\ processing = nothingPending

-----------------------------------------------------------------------------
(* The files. *)

\* runDebounce remembers one operation per name, the last, whichever it is: a
\* Chmod takes the place of a Write or a Remove that is not carried out yet.
notify(f, op) == [pending EXCEPT ![f] = op]

\* What a change is reported as.  Of files put in a new directory before Start
\* has added it to the tracker, or before it has walked it, there is no event.
Reported(f, op) ==
    (IF "watch" \in Env THEN {notify(f, op)} ELSE {pending})
        \cup (IF "unseen" \in Env THEN {pending} ELSE {})

\* A save: new content, or old content again when the surroundings allow it.
Edit(f) ==
    /\ \E v \in Versions :
        /\ v # disk[f]
        /\ \/ v = last[f] + 1
           \/ "revert" \in Env /\ v <= last[f]
        /\ disk' = [disk EXCEPT ![f] = v]
        /\ last' = [last EXCEPT ![f] = IF v > @ THEN v ELSE @]
    /\ pending' \in Reported(f, "index")
    /\ UNCHANGED <<db, status, run, watch, processing>>

Unlink(f) ==
    /\ disk[f] # 0
    /\ disk' = [disk EXCEPT ![f] = 0]
    /\ pending' \in Reported(f, "delete")
    /\ UNCHANGED <<last, db, status, run, watch, processing>>

\* The file's attributes change, as when an editor restores them after a save.
Chmod(f) ==
    /\ "watch" \in Env
    /\ disk[f] # 0
    /\ pending' = notify(f, "chmod")
    /\ UNCHANGED <<disk, last, db, status, run, watch, processing>>

-----------------------------------------------------------------------------
(* worker.processPath and IndexFullCodebase. *)

\* The local variables of r's call become x.
become(r, x) == run' = [run EXCEPT ![r] = x]

\* mutant: one results channel for all runs, not one per call
keepResults(r) == [idleRun EXCEPT !.results = run[r].results]

\* What is left of a call that is over: nothing, its variables are local.
returned(r) == idleRun

\* processPath got the store and wrote StatusInitializing; the other callers
\* start IndexFullCodebase at once.
processPath(r) ==
    /\ run[r].pc = "idle"
    /\ become(r, [run[r] EXCEPT !.pc = "scan"])
    /\ IF r \in Workers THEN SetStatus("initializing") ELSE UNCHANGED status
    /\ UNCHANGED <<disk, last, db, watch, pending, processing>>

\* The deferred recover of processPath: the run is gone, its batch with it.
recoverPanic(r) ==
    /\ "panic" \in Env
    /\ r \in Workers
    /\ run[r].pc \notin {"idle", "insert"}
    /\ become(r, returned(r))
    /\ SetStatus("panic")
    /\ UNCHANGED <<disk, last, db, watch, pending, processing>>

ScanFiles(r) ==
    /\ run[r].pc = "scan"
    /\ \/ /\ become(r, [run[r] EXCEPT !.pc = "map",
                                      !.listed = {f \in Files : disk[f] # 0}])
          /\ SetStatus("scanning")
       \/ /\ "scan" \in Env
          /\ become(r, returned(r))
          /\ IF r \in Workers
             THEN \E s \in StatusAfter(status, "scanning") : status' \in StatusAfter(s, "error")
             ELSE SetStatus("scanning")
    /\ UNCHANGED <<disk, last, db, watch, pending, processing>>

\* A refused query leaves the mapping nil: every file looks new, none stale.
ReadMapping(r) ==
    /\ run[r].pc = "map"
    /\ \E m \in {GetPathHashMapping} \cup (IF "query" \in Env THEN {NoMapping} ELSE {}) :
        become(r, [run[r] EXCEPT !.pc = "discover", !.mapping = m,
                                 !.todo = run[r].listed])
    /\ UNCHANGED <<disk, last, db, status, watch, pending, processing>>

\* mutant: files unlisted since the last run are not looked for
noneStale(r) == {}

Stale(r) == {f \in Files : run[r].mapping[f] # NoMeta /\ f \notin run[r].listed}

discoverFilesToIndex(r) ==
    /\ run[r].pc = "discover"
    /\ \/ \E f \in run[r].todo :
            become(r, [run[r] EXCEPT !.todo = @ \ {f},
                                     !.hashes[f] = disk[f],
                                     !.tasks = IF run[r].mapping[f] = disk[f]
                                                 THEN @ ELSE @ \cup {f}])
       \/ /\ run[r].todo = {}
          /\ become(r, [run[r] EXCEPT !.pc = "clean", !.todo = Stale(r)])
    /\ UNCHANGED <<disk, last, db, status, watch, pending, processing>>

cleanupStaleFiles(r) ==
    /\ run[r].pc = "clean"
    /\ \E f \in run[r].todo :
        \E after \in DeleteOutcomes(f) :
            /\ db' = after
            /\ become(r, [run[r] EXCEPT !.todo = @ \ {f},
                                        !.partial = @ \/ after # DeleteByPath(f)])
    /\ UNCHANGED <<disk, last, status, watch, pending, processing>>

\* With nothing to index the run is over, "Completed: ... (up to date)".
startProcessing(r) ==
    /\ run[r].pc = "clean"
    /\ run[r].todo = {}
    /\ become(r, [run[r] EXCEPT !.pc = "collect"])
    /\ IF run[r].tasks = {} THEN SetStatus("completed") ELSE UNCHANGED status
    /\ UNCHANGED <<disk, last, db, watch, pending, processing>>

\* mutant: the text that was hashed is indexed under the hash the file has now
staleContent(f, h) ==
    IF disk[f] = 0 \/ h = 0 THEN {[path |-> f, indexed |-> FALSE, docs |-> {}]}
    ELSE {[path |-> f, indexed |-> TRUE, docs |-> prepareRecords(f, h, disk[f], TextsOf(h))]}

\* The result of reading and embedding f with hash h: an error when it is
\* gone, the empty result when the recover of ProcessFile swallowed a panic.
ProcessFile(f, h) ==
    IF disk[f] = 0 THEN {[path |-> f, indexed |-> FALSE, docs |-> {}]}
    ELSE {[path |-> f, indexed |-> TRUE, docs |-> prepareRecords(f, disk[f], h, done)] :
                done \in embedSequentially(disk[f])}
         \cup (IF "panic" \in Env THEN {[path |-> f, indexed |-> FALSE, docs |-> {}]} ELSE {})

\* A goroutine of processIndexing takes a task and posts its result.
processTask(r) ==
    /\ run[r].pc \in {"collect", "insert"}
    /\ \E f \in run[r].tasks :
        \E res \in ProcessFile(f, run[r].hashes[f]) :
            become(r, [run[r] EXCEPT !.tasks = @ \ {f}, !.results = @ \cup {res}])
    /\ UNCHANGED <<disk, last, db, status, watch, pending, processing>>

\* collectResults takes a result: the old records go now, the new ones wait
\* in the batch until it is long enough.  (The progress is written after the
\* flush, which nothing here can tell.)
collectResult(r) ==
    /\ run[r].pc = "collect"
    /\ \E res \in run[r].results :
        LET batch == run[r].batch \cup res.docs IN
        /\ \E after \in IF res.indexed THEN DeleteOutcomes(res.path) ELSE {db} : db' = after
        /\ become(r, [run[r] EXCEPT !.results = @ \ {res}, !.batch = batch,
                                    !.pc = IF Cardinality(batch) >= BatchLimit
                                                THEN "insert" ELSE "collect"])
        /\ SetStatus("indexing")
    /\ UNCHANGED <<disk, last, watch, pending, processing>>

\* mutant: the size test of the loop, repeated after it
fullBatchLeft(r) == Cardinality(run[r].batch) >= BatchLimit

\* The results channel is closed and drained, and records are left over.
batchLeft(r) == run[r].batch # {}

drained(r) == run[r].tasks = {} /\ run[r].results = {}

finalFlush(r) ==
    /\ run[r].pc = "collect"
    /\ drained(r) /\ batchLeft(r)
    /\ become(r, [run[r] EXCEPT !.pc = "insert"])
    /\ UNCHANGED <<disk, last, db, status, watch, pending, processing>>

\* AddDocuments stores the batch record by record, in any order; an error
\* cancels the records not stored yet and the caller ignores it.
Insert(r) ==
    /\ run[r].pc = "insert"
    /\ \/ \E d \in run[r].batch :
            /\ db' = AddDocument(d)
            /\ become(r, [run[r] EXCEPT !.batch = @ \ {d},
                                        !.pc = IF run[r].batch = {d} THEN "collect" ELSE "insert"])
       \/ /\ "insert" \in Env
          /\ become(r, [run[r] EXCEPT !.batch = {}, !.pc = "collect"])
          /\ db' = db
    /\ UNCHANGED <<disk, last, status, watch, pending, processing>>

\* mutant: only processIndexing's own status writes
lastProgress(r) == UNCHANGED status

finalStatus(r) == IF r \in Workers THEN SetStatus("completed") ELSE UNCHANGED status

\* IndexFullCodebase returns and processPath writes StatusCompleted, whatever
\* summary.Status and summary.Errors say.
complete(r) ==
    /\ run[r].pc = "collect"
    /\ drained(r) /\ ~batchLeft(r)
    /\ become(r, returned(r))
    /\ finalStatus(r)
    /\ UNCHANGED <<disk, last, db, watch, pending, processing>>

-----------------------------------------------------------------------------
(* The watcher. *)

\* The debounce timer fires: processPending gets the map, in which it passes over
\* a name whose operation is Chmod, and runDebounce starts a new one.  What
\* happens from now on is queued for the next call.
processPending ==
    /\ watch.pc = "idle"
    /\ processing = nothingPending /\ pending # nothingPending
    /\ processing' = [f \in Files |-> IF pending[f] = "chmod" THEN "none" ELSE pending[f]]
    /\ pending' = nothingPending
    /\ UNCHANGED <<disk, last, db, status, run, watch>>

\* mutant: processPending runs beside runDebounce on the same map, and takes a
\* name out of it when it is done with it, with what came for it meanwhile
indexesAndForgets(f) ==
    /\ watch.pc = "idle"
    /\ processing[f] = "index"
    /\ processing' = [processing EXCEPT ![f] = "none"]
    /\ pending' = [pending EXCEPT ![f] = "none"]
    /\ watch' = IF disk[f] = 0 \/ f \notin Watched THEN watch
                ELSE [idleWatch EXCEPT !.pc = "hashed", !.path = f, !.hash = disk[f]]
    /\ UNCHANGED <<disk, last, db, status, run>>

\* IndexSingleFile hashes the file; a file that is gone ends the call, one
\* with another extension is passed over.
IndexSingleFile(f) ==
    /\ watch.pc = "idle"
    /\ processing[f] = "index"
    /\ processing' = [processing EXCEPT ![f] = "none"]
    /\ watch' = IF disk[f] = 0 \/ f \notin Watched THEN watch
                ELSE [idleWatch EXCEPT !.pc = "hashed", !.path = f, !.hash = disk[f]]
    /\ UNCHANGED <<disk, last, db, status, run, pending>>

\* The watcher passes no logger, so a failed EmbedBatch panics in
\* prepareRecords: there is no sequential fallback on this path.
watchProcessFile ==
    /\ watch.pc = "hashed"
    /\ LET f == watch.path IN
        \/ /\ disk[f] # 0
           /\ watch' = [watch EXCEPT !.pc = "loaded",
                            !.docs = prepareRecords(f, disk[f], watch.hash, TextsOf(disk[f]))]
        \/ /\ disk[f] = 0 \/ {"panic", "embed"} \cap Env # {}
           /\ watch' = idleWatch
    /\ UNCHANGED <<disk, last, db, status, run, pending, processing>>

watchDelete ==
    /\ watch.pc = "loaded"
    /\ \E after \in DeleteOutcomes(watch.path) : db' = after
    /\ watch' = [watch EXCEPT !.pc = "insert"]
    /\ UNCHANGED <<disk, last, status, run, pending, processing>>

watchInsert ==
    /\ watch.pc = "insert"
    /\ \/ \E d \in watch.docs :
            /\ db' = AddDocument(d)
            /\ watch' = IF watch.docs = {d} THEN idleWatch
                        ELSE [watch EXCEPT !.docs = @ \ {d}]
       \/ /\ "insert" \in Env
          /\ watch' = idleWatch
          /\ db' = db
    /\ UNCHANGED <<disk, last, status, run, pending, processing>>

\* A Remove or Rename event: the records go whatever the disk says now.
DeleteByPrefix(f) ==
    /\ watch.pc = "idle"
    /\ processing[f] = "delete"
    /\ processing' = [processing EXCEPT ![f] = "none"]
    /\ \E after \in DeleteOutcomes(f) : db' = after
    /\ UNCHANGED <<disk, last, status, run, watch, pending>>

-----------------------------------------------------------------------------
(* The delete_context tool: ALL the project's records, the status record with *)
(* them, or those of one path.                                             *)

handleDeleteContext ==
    /\ "clear" \in Env
    /\ \/ db' = {} /\ status' = "none"
       \/ \E f \in Files : db' = DeleteByPath(f) /\ UNCHANGED status
    /\ UNCHANGED <<disk, last, run, watch, pending, processing>>

\* The paths of which a store call may be deleting the records right now.
Deleting ==
    UNION {{res.path : res \in {x \in run[r].results : x.indexed}} :
                r \in {x \in Indexers : run[x].pc = "collect"}}
    \cup UNION {run[r].todo : r \in {x \in Indexers : run[x].pc = "clean"}}
    \cup (IF watch.pc = "loaded" THEN {watch.path} ELSE {})

\* The process dies and is started again.  Records are files: those stored
\* are still there, a Delete cut short has removed some of its own, and a
\* SetStatus cut short leaves no status.
Crash ==
    /\ "crash" \in Env
    /\ \/ db' = db
       \/ \E f \in Deleting : \E gone \in SUBSET DocsOf(f) : db' = db \ gone
    /\ run' = [r \in Indexers |-> idleRun]
    /\ watch' = idleWatch
    /\ pending' = nothingPending
    /\ processing' = nothingPending
    /\ status' \in {status, "none"}
    /\ UNCHANGED <<disk, last>>

-----------------------------------------------------------------------------

Indexing(r) ==
    \/ processPath(r) \/ recoverPanic(r) \/ ScanFiles(r) \/ ReadMapping(r)
    \/ discoverFilesToIndex(r) \/ cleanupStaleFiles(r) \/ startProcessing(r)
    \/ processTask(r) \/ collectResult(r) \/ finalFlush(r) \/ Insert(r) \/ complete(r)

Watching ==
    \/ \E f \in Files : IndexSingleFile(f) \/ DeleteByPrefix(f)
    \/ processPending \/ watchProcessFile \/ watchDelete \/ watchInsert

Environment ==
    \/ \E f \in Files : Edit(f) \/ Unlink(f) \/ Chmod(f)
    \/ handleDeleteContext
    \/ Crash

Next ==
    \/ \E r \in Indexers : Indexing(r)
    \/ Watching
    \/ Environment

Spec == Init /\ [][Next]_vars

\* The worker and the watcher are goroutines that Go schedules; index runs
\* are asked for again and again (trigger_project_index).
Fairness ==
    /\ \A r \in Indexers : WF_vars(Indexing(r))
    /\ WF_vars(Watching)

FairSpec == Spec /\ Fairness
=============================================================================

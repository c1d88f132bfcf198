------------------------- MODULE IndexWriterProofs -------------------------
(***************************************************************************)
(* Proofs about IndexPipeline when one indexer is the only writer of the   *)
(* project: no watcher, no second full-index run.  The last section shows  *)
(* that it then implements FileIndex.                                      *)
(***************************************************************************)
EXTENDS IndexPipelineProofs, IndexRefinement

\* The watcher has nothing to do.
LEMMA WatcherStaysIdle ==
    ASSUME "watch" \notin Env, TypeOK, WatcherIdle, [Next]_vars
    PROVE  /\ WatcherIdle'
           /\ ~Watching
<1>1. idleWatch.pc = "idle"
  BY DEF idleWatch
<1>2. ~Watching
  <2>1. ~processPending
    BY DEF TypeOK, WatcherIdle, processPending, nothingPending
  <2> QED
    BY <1>1, <2>1 DEF Watching, WatcherIdle, IndexSingleFile, DeleteByPrefix,
                      watchProcessFile, watchDelete, watchInsert
<1>3. ASSUME NEW r \in Indexers, Indexing(r)
      PROVE  UNCHANGED <<watch, pending, processing>>
  BY <1>3 DEF Indexing, processPath, recoverPanic, ScanFiles, ReadMapping,
              discoverFilesToIndex, cleanupStaleFiles, startProcessing, processTask,
              collectResult, finalFlush, Insert, complete
<1>4. ASSUME Environment
      PROVE  WatcherIdle'
  BY <1>4 DEF Environment, Edit, Unlink, Chmod, handleDeleteContext, Crash, WatcherIdle,
              notify, Reported, nothingPending
<1> QED
  BY <1>2, <1>3, <1>4 DEF Next, WatcherIdle, vars

\* A run passes each path through its channels once.
LEMMA OnceStep ==
    ASSUME NEW w, OnlyWriter(w), TypeOK, WatcherIdle, OncePerPath(run[w]), [Next]_vars
    PROVE  OncePerPath(run'[w])
<1> DEFINE old == run[w]
<1>a. w \in Indexers /\ old \in Run /\ OncePerPath(old)
  BY DEF OnlyWriter, TypeOK
<1>b. OncePerPath(idleRun)
  BY DEF OncePerPath, idleRun, BatchOf
<1>c. ASSUME NEW x \in Run, become(w, x), OncePerPath(x)
      PROVE  OncePerPath(run'[w])
  BY <1>a, <1>c, RunStep
<1>1. ASSUME processPath(w)
      PROVE  OncePerPath(run'[w])
  <2> DEFINE x == [old EXCEPT !.pc = "scan"]
  <2>1. x \in Run /\ OncePerPath(x)
    BY <1>a, <1>1 DEF Run, OncePerPath, BatchOf, processPath
  <2> QED
    BY <1>1, <1>c, <2>1 DEF processPath
<1>2. ASSUME recoverPanic(w) \/ complete(w)
      PROVE  OncePerPath(run'[w])
  BY <1>2, <1>b, <1>c, IdleType DEF recoverPanic, complete, returned
<1>3. ASSUME ScanFiles(w)
      PROVE  OncePerPath(run'[w])
  <2> DEFINE x == [old EXCEPT !.pc = "map", !.listed = {f \in Files : disk[f] # 0}]
  <2>1. x \in Run /\ OncePerPath(x)
    BY <1>a, <1>3 DEF Run, OncePerPath, BatchOf, ScanFiles
  <2> QED
    BY <1>3, <1>b, <1>c, <2>1, IdleType DEF ScanFiles, returned
<1>4. ASSUME ReadMapping(w)
      PROVE  OncePerPath(run'[w])
  <2>1. PICK m \in {GetPathHashMapping, NoMapping} :
            become(w, [old EXCEPT !.pc = "discover", !.mapping = m, !.todo = old.listed])
    BY <1>4 DEF ReadMapping
  <2>2. m \in [Files -> {NoMeta} \cup Hashes]
    BY MappingType DEF NoMapping, TypeOK
  <2> DEFINE x == [old EXCEPT !.pc = "discover", !.mapping = m, !.todo = old.listed]
  <2>3. x \in Run
    BY <1>a, <2>2 DEF Run
  <2>4. OncePerPath(x)
    BY <1>a, <1>4 DEF Run, OncePerPath, BatchOf, ReadMapping
  <2> QED
    BY <1>c, <2>1, <2>3, <2>4
<1>5. ASSUME discoverFilesToIndex(w)
      PROVE  OncePerPath(run'[w])
  <2>1. ASSUME NEW f \in old.todo, NEW tasks \in {old.tasks, old.tasks \cup {f}},
               become(w, [old EXCEPT !.todo = @ \ {f}, !.hashes[f] = disk[f], !.tasks = tasks])
        PROVE  OncePerPath(run'[w])
    <3> DEFINE x == [old EXCEPT !.todo = @ \ {f}, !.hashes[f] = disk[f], !.tasks = tasks]
    <3>1. x \in Run
      <4>1. f \in Files /\ disk[f] \in Hashes /\ tasks \in SUBSET Files
        BY <1>a, RunFields DEF TypeOK
      <4> QED
        BY <1>a, <4>1, DiscoveredType
    <3>2. x.pc = "discover" /\ x.results = {} /\ x.batch = {} /\ x.tasks \cap x.todo = {}
      BY <1>a, <1>5 DEF Run, OncePerPath, discoverFilesToIndex
    <3>3. OncePerPath(x)
      BY <3>2 DEF OncePerPath, BatchOf
    <3> QED
      BY <1>c, <2>1, <3>1, <3>3
  <2>2. CASE become(w, [old EXCEPT !.pc = "clean", !.todo = Stale(w)])
    <3> DEFINE x == [old EXCEPT !.pc = "clean", !.todo = Stale(w)]
    <3>1. x \in Run
      BY <1>a DEF Run, Stale
    <3>2. x.pc = "clean" /\ x.results = {} /\ x.batch = {}
      BY <1>a, <1>5 DEF Run, OncePerPath, discoverFilesToIndex
    <3>3. OncePerPath(x)
      BY <3>2 DEF OncePerPath, BatchOf
    <3> QED
      BY <1>c, <2>2, <3>1, <3>3
  <2>3. \/ become(w, [old EXCEPT !.pc = "clean", !.todo = Stale(w)])
        \/ \E f \in old.todo, tasks \in SUBSET Files :
            /\ tasks \in {old.tasks, old.tasks \cup {f}}
            /\ become(w, [old EXCEPT !.todo = @ \ {f}, !.hashes[f] = disk[f], !.tasks = tasks])
    BY <1>5, <1>a, DiscoverCases
  <2> QED
    BY <2>1, <2>2, <2>3
<1>6. ASSUME cleanupStaleFiles(w)
      PROVE  OncePerPath(run'[w])
  <2>1. PICK f \in old.todo, partial \in BOOLEAN :
            become(w, [old EXCEPT !.todo = @ \ {f}, !.partial = partial])
    BY <1>6, <1>a DEF cleanupStaleFiles, Run
  <2> DEFINE x == [old EXCEPT !.todo = @ \ {f}, !.partial = partial]
  <2>2. x \in Run
    BY <1>a DEF Run
  <2>3. OncePerPath(x)
    BY <1>a, <1>6 DEF Run, OncePerPath, BatchOf, cleanupStaleFiles
  <2> QED
    BY <1>c, <2>1, <2>2, <2>3
<1>7. ASSUME startProcessing(w)
      PROVE  OncePerPath(run'[w])
  <2> DEFINE x == [old EXCEPT !.pc = "collect"]
  <2>1. x \in Run
    BY <1>a DEF Run
  <2>2. x.results = {} /\ x.batch = {} /\ x.pc = "collect"
    BY <1>a, <1>7 DEF Run, OncePerPath, startProcessing
  <2>3. OncePerPath(x)
    BY <2>2 DEF OncePerPath, BatchOf
  <2> QED
    BY <1>7, <1>c, <2>1, <2>3 DEF startProcessing
<1>8. ASSUME processTask(w)
      PROVE  OncePerPath(run'[w])
  <2>1. PICK f \in old.tasks : \E res \in ProcessFile(f, old.hashes[f]) :
            become(w, [old EXCEPT !.tasks = @ \ {f}, !.results = @ \cup {res}])
    BY <1>8 DEF processTask
  <2>2. PICK res \in ProcessFile(f, old.hashes[f]) :
            become(w, [old EXCEPT !.tasks = @ \ {f}, !.results = @ \cup {res}])
    BY <2>1
  <2>3. f \in Files /\ old.hashes[f] \in Hashes
    BY <1>a DEF Run
  <2>4. res \in Result /\ res.path = f
    BY <2>3, ProcessFileType
  <2>5. \A d \in res.docs : res.indexed /\ d.path = f
    BY <2>3, ProcessFileDocs
  <2> DEFINE x == [old EXCEPT !.tasks = @ \ {f}, !.results = @ \cup {res}]
  <2>6. x \in Run
    BY <1>a, <2>4 DEF Run
  <2>7. /\ x.pc \in {"collect", "insert"} /\ x.tasks = old.tasks \ {f}
        /\ x.results = old.results \cup {res} /\ x.batch = old.batch
    BY <1>a, <1>8 DEF Run, processTask
  <2>8. OncePerPath(x)
    <3> HIDE DEF x
    <3>1. \A g : BatchOf(x, g) = BatchOf(old, g)
      BY <2>7 DEF BatchOf
    <3>2. \A other \in old.results : other.path # f
      BY <1>a, <2>1 DEF OncePerPath
    <3> QED
      BY <1>a, <2>4, <2>5, <2>7, <3>1, <3>2 DEF OncePerPath
  <2> QED
    BY <1>c, <2>2, <2>6, <2>8
<1>9. ASSUME collectResult(w)
      PROVE  OncePerPath(run'[w])
  <2>1. PICK res \in old.results, new \in {"insert", "collect"} :
            become(w, [old EXCEPT !.results = @ \ {res},
                                  !.batch = old.batch \cup res.docs, !.pc = new])
    BY <1>9 DEF collectResult
  <2> DEFINE x == [old EXCEPT !.results = @ \ {res},
                              !.batch = old.batch \cup res.docs, !.pc = new]
  <2>2. x \in Run
    BY <1>a DEF Run, Result
  <2>3. /\ x.pc \in {"collect", "insert"} /\ x.tasks = old.tasks
        /\ x.results = old.results \ {res} /\ x.batch = old.batch \cup res.docs
    BY <1>a DEF Run
  <2>4. OncePerPath(x)
    <3> HIDE DEF x
    <3>1. \A g : g # res.path => BatchOf(x, g) = BatchOf(old, g)
      BY <1>a, <2>3 DEF BatchOf, OncePerPath
    <3>2. \A other \in x.results : other.path # res.path
      BY <1>a, <2>3 DEF OncePerPath
    <3> QED
      BY <1>a, <2>3, <3>1, <3>2 DEF OncePerPath
  <2> QED
    BY <1>c, <2>1, <2>2, <2>4
<1>10. ASSUME NEW batch \in SUBSET old.batch, NEW new \in {"collect", "insert"},
              old.pc \in {"collect", "insert"},
              become(w, [old EXCEPT !.batch = batch, !.pc = new])
       PROVE  OncePerPath(run'[w])
  <2> DEFINE x == [old EXCEPT !.batch = batch, !.pc = new]
  <2>1. x \in Run
    BY <1>a DEF Run
  <2>2. /\ x.pc \in {"collect", "insert"} /\ x.tasks = old.tasks
        /\ x.results = old.results /\ x.batch \subseteq old.batch
    BY <1>a DEF Run
  <2>3. OncePerPath(x)
    <3> HIDE DEF x
    <3> QED
      BY <1>a, <2>2 DEF OncePerPath, BatchOf
  <2> QED
    BY <1>c, <1>10, <2>1, <2>3
<1>11. ASSUME finalFlush(w)
       PROVE  OncePerPath(run'[w])
  <2>1. [old EXCEPT !.pc = "insert"] = [old EXCEPT !.batch = old.batch, !.pc = "insert"]
    BY <1>a DEF Run
  <2> QED
    BY <1>10, <1>11, <2>1 DEF finalFlush
<1>12. ASSUME Insert(w)
       PROVE  OncePerPath(run'[w])
  BY <1>10, <1>12 DEF Insert
<1>13. ASSUME run' = run
       PROVE  OncePerPath(run'[w])
  BY <1>13
<1>14. ASSUME Crash
       PROVE  OncePerPath(run'[w])
  BY <1>14, <1>a, <1>b DEF Crash
<1> QED
  BY <1>1, <1>2, <1>3, <1>4, <1>5, <1>6, <1>7, <1>8, <1>9, <1>11, <1>12, <1>13, <1>14,
     WatcherStaysIdle
     DEF Next, Indexing, Environment, Edit, Unlink, Chmod, handleDeleteContext, vars, OnlyWriter

-----------------------------------------------------------------------------
(* Two versions of a file are never in the store together. *)

LEMMA PrepareRecordsSource ==
    ASSUME NEW f, NEW v, NEW h, NEW done
    PROVE  \A d \in prepareRecords(f, v, h, done) : d.idx # Meta => d.src = v
<1> DEFINE chunk(k) == createChunkRecord(f, v, h, Cardinality({j \in done : j < k}), k)
<1>1. \A k \in done : chunk(k).src = v
  BY DEF createChunkRecord
<1>2. createFileMetaRecord(f, h).idx = Meta
  BY DEF createFileMetaRecord
<1>3. prepareRecords(f, v, h, done) = {chunk(k) : k \in done} \cup {createFileMetaRecord(f, h)}
  BY DEF prepareRecords
<1> HIDE DEF chunk
<1> QED
  BY <1>1, <1>2, <1>3

LEMMA ProcessFileSource ==
    ASSUME NEW f, NEW h, NEW res \in ProcessFile(f, h)
    PROVE  OneSource(res.docs)
<1>1. CASE res.docs = {}
  BY <1>1 DEF OneSource
<1>2. ASSUME NEW done, res.docs = prepareRecords(f, disk[f], h, done)
      PROVE  OneSource(res.docs)
  BY <1>2, PrepareRecordsSource DEF OneSource
<1> QED
  BY <1>1, <1>2 DEF ProcessFile

\* A step that brings in no record keeps GhostInv.
LEMMA GhostShrinks ==
    ASSUME NEW w, GhostInv(w), run'[w].results \subseteq run[w].results,
           db' \cup run'[w].batch \subseteq db \cup run[w].batch
    PROVE  GhostInv(w)'
<1>1. \A f : (DocsOf(f) \cup BatchOf(run[w], f))' \subseteq DocsOf(f) \cup BatchOf(run[w], f)
  BY DEF DocsOf, BatchOf
<1> QED
  BY <1>1 DEF GhostInv, OneSource

\* With every query answered, the records of the path are gone.
LEMMA DeleteEmpties ==
    ASSUME "query" \notin Env, NEW f, db' \in DeleteOutcomes(f)
    PROVE  DocsOf(f)' = {} /\ \A g : g # f => DocsOf(g)' = DocsOf(g)
BY DEF DeleteOutcomes, DeleteByPath, DocsOf

\* Until it collects results, and when it begins to insert, a run leaves what it
\* carries as it is.
LEMMA RecordsLeft ==
    ASSUME TypeOK, NEW w \in Indexers,
           \/ processPath(w) \/ ReadMapping(w) \/ discoverFilesToIndex(w)
           \/ startProcessing(w) \/ finalFlush(w) \/ cleanupStaleFiles(w)
    PROVE  run'[w].results = run[w].results /\ run'[w].batch = run[w].batch /\ db' \subseteq db
<1> DEFINE old == run[w]
<1>a. w \in Indexers /\ old \in Run /\ run \in [Indexers -> Run]
  BY DEF TypeOK
<1>1. ASSUME processPath(w)
      PROVE  run'[w].results = old.results /\ run'[w].batch = old.batch
  BY <1>a, <1>1 DEF processPath, become, Run
<1>2. ASSUME ReadMapping(w)
      PROVE  run'[w].results = old.results /\ run'[w].batch = old.batch
  <2>1. PICK m : become(w, [old EXCEPT !.pc = "discover", !.mapping = m, !.todo = old.listed])
    BY <1>2 DEF ReadMapping
  <2> QED
    BY <1>a, <2>1 DEF become, Run
<1>3. ASSUME discoverFilesToIndex(w)
      PROVE  run'[w].results = old.results /\ run'[w].batch = old.batch
  <2>1. ASSUME NEW f, NEW tasks,
               become(w, [old EXCEPT !.todo = @ \ {f}, !.hashes[f] = disk[f], !.tasks = tasks])
        PROVE  run'[w].results = old.results /\ run'[w].batch = old.batch
    BY <1>a, <2>1 DEF become, Run
  <2>2. CASE become(w, [old EXCEPT !.pc = "clean", !.todo = Stale(w)])
    BY <1>a, <2>2 DEF become, Run
  <2> QED
    BY <1>3, <1>a, <2>1, <2>2, DiscoverCases
<1>4. ASSUME startProcessing(w)
      PROVE  run'[w].results = old.results /\ run'[w].batch = old.batch
  BY <1>a, <1>4 DEF startProcessing, become, Run
<1>5. ASSUME finalFlush(w)
      PROVE  run'[w].results = old.results /\ run'[w].batch = old.batch
  BY <1>a, <1>5 DEF finalFlush, become, Run
<1>6. ASSUME cleanupStaleFiles(w)
      PROVE  /\ run'[w].results = old.results /\ run'[w].batch = old.batch
             /\ db' \subseteq db
  <2>1. PICK f, partial : become(w, [old EXCEPT !.todo = @ \ {f}, !.partial = partial])
    BY <1>6 DEF cleanupStaleFiles
  <2>2. run'[w].results = old.results /\ run'[w].batch = old.batch
    BY <1>a, <2>1 DEF become, Run
  <2> QED
    BY <1>6, <2>2, DeleteOutcomesSmaller DEF cleanupStaleFiles
<1> QED
  BY <1>1, <1>2, <1>3, <1>4, <1>5, <1>6
     DEF processPath, ReadMapping, discoverFilesToIndex, startProcessing, finalFlush

LEMMA GhostStep ==
    ASSUME NEW w, OnlyWriter(w), "query" \notin Env, TypeOK, WatcherIdle,
           OncePerPath(run[w]), GhostInv(w), [Next]_vars
    PROVE  GhostInv(w)'
<1> DEFINE old == run[w]
<1>a. w \in Indexers /\ old \in Run /\ run \in [Indexers -> Run]
  BY DEF OnlyWriter, TypeOK
<1>b. idleRun.batch = {} /\ idleRun.results = {}
  BY DEF idleRun
<1>1. ASSUME \/ processPath(w) \/ ReadMapping(w) \/ discoverFilesToIndex(w)
             \/ startProcessing(w) \/ finalFlush(w) \/ cleanupStaleFiles(w)
      PROVE  run'[w].results = old.results /\ run'[w].batch = old.batch /\ db' \subseteq db
  BY <1>1, <1>a, RecordsLeft
<1>2. ASSUME recoverPanic(w) \/ complete(w)
      PROVE  GhostInv(w)'
  <2>1. run'[w] = idleRun /\ db' = db
    BY <1>a, <1>2 DEF recoverPanic, complete, become, returned
  <2> QED
    BY <1>b, <2>1, GhostShrinks
<1>3. ASSUME ScanFiles(w)
      PROVE  GhostInv(w)'
  <2>1. CASE become(w, [old EXCEPT !.pc = "map", !.listed = {f \in Files : disk[f] # 0}])
    <3>1. run'[w].results = old.results /\ run'[w].batch = old.batch
      BY <1>a, <2>1 DEF become, Run
    <3> QED
      BY <1>3, <3>1, GhostShrinks DEF ScanFiles
  <2>2. CASE run'[w] = idleRun
    BY <1>3, <1>b, <2>2, GhostShrinks DEF ScanFiles
  <2> QED
    BY <1>3, <1>a, <2>1, <2>2 DEF ScanFiles, become, returned
<1>4. ASSUME processTask(w)
      PROVE  GhostInv(w)'
  <2>1. PICK f \in old.tasks : \E res \in ProcessFile(f, old.hashes[f]) :
            become(w, [old EXCEPT !.tasks = @ \ {f}, !.results = @ \cup {res}])
    BY <1>4 DEF processTask
  <2>2. PICK res \in ProcessFile(f, old.hashes[f]) :
            become(w, [old EXCEPT !.tasks = @ \ {f}, !.results = @ \cup {res}])
    BY <2>1
  <2>3. run'[w].results = old.results \cup {res} /\ run'[w].batch = old.batch
    BY <1>a, <2>2 DEF become, Run
  <2>4. OneSource(res.docs)
    BY ProcessFileSource
  <2>5. \A f1 : (DocsOf(f1) \cup BatchOf(run[w], f1))' = DocsOf(f1) \cup BatchOf(run[w], f1)
    BY <1>4, <2>3 DEF processTask, DocsOf, BatchOf
  <2> QED
    BY <2>3, <2>4, <2>5 DEF GhostInv, OneSource
<1>5. ASSUME collectResult(w)
      PROVE  GhostInv(w)'
  <2>1. PICK res \in old.results, new \in {"insert", "collect"} :
            /\ become(w, [old EXCEPT !.results = @ \ {res},
                                     !.batch = old.batch \cup res.docs, !.pc = new])
            /\ db' \in IF res.indexed THEN DeleteOutcomes(res.path) ELSE {db}
    BY <1>5 DEF collectResult
  <2>2. run'[w].results = old.results \ {res} /\ run'[w].batch = old.batch \cup res.docs
    BY <1>a, <2>1 DEF become, Run
  <2>3. BatchOf(old, res.path) = {} /\ \A d \in res.docs : res.indexed /\ d.path = res.path
    BY DEF OncePerPath
  <2>4. CASE res.indexed
    <3>1. DocsOf(res.path)' = {} /\ \A g : g # res.path => DocsOf(g)' = DocsOf(g)
      BY <2>1, <2>4, DeleteEmpties
    <3>2. BatchOf(run[w], res.path)' \subseteq res.docs
      BY <2>2, <2>3 DEF BatchOf
    <3>3. \A g : g # res.path => BatchOf(run[w], g)' = BatchOf(run[w], g)
      BY <2>2, <2>3 DEF BatchOf
    <3>4. OneSource(res.docs)
      BY DEF GhostInv
    <3>5. ASSUME NEW f \in Files
          PROVE  OneSource(DocsOf(f) \cup BatchOf(run[w], f))'
      <4>1. CASE f = res.path
        BY <3>1, <3>2, <3>4, <4>1 DEF OneSource
      <4>2. CASE f # res.path
        BY <3>1, <3>3, <4>2 DEF GhostInv, OneSource
      <4> QED
        BY <4>1, <4>2
    <3> QED
      BY <2>2, <3>5 DEF GhostInv, OneSource
  <2>5. CASE ~res.indexed
    BY <2>1, <2>2, <2>3, <2>5, GhostShrinks
  <2> QED
    BY <2>4, <2>5
<1>6. ASSUME Insert(w)
      PROVE  GhostInv(w)'
  <2>1. ASSUME NEW d \in old.batch, NEW new, db' = AddDocument(d),
               become(w, [old EXCEPT !.batch = @ \ {d}, !.pc = new])
        PROVE  GhostInv(w)'
    <3>1. run'[w].results = old.results /\ run'[w].batch = old.batch \ {d}
      BY <1>a, <2>1 DEF become, Run
    <3> QED
      BY <2>1, <3>1, GhostShrinks DEF AddDocument
  <2>2. CASE become(w, [old EXCEPT !.batch = {}, !.pc = "collect"]) /\ db' = db
    <3>1. run'[w].results = old.results /\ run'[w].batch = {}
      BY <1>a, <2>2 DEF become, Run
    <3> QED
      BY <2>2, <3>1, GhostShrinks
  <2> QED
    BY <1>6, <2>1, <2>2 DEF Insert
<1>7. ASSUME Environment
      PROVE  GhostInv(w)'
  <2>1. db' \subseteq db /\ (run' = run \/ run'[w] = idleRun)
    BY <1>7, <1>a DEF Environment, Edit, Unlink, Chmod, handleDeleteContext, DeleteByPath, Crash
  <2> QED
    BY <1>b, <2>1, GhostShrinks
<1>8. CASE UNCHANGED vars
  BY <1>8, GhostShrinks DEF vars
<1> QED
  BY <1>1, <1>2, <1>3, <1>4, <1>5, <1>6, <1>7, <1>8, WatcherStaysIdle, GhostShrinks
     DEF Next, Indexing, OnlyWriter

\* With one indexer writing and every query answered, the store never holds
\* chunks of two versions of a file: through panics, failing embeddings and
\* inserts, delete_context, old content coming back, and crashes at any point.
THEOREM NoGhosts ==
    ASSUME NEW w, OnlyWriter(w), "query" \notin Env
    PROVE  Spec => []GhostFree
<1> DEFINE Inv == TypeOK /\ WatcherIdle /\ OncePerPath(run[w]) /\ GhostInv(w)
<1>1. Init => Inv
  <2> SUFFICES ASSUME Init PROVE Inv
    OBVIOUS
  <2>1. run[w] = idleRun /\ db = {}
    BY DEF Init, OnlyWriter
  <2>2. OncePerPath(idleRun) /\ WatcherIdle
    BY DEF OncePerPath, idleRun, BatchOf, Init, WatcherIdle, nothingPending
  <2>3. GhostInv(w)
    BY <2>1 DEF GhostInv, OneSource, DocsOf, BatchOf, idleRun
  <2> QED
    BY <2>1, <2>2, <2>3, InitType
<1>2. Inv /\ [Next]_vars => Inv'
  <2> SUFFICES ASSUME Inv, [Next]_vars PROVE Inv'
    OBVIOUS
  <2>1. WatcherIdle'
    BY WatcherStaysIdle DEF OnlyWriter
  <2> QED
    BY <2>1, NextType, OnceStep, GhostStep
<1>3. Inv => GhostFree
  BY DEF GhostFree, GhostInv, OneSource, Chunks, DocsOf, TypeOK, Doc
<1> QED
  BY <1>1, <1>2, <1>3, PTL DEF Spec

-----------------------------------------------------------------------------
(* A file that counts as fully indexed is. *)

LEMMA WholeIds ==
    ASSUME NEW f \in Files, NEW docs, Whole(f, docs)
    PROVE  /\ \A d \in docs : d.path = f
           /\ \A d, e \in docs : SameId(d, e) => d = e
<1>1. PICK v \in Versions, h \in Hashes : docs = prepareRecords(f, v, h, TextsOf(v))
  BY DEF Whole
<1>2. docs = {createChunkRecord(f, v, h, k, k) : k \in TextsOf(v)}
                \cup {createFileMetaRecord(f, h)}
  BY <1>1, WholeRecords
<1>3. \A k \in TextsOf(v) : k # Meta
  BY ChunkCountAssumption DEF TextsOf, Meta
<1> QED
  BY <1>2, <1>3 DEF createChunkRecord, createFileMetaRecord, SameId

LEMMA WholeMeta ==
    ASSUME NEW f \in Files, Whole(f, DocsOf(f)), FreshInv, TypeOK, FullyIndexed(f)
    PROVE  DocsOf(f) = Complete(f, disk[f])
<1>1. PICK v \in Versions, h \in Hashes :
        /\ h <= v /\ v <= last[f]
        /\ DocsOf(f) = prepareRecords(f, v, h, TextsOf(v))
  BY DEF Whole
<1>2. DocsOf(f) = {createChunkRecord(f, v, h, k, k) : k \in TextsOf(v)}
                    \cup {createFileMetaRecord(f, h)}
  BY <1>1, WholeRecords
<1>3. \A k \in TextsOf(v) : k # Meta
  BY ChunkCountAssumption DEF TextsOf, Meta
<1>4. /\ \E d \in DocsOf(f) : d.idx = Meta
      /\ \A d \in DocsOf(f) : d.idx = Meta => d.hash = h
  <2>1. \A k \in TextsOf(v) : createChunkRecord(f, v, h, k, k).idx # Meta
    BY <1>3 DEF createChunkRecord
  <2>2. createFileMetaRecord(f, h).idx = Meta /\ createFileMetaRecord(f, h).hash = h
    BY DEF createFileMetaRecord
  <2> QED
    BY <1>2, <2>1, <2>2
<1>5. MetaHash(f) = h
  BY <1>4 DEF MetaHash
<1>6. h = disk[f] /\ disk[f] = last[f]
  BY <1>5 DEF FullyIndexed, FreshInv
<1>7. v = disk[f]
  BY <1>1, <1>6, MaxVersionAssumption DEF Versions, Hashes
<1> QED
  BY <1>1, <1>6, <1>7 DEF Complete

LEMMA ProcessFileWhole ==
    ASSUME TypeOK, FreshInv, "embed" \notin Env, NEW f \in Files, NEW h \in Hashes,
           h <= last[f], NEW res \in ProcessFile(f, h), res.indexed
    PROVE  Whole(f, res.docs)
<1>1. disk[f] # 0 /\ res.docs = prepareRecords(f, disk[f], h, TextsOf(disk[f]))
  BY DEF ProcessFile, embedSequentially
<1>2. disk[f] \in Versions /\ disk[f] = last[f] /\ disk[f] <= last[f]
  BY <1>1, MaxVersionAssumption DEF TypeOK, Hashes, Versions, FreshInv
<1> QED
  BY <1>1, <1>2 DEF Whole

LEMMA WholeGrows ==
    ASSUME TypeOK, TypeOK', NEW f \in Files, last[f] <= last'[f], NEW docs, Whole(f, docs)
    PROVE  Whole(f, docs)'
<1>1. PICK v \in Versions, h \in Hashes :
        h <= v /\ v <= last[f] /\ docs = prepareRecords(f, v, h, TextsOf(v))
  BY DEF Whole
<1>2. v <= last'[f]
  BY <1>1, MaxVersionAssumption DEF TypeOK, Versions, Hashes
<1> QED
  BY <1>1, <1>2 DEF Whole

\* A step that leaves of every file all its records or none keeps WholeInv.
LEMMA WholeKept ==
    ASSUME NEW w, WholeInv(w), TypeOK, TypeOK', \A f \in Files : last[f] <= last'[f],
           run'[w].results \subseteq run[w].results, run[w].results \subseteq Result,
           \A f \in Files :
              /\ \/ (DocsOf(f) \cup BatchOf(run[w], f))' = {}
                 \/ (DocsOf(f) \cup BatchOf(run[w], f))' = DocsOf(f) \cup BatchOf(run[w], f)
              /\ run'[w].pc # "insert" /\ BatchOf(run[w], f)' # {} => DocsOf(f)' = {}
    PROVE  WholeInv(w)'
<1>1. \A res \in run'[w].results : res.indexed => Whole(res.path, res.docs)'
  <2> SUFFICES ASSUME NEW res \in run'[w].results, res.indexed
               PROVE  Whole(res.path, res.docs)'
    OBVIOUS
  <2>1. res.path \in Files /\ Whole(res.path, res.docs)
    BY DEF WholeInv, Result
  <2> QED
    BY <2>1, WholeGrows
<1>2. ASSUME NEW f \in Files
      PROVE  (DocsOf(f) \cup BatchOf(run[w], f) = {} \/ Whole(f, DocsOf(f) \cup BatchOf(run[w], f)))'
  <2>1. CASE (DocsOf(f) \cup BatchOf(run[w], f))' = {}
    BY <2>1
  <2>2. CASE (DocsOf(f) \cup BatchOf(run[w], f))' = DocsOf(f) \cup BatchOf(run[w], f)
    <3> DEFINE docs == DocsOf(f) \cup BatchOf(run[w], f)
    <3>1. docs = {} \/ Whole(f, docs)
      BY DEF WholeInv
    <3>2. Whole(f, docs) => \E v \in Versions, h \in Hashes :
                /\ h <= v /\ v <= last'[f]
                /\ docs = prepareRecords(f, v, h, TextsOf(v))
      BY WholeGrows DEF Whole
    <3> QED
      BY <2>2, <3>1, <3>2 DEF Whole
  <2> QED
    BY <2>1, <2>2
<1> QED
  BY <1>1, <1>2 DEF WholeInv

LEMMA WholeStep ==
    ASSUME NEW w, OnlyWriter(w), Env \subseteq {"panic", "scan"}, TypeOK, TypeOK', FreshInv,
           WatcherIdle, OncePerPath(run[w]), WholeInv(w), [Next]_vars
    PROVE  WholeInv(w)'
<1> DEFINE old == run[w]
<1>a. /\ w \in Indexers /\ old \in Run /\ run \in [Indexers -> Run]
      /\ old.results \subseteq Result
  BY DEF OnlyWriter, TypeOK, Run
<1>b. /\ idleRun.batch = {} /\ idleRun.results = {} /\ \A f : BatchOf(idleRun, f) = {}
  BY DEF idleRun, BatchOf
<1>c. /\ "query" \notin Env /\ "insert" \notin Env /\ "embed" \notin Env
      /\ "clear" \notin Env /\ "crash" \notin Env
  OBVIOUS
<1>d. last' = last => \A f \in Files : last[f] <= last'[f]
  BY MaxVersionAssumption DEF TypeOK, Hashes
\* The steps that touch neither the records nor the way to them.
<1>e. ASSUME last' = last, db' = db, run'[w].results = old.results,
             run'[w].batch = old.batch,
             run'[w].pc # "insert" => old.pc # "insert"
      PROVE  WholeInv(w)'
  <2>1. \A f : DocsOf(f)' = DocsOf(f) /\ BatchOf(run[w], f)' = BatchOf(run[w], f)
    BY <1>e DEF DocsOf, BatchOf
  <2>2. \A f \in Files : run'[w].pc # "insert" /\ BatchOf(run[w], f)' # {} => DocsOf(f)' = {}
    BY <1>e, <2>1 DEF WholeInv
  <2> QED
    BY <1>a, <1>d, <1>e, <2>1, <2>2, WholeKept
\* The steps with which the run is over.
<1>f. ASSUME last' = last, db' = db, run'[w] = idleRun, old.pc # "insert"
      PROVE  WholeInv(w)'
  <2>1. \A f : DocsOf(f)' = DocsOf(f) /\ BatchOf(run[w], f)' = {}
    BY <1>b, <1>f DEF DocsOf
  <2>2. \A f \in Files : BatchOf(run[w], f) # {} => DocsOf(f) = {}
    BY <1>f DEF WholeInv
  <2>3. \A f \in Files :
          \/ (DocsOf(f) \cup BatchOf(run[w], f))' = {}
          \/ (DocsOf(f) \cup BatchOf(run[w], f))' = DocsOf(f) \cup BatchOf(run[w], f)
    BY <2>1, <2>2
  <2> QED
    BY <1>a, <1>b, <1>d, <1>f, <2>1, <2>3, WholeKept
<1>1. ASSUME processPath(w)
      PROVE  WholeInv(w)'
  BY <1>1, <1>a, <1>e DEF processPath, become, Run
<1>2. ASSUME recoverPanic(w) \/ complete(w)
      PROVE  WholeInv(w)'
  BY <1>2, <1>a, <1>f DEF recoverPanic, complete, become, returned
<1>3. ASSUME ScanFiles(w)
      PROVE  WholeInv(w)'
  <2>1. CASE become(w, [old EXCEPT !.pc = "map", !.listed = {f \in Files : disk[f] # 0}])
    <3>1. run'[w].results = old.results /\ run'[w].batch = old.batch
      BY <1>a, <2>1 DEF become, Run
    <3> QED
      BY <1>3, <1>e, <3>1 DEF ScanFiles
  <2>2. CASE run'[w] = idleRun
    BY <1>3, <1>f, <2>2 DEF ScanFiles
  <2> QED
    BY <1>3, <1>a, <2>1, <2>2 DEF ScanFiles, become, returned
<1>4. ASSUME ReadMapping(w)
      PROVE  WholeInv(w)'
  <2>1. run'[w].results = old.results /\ run'[w].batch = old.batch
    BY <1>4, <1>a DEF ReadMapping, become, Run
  <2> QED
    BY <1>4, <1>e, <2>1 DEF ReadMapping
<1>5. ASSUME discoverFilesToIndex(w)
      PROVE  WholeInv(w)'
  <2>1. ASSUME NEW f, NEW tasks,
               become(w, [old EXCEPT !.todo = @ \ {f}, !.hashes[f] = disk[f], !.tasks = tasks])
        PROVE  run'[w].results = old.results /\ run'[w].batch = old.batch
    BY <1>a, <2>1 DEF become, Run
  <2>2. CASE become(w, [old EXCEPT !.pc = "clean", !.todo = Stale(w)])
    <3>1. run'[w].results = old.results /\ run'[w].batch = old.batch
      BY <1>a, <2>2 DEF become, Run
    <3> QED
      BY <1>5, <1>e, <3>1 DEF discoverFilesToIndex
  <2>3. CASE \E f \in old.todo :
               become(w, [old EXCEPT !.todo = @ \ {f}, !.hashes[f] = disk[f],
                                     !.tasks = IF old.mapping[f] = disk[f]
                                               THEN @ ELSE @ \cup {f}])
    <3>1. run'[w].results = old.results /\ run'[w].batch = old.batch
      BY <2>1, <2>3
    <3> QED
      BY <1>5, <1>e, <3>1 DEF discoverFilesToIndex
  <2> QED
    BY <1>5, <2>2, <2>3 DEF discoverFilesToIndex
<1>6. ASSUME cleanupStaleFiles(w)
      PROVE  WholeInv(w)'
  <2>1. PICK f \in old.todo, partial \in BOOLEAN :
            /\ become(w, [old EXCEPT !.todo = @ \ {f}, !.partial = partial])
            /\ db' \in DeleteOutcomes(f)
    BY <1>6, <1>a DEF cleanupStaleFiles, Run
  <2>2. run'[w].results = old.results /\ run'[w].batch = old.batch /\ old.batch = {}
    BY <1>6, <1>a, <2>1 DEF become, Run, OncePerPath, cleanupStaleFiles
  <2>3. DocsOf(f)' = {} /\ \A g : g # f => DocsOf(g)' = DocsOf(g)
    BY <1>c, <2>1, DeleteEmpties
  <2>4. \A g : BatchOf(run[w], g)' = {} /\ BatchOf(run[w], g) = {}
    BY <2>2 DEF BatchOf
  <2> QED
    BY <1>6, <1>a, <1>d, <2>2, <2>3, <2>4, WholeKept DEF cleanupStaleFiles
<1>7. ASSUME startProcessing(w)
      PROVE  WholeInv(w)'
  <2>1. run'[w].results = old.results /\ run'[w].batch = old.batch
    BY <1>7, <1>a DEF startProcessing, become, Run
  <2> QED
    BY <1>7, <1>e, <2>1 DEF startProcessing
<1>8. ASSUME processTask(w)
      PROVE  WholeInv(w)'
  <2>1. PICK f \in old.tasks : \E res \in ProcessFile(f, old.hashes[f]) :
            become(w, [old EXCEPT !.tasks = @ \ {f}, !.results = @ \cup {res}])
    BY <1>8 DEF processTask
  <2>2. PICK res \in ProcessFile(f, old.hashes[f]) :
            become(w, [old EXCEPT !.tasks = @ \ {f}, !.results = @ \cup {res}])
    BY <2>1
  <2>3. /\ run'[w].results = old.results \cup {res} /\ run'[w].batch = old.batch
        /\ run'[w].pc = old.pc
    BY <1>a, <2>2 DEF become, Run
  <2>4. f \in Files /\ old.hashes[f] \in Hashes /\ old.hashes[f] <= last[f]
    BY <1>a DEF Run, FreshInv, FreshRun
  <2>5. res.path = f /\ (res.indexed => Whole(f, res.docs))
    BY <1>c, <2>4, ProcessFileType, ProcessFileWhole
  <2>6. \A g : DocsOf(g)' = DocsOf(g) /\ BatchOf(run[w], g)' = BatchOf(run[w], g)
    BY <1>8, <2>3 DEF processTask, DocsOf, BatchOf
  <2>7. \A g, docs : Whole(g, docs)' <=> Whole(g, docs)
    BY <1>8 DEF processTask, Whole
  <2>8. \A r2 \in run'[w].results : r2.indexed => Whole(r2.path, r2.docs)'
    BY <2>3, <2>5, <2>7 DEF WholeInv
  <2>9. \A g \in Files :
          LET docs == DocsOf(g) \cup BatchOf(run[w], g)
          IN  (docs = {} \/ Whole(g, docs))'
    BY <1>8, <2>6 DEF WholeInv, Whole, processTask
  <2> QED
    BY <2>3, <2>6, <2>8, <2>9 DEF WholeInv
<1>9. ASSUME collectResult(w)
      PROVE  WholeInv(w)'
  <2>1. PICK res \in old.results, new \in {"insert", "collect"} :
            /\ become(w, [old EXCEPT !.results = @ \ {res},
                                     !.batch = old.batch \cup res.docs, !.pc = new])
            /\ db' \in IF res.indexed THEN DeleteOutcomes(res.path) ELSE {db}
    BY <1>9 DEF collectResult
  <2>2. run'[w].results = old.results \ {res} /\ run'[w].batch = old.batch \cup res.docs
    BY <1>a, <2>1 DEF become, Run
  <2>3. BatchOf(old, res.path) = {} /\ \A d \in res.docs : res.indexed /\ d.path = res.path
    BY DEF OncePerPath
  <2>4. \A g : g # res.path => BatchOf(run[w], g)' = BatchOf(old, g)
    BY <2>2, <2>3 DEF BatchOf
  <2>5. \A g \in Files : BatchOf(old, g) # {} => DocsOf(g) = {}
    BY <1>9 DEF WholeInv, collectResult
  <2>6. last' = last /\ res.path \in Files
    BY <1>9, <1>a DEF collectResult, Result
  <2>7. CASE ~res.indexed
    <3>1. res.docs = {}
      BY <2>3, <2>7
    <3>2. \A g : BatchOf(run[w], g)' = BatchOf(old, g) /\ DocsOf(g)' = DocsOf(g)
      BY <2>1, <2>2, <2>7, <3>1 DEF BatchOf, DocsOf
    <3> QED
      BY <1>a, <1>d, <2>2, <2>5, <2>6, <3>2, WholeKept
  <2>8. CASE res.indexed
    <3>1. DocsOf(res.path)' = {} /\ \A g : g # res.path => DocsOf(g)' = DocsOf(g)
      BY <1>c, <2>1, <2>8, DeleteEmpties
    <3>2. BatchOf(run[w], res.path)' = res.docs
      BY <2>2, <2>3 DEF BatchOf
    <3>3. Whole(res.path, res.docs)
      BY <2>8 DEF WholeInv
    <3>4. \A g, docs : Whole(g, docs)' <=> Whole(g, docs)
      BY <2>6 DEF Whole
    <3>5. \A r2 \in run'[w].results : r2.indexed => Whole(r2.path, r2.docs)'
      BY <2>2, <3>4 DEF WholeInv
    <3>6. ASSUME NEW g \in Files
          PROVE  /\ LET docs == DocsOf(g) \cup BatchOf(run[w], g)
                    IN  (docs = {} \/ Whole(g, docs))'
                 /\ BatchOf(run[w], g)' # {} => DocsOf(g)' = {}
      <4>1. CASE g = res.path
        <5>1. (DocsOf(g) \cup BatchOf(run[w], g))' = res.docs
          BY <3>1, <3>2, <4>1
        <5>2. Whole(g, res.docs)
          BY <3>3, <4>1
        <5> QED
          BY <2>6, <3>1, <4>1, <5>1, <5>2 DEF Whole
      <4>2. CASE g # res.path
        <5>1. (DocsOf(g) \cup BatchOf(run[w], g))' = DocsOf(g) \cup BatchOf(run[w], g)
          BY <2>4, <3>1, <4>2
        <5>2. LET docs == DocsOf(g) \cup BatchOf(run[w], g)
              IN  docs = {} \/ Whole(g, docs)
          BY DEF WholeInv
        <5> QED
          BY <2>4, <2>5, <2>6, <3>1, <4>2, <5>1, <5>2 DEF Whole
      <4> QED
        BY <4>1, <4>2
    <3> QED
      BY <3>5, <3>6 DEF WholeInv
  <2> QED
    BY <2>7, <2>8
<1>10. ASSUME finalFlush(w)
       PROVE  WholeInv(w)'
  <2>1. /\ run'[w].results = old.results /\ run'[w].batch = old.batch
        /\ run'[w].pc = "insert"
    BY <1>10, <1>a DEF finalFlush, become, Run
  <2> QED
    BY <1>10, <1>e, <2>1 DEF finalFlush
<1>11. ASSUME Insert(w)
       PROVE  WholeInv(w)'
  <2>1. PICK d \in old.batch :
            /\ db' = AddDocument(d)
            /\ become(w, [old EXCEPT !.batch = @ \ {d},
                                     !.pc = IF old.batch = {d} THEN "collect" ELSE "insert"])
    BY <1>11, <1>c DEF Insert
  <2>2. /\ run'[w].results = old.results /\ run'[w].batch = old.batch \ {d}
        /\ run'[w].pc # "insert" => run'[w].batch = {}
    BY <1>a, <2>1 DEF become, Run
  <2>3. d \in Doc /\ d.path \in Files
    BY <1>a DEF Run, Doc
  <2>4. Whole(d.path, DocsOf(d.path) \cup BatchOf(old, d.path))
    BY <2>3 DEF WholeInv, BatchOf
  <2>5. \A e \in db : SameId(d, e) => e = d
    <3> SUFFICES ASSUME NEW e \in db, SameId(d, e)
                 PROVE  e = d
      OBVIOUS
    <3>1. e \in DocsOf(d.path) /\ d \in BatchOf(old, d.path)
      BY DEF DocsOf, BatchOf, SameId
    <3> QED
      BY <2>3, <2>4, <3>1, WholeIds
  <2>6. db' = db \cup {d}
    BY <2>1, <2>5 DEF AddDocument
  <2>7. \A f : (DocsOf(f) \cup BatchOf(run[w], f))' = DocsOf(f) \cup BatchOf(run[w], f)
    BY <2>2, <2>6 DEF DocsOf, BatchOf
  <2>8. \A f : run'[w].pc # "insert" => BatchOf(run[w], f)' = {}
    BY <2>2 DEF BatchOf
  <2> QED
    BY <1>11, <1>a, <1>d, <2>2, <2>7, <2>8, WholeKept DEF Insert
<1>12. ASSUME Environment
       PROVE  WholeInv(w)'
  <2>1. db' = db /\ run' = run /\ \A f \in Files : last[f] <= last'[f]
    <3>1. ASSUME NEW f \in Files, Edit(f)
          PROVE  db' = db /\ run' = run /\ \A g \in Files : last[g] <= last'[g]
      <4>1. PICK v \in Versions : last' = [last EXCEPT ![f] = IF v > @ THEN v ELSE @]
        BY <3>1 DEF Edit
      <4> QED
        BY <3>1, <4>1, MaxVersionAssumption DEF Edit, TypeOK, Hashes, Versions
    <3> QED
      BY <1>12, <1>c, <1>d, <3>1 DEF Environment, Unlink, Chmod, handleDeleteContext, Crash
  <2>2. \A f : DocsOf(f)' = DocsOf(f) /\ BatchOf(run[w], f)' = BatchOf(run[w], f)
    BY <2>1 DEF DocsOf, BatchOf
  <2>3. \A f \in Files : run'[w].pc # "insert" /\ BatchOf(run[w], f)' # {} => DocsOf(f)' = {}
    BY <2>1, <2>2 DEF WholeInv
  <2> QED
    BY <1>a, <2>1, <2>2, <2>3, WholeKept
<1>13. CASE UNCHANGED vars
  BY <1>13, <1>e DEF vars
<1> QED
  BY <1>1, <1>2, <1>3, <1>4, <1>5, <1>6, <1>7, <1>8, <1>9, <1>10, <1>11, <1>12, <1>13,
     WatcherStaysIdle DEF Next, Indexing, OnlyWriter

\* What is stored of a file and what is in the batch stay together.
LEMMA WholeInvariance ==
    ASSUME NEW w, OnlyWriter(w), Env \subseteq {"panic", "scan"}
    PROVE  Spec => [](TypeOK /\ FreshInv /\ WholeInv(w))
<1> DEFINE Inv == TypeOK /\ FreshInv /\ WatcherIdle /\ OncePerPath(run[w]) /\ WholeInv(w)
<1>1. Init => Inv
  <2> SUFFICES ASSUME Init PROVE Inv
    OBVIOUS
  <2>1. run[w] = idleRun /\ db = {}
    BY DEF Init, OnlyWriter
  <2>2. OncePerPath(idleRun) /\ WatcherIdle
    BY DEF OncePerPath, idleRun, BatchOf, Init, WatcherIdle, nothingPending
  <2>3. \A f : DocsOf(f) = {} /\ BatchOf(idleRun, f) = {}
    BY <2>1 DEF DocsOf, BatchOf, idleRun
  <2>4. idleRun.results = {}
    BY DEF idleRun
  <2>5. WholeInv(w)
    BY <2>1, <2>3, <2>4 DEF WholeInv
  <2> QED
    BY <2>1, <2>2, <2>5, InitType, InitFresh
<1>2. Inv /\ [Next]_vars => Inv'
  <2> SUFFICES ASSUME Inv, [Next]_vars PROVE Inv'
    OBVIOUS
  <2>1. "watch" \notin Env /\ "revert" \notin Env
    OBVIOUS
  <2>2. WatcherIdle'
    BY <2>1, WatcherStaysIdle
  <2> QED
    BY <2>1, <2>2, NextType, NextFresh, OnceStep, WholeStep
<1> QED
  BY <1>1, <1>2, PTL DEF Spec

\* With one indexer writing and no failing store call, a file whose stored hash
\* is the one it has now, so that every later run skips it, has all the chunks
\* of its content and no others: whatever the edits, and though runs panic.
THEOREM SkippedFilesAreComplete ==
    ASSUME NEW w, OnlyWriter(w), Env \subseteq {"panic", "scan"}
    PROVE  Spec => []FullyIndexedIsComplete
<1>1. TypeOK /\ FreshInv /\ WholeInv(w) => FullyIndexedIsComplete
  <2> SUFFICES ASSUME TypeOK, FreshInv, WholeInv(w),
                      NEW f \in Files, FullyIndexed(f), ~InFlight(f)
               PROVE  DocsOf(f) = Complete(f, disk[f])
    BY DEF FullyIndexedIsComplete
  <2>1. BatchOf(run[w], f) = {}
    BY DEF InFlight, BatchOf, OnlyWriter
  <2>2. DocsOf(f) # {}
    BY MaxVersionAssumption DEF FullyIndexed, MetaHash, TypeOK, Hashes, NoMeta
  <2>3. Whole(f, DocsOf(f))
    BY <2>1, <2>2 DEF WholeInv
  <2> QED
    BY <2>3, WholeMeta
<1> QED
  BY <1>1, WholeInvariance, PTL

-----------------------------------------------------------------------------
(* Where chunks are stored, there is the file_meta record they are found by. *)

LEMMA ProcessFileHeaded ==
    ASSUME NEW f, NEW h, NEW res \in ProcessFile(f, h)
    PROVE  Headed(res.docs)
<1>1. CASE res.docs = {}
  BY <1>1 DEF Headed
<1>2. ASSUME NEW done, res.docs = prepareRecords(f, disk[f], h, done)
      PROVE  Headed(res.docs)
  <2>1. createFileMetaRecord(f, h) \in res.docs /\ createFileMetaRecord(f, h).idx = Meta
    BY <1>2 DEF prepareRecords, createFileMetaRecord
  <2> QED
    BY <2>1 DEF Headed
<1> QED
  BY <1>1, <1>2 DEF ProcessFile

LEMMA HeadedUnion ==
    ASSUME NEW s, NEW t, Headed(s), Headed(t)
    PROVE  Headed(s \cup t)
BY DEF Headed

LEMMA NothingHeaded == Headed({})
BY DEF Headed

\* A delete takes all the records of one path or none.
LEMMA DeletedOrKept ==
    ASSUME NEW f, db' \in DeleteOutcomes(f)
    PROVE  \A g : DocsOf(g)' = DocsOf(g) \/ DocsOf(g)' = {}
BY DEF DeleteOutcomes, DeleteByPath, DocsOf

\* A step that deletes paths, or nothing, and leaves the batch alone.
LEMMA HeadedKept ==
    ASSUME NEW w, HeadedInv(w), OncePerPath(run[w]), run'[w].results \subseteq run[w].results,
           \/ run'[w].batch = run[w].batch /\ (run'[w].pc # "insert" => run[w].pc # "insert")
           \/ run'[w].batch = {} /\ run[w].pc # "insert",
           \/ db' = db
           \/ run'[w].batch = {} /\ \A f : DocsOf(f)' = DocsOf(f) \/ DocsOf(f)' = {}
    PROVE  HeadedInv(w)'
<1>1. \A f : DocsOf(f)' = DocsOf(f) \/ (DocsOf(f)' = {} /\ run'[w].batch = {})
  BY DEF DocsOf
<1>2. ASSUME NEW f \in Files
      PROVE  /\ Headed(DocsOf(f) \cup BatchOf(run[w], f))'
             /\ run'[w].pc # "insert" => Headed(DocsOf(f))'
  <2>1. run'[w].batch = {} => BatchOf(run'[w], f) = {}
    BY DEF BatchOf
  <2>2. CASE DocsOf(f)' = {} /\ run'[w].batch = {}
    BY <2>1, <2>2 DEF Headed
  <2>3. CASE DocsOf(f)' = DocsOf(f) /\ run'[w].batch = run[w].batch
                /\ (run'[w].pc # "insert" => run[w].pc # "insert")
    <3>1. BatchOf(run'[w], f) = BatchOf(run[w], f)
      BY <2>3 DEF BatchOf
    <3> QED
      BY <2>3, <3>1 DEF HeadedInv, Headed
  <2>4. CASE DocsOf(f)' = DocsOf(f) /\ run'[w].batch = {} /\ run[w].pc # "insert"
    <3>1. Headed(DocsOf(f))
      BY <2>4 DEF HeadedInv
    <3> QED
      BY <2>1, <2>4, <3>1 DEF Headed
  <2> QED
    BY <1>1, <2>2, <2>3, <2>4
<1> QED
  BY <1>2 DEF HeadedInv, Headed

\* HeadedInv is inductive: while nothing cuts an insert short and nothing deletes
\* beside the run.
LEMMA HeadedStep ==
    ASSUME NEW w, OnlyWriter(w), Env \cap {"clear", "crash", "insert"} = {}, TypeOK, WatcherIdle,
           OncePerPath(run[w]), HeadedInv(w), [Next]_vars
    PROVE  HeadedInv(w)'
<1> DEFINE old == run[w]
<1>a. w \in Indexers /\ old \in Run /\ run \in [Indexers -> Run]
  BY DEF OnlyWriter, TypeOK
<1>b. idleRun.batch = {} /\ idleRun.results = {} /\ idleRun.pc # "insert"
  BY DEF idleRun
<1>1. ASSUME \/ processPath(w) \/ ReadMapping(w) \/ discoverFilesToIndex(w)
             \/ startProcessing(w) \/ finalFlush(w)
      PROVE  HeadedInv(w)'
  <2>1. run'[w].results = old.results /\ run'[w].batch = old.batch
    BY <1>1, <1>a, RecordsLeft
  <2>2. old.pc # "insert" /\ db' = db
    BY <1>1 DEF processPath, ReadMapping, discoverFilesToIndex, startProcessing, finalFlush
  <2> QED
    BY <2>1, <2>2, HeadedKept
<1>2. ASSUME cleanupStaleFiles(w)
      PROVE  HeadedInv(w)'
  <2>1. run'[w].results = old.results /\ run'[w].batch = old.batch
    BY <1>2, <1>a, RecordsLeft
  <2>2. old.pc = "clean" /\ old.batch = {}
    BY <1>2 DEF cleanupStaleFiles, OncePerPath
  <2>3. \A g : DocsOf(g)' = DocsOf(g) \/ DocsOf(g)' = {}
    BY <1>2, DeletedOrKept DEF cleanupStaleFiles
  <2> QED
    BY <2>1, <2>2, <2>3, HeadedKept
<1>3. ASSUME recoverPanic(w) \/ complete(w)
      PROVE  HeadedInv(w)'
  <2>1. run'[w] = idleRun /\ db' = db /\ old.pc # "insert"
    BY <1>a, <1>3 DEF recoverPanic, complete, become, returned
  <2> QED
    BY <1>b, <2>1, HeadedKept
<1>4. ASSUME ScanFiles(w)
      PROVE  HeadedInv(w)'
  <2>1. old.pc # "insert" /\ db' = db
    BY <1>4 DEF ScanFiles
  <2>2. CASE become(w, [old EXCEPT !.pc = "map", !.listed = {f \in Files : disk[f] # 0}])
    <3>1. run'[w].results = old.results /\ run'[w].batch = old.batch
      BY <1>a, <2>2 DEF become, Run
    <3> QED
      BY <2>1, <3>1, HeadedKept
  <2>3. CASE run'[w] = idleRun
    BY <1>b, <2>1, <2>3, HeadedKept
  <2> QED
    BY <1>4, <1>a, <2>2, <2>3 DEF ScanFiles, become, returned
<1>5. ASSUME processTask(w)
      PROVE  HeadedInv(w)'
  <2>1. PICK f \in old.tasks : \E res \in ProcessFile(f, old.hashes[f]) :
            become(w, [old EXCEPT !.tasks = @ \ {f}, !.results = @ \cup {res}])
    BY <1>5 DEF processTask
  <2>2. PICK res \in ProcessFile(f, old.hashes[f]) :
            become(w, [old EXCEPT !.tasks = @ \ {f}, !.results = @ \cup {res}])
    BY <2>1
  <2>3. /\ run'[w].results = old.results \cup {res} /\ run'[w].batch = old.batch
        /\ run'[w].pc = old.pc
    BY <1>a, <2>2 DEF become, Run
  <2>4. Headed(res.docs)
    BY ProcessFileHeaded
  <2>5. \A g : DocsOf(g)' = DocsOf(g) /\ BatchOf(run[w], g)' = BatchOf(run[w], g)
    BY <1>5, <2>3 DEF processTask, DocsOf, BatchOf
  <2> QED
    BY <2>3, <2>4, <2>5 DEF HeadedInv, Headed
<1>6. ASSUME collectResult(w)
      PROVE  HeadedInv(w)'
  <2>1. PICK res \in old.results, new \in {"insert", "collect"} :
            /\ become(w, [old EXCEPT !.results = @ \ {res},
                                     !.batch = old.batch \cup res.docs, !.pc = new])
            /\ db' \in IF res.indexed THEN DeleteOutcomes(res.path) ELSE {db}
    BY <1>6 DEF collectResult
  <2>2. run'[w].results = old.results \ {res} /\ run'[w].batch = old.batch \cup res.docs
    BY <1>a, <2>1 DEF become, Run
  <2>3. BatchOf(old, res.path) = {} /\ \A d \in res.docs : d.path = res.path
    BY DEF OncePerPath
  <2>4. BatchOf(run[w], res.path)' = res.docs
    BY <2>2, <2>3 DEF BatchOf
  <2>5. \A g : g # res.path => BatchOf(run[w], g)' = BatchOf(run[w], g)
    BY <2>2, <2>3 DEF BatchOf
  <2>6. Headed(res.docs) /\ old.pc # "insert"
    BY <1>6 DEF HeadedInv, collectResult
  <2>7. \A g : /\ DocsOf(g)' = DocsOf(g) \/ DocsOf(g)' = {}
               /\ g # res.path => DocsOf(g)' = DocsOf(g)
    <3>1. CASE db' = db
      BY <3>1 DEF DocsOf
    <3>2. CASE db' = DeleteByPath(res.path)
      BY <3>2 DEF DocsOf, DeleteByPath
    <3> QED
      BY <2>1, <3>1, <3>2 DEF DeleteOutcomes
  <2>8. ASSUME NEW g \in Files
        PROVE  Headed(DocsOf(g))' /\ Headed(DocsOf(g) \cup BatchOf(run[w], g))'
    <3>1. Headed(DocsOf(g)) /\ Headed(DocsOf(g) \cup BatchOf(run[w], g))
      BY <2>6 DEF HeadedInv
    <3>2. Headed(DocsOf(g)')
      BY <2>7, <3>1, NothingHeaded
    <3>3. CASE g = res.path
      BY <2>4, <2>6, <3>2, <3>3, HeadedUnion DEF Headed
    <3>4. CASE g # res.path
      BY <2>5, <2>7, <3>1, <3>2, <3>4 DEF Headed
    <3> QED
      BY <3>2, <3>3, <3>4 DEF Headed
  <2> QED
    BY <2>2, <2>8 DEF HeadedInv, Headed
<1>7. ASSUME Insert(w)
      PROVE  HeadedInv(w)'
  <2>1. PICK d \in old.batch :
            /\ db' = AddDocument(d)
            /\ become(w, [old EXCEPT !.batch = @ \ {d},
                                     !.pc = IF old.batch = {d} THEN "collect" ELSE "insert"])
    BY <1>7 DEF Insert
  <2>2. /\ run'[w].results = old.results /\ run'[w].batch = old.batch \ {d}
        /\ run'[w].pc = IF old.batch = {d} THEN "collect" ELSE "insert"
    BY <1>a, <2>1 DEF become, Run
  <2>3. ASSUME NEW f \in Files
        PROVE  Headed(DocsOf(f) \cup BatchOf(run[w], f))'
    <3> DEFINE s == DocsOf(f) \cup BatchOf(run[w], f)
               t == DocsOf(f)' \cup BatchOf(run'[w], f)
    <3>1. t \subseteq s
      BY <2>1, <2>2 DEF DocsOf, BatchOf, AddDocument
    <3>2. \A e \in s : e \in t \/ (e.idx = d.idx /\ d \in t)
      BY <2>1, <2>2 DEF DocsOf, BatchOf, AddDocument, SameId
    <3>3. Headed(s)
      BY DEF HeadedInv
    <3> HIDE DEF s, t
    <3>4. Headed(t)
      BY <3>1, <3>2, <3>3 DEF Headed
    <3> QED
      BY <3>4 DEF t, Headed
  <2>4. ASSUME run'[w].pc # "insert", NEW f \in Files
        PROVE  Headed(DocsOf(f))'
    <3>1. BatchOf(run'[w], f) = {}
      BY <2>2, <2>4 DEF BatchOf
    <3> QED
      BY <2>3, <3>1 DEF Headed
  <2> QED
    BY <2>2, <2>3, <2>4 DEF HeadedInv, Headed
<1>8. ASSUME Environment
      PROVE  HeadedInv(w)'
  <2>1. UNCHANGED <<db, run>>
    BY <1>8 DEF Environment, Edit, Unlink, Chmod, handleDeleteContext, Crash
  <2> QED
    BY <2>1, HeadedKept
<1>9. CASE UNCHANGED vars
  BY <1>9, HeadedKept DEF vars
<1> QED
  BY <1>1, <1>2, <1>3, <1>4, <1>5, <1>6, <1>7, <1>8, <1>9, WatcherStaysIdle
     DEF Next, Indexing, OnlyWriter

\* With one indexer writing, cleanupStaleFiles finds whatever there is of a file
\* that is gone: no chunk is stored without the file_meta record it looks for.
\* Runs may panic, embeddings fail, deletes be refused and old content come back.
THEOREM NoOrphans ==
    ASSUME NEW w, OnlyWriter(w), Env \cap {"clear", "crash", "insert"} = {}
    PROVE  Spec => []NoOrphanChunks
<1> DEFINE Inv == TypeOK /\ WatcherIdle /\ OncePerPath(run[w]) /\ HeadedInv(w)
<1>1. Init => Inv
  <2> SUFFICES ASSUME Init PROVE Inv
    OBVIOUS
  <2>1. run[w] = idleRun /\ db = {}
    BY DEF Init, OnlyWriter
  <2>2. OncePerPath(idleRun) /\ WatcherIdle
    BY DEF OncePerPath, idleRun, BatchOf, Init, WatcherIdle, nothingPending
  <2>3. HeadedInv(w)
    BY <2>1 DEF HeadedInv, Headed, DocsOf, BatchOf, idleRun
  <2> QED
    BY <2>1, <2>2, <2>3, InitType
<1>2. Inv /\ [Next]_vars => Inv'
  <2> SUFFICES ASSUME Inv, [Next]_vars PROVE Inv'
    OBVIOUS
  <2>1. WatcherIdle'
    BY WatcherStaysIdle DEF OnlyWriter
  <2> QED
    BY <2>1, NextType, OnceStep, HeadedStep
<1>3. Inv => NoOrphanChunks
  <2> SUFFICES ASSUME Inv, NEW d \in Chunks, ~InFlight(d.path)
               PROVE  MetaHash(d.path) # NoMeta
    BY DEF NoOrphanChunks
  <2>1. d.path \in Files /\ d \in DocsOf(d.path) /\ d.idx # Meta
    BY DEF Chunks, TypeOK, Doc, DocsOf
  <2>2. BatchOf(run[w], d.path) = {}
    BY DEF InFlight, BatchOf, OnlyWriter
  <2>3. \E e \in DocsOf(d.path) : e.idx = Meta
    BY <2>1, <2>2 DEF HeadedInv, Headed
  <2>4. \A e \in DocsOf(d.path) : e.hash # NoMeta
    BY MaxVersionAssumption DEF DocsOf, TypeOK, Doc, Hashes, NoMeta
  <2> QED
    BY <2>3, <2>4 DEF MetaHash
<1> QED
  BY <1>1, <1>2, <1>3, PTL DEF Spec

-----------------------------------------------------------------------------
(* The project's status. *)

\* Where every run is a worker's and status writes are not lost, the last run
\* to end has the last word, with success, an error or its panic: though runs
\* overlap, files change and delete_context takes the status away.
THEOREM StatusSettles ==
    ASSUME Indexers \subseteq Workers, Env \cap {"crash", "query"} = {}
    PROVE  Spec => []SettledStatus
<1> DEFINE Unsettled == {"initializing", "scanning", "indexing"}
<1>1. Init => TypeOK /\ SettledStatus
  BY InitType DEF Init, SettledStatus
<1>2. ASSUME TypeOK, SettledStatus, [Next]_vars PROVE SettledStatus'
  <2>1. ASSUME NEW old, NEW new, NEW s \in StatusAfter(old, new) PROVE s \in {new, "none"}
    BY <2>1 DEF StatusAfter
  <2>2. ASSUME UNCHANGED run, status' \in {status, "none"} PROVE SettledStatus'
    BY <1>2, <2>2 DEF SettledStatus
  <2>3. ASSUME NEW r \in Indexers, run'[r].pc # "idle" PROVE SettledStatus'
    BY <2>3 DEF SettledStatus
  <2>4. ASSUME status' \notin Unsettled PROVE SettledStatus'
    BY <2>4 DEF SettledStatus
  <2>5. ASSUME NEW r \in Indexers, Indexing(r) PROVE SettledStatus'
    <3>1. run \in [Indexers -> Run] /\ run[r] \in Run
      BY <1>2 DEF TypeOK
    <3>2. CASE processPath(r)
      BY <2>3, <3>1, <3>2 DEF processPath, become, Run
    <3>3. CASE recoverPanic(r)
      BY <2>1, <2>4, <3>3 DEF recoverPanic, SetStatus
    <3>4. CASE ScanFiles(r)
      <4>1. CASE become(r, [run[r] EXCEPT !.pc = "map", !.listed = {f \in Files : disk[f] # 0}])
        BY <2>3, <3>1, <4>1 DEF become, Run
      <4>2. CASE \E s : status' \in StatusAfter(s, "error")
        BY <2>1, <2>4, <4>2
      <4> QED
        BY <3>4, <4>1, <4>2 DEF ScanFiles
    <3>5. CASE ReadMapping(r)
      BY <2>3, <3>1, <3>5 DEF ReadMapping, become, Run
    <3>6. CASE discoverFilesToIndex(r)
      <4>1. ASSUME NEW f \in Files,
                   NEW tasks \in SUBSET Files,
                   become(r, [run[r] EXCEPT !.todo = @ \ {f}, !.hashes[f] = disk[f],
                                            !.tasks = tasks])
            PROVE  SettledStatus'
        <5> DEFINE x == [run[r] EXCEPT !.todo = @ \ {f}, !.hashes[f] = disk[f], !.tasks = tasks]
        <5>1. x.pc = run[r].pc
          BY <3>1 DEF Run
        <5>2. run'[r] = x
          BY <3>1, <4>1 DEF become
        <5> HIDE DEF x
        <5> QED
          BY <2>3, <3>6, <5>1, <5>2 DEF discoverFilesToIndex
      <4>2. CASE become(r, [run[r] EXCEPT !.pc = "clean", !.todo = Stale(r)])
        BY <2>3, <3>1, <4>2 DEF become, Run
      <4>3. \A f \in run[r].todo :
              f \in Files /\ (IF run[r].mapping[f] = disk[f] THEN run[r].tasks
                                ELSE run[r].tasks \cup {f}) \in SUBSET Files
        BY <3>1, RunFields
      <4> QED
        BY <3>6, <4>1, <4>2, <4>3 DEF discoverFilesToIndex
    <3>7. CASE cleanupStaleFiles(r)
      BY <2>3, <3>1, <3>7 DEF cleanupStaleFiles, become, Run
    <3>8. CASE startProcessing(r)
      BY <2>3, <3>1, <3>8 DEF startProcessing, become, Run
    <3>9. CASE processTask(r)
      BY <2>3, <3>1, <3>9 DEF processTask, become, Run
    <3>10. CASE collectResult(r)
      BY <2>3, <3>1, <3>10 DEF collectResult, become, Run
    <3>11. CASE finalFlush(r)
      BY <2>3, <3>1, <3>11 DEF finalFlush, become, Run
    <3>12. CASE Insert(r)
      <4>1. ASSUME NEW d, NEW new \in {"collect", "insert"},
                   become(r, [run[r] EXCEPT !.batch = @ \ {d}, !.pc = new])
            PROVE  SettledStatus'
        BY <2>3, <3>1, <4>1 DEF become, Run
      <4>2. CASE become(r, [run[r] EXCEPT !.batch = {}, !.pc = "collect"])
        BY <2>3, <3>1, <4>2 DEF become, Run
      <4> QED
        BY <3>12, <4>1, <4>2 DEF Insert
    <3>13. CASE complete(r)
      BY <2>1, <2>4, <3>13 DEF complete, finalStatus, SetStatus
    <3> QED
      BY <2>5, <3>2, <3>3, <3>4, <3>5, <3>6, <3>7, <3>8, <3>9, <3>10, <3>11, <3>12, <3>13
      DEF Indexing
  <2>6. CASE Watching
    BY <2>2, <2>6 DEF Watching, IndexSingleFile, DeleteByPrefix, processPending,
                      watchProcessFile, watchDelete, watchInsert
  <2>7. CASE Environment
    BY <2>2, <2>7 DEF Environment, Edit, Unlink, Chmod, handleDeleteContext, Crash
  <2>8. CASE UNCHANGED vars
    BY <2>2, <2>8 DEF vars
  <2> QED
    BY <1>2, <2>5, <2>6, <2>7, <2>8 DEF Next
<1>3. TypeOK /\ SettledStatus /\ [Next]_vars => (TypeOK /\ SettledStatus)'
  BY <1>2, NextType
<1> QED
  BY <1>1, <1>3, PTL DEF Spec
-----------------------------------------------------------------------------
(* A run that reports "Completed" has done what it had to. *)

\* A file that has moved on from a hash does not come back to it.
LEMMA MovedStays ==
    ASSUME TypeOK, FreshInv, "revert" \notin Env, [Next]_vars,
           NEW f \in Files, NEW h \in Hashes, h <= last[f], disk[f] = 0 \/ disk[f] # h
    PROVE  disk'[f] = 0 \/ disk'[f] # h
<1>1. CASE UNCHANGED disk
  BY <1>1
<1>2. ASSUME NEW g \in Files, Edit(g)
      PROVE  disk'[f] = 0 \/ disk'[f] # h
  <2>1. disk' = [disk EXCEPT ![g] = last[g] + 1]
    BY <1>2 DEF Edit
  <2>2. last[f] \in Nat /\ h \in Nat
    BY MaxVersionAssumption DEF TypeOK, Hashes
  <2> QED
    BY <2>1, <2>2 DEF TypeOK
<1>3. ASSUME NEW g \in Files, Unlink(g)
      PROVE  disk'[f] = 0 \/ disk'[f] # h
  BY <1>3 DEF Unlink, TypeOK
<1>6. ASSUME NEW g \in Files, Chmod(g)
      PROVE  UNCHANGED disk
  BY <1>6 DEF Chmod
<1>4. ASSUME NEW r \in Indexers, Indexing(r)
      PROVE  UNCHANGED disk
  BY <1>4 DEF Indexing, processPath, recoverPanic, ScanFiles, ReadMapping,
              discoverFilesToIndex, cleanupStaleFiles, startProcessing, processTask,
              collectResult, finalFlush, Insert, complete
<1>5. ASSUME Watching
      PROVE  UNCHANGED disk
  BY <1>5 DEF Watching, IndexSingleFile, DeleteByPrefix, processPending,
              watchProcessFile, watchDelete, watchInsert
<1> QED
  BY <1>1, <1>2, <1>3, <1>4, <1>5, <1>6
     DEF Next, Environment, handleDeleteContext, Crash, vars

\* The file_meta record of a whole set has the hash GetPathHashMapping reads.
LEMMA WholeMapping ==
    ASSUME NEW f \in Files, Whole(f, DocsOf(f))
    PROVE  /\ MetaHash(f) # NoMeta
           /\ createFileMetaRecord(f, MetaHash(f)) \in DocsOf(f)
           /\ \A h : createFileMetaRecord(f, h) \in DocsOf(f) => h = MetaHash(f)
<1>1. PICK v \in Versions, h \in Hashes : DocsOf(f) = prepareRecords(f, v, h, TextsOf(v))
  BY DEF Whole
<1>2. DocsOf(f) = {createChunkRecord(f, v, h, k, k) : k \in TextsOf(v)}
                    \cup {createFileMetaRecord(f, h)}
  BY <1>1, WholeRecords
<1>3. \A k \in TextsOf(v) : createChunkRecord(f, v, h, k, k).idx # Meta
  BY ChunkCountAssumption DEF TextsOf, Meta, createChunkRecord
<1>4. \A g : /\ createFileMetaRecord(f, g).idx = Meta
             /\ createFileMetaRecord(f, g).hash = g
  BY DEF createFileMetaRecord
<1>5. \A d \in DocsOf(f) : d.idx = Meta => d = createFileMetaRecord(f, h)
  BY <1>2, <1>3
<1>6. MetaHash(f) = h
  BY <1>2, <1>4, <1>5 DEF MetaHash
<1>7. h # NoMeta
  BY MaxVersionAssumption DEF Hashes, NoMeta
<1> QED
  BY <1>2, <1>4, <1>5, <1>6, <1>7

LEMMA DueStep ==
    ASSUME NEW w, OnlyWriter(w), Env \subseteq {"scan"}, TypeOK, TypeOK', FreshInv,
           WatcherIdle, OncePerPath(run[w]), WholeInv(w), DueInv(w), [Next]_vars
    PROVE  DueInv(w)'
<1> DEFINE old == run[w]
           new == run'[w]
<1>a. /\ w \in Indexers /\ old \in Run /\ run \in [Indexers -> Run]
      /\ Indexers = {w} /\ "watch" \notin Env /\ "revert" \notin Env /\ "query" \notin Env
      /\ "panic" \notin Env /\ "insert" \notin Env
  BY DEF OnlyWriter, TypeOK
\* A step that leaves the store and the run alone but for a few of its fields.
<1>b. ASSUME NEW f \in Files, NEW h \in Hashes, h <= last[f], disk[f] = 0 \/ disk[f] # h
      PROVE  disk'[f] = 0 \/ disk'[f] # h
  BY <1>a, <1>b, MovedStays
<1>c. \A f \in Files : old.hashes[f] \in Hashes /\ old.hashes[f] <= last[f]
  BY <1>a DEF Run, FreshInv, FreshRun
<1>d. ASSUME NEW f \in Files, Moved(old, f), new.hashes = old.hashes
      PROVE  Moved(old, f)'
  BY <1>b, <1>c, <1>d DEF Moved
\* Outside of Working nothing is owed.
<1>1. ASSUME processPath(w) \/ ScanFiles(w) \/ complete(w)
      PROVE  DueInv(w)'
  <2>1. CASE processPath(w)
    BY <2>1, <1>a DEF processPath, become, Run, DueInv, Working
  <2>2. CASE become(w, [old EXCEPT !.pc = "map", !.listed = {f \in Files : disk[f] # 0}])
    BY <2>2, <1>a DEF become, Run, DueInv, Working
  <2>3. CASE become(w, idleRun)
    BY <2>3, <1>a DEF become, idleRun, DueInv, Working
  <2> QED
    BY <1>1, <2>1, <2>2, <2>3 DEF ScanFiles, complete, returned
<1>2. ASSUME ReadMapping(w)
      PROVE  DueInv(w)'
  <2>1. /\ new.pc = "discover" /\ new.mapping = GetPathHashMapping
        /\ new.todo = old.listed /\ new.listed = old.listed /\ new.tasks = old.tasks
        /\ new.results = old.results /\ new.batch = old.batch
    BY <1>2, <1>a DEF ReadMapping, become, Run
  <2>2. db' = db /\ new.tasks = {} /\ new.results = {} /\ new.batch = {}
    BY <1>2, <2>1 DEF ReadMapping, OncePerPath
  <2>3. GetPathHashMapping' = GetPathHashMapping
    BY <2>2 DEF GetPathHashMapping, MetaHash, DocsOf
  <2>4. \A f : BatchOf(new, f) = {}
    BY <2>2 DEF BatchOf
  <2> QED
    BY <2>1, <2>2, <2>3, <2>4 DEF DueInv
<1>3. ASSUME discoverFilesToIndex(w)
      PROVE  DueInv(w)'
  <2>0. /\ old.pc = "discover" /\ db' = db /\ disk' = disk /\ UNCHANGED last
        /\ old.mapping = GetPathHashMapping /\ old.todo \subseteq old.listed
        /\ old.results = {} /\ old.batch = {} /\ old.listed \subseteq Files
        /\ old.tasks \subseteq old.listed
    BY <1>3, <1>a DEF discoverFilesToIndex, DueInv, OncePerPath, Run, Working
  <2>a. /\ GetPathHashMapping' = GetPathHashMapping /\ \A f : DocsOf(f)' = DocsOf(f)
        /\ \A f : MetaHash(f)' = MetaHash(f)
    BY <2>0 DEF GetPathHashMapping, MetaHash, DocsOf
  <2>b. \A f : BatchOf(old, f) = {}
    BY <2>0 DEF BatchOf
  <2>c. \A f \in Files : DocsOf(f) = {} \/ Whole(f, DocsOf(f))
    BY <2>b DEF WholeInv
  <2>1. ASSUME NEW f \in old.todo, NEW tasks \in SUBSET Files,
               tasks = IF old.mapping[f] = disk[f] THEN old.tasks ELSE old.tasks \cup {f},
               become(w, [old EXCEPT !.todo = @ \ {f}, !.hashes[f] = disk[f], !.tasks = tasks])
        PROVE  DueInv(w)'
    <3>1. /\ new.pc = "discover" /\ new.mapping = old.mapping /\ new.listed = old.listed
          /\ new.todo = old.todo \ {f} /\ new.tasks = tasks
          /\ new.hashes = [old.hashes EXCEPT ![f] = disk[f]]
          /\ new.results = {} /\ new.batch = {}
      BY <1>a, <2>0, <2>1 DEF become, Run
    <3>2. f \in Files /\ old.hashes \in [Files -> Hashes]
      BY <1>a, <2>0 DEF Run
    <3>3. \A g : BatchOf(new, g) = {}
      BY <3>1 DEF BatchOf
    <3>4. Handled(old, f)'
      <4>1. CASE f \in tasks
        BY <3>1, <4>1 DEF Handled
      <4>2. CASE f \notin tasks
        <5>1. MetaHash(f) = disk[f] /\ disk[f] \in Hashes
          BY <2>0, <2>1, <3>2, <4>2 DEF GetPathHashMapping, TypeOK
        <5>2. MetaHash(f) # NoMeta
          BY <5>1, MaxVersionAssumption DEF Hashes, NoMeta
        <5>3. DocsOf(f) # {}
          BY <5>2 DEF MetaHash
        <5>4. createFileMetaRecord(f, disk[f]) \in DocsOf(f)
          BY <2>c, <3>2, <5>1, <5>3, WholeMapping
        <5>5. new.hashes[f] = disk[f]
          BY <3>1, <3>2
        <5> QED
          BY <2>a, <5>4, <5>5 DEF Handled
      <4> QED
        BY <4>1, <4>2
    <3>5. ASSUME NEW g \in old.listed, g # f, g \notin old.todo
          PROVE  Handled(old, g)'
      <4>1. Handled(old, g)
        BY <2>0, <3>5 DEF DueInv, Working
      <4>2. new.hashes[g] = old.hashes[g] /\ g \in Files
        BY <2>0, <3>1, <3>2, <3>5
      <4>3. g \in old.tasks => g \in new.tasks
        BY <2>1, <3>1
      <4> QED
        BY <2>0, <2>a, <2>b, <4>1, <4>2, <4>3 DEF Handled, Moved
    <3>6. \A g \in new.listed : Handled(old, g)' \/ g \in new.todo
      BY <3>1, <3>4, <3>5
    <3>7. new.tasks \subseteq new.listed /\ new.todo \subseteq new.listed
      BY <2>0, <2>1, <3>1
    <3> QED
      BY <2>0, <2>a, <3>1, <3>3, <3>6, <3>7 DEF DueInv, Working
  <2>2. CASE old.todo = {} /\ become(w, [old EXCEPT !.pc = "clean", !.todo = Stale(w)])
    <3>1. /\ new.pc = "clean" /\ new.listed = old.listed /\ new.todo = Stale(w)
          /\ new.tasks = old.tasks /\ new.hashes = old.hashes
          /\ new.results = {} /\ new.batch = {}
      BY <1>a, <2>0, <2>2 DEF become, Run
    <3>2. \A g : BatchOf(new, g) = {}
      BY <3>1 DEF BatchOf
    <3>3. ASSUME NEW g \in Files \ old.listed, DocsOf(g) # {}
          PROVE  g \in Stale(w)
      BY <2>0, <2>c, <3>3, WholeMapping DEF Stale, GetPathHashMapping
    <3>4. \A g \in old.listed : Handled(old, g)
      BY <2>0, <2>2 DEF DueInv, Working
    <3>5. \A g \in old.listed : Handled(old, g)'
      BY <2>0, <2>a, <2>b, <3>1, <3>2, <3>4 DEF Handled, Moved
    <3>6. new.todo \cap new.listed = {}
      BY <3>1 DEF Stale
    <3> QED
      BY <2>0, <2>a, <3>1, <3>2, <3>3, <3>5, <3>6 DEF DueInv, Working
  <2>3. CASE \E f \in old.todo :
               become(w, [old EXCEPT !.todo = @ \ {f}, !.hashes[f] = disk[f],
                                     !.tasks = IF old.mapping[f] = disk[f]
                                               THEN @ ELSE @ \cup {f}])
    <3>1. PICK f \in old.todo :
               become(w, [old EXCEPT !.todo = @ \ {f}, !.hashes[f] = disk[f],
                                     !.tasks = IF old.mapping[f] = disk[f]
                                               THEN @ ELSE @ \cup {f}])
      BY <2>3
    <3> DEFINE tasks == IF old.mapping[f] = disk[f] THEN old.tasks ELSE old.tasks \cup {f}
    <3>2. tasks \in SUBSET Files
      BY <2>0
    <3>3. become(w, [old EXCEPT !.todo = @ \ {f}, !.hashes[f] = disk[f], !.tasks = tasks])
      BY <3>1
    <3> QED
      BY <2>1, <3>2, <3>3
  <2> QED
    BY <1>3, <2>2, <2>3 DEF discoverFilesToIndex
<1>4. ASSUME cleanupStaleFiles(w)
      PROVE  DueInv(w)'
  <2>1. PICK f \in old.todo, partial \in BOOLEAN :
            /\ become(w, [old EXCEPT !.todo = @ \ {f}, !.partial = partial])
            /\ db' \in DeleteOutcomes(f)
    <3>1. old.partial \in BOOLEAN
      BY <1>a DEF Run
    <3> QED
      BY <1>4, <3>1 DEF cleanupStaleFiles
  <2>0. old.pc = "clean" /\ disk' = disk
    BY <1>4 DEF cleanupStaleFiles
  <2>a. old.results = {} /\ old.batch = {} /\ old.listed \subseteq Files
    BY <2>0, <1>a DEF Run, OncePerPath
  <2> DEFINE x == [old EXCEPT !.todo = @ \ {f}, !.partial = partial]
  <2>b. /\ x.pc = old.pc /\ x.listed = old.listed
        /\ x.todo = old.todo \ {f} /\ x.tasks = old.tasks /\ x.hashes = old.hashes
        /\ x.results = old.results /\ x.batch = old.batch
    BY <1>a DEF Run
  <2>c. new = x
    BY <1>a, <2>1 DEF become
  <2> HIDE DEF x
  <2>2. /\ old.pc = "clean" /\ new.pc = "clean" /\ new.listed = old.listed
        /\ new.todo = old.todo \ {f} /\ new.tasks = old.tasks /\ new.hashes = old.hashes
        /\ new.results = {} /\ new.batch = {} /\ disk' = disk
        /\ old.listed \subseteq Files
    BY <2>0, <2>a, <2>b, <2>c
  <2>3. DocsOf(f)' = {} /\ \A g : g # f => DocsOf(g)' = DocsOf(g)
    BY <1>a, <2>1, DeleteEmpties
  <2>4. \A g : BatchOf(new, g) = {} /\ BatchOf(old, g) = {}
    BY <1>4, <2>2 DEF BatchOf, OncePerPath
  <2>5. f \notin old.listed
    BY <2>1, <2>2 DEF DueInv
  <2>6. \A g \in old.listed : Handled(old, g)'
    <3> SUFFICES ASSUME NEW g \in old.listed PROVE Handled(old, g)'
      OBVIOUS
    <3>1. Handled(old, g) /\ g # f
      BY <2>2, <2>5 DEF DueInv, Working
    <3>2. old.results = {}
      BY <2>2 DEF OncePerPath
    <3> QED
      BY <2>2, <2>3, <2>4, <3>1, <3>2 DEF Handled, Moved
  <2>7. \A g \in Files \ old.listed : DocsOf(g)' = {} \/ g \in new.todo
    BY <2>2, <2>3 DEF DueInv, Working
  <2>8. new.todo \cap new.listed = {} /\ new.tasks \subseteq new.listed
    BY <2>2 DEF DueInv, Working
  <2> QED
    BY <2>2, <2>4, <2>6, <2>7, <2>8 DEF DueInv, Working
<1>5. ASSUME startProcessing(w) \/ finalFlush(w)
      PROVE  DueInv(w)'
  <2>1. /\ new.pc \in {"collect", "insert"} /\ new.listed = old.listed
        /\ new.tasks = old.tasks /\ new.hashes = old.hashes
        /\ new.results = old.results /\ new.batch = old.batch
        /\ old.pc \in {"clean", "collect"} /\ (old.pc = "clean" => old.todo = {})
    BY <1>5, <1>a DEF startProcessing, finalFlush, become, Run
  <2>2. disk' = disk /\ db' = db
    BY <1>5 DEF startProcessing, finalFlush
  <2>3. \A g : DocsOf(g)' = DocsOf(g) /\ BatchOf(new, g) = BatchOf(old, g)
    BY <2>1, <2>2 DEF DocsOf, BatchOf
  <2>4. \A g : (Handled(old, g)' <=> Handled(old, g)) /\ (Moved(old, g)' <=> Moved(old, g))
    BY <2>1, <2>2, <2>3 DEF Handled, Moved
  <2> QED
    BY <2>1, <2>3, <2>4 DEF DueInv, Working
<1>6. ASSUME processTask(w)
      PROVE  DueInv(w)'
  <2>1. PICK f \in old.tasks : \E res \in ProcessFile(f, old.hashes[f]) :
            become(w, [old EXCEPT !.tasks = @ \ {f}, !.results = @ \cup {res}])
    BY <1>6 DEF processTask
  <2>2. PICK res \in ProcessFile(f, old.hashes[f]) :
            become(w, [old EXCEPT !.tasks = @ \ {f}, !.results = @ \cup {res}])
    BY <2>1
  <2>3. /\ new.pc = old.pc /\ new.pc \in {"collect", "insert"} /\ new.listed = old.listed
        /\ new.tasks = old.tasks \ {f} /\ new.results = old.results \cup {res}
        /\ new.batch = old.batch /\ new.hashes = old.hashes
    BY <1>6, <1>a, <2>2 DEF processTask, become, Run
  <2>4. disk' = disk /\ db' = db
    BY <1>6 DEF processTask
  <2>5. \A g : DocsOf(g)' = DocsOf(g) /\ BatchOf(new, g) = BatchOf(old, g)
    BY <2>3, <2>4 DEF DocsOf, BatchOf
  <2>6. f \in old.listed /\ f \in Files
    BY <1>a, <2>3 DEF DueInv, Working, Run
  <2>7. /\ res.path = f
        /\ IF res.indexed THEN createFileMetaRecord(f, old.hashes[f]) \in res.docs
                          ELSE Moved(old, f)
    BY <1>a DEF ProcessFile, prepareRecords, Moved
  <2>8. \A g : /\ Moved(old, g)' <=> Moved(old, g)
               /\ Handled(old, g) => Handled(old, g)'
    BY <2>3, <2>4, <2>5, <2>7 DEF Handled, Moved
  <2> QED
    BY <2>3, <2>5, <2>6, <2>7, <2>8 DEF DueInv, Working
<1>7. ASSUME collectResult(w)
      PROVE  DueInv(w)'
  <2>1. PICK res \in old.results, pc \in {"insert", "collect"} :
            /\ become(w, [old EXCEPT !.results = @ \ {res},
                                     !.batch = old.batch \cup res.docs, !.pc = pc])
            /\ db' \in IF res.indexed THEN DeleteOutcomes(res.path) ELSE {db}
    BY <1>7 DEF collectResult
  <2>2. /\ new.pc = pc /\ new.listed = old.listed /\ new.tasks = old.tasks
        /\ new.results = old.results \ {res} /\ new.batch = old.batch \cup res.docs
        /\ new.hashes = old.hashes /\ old.pc = "collect" /\ disk' = disk
    BY <1>7, <1>a, <2>1 DEF become, Run, collectResult
  <2> DEFINE f == res.path
  <2>3. /\ BatchOf(old, f) = {} /\ \A d \in res.docs : res.indexed /\ d.path = f
        /\ f \in old.listed
        /\ IF res.indexed THEN createFileMetaRecord(f, old.hashes[f]) \in res.docs
                          ELSE Moved(old, f)
    BY <2>1, <2>2 DEF OncePerPath, DueInv, Working
  <2>4. \A g : g # f => BatchOf(new, g) = BatchOf(old, g) /\ DocsOf(g)' = DocsOf(g)
    <3>1. \A g : g # f => BatchOf(new, g) = BatchOf(old, g)
      BY <2>2, <2>3 DEF BatchOf
    <3>2. CASE res.indexed
      BY <1>a, <2>1, <3>1, <3>2, DeleteEmpties
    <3>3. CASE ~res.indexed
      BY <2>1, <3>1, <3>3 DEF DocsOf
    <3> QED
      BY <3>2, <3>3
  <2>5. Handled(old, f)'
    <3>1. CASE res.indexed
      <4>1. createFileMetaRecord(f, old.hashes[f]) \in BatchOf(new, f)
        BY <2>2, <2>3, <3>1 DEF BatchOf, createFileMetaRecord
      <4> QED
        BY <2>2, <4>1 DEF Handled
    <3>2. CASE ~res.indexed
      BY <2>2, <2>3, <3>2 DEF Handled, Moved
    <3> QED
      BY <3>1, <3>2
  <2>6. \A g : /\ Moved(old, g)' <=> Moved(old, g)
               /\ g # f /\ Handled(old, g) => Handled(old, g)'
    BY <2>2, <2>4 DEF Handled, Moved
  <2>7. \A g \in Files \ old.listed : BatchOf(new, g) = {} /\ DocsOf(g)' = {}
    BY <2>2, <2>3, <2>4 DEF DueInv, Working
  <2>8. \A g \in old.listed : Handled(old, g)'
    BY <2>2, <2>5, <2>6 DEF DueInv, Working
  <2> QED
    BY <2>2, <2>6, <2>7, <2>8 DEF DueInv, Working
<1>8. ASSUME Insert(w)
      PROVE  DueInv(w)'
  <2>1. PICK d \in old.batch :
            /\ db' = AddDocument(d)
            /\ become(w, [old EXCEPT !.batch = @ \ {d},
                                     !.pc = IF old.batch = {d} THEN "collect" ELSE "insert"])
    BY <1>8, <1>a DEF Insert
  <2>2. /\ new.pc \in {"collect", "insert"} /\ new.listed = old.listed
        /\ new.tasks = old.tasks /\ new.results = old.results
        /\ new.batch = old.batch \ {d} /\ new.hashes = old.hashes
        /\ old.pc = "insert" /\ disk' = disk
    BY <1>8, <1>a, <2>1 DEF become, Run, Insert
  <2>3. d \in Doc /\ d.path \in Files /\ d \in BatchOf(old, d.path)
    BY <1>a DEF Run, Doc, BatchOf
  <2>4. Whole(d.path, DocsOf(d.path) \cup BatchOf(old, d.path))
    BY <2>3 DEF WholeInv
  <2>5. \A e \in db : SameId(d, e) => e = d
    <3> SUFFICES ASSUME NEW e \in db, SameId(d, e)
                 PROVE  e = d
      OBVIOUS
    <3>1. e \in DocsOf(d.path)
      BY DEF DocsOf, SameId
    <3> QED
      BY <2>3, <2>4, <3>1, WholeIds
  <2>6. db' = db \cup {d}
    BY <2>1, <2>5 DEF AddDocument
  <2>7. \A g : /\ DocsOf(g)' \cup BatchOf(new, g) = DocsOf(g) \cup BatchOf(old, g)
               /\ g # d.path => DocsOf(g)' = DocsOf(g)
               /\ BatchOf(new, g) \subseteq BatchOf(old, g)
    BY <2>2, <2>6 DEF DocsOf, BatchOf
  <2>8. \A g : (Handled(old, g)' <=> Handled(old, g)) /\ (Moved(old, g)' <=> Moved(old, g))
    BY <2>2, <2>7 DEF Handled, Moved
  <2>9. \A g \in Files \ old.listed :
            BatchOf(old, g) = {} /\ g # d.path /\ DocsOf(g) = {}
    BY <2>2, <2>3 DEF DueInv, Working
  <2> QED
    BY <2>2, <2>7, <2>8, <2>9 DEF DueInv, Working
<1>9. ASSUME UNCHANGED <<db, run>>
      PROVE  DueInv(w)'
  <2>1. /\ new = old /\ GetPathHashMapping' = GetPathHashMapping
        /\ \A g : DocsOf(g)' = DocsOf(g)
    BY <1>9 DEF GetPathHashMapping, MetaHash, DocsOf
  <2>2. old.listed \subseteq Files /\ old.results \subseteq Result
    BY <1>a DEF Run
  <2>3. \A g \in Files : Handled(old, g) => Handled(old, g)'
    BY <1>d, <2>1 DEF Handled
  <2>4. \A res \in old.results : Moved(old, res.path) => Moved(old, res.path)'
    BY <1>d, <2>1, <2>2 DEF Result
  <2> QED
    BY <2>1, <2>2, <2>3, <2>4 DEF DueInv
<1>10. ASSUME Environment
       PROVE  UNCHANGED <<db, run>>
  BY <1>10, <1>a DEF Environment, Edit, Unlink, Chmod, handleDeleteContext, Crash
<1> QED
  BY <1>1, <1>2, <1>3, <1>4, <1>5, <1>6, <1>7, <1>8, <1>9, <1>10, <1>a, WatcherStaysIdle
     DEF Next, Indexing, recoverPanic, vars

\* What complete finds: nothing is on its way any more.
LEMMA DueComplete ==
    ASSUME NEW w, OnlyWriter(w), TypeOK, FreshInv, WholeInv(w), DueInv(w), complete(w),
           NEW f \in Files
    PROVE  IF f \in run[w].listed
           THEN disk[f] # 0 /\ run[w].hashes[f] = disk[f] => DocsOf(f) = Complete(f, disk[f])
           ELSE DocsOf(f) = {}
<1> DEFINE x == run[w]
<1>1. x.pc = "collect" /\ x.tasks = {} /\ x.results = {} /\ BatchOf(x, f) = {}
  BY DEF complete, drained, batchLeft, BatchOf
<1>2. CASE f \notin x.listed
  BY <1>1, <1>2 DEF DueInv, Working
<1>3. ASSUME f \in x.listed, disk[f] # 0, x.hashes[f] = disk[f]
      PROVE  DocsOf(f) = Complete(f, disk[f])
  <2>1. createFileMetaRecord(f, disk[f]) \in DocsOf(f)
    BY <1>1, <1>3 DEF DueInv, Working, Handled, Moved
  <2>2. Whole(f, DocsOf(f))
    BY <1>1, <2>1 DEF WholeInv
  <2>3. FullyIndexed(f)
    BY <1>3, <2>1, <2>2, WholeMapping DEF FullyIndexed
  <2> QED
    BY <2>2, <2>3, WholeMeta
<1> QED
  BY <1>2, <1>3

\* With one indexer, and nothing failing but the walk of the root, a run that
\* says "Completed" leaves the chunks of every file it listed that is still what
\* it hashed, and none of a file it did not list, whatever is edited meanwhile.
THEOREM CompletedIsIndexed ==
    ASSUME NEW w, OnlyWriter(w), Env \subseteq {"scan"}
    PROVE  Spec => CompletedMeansIndexed
<1> DEFINE Inv == /\ TypeOK /\ FreshInv /\ WatcherIdle /\ OncePerPath(run[w])
                  /\ WholeInv(w) /\ DueInv(w)
<1>1. Init => Inv
  <2> SUFFICES ASSUME Init PROVE Inv
    OBVIOUS
  <2>1. run[w] = idleRun /\ db = {}
    BY DEF Init, OnlyWriter
  <2>2. OncePerPath(idleRun) /\ WatcherIdle
    BY DEF OncePerPath, idleRun, BatchOf, Init, WatcherIdle, nothingPending
  <2>3. \A f : DocsOf(f) \cup BatchOf(run[w], f) = {}
    BY <2>1 DEF DocsOf, BatchOf, idleRun
  <2>4. idleRun.results = {} /\ idleRun.pc \notin Working
    BY DEF idleRun, Working
  <2>5. WholeInv(w) /\ DueInv(w)
    BY <2>1, <2>3, <2>4 DEF WholeInv, DueInv, Working
  <2> QED
    BY <2>1, <2>2, <2>5, InitType, InitFresh
<1>2. Inv /\ [Next]_vars => Inv'
  <2> SUFFICES ASSUME Inv, [Next]_vars PROVE Inv'
    OBVIOUS
  <2>1. "watch" \notin Env /\ "revert" \notin Env /\ Env \subseteq {"panic", "scan"}
    OBVIOUS
  <2>2. WatcherIdle' /\ TypeOK'
    BY <2>1, WatcherStaysIdle, NextType
  <2> QED
    BY <2>1, <2>2, NextFresh, OnceStep, WholeStep, DueStep
<1>3. Inv => [\A r \in Indexers : complete(r) =>
                \A f \in Files :
                  IF f \in run[r].listed
                  THEN disk[f] # 0 /\ run[r].hashes[f] = disk[f]
                         => DocsOf(f) = Complete(f, disk[f])
                  ELSE disk[f] = 0 => DocsOf(f) = {}]_vars
  BY DueComplete DEF OnlyWriter
<1> QED
  BY <1>1, <1>2, <1>3, PTL DEF Spec, CompletedMeansIndexed
-----------------------------------------------------------------------------
(* With one indexer, IndexPipeline implements FileIndex. *)

\* A version counts as served only by chunks that hold its text.
ServedIsStored ==
    \A f \in Files : Served(f) = 0 \/
        (Served(f) \in Versions /\ \E d \in DocsOf(f) : d.idx # Meta /\ d.src = Served(f))

LEMMA ServedByChunks == ServedIsStored /\ ServedIsStored'
<1>1. ServedIsStored
  <2> SUFFICES ASSUME NEW f \in Files, Served(f) # 0
               PROVE  /\ Served(f) \in Versions
                      /\ \E d \in DocsOf(f) : d.idx # Meta /\ d.src = Served(f)
    BY DEF ServedIsStored
  <2> DEFINE v == Served(f)
  <2>1. v \in Versions /\ StoredChunks(f) # {} /\ StoredChunks(f) = ServedChunks(f, v)
    BY DEF Served
  <2>2. PICK c \in StoredChunks(f) : c \in ServedChunks(f, v)
    BY <2>1
  <2>3. c.src = v
    BY <2>2 DEF ServedChunks
  <2>4. PICK d \in {e \in db : e.path = f /\ e.idx # Meta} :
            c = [idx |-> d.idx, src |-> d.src, emb |-> d.emb]
    BY DEF StoredChunks
  <2> HIDE DEF v
  <2>5. d \in DocsOf(f) /\ d.idx # Meta /\ d.src = v
    BY <2>3, <2>4 DEF DocsOf
  <2> QED
    BY <2>1, <2>5 DEF v
<1> QED
  BY <1>1, PTL

\* What is served of a file depends on its records only.
LEMMA ServedKept ==
    ASSUME NEW f, DocsOf(f)' = DocsOf(f)
    PROVE  Served(f)' = Served(f)
<1>1. {e \in db : e.path = f /\ e.idx # Meta}' = {e \in db : e.path = f /\ e.idx # Meta}
  <2>1. \A e : e \in db' /\ e.path = f <=> e \in db /\ e.path = f
    BY DEF DocsOf
  <2> QED
    BY <2>1
<1> QED
  BY <1>1 DEF Served, StoredChunks, ServedChunks

LEMMA NothingServed ==
    ASSUME NEW f \in Files, DocsOf(f)' = {}
    PROVE  Served(f)' = 0
BY ServedByChunks DEF ServedIsStored

\* The newest version served of a file is history: it follows from Served.
newestAfter(f) == IF Served(f)' > newest[f] THEN Served(f)' ELSE newest[f]

\* A step after which a file is served as before or not at all is a Withdraw.
LEMMA WithdrawStep ==
    ASSUME NEW w, TypeOK, NewestInv(w), newest' = [f \in Files |-> newestAfter(f)],
           last' = last, \A f \in Files : DocsOf(f)' \in {DocsOf(f), {}}
    PROVE  Abstract!Next /\ newest' = newest
<1>1. \A f \in Files : Served(f)' \in {Served(f), 0}
  BY ServedKept, NothingServed
<1>2. \A f \in Files : newest[f] \in Nat /\ Served(f) \in Nat
  BY MaxVersionAssumption, ServedByChunks DEF NewestInv, Hashes, ServedIsStored, Versions
<1>3. newest' = newest
  <2>1. ASSUME NEW f \in Files PROVE newestAfter(f) = newest[f]
    BY <1>1, <1>2 DEF newestAfter, NewestInv
  <2>2. newest = [f \in Files |-> newest[f]]
    BY DEF NewestInv
  <2> QED
    BY <2>1, <2>2
<1> DEFINE gone == {f \in Files : Served(f)' # Served(f)}
<1>4. \A f \in Files : Served(f)' = IF f \in gone THEN 0 ELSE Served(f)
  BY <1>1
<1>5. \A f \in Files : served[f] = Served(f)
  BY DEF served
<1>6. served' = [f \in Files |-> IF f \in gone THEN 0 ELSE served[f]]
  BY <1>4, <1>5 DEF served
<1>7. Abstract!Withdraw
  <2> HIDE DEF gone
  <2>1. gone \in SUBSET Files
    BY DEF gone
  <2> QED
    BY <1>3, <1>6, <2>1 DEF Abstract!Withdraw
<1> QED
  BY <1>3, <1>7 DEF Abstract!Next

\* A step that changes the records of one file, with no older text than was
\* served, is a Publish or a Withdraw.
LEMMA PublishStep ==
    ASSUME NEW w, TypeOK, TypeOK', NewestInv(w), newest' = [f \in Files |-> newestAfter(f)],
           last' = last, NEW f \in Files, \A g \in Files \ {f} : DocsOf(g)' = DocsOf(g),
           \A d \in DocsOf(f)' : d.idx # Meta => newest[f] <= d.src /\ d.src <= last[f]
    PROVE  /\ Abstract!Next
           /\ \A g \in Files \ {f} : newest'[g] = newest[g]
           /\ \/ newest'[f] = newest[f]
              \/ /\ newest'[f] <= last[f] /\ newest[f] <= newest'[f]
                 /\ newest'[f] = Served(f)' /\ Served(f)' # 0
<1>1. \A g \in Files \ {f} : Served(g)' = Served(g)
  BY ServedKept
<1>2. \A g \in Files : newest[g] \in Nat /\ Served(g) \in Nat /\ Served(g)' \in Nat
  BY MaxVersionAssumption, ServedByChunks DEF NewestInv, Hashes, ServedIsStored, Versions
<1>3. \A g \in Files \ {f} : newest'[g] = newest[g]
  BY <1>1, <1>2 DEF newestAfter, NewestInv
<1>4. \A g \in Files : served[g] = Served(g) /\ served'[g] = Served(g)'
  BY DEF served
<1>5. newest'[f] = newestAfter(f)
  OBVIOUS
<1> DEFINE v == Served(f)'
<1>6. CASE v = 0
  <2>1. newest'[f] = newest[f]
    BY <1>2, <1>5, <1>6 DEF newestAfter
  <2>2. newest' = newest
    BY <1>3, <2>1 DEF NewestInv
  <2>3. served' = [g \in Files |-> IF g \in {f} THEN 0 ELSE served[g]]
    BY <1>1, <1>4, <1>6 DEF served
  <2>4. Abstract!Withdraw
    BY <2>2, <2>3 DEF Abstract!Withdraw
  <2> QED
    BY <1>3, <2>1, <2>4 DEF Abstract!Next
<1>7. CASE v # 0
  <2>1. newest[f] <= v /\ v <= last[f] /\ v \in Versions
    BY <1>7, ServedByChunks DEF ServedIsStored
  <2>2. newest'[f] = v
    BY <1>2, <1>5, <2>1 DEF newestAfter, Versions
  <2>3. newest' = [newest EXCEPT ![f] = v]
    BY <1>3, <2>2 DEF NewestInv
  <2>4. served' = [served EXCEPT ![f] = v]
    BY <1>1, <1>4 DEF served
  <2>5. v \in newest[f] .. last[f]
    BY <1>2, <2>1, MaxVersionAssumption DEF TypeOK, Hashes
  <2>6. Abstract!Publish(f)
    <3> HIDE DEF v
    <3> QED
      BY <1>7, <2>3, <2>4, <2>5 DEF Abstract!Publish
  <2> QED
    BY <1>3, <1>7, <2>1, <2>2, <2>6 DEF Abstract!Next
<1> QED
  BY <1>6, <1>7

\* NewestInv, from what it says of newest and of the records.
LEMMA NewestKept ==
    ASSUME NEW w, TypeOK, TypeOK', NewestInv(w), \A f \in Files : last[f] <= last'[f],
           newest' \in [Files -> Hashes],
           \A f \in Files : Served(f)' <= newest'[f] /\ newest'[f] <= last[f],
           \A d \in db' \cup run'[w].batch : NotOlder(d)',
           \A res \in run'[w].results : \A d \in res.docs : NotOlder(d)'
    PROVE  NewestInv(w)'
<1>1. ASSUME NEW f \in Files PROVE newest'[f] <= last'[f]
  BY MaxVersionAssumption DEF TypeOK, Hashes
<1> QED
  BY <1>1 DEF NewestInv

\* What neither changes the records served nor the files leaves both as they were.
LEMMA ServedSame ==
    ASSUME NEW w, NewestInv(w), newest' = [f \in Files |-> newestAfter(f)],
           \A f \in Files : DocsOf(f)' = DocsOf(f)
    PROVE  served' = served /\ newest' = newest
<1>1. \A f \in Files : Served(f)' = Served(f)
  BY ServedKept
<1>2. \A f \in Files : newest[f] \in Nat /\ Served(f) \in Nat /\ Served(f) <= newest[f]
  BY MaxVersionAssumption, ServedByChunks DEF NewestInv, Hashes, ServedIsStored, Versions
<1>3. \A f \in Files : newestAfter(f) = newest[f]
  BY <1>1, <1>2 DEF newestAfter
<1>4. newest = [f \in Files |-> newest[f]]
  BY DEF NewestInv
<1>5. served' = served
  BY <1>1 DEF served
<1> QED
  BY <1>3, <1>4, <1>5

\* A step that deletes the records of some files and brings in no old text.
LEMMA KeptStep ==
    ASSUME NEW w, TypeOK, TypeOK', NewestInv(w), newest' = [f \in Files |-> newestAfter(f)],
           last' = last, \A f \in Files : DocsOf(f)' \in {DocsOf(f), {}},
           \A d \in run'[w].batch : NotOlder(d),
           \A res \in run'[w].results : \A d \in res.docs : NotOlder(d)
    PROVE  Abstract!Next /\ NewestInv(w)'
<1>1. Abstract!Next /\ newest' = newest
  BY WithdrawStep
<1>2. \A f \in Files : Served(f)' <= newest[f]
  <2>1. \A f \in Files : Served(f)' \in {Served(f), 0}
    BY ServedKept, NothingServed
  <2>2. \A f \in Files : newest[f] \in Nat
    BY MaxVersionAssumption DEF NewestInv, Hashes
  <2> QED
    BY <2>1, <2>2 DEF NewestInv
<1>3. \A d : NotOlder(d)' <=> NotOlder(d)
  BY <1>1 DEF NotOlder
<1>4. db' \subseteq db
  BY DEF DocsOf, TypeOK, Doc
<1>5. \A f \in Files : last[f] <= last'[f]
  BY MaxVersionAssumption DEF TypeOK, Hashes
<1> QED
  BY <1>1, <1>2, <1>3, <1>4, <1>5, NewestKept DEF NewestInv

\* A step that changes the stored records of one file, from its batch or by losing some.
LEMMA OneFileStep ==
    ASSUME NEW w \in Indexers, TypeOK, TypeOK', FreshInv, NewestInv(w), GhostInv(w)',
           newest' = [g \in Files |-> newestAfter(g)], last' = last,
           NEW f \in Files, \A g \in Files \ {f} : DocsOf(g)' = DocsOf(g),
           db' \cup run'[w].batch \subseteq db \cup run[w].batch,
           run'[w].results \subseteq run[w].results,
           \A res \in run'[w].results : \A d \in res.docs : d.path # f
    PROVE  Abstract!Next /\ NewestInv(w)'
<1>1. \A d \in db \cup run[w].batch : NotOlder(d) /\ Stamped(d)
  BY DEF NewestInv, FreshInv, FreshRun
<1>2. \A d \in DocsOf(f)' : d.idx # Meta => newest[f] <= d.src /\ d.src <= last[f]
  BY <1>1 DEF DocsOf, NotOlder, Stamped
<1>3. /\ Abstract!Next
      /\ \A g \in Files \ {f} : newest'[g] = newest[g]
      /\ \/ newest'[f] = newest[f]
         \/ /\ newest'[f] <= last[f] /\ newest[f] <= newest'[f]
            /\ newest'[f] = Served(f)' /\ Served(f)' # 0
  BY <1>2, PublishStep
<1>4. \A g \in Files \ {f} : Served(g)' = Served(g)
  BY ServedKept
<1>5. \A g \in Files : newest[g] \in Nat /\ last[g] \in Nat /\ Served(g)' \in Nat
  BY MaxVersionAssumption, ServedByChunks
     DEF NewestInv, Hashes, ServedIsStored, Versions, TypeOK
<1>6. \A g \in Files : Served(g)' <= newest'[g] /\ newest'[g] <= last[g] /\ newest'[g] \in Nat
  <2>1. ASSUME NEW g \in Files
        PROVE  Served(g)' <= newestAfter(g)
    BY <1>5 DEF newestAfter
  <2>2. ASSUME NEW g \in Files
        PROVE  newest'[g] <= last[g] /\ newest'[g] \in Nat
    BY <1>3, <1>5 DEF NewestInv
  <2> QED
    BY <2>1, <2>2
<1>7. newest' \in [Files -> Hashes]
  BY <1>6, MaxVersionAssumption DEF TypeOK, Hashes
<1>8. ASSUME NEW d \in db' \cup run'[w].batch, d.idx # Meta, newest'[d.path] # newest[d.path]
      PROVE  newest'[d.path] <= d.src
  <2>1. d.path = f
    <3>1. d.path \in Files
      BY DEF TypeOK, Doc, Run
    <3> QED
      BY <1>3, <1>8, <3>1
  <2>2. newest'[f] = Served(f)' /\ Served(f)' # 0
    BY <1>3, <1>8, <2>1
  <2>3. PICK e \in DocsOf(f)' : e.idx # Meta /\ e.src = Served(f)'
    BY <2>2, ServedByChunks DEF ServedIsStored
  <2>4. OneSource(DocsOf(f) \cup BatchOf(run[w], f))'
    BY DEF GhostInv
  <2>5. d \in (DocsOf(f) \cup BatchOf(run[w], f))'
    BY <2>1 DEF DocsOf, BatchOf
  <2>6. d.src = Served(f)'
    BY <1>8, <2>3, <2>4, <2>5 DEF OneSource
  <2> QED
    BY <1>5, <2>1, <2>2, <2>6
<1>9. \A d \in db' \cup run'[w].batch : NotOlder(d)'
  BY <1>1, <1>8 DEF NotOlder
<1>10. ASSUME NEW res \in run'[w].results, NEW d \in res.docs
       PROVE  NotOlder(d)'
  <2>1. NotOlder(d)
    BY DEF NewestInv
  <2>2. d.path \in Files \ {f}
    BY DEF TypeOK, Run, Result, Doc
  <2> QED
    BY <1>3, <2>1, <2>2 DEF NotOlder
<1>11. \A g \in Files : last[g] <= last'[g]
  BY <1>5
<1> QED
  BY <1>3, <1>6, <1>7, <1>9, <1>10, <1>11, NewestKept

\* What a step of the single indexer other than an insert does.
LEMMA RunKept ==
    ASSUME NEW w \in Indexers, TypeOK, TypeOK', FreshInv, NewestInv(w), "query" \notin Env,
           newest' = [f \in Files |-> newestAfter(f)], Indexing(w), ~Insert(w)
    PROVE  Abstract!Next /\ NewestInv(w)'
<1> DEFINE old == run[w]
<1>a. old \in Run /\ run \in [Indexers -> Run]
  BY DEF TypeOK
<1>b. idleRun.batch = {} /\ idleRun.results = {}
  BY DEF idleRun
<1>c. /\ \A d \in old.batch : NotOlder(d)
      /\ \A res \in old.results : \A d \in res.docs : NotOlder(d)
  BY DEF NewestInv
<1>1. \A f : DocsOf(f)' \in {DocsOf(f), {}}
  <2>1. CASE db' = db
    BY <2>1 DEF DocsOf
  <2>2. CASE \E f : db' \in DeleteOutcomes(f)
    BY <2>2, DeleteEmpties
  <2> QED
    BY <2>1, <2>2 DEF Indexing, processPath, recoverPanic, ScanFiles, ReadMapping,
       discoverFilesToIndex, cleanupStaleFiles, startProcessing, processTask, collectResult,
       finalFlush, complete
<1>2. last' = last
  BY DEF Indexing, processPath, recoverPanic, ScanFiles, ReadMapping, discoverFilesToIndex,
         cleanupStaleFiles, startProcessing, processTask, collectResult, finalFlush, complete
<1>3. ASSUME processPath(w) \/ ReadMapping(w) \/ discoverFilesToIndex(w) \/ cleanupStaleFiles(w)
             \/ startProcessing(w) \/ finalFlush(w)
      PROVE  run'[w].results = old.results /\ run'[w].batch = old.batch
  <2>1. ASSUME processPath(w)
        PROVE  run'[w].results = old.results /\ run'[w].batch = old.batch
    BY <1>a, <2>1 DEF processPath, become, Run
  <2>2. ASSUME ReadMapping(w)
        PROVE  run'[w].results = old.results /\ run'[w].batch = old.batch
    BY <1>a, <2>2 DEF ReadMapping, become, Run
  <2>3. ASSUME discoverFilesToIndex(w)
        PROVE  run'[w].results = old.results /\ run'[w].batch = old.batch
    <3>1. ASSUME NEW f, NEW tasks,
                 become(w, [old EXCEPT !.todo = @ \ {f}, !.hashes[f] = disk[f], !.tasks = tasks])
          PROVE  run'[w].results = old.results /\ run'[w].batch = old.batch
      BY <1>a, <3>1 DEF become, Run
    <3>2. CASE become(w, [old EXCEPT !.pc = "clean", !.todo = Stale(w)])
      BY <1>a, <3>2 DEF become, Run
    <3>3. CASE \E f \in old.todo :
                 become(w, [old EXCEPT !.todo = @ \ {f}, !.hashes[f] = disk[f],
                                       !.tasks = IF old.mapping[f] = disk[f]
                                                 THEN @ ELSE @ \cup {f}])
      BY <3>1, <3>3
    <3> QED
      BY <2>3, <3>2, <3>3 DEF discoverFilesToIndex
  <2>4. ASSUME startProcessing(w)
        PROVE  run'[w].results = old.results /\ run'[w].batch = old.batch
    BY <1>a, <2>4 DEF startProcessing, become, Run
  <2>5. ASSUME finalFlush(w)
        PROVE  run'[w].results = old.results /\ run'[w].batch = old.batch
    BY <1>a, <2>5 DEF finalFlush, become, Run
  <2>6. ASSUME cleanupStaleFiles(w)
        PROVE  run'[w].results = old.results /\ run'[w].batch = old.batch
    BY <1>a, <2>6 DEF cleanupStaleFiles, become, Run
  <2> QED
    BY <1>3, <2>1, <2>2, <2>3, <2>4, <2>5, <2>6
<1>4. ASSUME recoverPanic(w) \/ complete(w) \/ ScanFiles(w)
      PROVE  \/ run'[w].results = {} /\ run'[w].batch = {}
             \/ run'[w].results = old.results /\ run'[w].batch = old.batch
  <2>1. ASSUME become(w, idleRun)
        PROVE  run'[w].results = {} /\ run'[w].batch = {}
    BY <1>a, <1>b, <2>1 DEF become
  <2>2. ASSUME become(w, [old EXCEPT !.pc = "map", !.listed = {f \in Files : disk[f] # 0}])
        PROVE  run'[w].results = old.results /\ run'[w].batch = old.batch
    BY <1>a, <2>2 DEF become, Run
  <2> QED
    BY <1>4, <2>1, <2>2 DEF recoverPanic, complete, ScanFiles, returned
<1>5. ASSUME processTask(w)
      PROVE  Abstract!Next /\ NewestInv(w)'
  <2>1. PICK f \in old.tasks : \E res \in ProcessFile(f, old.hashes[f]) :
            become(w, [old EXCEPT !.tasks = @ \ {f}, !.results = @ \cup {res}])
    BY <1>5 DEF processTask
  <2>2. PICK res \in ProcessFile(f, old.hashes[f]) :
            become(w, [old EXCEPT !.tasks = @ \ {f}, !.results = @ \cup {res}])
    BY <2>1
  <2>3. run'[w].results = old.results \cup {res} /\ run'[w].batch = old.batch
    BY <1>a, <2>2 DEF become, Run
  <2>4. f \in Files /\ old.hashes[f] \in Hashes
    BY <1>a DEF Run
  <2>5. \A d \in res.docs : d.path = f
    BY <2>4, ProcessFileDocs
  <2>6. ASSUME NEW d \in res.docs, d.idx # Meta
        PROVE  newest[f] <= d.src
    <3>1. disk[f] # 0 /\ \E done : res.docs = prepareRecords(f, disk[f], old.hashes[f], done)
      BY DEF ProcessFile
    <3>2. d.src = disk[f]
      BY <2>6, <3>1, PrepareRecordsSource
    <3>3. disk[f] = last[f]
      BY <2>4, <3>1 DEF FreshInv
    <3> QED
      BY <2>4, <3>2, <3>3 DEF NewestInv
  <2>7. \A d \in res.docs : NotOlder(d)
    BY <2>5, <2>6 DEF NotOlder
  <2> QED
    BY <1>1, <1>2, <1>c, <2>3, <2>7, KeptStep
<1>6. ASSUME collectResult(w)
      PROVE  Abstract!Next /\ NewestInv(w)'
  <2>1. PICK res \in old.results, new \in {"insert", "collect"} :
            become(w, [old EXCEPT !.results = @ \ {res},
                                  !.batch = old.batch \cup res.docs, !.pc = new])
    BY <1>6 DEF collectResult
  <2>2. run'[w].results = old.results \ {res} /\ run'[w].batch = old.batch \cup res.docs
    BY <1>a, <2>1 DEF become, Run
  <2> QED
    BY <1>1, <1>2, <1>c, <2>2, KeptStep
<1>7. ASSUME run'[w].results \subseteq old.results, run'[w].batch \subseteq old.batch
      PROVE  Abstract!Next /\ NewestInv(w)'
  BY <1>1, <1>2, <1>c, <1>7, KeptStep
<1> QED
  BY <1>3, <1>4, <1>5, <1>6, <1>7 DEF Indexing

\* An insert brings the records of one version of a file nearer to complete.
LEMMA InsertPublishes ==
    ASSUME NEW w \in Indexers, TypeOK, TypeOK', FreshInv, OncePerPath(run[w]), NewestInv(w),
           GhostInv(w)', newest' = [f \in Files |-> newestAfter(f)], Insert(w)
    PROVE  Abstract!Next /\ NewestInv(w)'
<1> DEFINE old == run[w]
<1>a. old \in Run /\ run \in [Indexers -> Run] /\ last' = last
  BY DEF TypeOK, Insert
<1>1. ASSUME NEW d \in old.batch, db' = AddDocument(d), NEW pc,
             become(w, [old EXCEPT !.batch = @ \ {d}, !.pc = pc])
      PROVE  Abstract!Next /\ NewestInv(w)'
  <2>1. run'[w].results = old.results /\ run'[w].batch = old.batch \ {d}
    BY <1>a, <1>1 DEF become, Run
  <2>2. d.path \in Files
    BY <1>a DEF Run, Doc
  <2>3. \A g \in Files \ {d.path} : DocsOf(g)' = DocsOf(g)
    BY <1>1 DEF AddDocument, DocsOf, SameId
  <2>4. db' \cup run'[w].batch \subseteq db \cup old.batch
    BY <1>1, <2>1 DEF AddDocument
  <2>5. \A res \in old.results : \A e \in res.docs : e.path # d.path
    BY DEF OncePerPath, BatchOf
  <2> QED
    BY <1>a, <2>1, <2>2, <2>3, <2>4, <2>5, OneFileStep
<1>2. ASSUME become(w, [old EXCEPT !.batch = {}, !.pc = "collect"]), db' = db
      PROVE  Abstract!Next /\ NewestInv(w)'
  <2>1. run'[w].results = old.results /\ run'[w].batch = {}
    BY <1>a, <1>2 DEF become, Run
  <2>2. \A f : DocsOf(f)' = DocsOf(f)
    BY <1>2 DEF DocsOf
  <2> QED
    BY <1>a, <2>1, <2>2, KeptStep DEF NewestInv
<1> QED
  BY <1>1, <1>2 DEF Insert

\* A crash loses some records of one file at most, and what was on its way.
LEMMA CrashWithdraws ==
    ASSUME NEW w \in Indexers, TypeOK, TypeOK', FreshInv, NewestInv(w), GhostInv(w)',
           newest' = [f \in Files |-> newestAfter(f)], Crash
    PROVE  Abstract!Next /\ NewestInv(w)'
<1>1. run'[w].batch = {} /\ run'[w].results = {} /\ last' = last
  BY DEF Crash, idleRun
<1>2. CASE db' = db
  <2>1. \A f : DocsOf(f)' = DocsOf(f)
    BY <1>2 DEF DocsOf
  <2> QED
    BY <1>1, <2>1, KeptStep
<1>3. ASSUME NEW f \in Deleting, NEW gone \in SUBSET DocsOf(f), db' = db \ gone
      PROVE  Abstract!Next /\ NewestInv(w)'
  <2>1. CASE f \in Files
    <3>1. \A g \in Files \ {f} : DocsOf(g)' = DocsOf(g)
      BY <1>3 DEF DocsOf
    <3> QED
      BY <1>1, <1>3, <2>1, <3>1, OneFileStep
  <2>2. CASE f \notin Files
    <3>1. DocsOf(f) = {}
      BY <2>2 DEF DocsOf, TypeOK, Doc
    <3>2. db' = db
      BY <1>3, <3>1
    <3> QED
      BY <1>2, <3>2
  <2> QED
    BY <2>1, <2>2
<1> QED
  BY <1>2, <1>3 DEF Crash

\* A save of new content is a Write.
LEMMA EditWrites ==
    ASSUME NEW w, TypeOK, TypeOK', NewestInv(w), "revert" \notin Env,
           newest' = [f \in Files |-> newestAfter(f)], NEW f \in Files, Edit(f)
    PROVE  Abstract!Next /\ NewestInv(w)'
<1>1. db' = db /\ run' = run
  BY DEF Edit
<1>2. \A g : DocsOf(g)' = DocsOf(g)
  BY <1>1 DEF DocsOf
<1>3. served' = served /\ newest' = newest
  BY <1>2, ServedSame
<1>4. \A g \in Files : last[g] \in Nat
  BY MaxVersionAssumption DEF TypeOK, Hashes
<1>5. PICK v \in Versions : v = last[f] + 1 /\ last' = [last EXCEPT ![f] = IF v > last[f] THEN v ELSE last[f]]
  BY DEF Edit
<1>6. last' = [last EXCEPT ![f] = @ + 1] /\ last[f] < MaxVersion
  <2>1. v > last[f] /\ v <= MaxVersion
    BY <1>4, <1>5, MaxVersionAssumption DEF Versions
  <2>2. last' = [last EXCEPT ![f] = v]
    BY <1>5, <2>1
  <2>3. last[f] < MaxVersion
    BY <1>4, <2>1, MaxVersionAssumption DEF Versions
  <2> QED
    BY <1>5, <2>2, <2>3
<1>7. Abstract!Next
  BY <1>3, <1>6 DEF Abstract!Next, Abstract!Write
<1>8. \A g \in Files : last[g] <= last'[g]
  BY <1>4, <1>6 DEF TypeOK
<1>9. \A g \in Files : Served(g)' = Served(g)
  BY <1>2, ServedKept
<1> QED
  BY <1>1, <1>3, <1>7, <1>8, <1>9, NewestKept DEF NewestInv, NotOlder

LEMMA RefinementStep ==
    ASSUME NEW w, OnlyWriter(w), Env \cap {"query", "revert"} = {}, TypeOK, TypeOK', FreshInv,
           WatcherIdle, OncePerPath(run[w]), GhostInv(w), NewestInv(w),
           [HistoryNext]_<<vars, newest>>
    PROVE  [Abstract!Next]_<<last, served, newest>> /\ NewestInv(w)'
<1>a. w \in Indexers /\ Indexers = {w} /\ "query" \notin Env /\ "revert" \notin Env /\ "watch" \notin Env
  BY DEF OnlyWriter
<1>1. CASE UNCHANGED <<vars, newest>>
  <2>1. /\ \A f : DocsOf(f)' = DocsOf(f)
        /\ db' = db /\ run' = run /\ last' = last /\ newest' = newest
    BY <1>1 DEF DocsOf, vars
  <2>2. \A f \in Files : Served(f)' = Served(f)
    BY <2>1, ServedKept
  <2>3. served' = served
    BY <2>2 DEF served
  <2>4. \A d : NotOlder(d)' <=> NotOlder(d)
    BY <2>1 DEF NotOlder
  <2>5. NewestInv(w)'
    BY <2>1, <2>2, <2>4 DEF NewestInv
  <2> QED
    BY <2>1, <2>3, <2>5
<1>2. CASE HistoryNext
  <2>1. Next /\ newest' = [f \in Files |-> newestAfter(f)]
    BY <1>2 DEF HistoryNext, newestAfter
  <2>2. GhostInv(w)'
    BY <1>a, <2>1, GhostStep
  <2>3. ASSUME Indexing(w)
        PROVE  Abstract!Next /\ NewestInv(w)'
    BY <1>a, <2>1, <2>2, <2>3, RunKept, InsertPublishes
  <2>4. ASSUME NEW f \in Files, Edit(f)
        PROVE  Abstract!Next /\ NewestInv(w)'
    BY <1>a, <2>1, <2>4, EditWrites
  <2>5. ASSUME NEW f \in Files, Unlink(f)
        PROVE  Abstract!Next /\ NewestInv(w)'
    <3>1. \A g : DocsOf(g)' = DocsOf(g)
      BY <2>5 DEF Unlink, DocsOf
    <3>2. run' = run /\ last' = last
      BY <2>5 DEF Unlink
    <3> QED
      BY <2>1, <3>1, <3>2, KeptStep DEF NewestInv
  <2>6. ASSUME handleDeleteContext
        PROVE  Abstract!Next /\ NewestInv(w)'
    <3>1. \A g \in Files : DocsOf(g)' \in {DocsOf(g), {}}
      BY <2>6 DEF handleDeleteContext, DeleteByPath, DocsOf
    <3>2. run' = run /\ last' = last
      BY <2>6 DEF handleDeleteContext
    <3> QED
      BY <2>1, <3>1, <3>2, KeptStep DEF NewestInv
  <2>7. ASSUME Crash
        PROVE  Abstract!Next /\ NewestInv(w)'
    BY <1>a, <2>1, <2>2, <2>7, CrashWithdraws
  <2>8. ~Watching
    BY <1>a, <2>1, WatcherStaysIdle
  <2>9. \A f \in Files : ~Chmod(f)
    BY <1>a DEF Chmod, OnlyWriter
  <2> QED
    BY <1>a, <2>1, <2>3, <2>4, <2>5, <2>6, <2>7, <2>8, <2>9 DEF Next, Environment
<1> QED
  BY <1>1, <1>2

\* With one indexer, every query answered and no old content coming back, the
\* pipeline does nothing the index of FileIndex may not do, whatever crashes,
\* panics, cut-short inserts, refused embeddings and wipes happen to it.
THEOREM ImplementsIndex ==
    ASSUME NEW w, OnlyWriter(w), Env \cap {"query", "revert"} = {}
    PROVE  HistorySpec => ImplementsFileIndex
<1> DEFINE Inv == /\ TypeOK /\ FreshInv /\ WatcherIdle /\ OncePerPath(run[w])
                  /\ GhostInv(w) /\ NewestInv(w)
<1>1. HistoryInit => Abstract!Init
  BY DEF HistoryInit, Abstract!Init, Init, served, Served, StoredChunks, Versions
<1>2. HistoryInit => Inv
  <2> SUFFICES ASSUME HistoryInit PROVE Inv
    OBVIOUS
  <2>1. Init /\ run[w] = idleRun /\ db = {} /\ newest = [f \in Files |-> 0]
    BY DEF HistoryInit, Init, OnlyWriter
  <2>2. OncePerPath(idleRun) /\ WatcherIdle
    BY <2>1 DEF OncePerPath, idleRun, BatchOf, Init, WatcherIdle, nothingPending
  <2>3. idleRun.results = {} /\ idleRun.batch = {}
    BY DEF idleRun
  <2>4. GhostInv(w)
    BY <2>1, <2>3 DEF GhostInv, OneSource, DocsOf, BatchOf
  <2>5. \A f \in Files : Served(f) = 0 /\ 0 <= last[f]
    BY <2>1, InitType, MaxVersionAssumption DEF Served, StoredChunks, Hashes, TypeOK
  <2>6. NewestInv(w)
    BY <2>1, <2>3, <2>5, MaxVersionAssumption DEF NewestInv, Hashes
  <2> QED
    BY <2>1, <2>2, <2>4, <2>6, InitType, InitFresh
<1>3. Inv /\ [HistoryNext]_<<vars, newest>> => Inv' /\ [Abstract!Next]_<<last, served, newest>>
  <2> SUFFICES ASSUME Inv, [HistoryNext]_<<vars, newest>>
               PROVE  Inv' /\ [Abstract!Next]_<<last, served, newest>>
    OBVIOUS
  <2>1. [Next]_vars
    BY DEF HistoryNext
  <2>2. "watch" \notin Env /\ "query" \notin Env /\ "revert" \notin Env
    BY DEF OnlyWriter
  <2>3. TypeOK' /\ FreshInv'
    BY <2>1, <2>2, NextType, NextFresh
  <2>4. WatcherIdle' /\ GhostInv(w)'
    BY <2>1, <2>2, WatcherStaysIdle, GhostStep
  <2>5. OncePerPath(run'[w])
    BY <2>1, OnceStep
  <2>6. [Abstract!Next]_<<last, served, newest>> /\ NewestInv(w)'
    BY <2>3, RefinementStep
  <2> QED
    BY <2>3, <2>4, <2>5, <2>6
<1> QED
  BY <1>1, <1>2, <1>3, PTL DEF HistorySpec, ImplementsFileIndex, Abstract!Spec
=============================================================================

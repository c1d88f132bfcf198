------------------------ MODULE IndexPipelineProofs ------------------------
(***************************************************************************)
(* Proofs about IndexPipeline, for every set of files, of indexers and of  *)
(* versions, every cutting of versions into chunks and every batch limit.  *)
(***************************************************************************)
EXTENDS IndexInvariants, FiniteSetTheorems, TLAPS

-----------------------------------------------------------------------------
(* Lemmas about the records. *)

\* The texts of a version are finitely many, and so are those embedded.
LEMMA TextsFinite ==
    ASSUME NEW v \in Versions, NEW done \in SUBSET TextsOf(v)
    PROVE  /\ IsFiniteSet(done)
           /\ \A k \in done : k \in Nat /\ Cardinality({j \in done : j < k}) \in Nat
<1>1. ChunkCount[v] \in Nat
  BY ChunkCountAssumption
<1>2. IsFiniteSet(TextsOf(v))
  BY <1>1, FS_Interval DEF TextsOf
<1>3. IsFiniteSet(done)
  BY <1>2, FS_Subset
<1>4. ASSUME NEW k \in done
      PROVE  k \in Nat /\ Cardinality({j \in done : j < k}) \in Nat
  <2>1. IsFiniteSet({j \in done : j < k})
    BY <1>3, FS_Subset
  <2>2. k \in Nat
    BY <1>1 DEF TextsOf
  <2> QED
    BY <2>1, <2>2, FS_CardinalityType
<1> QED
  BY <1>3, <1>4

\* prepareRecords builds records, all of the file it was called for.
LEMMA PrepareRecordsType ==
    ASSUME NEW f \in Files, NEW v \in Versions, NEW h \in Hashes,
           NEW done \in SUBSET TextsOf(v)
    PROVE  /\ prepareRecords(f, v, h, done) \subseteq Doc
           /\ \A d \in prepareRecords(f, v, h, done) : d.path = f
<1> DEFINE place(k) == Cardinality({j \in done : j < k})
           chunk(k) == createChunkRecord(f, v, h, place(k), k)
<1>1. ASSUME NEW k \in done
      PROVE  chunk(k) \in Doc /\ chunk(k).path = f
  <2>1. k \in Nat /\ place(k) \in Nat
    BY TextsFinite
  <2> HIDE DEF place
  <2> QED
    BY <2>1, MaxVersionAssumption DEF createChunkRecord, Doc, Versions, Hashes
<1>2. createFileMetaRecord(f, h) \in Doc /\ createFileMetaRecord(f, h).path = f
  BY MaxVersionAssumption DEF createFileMetaRecord, Doc, Hashes
<1>3. prepareRecords(f, v, h, done) = {chunk(k) : k \in done} \cup {createFileMetaRecord(f, h)}
  BY DEF prepareRecords
<1> HIDE DEF chunk
<1> QED
  BY <1>1, <1>2, <1>3

LEMMA EmbeddedTexts ==
    ASSUME NEW v \in Versions
    PROVE  embedSequentially(v) \subseteq SUBSET TextsOf(v)
BY DEF embedSequentially

\* The hash mapping maps to hashes.
LEMMA MappingType ==
    ASSUME db \subseteq Doc
    PROVE  GetPathHashMapping \in [Files -> {NoMeta} \cup Hashes]
<1>1. ASSUME NEW f \in Files
      PROVE  MetaHash(f) \in {NoMeta} \cup Hashes
  <2>1. CASE \E d \in DocsOf(f) : d.idx = Meta
    <3>1. (CHOOSE d \in DocsOf(f) : d.idx = Meta) \in DocsOf(f)
      BY <2>1
    <3> QED
      BY <2>1, <3>1 DEF MetaHash, DocsOf, Doc
  <2>2. CASE ~ \E d \in DocsOf(f) : d.idx = Meta
    BY <2>2 DEF MetaHash
  <2> QED
    BY <2>1, <2>2
<1> QED
  BY <1>1 DEF GetPathHashMapping

-----------------------------------------------------------------------------
(* Type correctness. *)

UniqueIds == \A d, e \in db : SameId(d, e) => d = e

\* Storing a record and deleting some keeps the identifiers unique.
LEMMA StoreKeepsType ==
    ASSUME db \subseteq Doc, UniqueIds
    PROVE  /\ \A d \in Doc : db' = AddDocument(d) => db' \subseteq Doc /\ UniqueIds'
           /\ db' \subseteq db => db' \subseteq Doc /\ UniqueIds'
BY DEF AddDocument, UniqueIds, SameId

LEMMA DeleteOutcomesSmaller ==
    \A f : \A after \in DeleteOutcomes(f) : after \subseteq db
BY DEF DeleteOutcomes, DeleteByPath

LEMMA IdleType == idleRun \in Run /\ idleWatch \in Watch
<1>1. 0 \in Hashes
  BY MaxVersionAssumption DEF Hashes
<1>2. idleRun \in Run
  BY <1>1 DEF idleRun, Run, NoMapping
<1>3. (CHOOSE f \in Files : TRUE) \in Files
  BY FilesAssumption
<1>4. idleWatch \in Watch
  BY <1>1, <1>3 DEF idleWatch, Watch
<1> QED
  BY <1>2, <1>4

\* ProcessFile returns results, about the file it was called for.
LEMMA ProcessFileType ==
    ASSUME TypeOK, NEW f \in Files, NEW h \in Hashes, NEW res \in ProcessFile(f, h)
    PROVE  res \in Result /\ res.path = f
<1>1. disk[f] # 0 => disk[f] \in Versions
  BY DEF TypeOK, Hashes, Versions
<1>2. CASE res = [path |-> f, indexed |-> FALSE, docs |-> {}]
  BY <1>2 DEF Result
<1>3. ASSUME disk[f] # 0, NEW done \in embedSequentially(disk[f]),
             res = [path |-> f, indexed |-> TRUE, docs |-> prepareRecords(f, disk[f], h, done)]
      PROVE  res \in Result /\ res.path = f
  <2>1. prepareRecords(f, disk[f], h, done) \subseteq Doc
    BY <1>1, <1>3, EmbeddedTexts, PrepareRecordsType
  <2> QED
    BY <1>3, <2>1 DEF Result
<1> QED
  BY <1>2, <1>3 DEF ProcessFile

\* The records of a result are of its path, and only an indexed one has any.
LEMMA ProcessFileDocs ==
    ASSUME TypeOK, NEW f \in Files, NEW h \in Hashes, NEW res \in ProcessFile(f, h),
           NEW d \in res.docs
    PROVE  res.indexed /\ d.path = f
<1>1. PICK done \in embedSequentially(disk[f]) :
        disk[f] # 0 /\ res = [path |-> f, indexed |-> TRUE,
                              docs |-> prepareRecords(f, disk[f], h, done)]
  BY DEF ProcessFile
<1>2. disk[f] \in Versions
  BY <1>1 DEF TypeOK, Hashes, Versions
<1> QED
  BY <1>1, <1>2, EmbeddedTexts, PrepareRecordsType

\* The fields of a run keep their types when they are assigned one by one.
LEMMA RunFields ==
    ASSUME NEW x \in Run
    PROVE  /\ x.listed \in SUBSET Files /\ x.todo \in SUBSET Files
           /\ x.mapping \in [Files -> {NoMeta} \cup Hashes]
           /\ x.hashes \in [Files -> Hashes]
           /\ x.tasks \in SUBSET Files /\ x.results \in SUBSET Result
           /\ x.batch \in SUBSET Doc /\ x.partial \in BOOLEAN
BY DEF Run

\* Hashing a file leaves a run a run.
LEMMA DiscoveredType ==
    ASSUME NEW x \in Run, NEW f \in Files, NEW h \in Hashes, NEW tasks \in SUBSET Files
    PROVE  [x EXCEPT !.todo = @ \ {f}, !.hashes[f] = h, !.tasks = tasks] \in Run
BY DEF Run

\* So do the other assignments an indexer makes, whatever their values are.
LEMMA PcType ==
    ASSUME NEW x \in Run, NEW pc \in {"idle", "scan", "map", "discover", "clean", "collect", "insert"}
    PROVE  [x EXCEPT !.pc = pc] \in Run
BY DEF Run

LEMMA ScannedType ==
    ASSUME NEW x \in Run, NEW listed \in SUBSET Files
    PROVE  [x EXCEPT !.pc = "map", !.listed = listed] \in Run
BY DEF Run

LEMMA MappedType ==
    ASSUME NEW x \in Run, NEW m \in [Files -> {NoMeta} \cup Hashes], NEW todo \in SUBSET Files
    PROVE  [x EXCEPT !.pc = "discover", !.mapping = m, !.todo = todo] \in Run
BY DEF Run

LEMMA CleaningType ==
    ASSUME NEW x \in Run, NEW todo \in SUBSET Files
    PROVE  [x EXCEPT !.pc = "clean", !.todo = todo] \in Run
BY DEF Run

LEMMA CleanedType ==
    ASSUME NEW x \in Run, NEW f, NEW partial \in BOOLEAN
    PROVE  [x EXCEPT !.todo = @ \ {f}, !.partial = partial] \in Run
BY DEF Run

LEMMA ProcessedType ==
    ASSUME NEW x \in Run, NEW f, NEW res \in Result
    PROVE  [x EXCEPT !.tasks = @ \ {f}, !.results = @ \cup {res}] \in Run
BY DEF Run

LEMMA CollectedType ==
    ASSUME NEW x \in Run, NEW res, NEW batch \in SUBSET Doc, NEW pc \in {"insert", "collect"}
    PROVE  [x EXCEPT !.results = @ \ {res}, !.batch = batch, !.pc = pc] \in Run
BY DEF Run

LEMMA StoredType ==
    ASSUME NEW x \in Run, NEW d, NEW pc \in {"insert", "collect"}
    PROVE  [x EXCEPT !.batch = @ \ {d}, !.pc = pc] \in Run
BY DEF Run

LEMMA DroppedType ==
    ASSUME NEW x \in Run
    PROVE  [x EXCEPT !.batch = {}, !.pc = "collect"] \in Run
BY DEF Run

\* Only the indexer that takes a step changes its local variables.
LEMMA RunStep ==
    ASSUME TypeOK, NEW r \in Indexers, NEW x \in Run, become(r, x)
    PROVE  /\ run' \in [Indexers -> Run]
           /\ run'[r] = x
           /\ \A q \in Indexers : q # r => run'[q] = run[q]
BY DEF TypeOK, become

\* Discovery hashes one more file or, when every file is hashed, goes on to clean.
LEMMA DiscoverCases ==
    ASSUME NEW r \in Indexers, run[r] \in Run, discoverFilesToIndex(r)
    PROVE  \/ become(r, [run[r] EXCEPT !.pc = "clean", !.todo = Stale(r)])
           \/ \E f \in run[r].todo, tasks \in SUBSET Files :
                /\ tasks \in {run[r].tasks, run[r].tasks \cup {f}}
                /\ become(r, [run[r] EXCEPT !.todo = @ \ {f}, !.hashes[f] = disk[f],
                                            !.tasks = tasks])
<1> DEFINE hashed(f, tasks) ==
               [run[r] EXCEPT !.todo = @ \ {f}, !.hashes[f] = disk[f], !.tasks = tasks]
           tasksOf(f) == IF run[r].mapping[f] = disk[f]
                         THEN run[r].tasks ELSE run[r].tasks \cup {f}
<1>1. \/ become(r, [run[r] EXCEPT !.pc = "clean", !.todo = Stale(r)])
      \/ \E f \in run[r].todo : become(r, hashed(f, tasksOf(f)))
  BY DEF discoverFilesToIndex
<1>2. ASSUME NEW f \in run[r].todo
      PROVE  tasksOf(f) \in SUBSET Files /\ tasksOf(f) \in {run[r].tasks, run[r].tasks \cup {f}}
  BY RunFields
<1>3. SUFFICES ASSUME NEW f \in run[r].todo, become(r, hashed(f, tasksOf(f)))
               PROVE  \E tasks \in SUBSET Files :
                         /\ tasks \in {run[r].tasks, run[r].tasks \cup {f}}
                         /\ become(r, hashed(f, tasks))
  BY <1>1, Zenon
<1> HIDE DEF tasksOf, hashed
<1> QED
  BY <1>2, <1>3

LEMMA InitType == Init => TypeOK
<1> SUFFICES ASSUME Init PROVE TypeOK
  OBVIOUS
<1>1. {0, 1} \subseteq Hashes
  BY MaxVersionAssumption DEF Hashes
<1> QED
  BY <1>1, IdleType DEF Init, TypeOK, Statuses, nothingPending

\* Whatever comes of a SetStatus call is a status.
LEMMA StatusType ==
    ASSUME NEW old \in Statuses, NEW new \in Statuses
    PROVE  StatusAfter(old, new) \subseteq Statuses
BY DEF StatusAfter, Statuses

LEMMA StatusNames ==
    {"initializing", "scanning", "indexing", "completed", "error", "panic", "none"}
        \subseteq Statuses
BY DEF Statuses

\* The type invariant is inductive: one step per action of Next.
LEMMA NextType == TypeOK /\ [Next]_vars => TypeOK'
<1> SUFFICES ASSUME TypeOK, [Next]_vars PROVE TypeOK'
  OBVIOUS
<1> USE DEF TypeOK
<1>a. UniqueIds
  BY DEF UniqueIds
<1>r. ASSUME NEW r \in Indexers PROVE run[r] \in Run
  OBVIOUS
<1>b. ASSUME db' \subseteq db
      PROVE  db' \subseteq Doc /\ \A d, e \in db' : SameId(d, e) => d = e
  BY <1>b
<1>c. ASSUME NEW d \in Doc, db' = AddDocument(d)
      PROVE  db' \subseteq Doc /\ \A x, e \in db' : SameId(x, e) => x = e
  BY <1>c DEF AddDocument, SameId
<1>d. ASSUME NEW new \in Statuses, SetStatus(new) \/ UNCHANGED status
      PROVE  status' \in Statuses
  BY <1>d, StatusType DEF SetStatus
<1>1. ASSUME NEW f \in Files, Edit(f)
      PROVE  TypeOK'
  <2>1. PICK v \in Versions : /\ disk' = [disk EXCEPT ![f] = v]
                              /\ last' = [last EXCEPT ![f] = IF v > @ THEN v ELSE @]
    BY <1>1 DEF Edit
  <2>2. v \in Hashes
    BY MaxVersionAssumption DEF Versions, Hashes
  <2> QED
    BY <1>1, <2>1, <2>2 DEF Edit, Reported, notify
<1>2. ASSUME NEW f \in Files, Unlink(f)
      PROVE  TypeOK'
  BY <1>2, MaxVersionAssumption DEF Unlink, Reported, notify, Hashes
<1>3. ASSUME NEW r \in Indexers, processPath(r)
      PROVE  TypeOK'
  <2>1. [run[r] EXCEPT !.pc = "scan"] \in Run
    BY <1>r, PcType
  <2> QED
    BY <1>3, <1>d, <2>1, RunStep, StatusNames DEF processPath
<1>4. ASSUME NEW r \in Indexers, recoverPanic(r)
      PROVE  TypeOK'
  BY <1>4, <1>d, IdleType, RunStep, StatusNames DEF recoverPanic, returned
<1>5. ASSUME NEW r \in Indexers, ScanFiles(r)
      PROVE  TypeOK'
  <2>1. [run[r] EXCEPT !.pc = "map", !.listed = {f \in Files : disk[f] # 0}] \in Run
    BY <1>r, ScannedType
  <2>2. run' \in [Indexers -> Run]
    BY <1>5, <2>1, IdleType, RunStep DEF ScanFiles, returned
  <2>3. \A s \in StatusAfter(status, "scanning") : StatusAfter(s, "error") \subseteq Statuses
    BY StatusType, StatusNames
  <2>4. status' \in Statuses
    BY <1>5, <1>d, <2>3, StatusNames DEF ScanFiles
  <2> QED
    BY <1>5, <2>2, <2>4 DEF ScanFiles
<1>6. ASSUME NEW r \in Indexers, ReadMapping(r)
      PROVE  TypeOK'
  <2>1. PICK m \in {GetPathHashMapping, NoMapping} :
            become(r, [run[r] EXCEPT !.pc = "discover", !.mapping = m, !.todo = run[r].listed])
    BY <1>6 DEF ReadMapping
  <2>2. m \in [Files -> {NoMeta} \cup Hashes]
    BY MappingType DEF NoMapping
  <2>3. run[r].listed \in SUBSET Files
    BY <1>r, RunFields
  <2>4. [run[r] EXCEPT !.pc = "discover", !.mapping = m, !.todo = run[r].listed] \in Run
    BY <1>r, <2>2, <2>3, MappedType
  <2> QED
    BY <1>6, <2>1, <2>4, RunStep DEF ReadMapping
<1>7. ASSUME NEW r \in Indexers, discoverFilesToIndex(r)
      PROVE  TypeOK'
  <2>1. ASSUME NEW f \in run[r].todo, NEW tasks \in SUBSET Files
        PROVE  [run[r] EXCEPT !.todo = @ \ {f}, !.hashes[f] = disk[f], !.tasks = tasks] \in Run
    <3>1. f \in Files /\ disk[f] \in Hashes
      BY <2>1, <1>r, RunFields
    <3> QED
      BY <1>r, <3>1, DiscoveredType
  <2>2. Stale(r) \in SUBSET Files
    BY DEF Stale
  <2>3. [run[r] EXCEPT !.pc = "clean", !.todo = Stale(r)] \in Run
    BY <1>r, <2>2, CleaningType
  <2>4. \E x \in Run : become(r, x)
    BY <1>7, <1>r, <2>1, <2>3, DiscoverCases
  <2>5. run' \in [Indexers -> Run]
    BY <2>4, RunStep
  <2> QED
    BY <1>7, <2>5 DEF discoverFilesToIndex
<1>8. ASSUME NEW r \in Indexers, cleanupStaleFiles(r)
      PROVE  TypeOK'
  <2>1. db' \subseteq db
    BY <1>8, DeleteOutcomesSmaller DEF cleanupStaleFiles
  <2>2. PICK f \in run[r].todo, partial \in BOOLEAN :
            become(r, [run[r] EXCEPT !.todo = @ \ {f}, !.partial = partial])
    BY <1>8, <1>r, RunFields DEF cleanupStaleFiles
  <2>3. [run[r] EXCEPT !.todo = @ \ {f}, !.partial = partial] \in Run
    BY <1>r, CleanedType
  <2> QED
    BY <1>8, <1>b, <2>1, <2>2, <2>3, RunStep DEF cleanupStaleFiles
<1>9. ASSUME NEW r \in Indexers, startProcessing(r)
      PROVE  TypeOK'
  <2>1. [run[r] EXCEPT !.pc = "collect"] \in Run
    BY <1>r, PcType
  <2> QED
    BY <1>9, <1>d, <2>1, RunStep, StatusNames DEF startProcessing
<1>10. ASSUME NEW r \in Indexers, processTask(r)
      PROVE  TypeOK'
  <2>1. PICK f \in run[r].tasks : \E res \in ProcessFile(f, run[r].hashes[f]) :
            become(r, [run[r] EXCEPT !.tasks = @ \ {f}, !.results = @ \cup {res}])
    BY <1>10 DEF processTask
  <2>2. f \in Files /\ run[r].hashes[f] \in Hashes
    BY <1>r, <2>1, RunFields
  <2>3. PICK res \in ProcessFile(f, run[r].hashes[f]) :
            become(r, [run[r] EXCEPT !.tasks = @ \ {f}, !.results = @ \cup {res}])
    BY <2>1
  <2>4. res \in Result
    BY <2>2, ProcessFileType
  <2>5. [run[r] EXCEPT !.tasks = @ \ {f}, !.results = @ \cup {res}] \in Run
    BY <1>r, <2>4, ProcessedType
  <2> QED
    BY <1>10, <2>3, <2>5, RunStep DEF processTask
<1>11. ASSUME NEW r \in Indexers, collectResult(r)
      PROVE  TypeOK'
  <2>1. PICK res \in run[r].results, new \in {"insert", "collect"} :
            become(r, [run[r] EXCEPT !.results = @ \ {res},
                                     !.batch = run[r].batch \cup res.docs, !.pc = new])
    BY <1>11 DEF collectResult
  <2>2. res.docs \subseteq Doc
    BY <1>r, RunFields DEF Result
  <2>a. run[r].batch \cup res.docs \in SUBSET Doc
    BY <1>r, <2>2, RunFields
  <2>3. [run[r] EXCEPT !.results = @ \ {res},
                       !.batch = run[r].batch \cup res.docs, !.pc = new] \in Run
    BY <1>r, <2>1, <2>a, CollectedType
  <2>4. db' \subseteq db
    BY <1>11, DeleteOutcomesSmaller DEF collectResult
  <2> QED
    BY <1>11, <1>b, <1>d, <2>1, <2>3, <2>4, RunStep, StatusNames DEF collectResult
<1>12. ASSUME NEW r \in Indexers, finalFlush(r)
      PROVE  TypeOK'
  <2>1. [run[r] EXCEPT !.pc = "insert"] \in Run
    BY <1>r, PcType
  <2> QED
    BY <1>12, <2>1, RunStep DEF finalFlush
<1>13. ASSUME NEW r \in Indexers, Insert(r)
      PROVE  TypeOK'
  <2>1. ASSUME NEW d \in run[r].batch, NEW new \in {"insert", "collect"},
               db' = AddDocument(d), become(r, [run[r] EXCEPT !.batch = @ \ {d}, !.pc = new])
        PROVE  TypeOK'
    <3>1. d \in Doc
      BY <1>r, <2>1, RunFields
    <3>2. [run[r] EXCEPT !.batch = @ \ {d}, !.pc = new] \in Run
      BY <1>r, <2>1, StoredType
    <3> QED
      BY <1>13, <1>c, <2>1, <3>1, <3>2, RunStep DEF Insert
  <2>2. CASE become(r, [run[r] EXCEPT !.batch = {}, !.pc = "collect"]) /\ db' = db
    <3>1. [run[r] EXCEPT !.batch = {}, !.pc = "collect"] \in Run
      BY <1>r, DroppedType
    <3> QED
      BY <1>13, <2>2, <3>1, RunStep DEF Insert
  <2> QED
    BY <1>13, <2>1, <2>2 DEF Insert
<1>14. ASSUME NEW r \in Indexers, complete(r)
      PROVE  TypeOK'
  BY <1>14, <1>d, IdleType, RunStep, StatusNames DEF complete, returned, finalStatus
<1>15. ASSUME NEW f \in Files, IndexSingleFile(f)
      PROVE  TypeOK'
  BY <1>15, IdleType DEF IndexSingleFile, Watch
<1>16. ASSUME watchProcessFile
      PROVE  TypeOK'
  <2>1. CASE watch' = idleWatch
    BY <1>16, <2>1, IdleType DEF watchProcessFile
  <2>2. CASE /\ disk[watch.path] # 0
             /\ watch' = [watch EXCEPT !.pc = "loaded",
                            !.docs = prepareRecords(watch.path, disk[watch.path], watch.hash,
                                                    TextsOf(disk[watch.path]))]
    <3>1. watch.path \in Files /\ watch.hash \in Hashes /\ disk[watch.path] \in Versions
      BY <2>2, MaxVersionAssumption DEF Watch, Hashes, Versions
    <3>2. prepareRecords(watch.path, disk[watch.path], watch.hash,
                         TextsOf(disk[watch.path])) \subseteq Doc
      BY <3>1, PrepareRecordsType
    <3> QED
      BY <1>16, <2>2, <3>2 DEF watchProcessFile, Watch
  <2> QED
    BY <1>16, <2>1, <2>2 DEF watchProcessFile
<1>17. ASSUME watchDelete
      PROVE  TypeOK'
  <2>1. db' \subseteq db
    BY <1>17, DeleteOutcomesSmaller DEF watchDelete
  <2> QED
    BY <1>17, <1>b, <2>1 DEF watchDelete, Watch
<1>18. ASSUME watchInsert
      PROVE  TypeOK'
  <2>1. CASE watch' = idleWatch /\ db' = db
    BY <1>18, <2>1, IdleType DEF watchInsert
  <2>2. ASSUME NEW d \in watch.docs, db' = AddDocument(d),
               watch' = IF watch.docs = {d} THEN idleWatch
                        ELSE [watch EXCEPT !.docs = @ \ {d}]
        PROVE  TypeOK'
    <3>1. d \in Doc
      BY DEF Watch
    <3>2. watch' \in Watch
      BY <2>2, IdleType DEF Watch
    <3> QED
      BY <1>18, <1>c, <2>2, <3>1, <3>2 DEF watchInsert
  <2> QED
    BY <1>18, <2>1, <2>2 DEF watchInsert
<1>19. ASSUME NEW f \in Files, DeleteByPrefix(f)
      PROVE  TypeOK'
  <2>1. db' \subseteq db
    BY <1>19, DeleteOutcomesSmaller DEF DeleteByPrefix
  <2> QED
    BY <1>19, <1>b, <2>1 DEF DeleteByPrefix
<1>20. ASSUME handleDeleteContext
      PROVE  TypeOK'
  <2>1. db' \subseteq db
    BY <1>20 DEF handleDeleteContext, DeleteByPath
  <2> QED
    BY <1>20, <1>b, <2>1, StatusNames DEF handleDeleteContext
<1>21. ASSUME Crash
      PROVE  TypeOK'
  <2>1. db' \subseteq db
    BY <1>21 DEF Crash
  <2> QED
    BY <1>21, <1>b, <2>1, IdleType, StatusNames DEF Crash, nothingPending
<1>22. ASSUME processPending
      PROVE  TypeOK'
  BY <1>22 DEF processPending, nothingPending
<1>23. ASSUME NEW f \in Files, Chmod(f)
       PROVE  TypeOK'
  BY <1>23 DEF Chmod, notify
<1>24. CASE UNCHANGED vars
  BY <1>24 DEF vars
<1> QED
  BY <1>1, <1>2, <1>3, <1>4, <1>5, <1>6, <1>7, <1>8, <1>9, <1>10, <1>11, <1>12, <1>13,
     <1>14, <1>15, <1>16, <1>17, <1>18, <1>19, <1>20, <1>21, <1>22, <1>23, <1>24
     DEF Next, Indexing, Watching, Environment

\* The pipeline's variables stay in their types and record identifiers stay
\* unique, with any number of indexers and under every fault.
THEOREM TypeCorrect == Spec => []TypeOK
<1>1. Init => TypeOK
  BY InitType
<1>2. TypeOK /\ [Next]_vars => TypeOK'
  BY NextType
<1> QED
  BY <1>1, <1>2, PTL DEF Spec

-----------------------------------------------------------------------------
(* A current stamp means current text. *)

LEMMA PrepareRecordsStamped ==
    ASSUME NEW f \in Files, NEW v \in Versions, NEW h \in Hashes,
           NEW done \in SUBSET TextsOf(v), h <= v, v <= last[f]
    PROVE  \A d \in prepareRecords(f, v, h, done) : Stamped(d)
<1> DEFINE chunk(k) == createChunkRecord(f, v, h, Cardinality({j \in done : j < k}), k)
<1>1. \A k \in done : Stamped(chunk(k))
  BY DEF createChunkRecord, Stamped
<1>2. Stamped(createFileMetaRecord(f, h))
  BY DEF createFileMetaRecord, Stamped
<1>3. prepareRecords(f, v, h, done) = {chunk(k) : k \in done} \cup {createFileMetaRecord(f, h)}
  BY DEF prepareRecords
<1> HIDE DEF chunk
<1> QED
  BY <1>1, <1>2, <1>3

\* The records of a file that is read after it was hashed are stamped so.
LEMMA ProcessFileStamped ==
    ASSUME TypeOK, NEW f \in Files, disk[f] \in {0, last[f]},
           NEW h \in Hashes, h <= last[f],
           NEW res \in ProcessFile(f, h), NEW d \in res.docs
    PROVE  Stamped(d)
<1>1. PICK done \in embedSequentially(disk[f]) :
        disk[f] # 0 /\ res.docs = prepareRecords(f, disk[f], h, done)
  BY DEF ProcessFile
<1>2. disk[f] \in Versions /\ disk[f] = last[f]
  BY <1>1 DEF TypeOK, Hashes, Versions
<1>3. done \in SUBSET TextsOf(disk[f])
  BY <1>1, <1>2, EmbeddedTexts
<1>4. \A x \in prepareRecords(f, disk[f], h, done) : Stamped(x)
  BY <1>2, <1>3, PrepareRecordsStamped DEF Versions, Hashes
<1> QED
  BY <1>1, <1>4

\* A step that writes no file and starts or ends no single-file index keeps
\* FreshInv if it keeps it of the records and of the one run it touches.
LEMMA FreshStep ==
    ASSUME TypeOK, FreshInv, NEW r \in Indexers, NEW x \in Run, become(r, x),
           disk' = disk, last' = last, watch' = watch,
           \A d \in db' : Stamped(d), FreshRun(x)
    PROVE  FreshInv'
<1>1. \A q \in Indexers : FreshRun(run'[q])
  BY RunStep DEF FreshInv
<1> QED
  BY <1>1 DEF FreshInv, FreshRun, Stamped

\* A hash that is not newer than its file leaves a fresh run fresh.
LEMMA DiscoveredFresh ==
    ASSUME NEW x \in Run, FreshRun(x), NEW f \in Files, NEW h \in Hashes, h <= last[f],
           NEW tasks \in SUBSET Files
    PROVE  FreshRun([x EXCEPT !.todo = @ \ {f}, !.hashes[f] = h, !.tasks = tasks])
<1> DEFINE y == [x EXCEPT !.todo = @ \ {f}, !.hashes[f] = h, !.tasks = tasks]
<1>1. y.results = x.results /\ y.batch = x.batch /\ y.hashes = [x.hashes EXCEPT ![f] = h]
  BY DEF Run
<1>2. x.hashes \in [Files -> Hashes]
  BY RunFields
<1> HIDE DEF y
<1>3. \A g \in Files : y.hashes[g] <= last[g]
  BY <1>1, <1>2 DEF FreshRun
<1>4. FreshRun(y)
  BY <1>1, <1>3 DEF FreshRun
<1> QED
  BY <1>4 DEF y

LEMMA IdleFresh ==
    ASSUME last \in [Files -> Hashes]
    PROVE  FreshRun(idleRun) /\ idleWatch.hash <= last[idleWatch.path]
<1>1. idleWatch.path \in Files
  BY IdleType DEF Watch
<1> QED
  BY <1>1 DEF FreshRun, idleRun, idleWatch, Hashes

LEMMA InitFresh == Init => FreshInv
<1> SUFFICES ASSUME Init PROVE FreshInv
  OBVIOUS
<1>1. last \in [Files -> Hashes]
  BY InitType DEF TypeOK
<1>2. idleWatch.docs = {}
  BY DEF idleWatch
<1> QED
  BY <1>1, <1>2, IdleFresh DEF Init, FreshInv

\* FreshInv is inductive when old content does not come back.
LEMMA NextFresh ==
    ASSUME "revert" \notin Env, TypeOK, FreshInv, [Next]_vars
    PROVE  FreshInv'
<1>a. \A d \in db : Stamped(d)
  BY DEF FreshInv
<1>b. ASSUME NEW r \in Indexers
      PROVE  run[r] \in Run /\ FreshRun(run[r])
  BY DEF TypeOK, FreshInv
<1>1. ASSUME NEW f \in Files, Edit(f)
      PROVE  FreshInv'
  <2>1. disk' = [disk EXCEPT ![f] = last[f] + 1] /\ last' = [last EXCEPT ![f] = last[f] + 1]
    <3>1. PICK v \in Versions :
            /\ v = last[f] + 1
            /\ disk' = [disk EXCEPT ![f] = v]
            /\ last' = [last EXCEPT ![f] = IF v > last[f] THEN v ELSE last[f]]
      BY <1>1 DEF Edit
    <3>2. v > last[f]
      BY <3>1, MaxVersionAssumption DEF TypeOK, Hashes
    <3> QED
      BY <3>1, <3>2
  <2>2. \A g \in Files : last[g] \in Nat /\ last'[g] \in Nat /\ last[g] <= last'[g]
    BY <2>1, MaxVersionAssumption DEF TypeOK, Hashes
  <2>3. ASSUME NEW d \in Doc, Stamped(d)
        PROVE  Stamped(d)'
    BY <2>2, <2>3, MaxVersionAssumption DEF Stamped, Doc, Hashes
  <2>4. ASSUME NEW r \in Indexers
        PROVE  FreshRun(run[r])'
    <3>1. \A g \in Files : run[r].hashes[g] \in Nat
      BY <1>b, MaxVersionAssumption DEF Run, Hashes
    <3>2. \A d \in run[r].batch : Stamped(d)'
      BY <1>b, <2>3 DEF Run, FreshRun
    <3>3. \A res \in run[r].results : \A d \in res.docs : Stamped(d)'
      BY <1>b, <2>3 DEF Run, FreshRun, Result
    <3> QED
      BY <1>1, <1>b, <2>2, <3>1, <3>2, <3>3 DEF FreshRun, Edit
  <2>5. watch'.hash <= last'[watch'.path]
    BY <1>1, <2>2, MaxVersionAssumption DEF Edit, FreshInv, TypeOK, Watch, Hashes
  <2>6. \A d \in db' \cup watch'.docs : Stamped(d)'
    BY <1>1, <2>3 DEF Edit, FreshInv, TypeOK, Watch
  <2>7. \A g \in Files : disk'[g] \in {0, last'[g]}
    BY <2>1 DEF FreshInv, TypeOK
  <2> QED
    BY <1>1, <2>4, <2>5, <2>6, <2>7 DEF FreshInv, Edit
<1>2. ASSUME NEW f \in Files, Unlink(f)
      PROVE  FreshInv'
  BY <1>2 DEF Unlink, FreshInv, FreshRun, Stamped, TypeOK
<1>3. ASSUME NEW r \in Indexers, processPath(r)
      PROVE  FreshInv'
  <2>1. [run[r] EXCEPT !.pc = "scan"] \in Run /\ FreshRun([run[r] EXCEPT !.pc = "scan"])
    BY <1>b DEF Run, FreshRun
  <2> QED
    BY <1>3, <1>a, <2>1, FreshStep DEF processPath
<1>4. ASSUME NEW r \in Indexers, recoverPanic(r)
      PROVE  FreshInv'
  BY <1>4, <1>a, IdleType, IdleFresh, FreshStep DEF recoverPanic, returned, TypeOK
<1>5. ASSUME NEW r \in Indexers, ScanFiles(r)
      PROVE  FreshInv'
  <2> DEFINE x == [run[r] EXCEPT !.pc = "map", !.listed = {f \in Files : disk[f] # 0}]
  <2>1. x \in Run /\ FreshRun(x)
    BY <1>b DEF Run, FreshRun
  <2>2. idleRun \in Run /\ FreshRun(idleRun)
    BY IdleType, IdleFresh DEF TypeOK
  <2>3. become(r, x) \/ become(r, idleRun)
    BY <1>5 DEF ScanFiles, returned
  <2> QED
    BY <1>5, <1>a, <2>1, <2>2, <2>3, FreshStep DEF ScanFiles
<1>6. ASSUME NEW r \in Indexers, ReadMapping(r)
      PROVE  FreshInv'
  <2>1. PICK m \in {GetPathHashMapping, NoMapping} :
            become(r, [run[r] EXCEPT !.pc = "discover", !.mapping = m, !.todo = run[r].listed])
    BY <1>6 DEF ReadMapping
  <2>2. m \in [Files -> {NoMeta} \cup Hashes]
    BY MappingType DEF NoMapping, TypeOK
  <2> DEFINE x == [run[r] EXCEPT !.pc = "discover", !.mapping = m, !.todo = run[r].listed]
  <2>3. x \in Run /\ FreshRun(x)
    BY <1>b, <2>2 DEF Run, FreshRun
  <2> QED
    BY <1>6, <1>a, <2>1, <2>3, FreshStep DEF ReadMapping
<1>7. ASSUME NEW r \in Indexers, discoverFilesToIndex(r)
      PROVE  FreshInv'
  <2> DEFINE done == [run[r] EXCEPT !.pc = "clean", !.todo = Stale(r)]
             hashed(f, tasks) ==
                 [run[r] EXCEPT !.todo = @ \ {f}, !.hashes[f] = disk[f], !.tasks = tasks]
  <2>1. ASSUME NEW f \in run[r].todo, NEW tasks \in SUBSET Files
        PROVE  hashed(f, tasks) \in Run /\ FreshRun(hashed(f, tasks))
    <3>1. f \in Files
      BY <1>b, RunFields
    <3>2. disk[f] \in Hashes /\ disk[f] <= last[f]
      BY <3>1, MaxVersionAssumption DEF TypeOK, FreshInv, Hashes
    <3> QED
      BY <1>b, <3>1, <3>2, DiscoveredType, DiscoveredFresh
  <2>2. done \in Run /\ FreshRun(done)
    <3>1. Stale(r) \in SUBSET Files
      BY DEF Stale
    <3>2. done.hashes = run[r].hashes /\ done.batch = run[r].batch /\ done.results = run[r].results
      BY <1>b DEF Run
    <3> QED
      BY <1>b, <3>1, <3>2, CleaningType DEF FreshRun
  <2>3. become(r, done) \/ \E f \in run[r].todo, tasks \in SUBSET Files : become(r, hashed(f, tasks))
    BY <1>7, <1>b, DiscoverCases
  <2> HIDE DEF hashed, done
  <2> QED
    BY <1>7, <1>a, <2>1, <2>2, <2>3, FreshStep DEF discoverFilesToIndex
<1>8. ASSUME NEW r \in Indexers, cleanupStaleFiles(r)
      PROVE  FreshInv'
  <2>1. db' \subseteq db
    BY <1>8, DeleteOutcomesSmaller DEF cleanupStaleFiles
  <2>2. PICK f \in run[r].todo, partial \in BOOLEAN :
            become(r, [run[r] EXCEPT !.todo = @ \ {f}, !.partial = partial])
    BY <1>8, <1>b DEF cleanupStaleFiles, Run
  <2> DEFINE x == [run[r] EXCEPT !.todo = @ \ {f}, !.partial = partial]
  <2>3. x \in Run /\ FreshRun(x)
    BY <1>b DEF Run, FreshRun
  <2> QED
    BY <1>8, <1>a, <2>1, <2>2, <2>3, FreshStep DEF cleanupStaleFiles
<1>9. ASSUME NEW r \in Indexers, startProcessing(r)
      PROVE  FreshInv'
  <2>1. [run[r] EXCEPT !.pc = "collect"] \in Run /\ FreshRun([run[r] EXCEPT !.pc = "collect"])
    BY <1>b DEF Run, FreshRun
  <2> QED
    BY <1>9, <1>a, <2>1, FreshStep DEF startProcessing
<1>10. ASSUME NEW r \in Indexers, processTask(r)
      PROVE  FreshInv'
  <2>1. PICK f \in run[r].tasks : \E res \in ProcessFile(f, run[r].hashes[f]) :
            become(r, [run[r] EXCEPT !.tasks = @ \ {f}, !.results = @ \cup {res}])
    BY <1>10 DEF processTask
  <2>2. f \in Files /\ run[r].hashes[f] \in Hashes /\ run[r].hashes[f] <= last[f]
    BY <1>b DEF Run, FreshRun
  <2>3. PICK res \in ProcessFile(f, run[r].hashes[f]) :
            become(r, [run[r] EXCEPT !.tasks = @ \ {f}, !.results = @ \cup {res}])
    BY <2>1
  <2>4. res \in Result
    BY <2>2, ProcessFileType
  <2>5. \A d \in res.docs : Stamped(d)
    BY <2>2, ProcessFileStamped DEF FreshInv
  <2> DEFINE x == [run[r] EXCEPT !.tasks = @ \ {f}, !.results = @ \cup {res}]
  <2>6. x \in Run /\ FreshRun(x)
    BY <1>b, <2>4, <2>5 DEF Run, FreshRun
  <2> QED
    BY <1>10, <1>a, <2>3, <2>6, FreshStep DEF processTask
<1>11. ASSUME NEW r \in Indexers, collectResult(r)
      PROVE  FreshInv'
  <2>1. PICK res \in run[r].results, new \in {"insert", "collect"} :
            become(r, [run[r] EXCEPT !.results = @ \ {res},
                                     !.batch = run[r].batch \cup res.docs, !.pc = new])
    BY <1>11 DEF collectResult
  <2>2. res.docs \subseteq Doc
    BY <1>b DEF Run, Result
  <2> DEFINE x == [run[r] EXCEPT !.results = @ \ {res},
                                 !.batch = run[r].batch \cup res.docs, !.pc = new]
  <2>3. x \in Run /\ FreshRun(x)
    <3>1. run[r].batch \cup res.docs \in SUBSET Doc
      BY <1>b, <2>2, RunFields
    <3>2. x \in Run
      BY <1>b, <2>1, <3>1, CollectedType
    <3>3. /\ x.hashes = run[r].hashes /\ x.results \subseteq run[r].results
          /\ x.batch = run[r].batch \cup res.docs
      BY <1>b DEF Run
    <3> HIDE DEF x
    <3> QED
      BY <1>b, <2>1, <3>2, <3>3 DEF FreshRun
  <2>4. db' \subseteq db
    BY <1>11, DeleteOutcomesSmaller DEF collectResult
  <2> QED
    BY <1>11, <1>a, <2>1, <2>3, <2>4, FreshStep DEF collectResult
<1>12. ASSUME NEW r \in Indexers, finalFlush(r)
      PROVE  FreshInv'
  <2>1. [run[r] EXCEPT !.pc = "insert"] \in Run /\ FreshRun([run[r] EXCEPT !.pc = "insert"])
    BY <1>b DEF Run, FreshRun
  <2> QED
    BY <1>12, <1>a, <2>1, FreshStep DEF finalFlush
<1>13. ASSUME NEW r \in Indexers, Insert(r)
      PROVE  FreshInv'
  <2>1. ASSUME NEW d \in run[r].batch, NEW new \in {"insert", "collect"},
               db' = AddDocument(d), become(r, [run[r] EXCEPT !.batch = @ \ {d}, !.pc = new])
        PROVE  FreshInv'
    <3> DEFINE x == [run[r] EXCEPT !.batch = @ \ {d}, !.pc = new]
    <3>1. x \in Run /\ FreshRun(x)
      <4>1. x \in Run
        BY <1>b, <2>1, StoredType
      <4>2. x.hashes = run[r].hashes /\ x.results = run[r].results /\ x.batch \subseteq run[r].batch
        BY <1>b DEF Run
      <4> HIDE DEF x
      <4> QED
        BY <1>b, <4>1, <4>2 DEF FreshRun
    <3>2. \A e \in db' : Stamped(e)
      BY <1>a, <1>b, <2>1 DEF AddDocument, FreshRun
    <3> QED
      BY <1>13, <2>1, <3>1, <3>2, FreshStep DEF Insert
  <2>2. CASE become(r, [run[r] EXCEPT !.batch = {}, !.pc = "collect"]) /\ db' = db
    <3> DEFINE x == [run[r] EXCEPT !.batch = {}, !.pc = "collect"]
    <3>1. x \in Run /\ FreshRun(x)
      BY <1>b DEF Run, FreshRun
    <3> QED
      BY <1>13, <1>a, <2>2, <3>1, FreshStep DEF Insert
  <2> QED
    BY <1>13, <2>1, <2>2 DEF Insert
<1>14. ASSUME NEW r \in Indexers, complete(r)
      PROVE  FreshInv'
  BY <1>14, <1>a, IdleType, IdleFresh, FreshStep DEF complete, returned, TypeOK
<1>15. ASSUME UNCHANGED <<disk, last, run>>, \A d \in db' \cup watch'.docs : Stamped(d),
              watch'.hash <= last[watch'.path]
      PROVE  FreshInv'
  BY <1>15 DEF FreshInv, FreshRun, Stamped
<1>16. ASSUME NEW f \in Files, IndexSingleFile(f)
      PROVE  FreshInv'
  <2>1. disk[f] <= last[f]
    BY MaxVersionAssumption DEF FreshInv, TypeOK, Hashes
  <2>2. \/ watch' = watch
        \/ watch'.path = f /\ watch'.hash = disk[f] /\ watch'.docs = {}
    BY <1>16 DEF IndexSingleFile, idleWatch
  <2> QED
    BY <1>15, <1>16, <2>1, <2>2 DEF IndexSingleFile, FreshInv
<1>17. ASSUME watchProcessFile
      PROVE  FreshInv'
  <2>1. CASE watch' = idleWatch
    BY <1>15, <1>17, <2>1, IdleFresh DEF watchProcessFile, TypeOK, FreshInv, idleWatch
  <2>2. CASE /\ disk[watch.path] # 0
             /\ watch' = [watch EXCEPT !.pc = "loaded",
                            !.docs = prepareRecords(watch.path, disk[watch.path], watch.hash,
                                                    TextsOf(disk[watch.path]))]
    <3>1. /\ watch.path \in Files /\ watch.hash \in Hashes
          /\ disk[watch.path] \in Versions /\ disk[watch.path] = last[watch.path]
          /\ watch.hash <= disk[watch.path]
      BY <2>2, MaxVersionAssumption DEF TypeOK, Watch, Hashes, Versions, FreshInv
    <3>2. disk[watch.path] <= last[watch.path]
      BY <3>1 DEF Versions
    <3>3. \A d \in prepareRecords(watch.path, disk[watch.path], watch.hash,
                                  TextsOf(disk[watch.path])) : Stamped(d)
      BY <3>1, <3>2, PrepareRecordsStamped
    <3>4. watch'.path = watch.path /\ watch'.hash = watch.hash
      BY <2>2 DEF TypeOK, Watch
    <3>5. \A d \in watch'.docs : Stamped(d)
      BY <2>2, <3>3 DEF TypeOK, Watch
    <3> QED
      BY <1>15, <1>17, <3>4, <3>5 DEF watchProcessFile, FreshInv
  <2> QED
    BY <1>17, <2>1, <2>2 DEF watchProcessFile
<1>18. ASSUME watchDelete
      PROVE  FreshInv'
  <2>1. db' \subseteq db
    BY <1>18, DeleteOutcomesSmaller DEF watchDelete
  <2>2. watch'.path = watch.path /\ watch'.hash = watch.hash /\ watch'.docs = watch.docs
    BY <1>18 DEF watchDelete, TypeOK, Watch
  <2> QED
    BY <1>15, <1>18, <2>1, <2>2 DEF watchDelete, FreshInv
<1>19. ASSUME watchInsert
      PROVE  FreshInv'
  <2>1. \A d \in db' : Stamped(d)
    BY <1>19 DEF watchInsert, AddDocument, FreshInv
  <2>2. \/ watch' = idleWatch
        \/ /\ watch'.path = watch.path /\ watch'.hash = watch.hash
           /\ watch'.docs \subseteq watch.docs
    BY <1>19 DEF watchInsert, TypeOK, Watch
  <2>3. watch'.hash <= last[watch'.path] /\ \A d \in watch'.docs : Stamped(d)
    <3>1. CASE watch' = idleWatch
      BY <3>1, IdleFresh DEF TypeOK, idleWatch
    <3>2. CASE watch' # idleWatch
      BY <2>2, <3>2 DEF FreshInv
    <3> QED
      BY <3>1, <3>2
  <2> QED
    BY <1>15, <1>19, <2>1, <2>3 DEF watchInsert
<1>20. ASSUME NEW f \in Files, DeleteByPrefix(f)
      PROVE  FreshInv'
  <2>1. db' \subseteq db
    BY <1>20, DeleteOutcomesSmaller DEF DeleteByPrefix
  <2> QED
    BY <1>15, <1>20, <2>1 DEF DeleteByPrefix, FreshInv
<1>21. ASSUME handleDeleteContext
      PROVE  FreshInv'
  <2>1. db' \subseteq db
    BY <1>21 DEF handleDeleteContext, DeleteByPath
  <2> QED
    BY <1>15, <1>21, <2>1 DEF handleDeleteContext, FreshInv
<1>22. ASSUME Crash
      PROVE  FreshInv'
  <2>1. db' \subseteq db
    BY <1>22 DEF Crash
  <2>2. FreshRun(idleRun)' /\ (idleWatch.hash <= last[idleWatch.path])'
    BY <1>22, IdleFresh DEF Crash, TypeOK, FreshRun, Stamped
  <2>3. idleWatch.docs = {}
    BY DEF idleWatch
  <2> QED
    BY <1>22, <1>a, <2>1, <2>2, <2>3 DEF Crash, FreshInv, Stamped
<1>23. ASSUME processPending
      PROVE  FreshInv'
  BY <1>15, <1>23 DEF processPending, FreshInv
<1>24. CASE UNCHANGED vars
  BY <1>15, <1>24 DEF vars, FreshInv
<1>25. ASSUME NEW f \in Files, Chmod(f)
       PROVE  FreshInv'
  BY <1>15, <1>25 DEF Chmod, FreshInv
<1> QED
  BY <1>1, <1>2, <1>3, <1>4, <1>5, <1>6, <1>7, <1>8, <1>9, <1>10, <1>11, <1>12,
     <1>13, <1>14, <1>16, <1>17, <1>18, <1>19, <1>20, <1>21, <1>22, <1>23, <1>24, <1>25
     DEF Next, Indexing, Watching, Environment

\* A chunk stamped with the hash its file has now holds the text its file has
\* now, for any number of indexers beside the watcher, through crashes, panics
\* and failing store calls, as long as old content does not come back.
THEOREM CurrentStampCurrentText ==
    ASSUME "revert" \notin Env
    PROVE  Spec => []StampedFresh
<1>1. Init => TypeOK /\ FreshInv
  BY InitType, InitFresh
<1>2. TypeOK /\ FreshInv /\ [Next]_vars => TypeOK' /\ FreshInv'
  BY NextType, NextFresh
<1>3. TypeOK /\ FreshInv => StampedFresh
  <2> SUFFICES ASSUME TypeOK, FreshInv, NEW d \in Chunks,
                      disk[d.path] # 0, d.hash = disk[d.path]
               PROVE  d.src = disk[d.path]
    BY DEF StampedFresh
  <2>1. d \in Doc /\ d.idx # Meta /\ Stamped(d)
    BY DEF Chunks, TypeOK, FreshInv
  <2>2. disk[d.path] = last[d.path] /\ last[d.path] \in Nat /\ d.src \in Nat
    BY <2>1, MaxVersionAssumption DEF FreshInv, TypeOK, Doc, Hashes
  <2> QED
    BY <2>1, <2>2 DEF Stamped
<1> QED
  BY <1>1, <1>2, <1>3, PTL DEF Spec

-----------------------------------------------------------------------------
(* Where the records come from. *)

\* When every text has its vector, the chunks are numbered as the texts are.
LEMMA WholeRecords ==
    ASSUME NEW f, NEW h, NEW v \in Versions
    PROVE  prepareRecords(f, v, h, TextsOf(v)) =
             {createChunkRecord(f, v, h, k, k) : k \in TextsOf(v)}
                \cup {createFileMetaRecord(f, h)}
<1>1. ChunkCount[v] \in Nat
  BY ChunkCountAssumption
<1>2. ASSUME NEW k \in TextsOf(v)
      PROVE  Cardinality({j \in TextsOf(v) : j < k}) = k
  <2>1. k \in Nat /\ {j \in TextsOf(v) : j < k} = 0..(k - 1)
    BY <1>1 DEF TextsOf
  <2>2. Cardinality(0..(k - 1)) = k
    BY <2>1, FS_Interval
  <2> QED
    BY <2>1, <2>2
<1> QED
  BY <1>2 DEF prepareRecords
=============================================================================

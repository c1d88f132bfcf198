# Verification of vector-mcp-go

vector-mcp-go is a local code-search server. It cuts a project's files into chunks,
stores the chunks with their embeddings in an embedded vector store (chromem) with a
BM25 index beside it, keeps both in step with the disk, and answers searches and code
tools over MCP and HTTP. One process per data directory is the *master*: it owns the
store and the embedding models. Further processes are *slaves* that call the master over
a Unix socket.

This directory holds TLA+ models of the parts of the program whose correctness depends
on the order of steps, TLC configurations that check them on small instances, and TLAPS
proofs of their safety properties for every value of the constants. Every definition is
translated from the Go source; `PROJECT.json` maps each one to the lines it models.

To run one thing by hand:

    tlc -config index_worker.cfg MCIndexPipeline.tla
    tlapm LanguageServerProofs.tla

## 1. The system

### Components, their state and how they meet

| component | source | state | operations |
|---|---|---|---|
| index run | `internal/indexer/scanner.go` | scan result, hash mapping, task and result channels, the batch not stored yet | `IndexFullCodebase`: scan, read the stored hashes, hash the files, delete stale paths, embed in parallel, collect, insert; `IndexSingleFile` |
| chunker | `internal/indexer/chunker.go` | none | `CreateChunks`: `treeSitterChunk` with entities and gaps, `splitIfNeeded`, `fastChunk` |
| index worker | `internal/worker/worker.go` | the queue, the project's status record | `processPath` with its `recover` |
| file watcher | `internal/watcher/watcher.go` | pending operation per name, timer, watched directories, current root | `runDebounce`, `processPending`, `resetWatcher`, `watchRecursive` |
| vector store | `internal/db/store.go` | chromem collection (one file per record on disk), lexical index (memory) | `Insert`, `deleteByFilter`, `DeleteByPrefix`, `Connect`, `Search`, `LexicalSearch`, `HybridSearch`, `SetStatus` |
| BM25 index | `internal/db/lexical/bm25.go` | posting lists, document lengths, count, average length | `Add`, `Remove`, `Search`, each under one mutex |
| filesystem grep | `internal/mcp/handlers_search.go` | four channels, a context | walker, eight workers, closer, collect loop |
| process life cycle | `main.go`, `internal/daemon/daemon.go` | socket file, listener, role, open store | `StartMasterServer`, `Close`, `initDaemon`, `UpdateEmbedder`, `App.Stop` |
| daemon RPC, remote clients | `internal/daemon/daemon.go` | service's embedder and store, queue | `Embed`, `IndexProject`, store calls, their timeouts |
| embedder pool | `internal/embedding/types.go` | a channel of embedders | `Get`, `Put`, `Close` |
| LSP client | `internal/lsp/client.go` | server process, pending requests, handlers, idle time | `EnsureStarted`, `Call`, `Notify`, `readLoop`, `handleDisconnect`, `monitorTTL` |
| patch safety check | `internal/mutation/safety.go` | one handler per check | `VerifyPatchIntegrity` |
| HTTP API | `internal/api`, `internal/security/ratelimit` | one token bucket per client | the middleware, handlers that forward to the tools |
| MCP tools | `internal/mcp` | project root, language-server sessions | `set_project_root`, `delete_context`, `get_related_context`, `find_dead_code`, `find_missing_tests`, `verify_patch`, ... |
| the rest | resolver, graph, models, analysis, config, path checks, metrics, cache | none, or none that is shared | pure functions, inference, I/O |

The collection is the meeting point. The worker, the watcher, the tools and every slave's
remote calls insert into it and delete from it at the same time. chromem and the BM25
index each lock themselves, and nothing locks both or spans two calls. The files on disk
change while they are hashed, read and indexed. Memory (queues, batches, the lexical
index, the debounce map) dies with the process; the collection and the socket file stay.
Beside it there are three further shared resources: the socket's path, which every process
may create and remove; the pool's embedders, which calls of three kinds borrow; and a
language server per root, which all tool requests talk to through one manager.

### What is hard, and what correct means

* **Index run.** A file is hashed when it is listed, read much later, its old records go
  when its result is collected and its new ones wait in a batch shared with other files.
  *Correct*: versions of a file are not mixed, a stamp that looks fresh is fresh, a file
  that later runs will skip is complete, a path with chunks can be found again, and the
  index converges to the disk when edits stop.
* **Chunker.** Entities nest, gaps lie between them, and what is too long is cut with an
  overlap. *Correct*: no text is lost, no chunk is too long, no short passage is cut in two.
* **Watcher.** Events are merged per name, and a batch is processed while new events
  queue up; directories are made while it walks. *Correct*: what it indexes ends in step
  with the disk, and no directory escapes it.
* **Store.** `Insert` and the deletes each change two structures in several calls, and a
  delete counts, queries, and deletes. *Correct*: a stored record has a lexical entry;
  without failed inserts both hold the same texts.
* **BM25.** The average length is updated incrementally. *Correct*: postings, lengths and
  average are those of the documents held, idf stays positive.
* **Hybrid search.** Two searches read a changing store and their ranks are fused.
  *Correct*: an answer has only records that were there, and a record that beats another
  in everything is not behind it.
* **Grep.** Full channels, a deadline, a limit and several ways to return. *Correct*: no
  match is dropped while the request lives, the limit is reported exactly, no goroutine
  is left behind.
* **Processes.** Dial, remove, listen and close are separate system calls on one path.
  *Correct*: one master, one owner of the store, a master that can be reached. The code
  does not serialise starts and stops, so this holds only where none meets another.
* **Calls and the pool.** A caller that times out leaves its call running at the master;
  `Stop` closes the pool while embedders are lent. *Correct*: no embedder is lost, lent
  twice or closed in use, and what waits is served.
* **LSP client.** `callLocked` gives its mutex up while it waits; servers exit, are ended
  when idle and restarted; read loops report late. *Correct*: one process, initialized
  first, answers to whom they are due, nobody waiting for what cannot come.
* **Patch check.** The server's diagnostics come when they like. *Correct*: the verdict is
  about the patch, which the code does not achieve.
* **Usage reports.** They read what another component stored. *Correct*: what they look for
  is what is stored, which it is not.
* **Rate limit.** Requests of a new client race to make its bucket. *Correct*: the burst
  and the rate hold.

`PROJECT.json` lists the hazards at their lines, with the properties that cover each.

## 2. The modules

| module | models | checked or proved by |
|---|---|---|
| `IndexPipeline` | worker, index runs, watcher, `delete_context`, edits, crashes over one collection | all `index_*` runs, `ghost_chunks` |
| `IndexProperties` | type invariant, safety, action and liveness properties of it | |
| `FileIndex` | abstract: what the index promises per file | `index_refines` |
| `IndexRefinement` | `IndexPipeline` with a history variable, mapped to `FileIndex` | `index_refines` |
| `LiveIndex` | `IndexPipeline` with a history variable: changes the watcher will not hear of | `index_live` |
| `IndexInvariants` | inductive strengthenings | the two proof modules |
| `IndexPipelineProofs`, `IndexWriterProofs` | proofs | tlapm |
| `VectorStore` | collection and lexical index under concurrent store calls and restarts | `store`, `VectorStoreProofs` |
| `LexicalIndex` | the BM25 index as a value with `Add` and `Remove` | through `LexicalStore` |
| `LexicalStore` | composes the two: every store step with the posting lists it leads to | `store`, `VectorStoreProofs` |
| `HybridSearch` | one search while the store changes | `store`, `HybridSearchProofs` |
| `FilesystemGrep` | one grep request | `grep`, `FilesystemGrepProofs` |
| `Instances` | the processes of one data directory | `instances`, `two_masters`, `MasterCallsProofs` |
| `OneMaster` | `Instances` with a history variable: starts and stops have met | `instances`, `MasterCallsProofs` |
| `MasterCalls` | composes `Instances` with the calls slaves and tools make of the master, and its embedder pool | `instances`, `MasterCallsProofs` |
| `LanguageServer` | one `lsp.Manager`: processes, requests, read loops, idle monitor, clients | `tools`, `LanguageServerProofs` |
| `PatchSafety` | composes it with the patch checks that use it | `tools`, `LanguageServerProofs` |
| `Chunker` | how a text is cut, as operators | `tools`, `ToolsProofs` |
| `RateLimiter` | the token buckets under concurrent requests | `tools`, `ToolsProofs` |
| `WatchedTree` | the directories the watcher watches, its resets and walks | `tools`, `ToolsProofs` |
| `RelatedContext` | `get_related_context` in every order of its maps | `tools`, `ToolsProofs` |
| `UsageReports` | `find_dead_code` and `find_missing_tests` over the records the indexer stores | `dead_code` |
| `MC*` | constants for TLC. `MCStore` runs the store's clients or a search, `MCRequests` one of the parts above from `LanguageServer` to `RelatedContext` (with `MCTools`), `MCMasterCalls` takes `MasterCalls` with `OneMaster`'s history | |

### IndexPipeline

A file's content is a version number and its hash is that number; hash 0 is the empty
string `GetHash` returns for a file it cannot read. A record carries both the version whose text it
holds (`src`) and the hash it was stamped with (`hash`), because the code can make them
differ; `emb` is the position of the text its vector was computed from, because
`prepareRecords` pairs chunks and vectors by position. `run[r]` holds the local variables
of one `IndexFullCodebase` call, and its `pc` the phase:

    processPath -> ScanFiles -> ReadMapping -> discoverFilesToIndex* -> cleanupStaleFiles*
      -> startProcessing -> (processTask | collectResult | Insert)* -> finalFlush -> complete

Every store call is a step. `AddDocuments` stores record by record because chromem writes
one file per record, so a crash, another writer or an error can fall between any two.
`watch` is the watcher's `IndexSingleFile` call, `pending` the debounce map and `processing`
what `processPending` has still to do of the map it was given. The map keeps one operation
per name, the last, and a `Chmod` is one: it takes the place of a `Write`, and
`processPending` passes it over. `LiveIndex` adds the files whose newest change the watcher
will never hear of, for that reason or because it was made where nothing was watched yet
(`unseen`: files in a new directory before `Start` has added it). `Env` names what the
surroundings may do in an instance: `watch`, `clear` (`delete_context`), `crash`, `revert`
(old content comes back), `query` (a store query is refused), `insert` (`AddDocuments` gives
up), `embed`, `panic`, `scan`, `unseen`. A property that needs a fault to be absent says so
by the `Env` of its run, and its theorem by an assumption on `Env`.

The `query` fault is real and comes from the code alone: `deleteByFilter` and
`GetPathHashMapping` first ask the collection for its size and then query that many
documents. Another client that deletes in between makes chromem refuse the query, and the
callers ignore the error. `VectorStore` models those two calls themselves; `IndexPipeline`
takes their outcome as a choice.

### VectorStore, LexicalIndex, LexicalStore

`VectorStore` says of each identifier which text the collection has and which text the
lexical index was last given, and interleaves the store calls at every call to either.
`LexicalIndex` has the index as `bm25.go` keeps it, as pure operators. `LexicalStore` lets
`VectorStore` step and updates the posting lists beside it; `bm25` is then the history they
have to agree with. `Connect` is a restart: calls are gone, the lexical index is rebuilt
from the collection (in any order: `FoldSet` takes one, and the order decides only in which
order a term lists its documents, which is proved). A posting list is a sequence, since a
document listed twice would change `len(posts)`; `filtered` is the pass of the loop in
`removeLocked`. The average is kept as a quotient: rounding is left out. `Scope` gives the
paths each client writes; where scopes overlap, two writers of one path do leave the indexes
out of step, which is the boundary of what is claimed. chromem's deletes are taken to
succeed here.

### HybridSearch

One call with its two goroutines. Similarities (of either sign, 0 for the zero vector of a
`file_meta` record) and BM25 scores are chosen at the start; a ranking may order equal keys
in any way, as Go's maps and `sort.Slice` do. Reciprocal ranks and boosts are scaled to
whole numbers. A boost is the record's `function_score`: positive for an entity, 0 for every
other chunk, 1 for a record that has none. `Change` lets others run the halves of inserts
and deletes in the order `VectorStore` gives them. The run and the proofs that count places
take the projects asked for to be distinct.

### FilesystemGrep

The four channels are sets with a capacity (a match is sent once, so nothing is lost by
that), and every `select` is a choice among its ready branches. An unreadable directory
fails the walk, as the callback's `return err` does.

### Instances and MasterCalls

The socket's path holds nothing or the file of one instance's listener. `StartMasterServer`
is three steps (dial, remove, listen) and `Close` three (Go's listener unlinks and closes,
then `Close` removes the path again). A process dies at any point and leaves its file
behind. `EmbedTooEarly` is a slave's `Embed` that reaches a master whose embedder is still
nil, which ends the master. Nothing orders starts and stops, in the model as in the code.

`OneMaster` says when there is one master all the same. Its history variable `contested`
becomes true when a process dials in vain while another one has dialled before it and does
not listen yet, or is being stopped; it becomes false when everybody who was past the dial
then is gone. `MasterIsAlone`, `StoreIsOwned`, `MasterIsFound` and `ListenSucceeds` are
about the time while it is false, and `two_masters` shows what happens otherwise.

`MasterCalls` adds to every process the pool it lends from and to the whole the calls.
A call has a phase at its master (`queued`, `get`, `using`, `store`, `over`) and an answer
at its caller, and the two go their own ways: a caller that times out or dies leaves the
call running. The pool's channel is the set `idle[p]`; `Close` closes the channel first and
then drains it, so that a `Put` that comes later panics and ends the process, as sending on
a closed channel does, and a `Get` yields nil once it is empty; in an index run
`ProcessFile` recovers from both, in a tool's request the HTTP server or the stdio loop, and
then only the call ends (`panics`). The order of `Stop` is the
code's: pool, then listener. Each `Instances` step is taken with what it means for the
pool and the calls; that nothing else happens to the processes is a theorem
(`CallsImplementInstances`).

### LanguageServer and PatchSafety

A locked section of `client.go` is one step; `callLocked` splits where it unlocks to wait.
Servers are numbered as they are started; `inbox`, `stdout` and `first` belong to a server,
and `stream[k]` is the server whose output the read loop started with server `k` really
reads, since `readLoop` takes `m.stdout` without the mutex when it first runs. A request is
its number and its sender. `Env` lists what the surroundings do: servers that exit, the idle
monitor, cancelled contexts, refused starts, and requests of the server's own, which
`readLoop` takes for answers of that number. `PatchSafety` gives the clients their
operations: some send one request, the others verify a patch, which registers a handler for
good, starts the server, sends the text and waits for the first diagnostics of its file. A
server publishes on the texts it was sent and on the files of its workspace as they are on
the disk, whenever it likes. A use of the nil `m.stdin` is `panics`: either recovered (HTTP)
or the end.

### The parts in MCTools

`Chunker` has texts as sequences of runes that are newlines or not, and the entities
tree-sitter finds as places that nest or lie apart. `RateLimiter` splits the middleware
into the look-up under the read lock, the second look under the write lock and the take
from the bucket. `WatchedTree` has the tree as a set of directories with a parent each,
and the watcher's walk as a set of directories to enter and to list, with trees changing
in between. `RelatedContext` writes the answer chunk by chunk in any order. They share no
state, so one is at work in each behaviour of `MCTools`, and of `MCRequests`, which adds
`PatchSafety`.

`UsageReports` stands by itself: the records as the indexer stores them, and the two reports
as operators over them.

## 3. The runs

| run | instance | distinct states | shows |
|---|---|---|---|
| `index_worker` | 2 files, 2 versions, a worker; panics, unreadable roots, old content back | 421,042 | `NoOrphanChunks`, `SettledStatus` |
| `index_refines` | 1 file, 3 versions, a worker; crash, clear, failing inserts, embeddings, panics | 25,216 | `GhostFree`, `ImplementsFileIndex` |
| `index_all` | 1 file, a worker beside the watcher; every fault but old content and unseen changes | 1,290,384 | `TypeOK`, `StampedFresh` |
| `index_converges` | 2 files, a worker, fairness, no faults | 29,142 | `Converges`, `CompletedMeansIndexed`, `FullyIndexedIsComplete` |
| `index_live` | 2 files (one watched), 3 versions, the watcher alone, `Chmod` events and unseen changes, fairness | 78,432 | `LiveConverges` |
| `ghost_chunks` | 1 file, worker and watcher | violation | `GhostFree` fails |
| `store` | the clients: 3 records, 2 paths, 2 clients, one whose inserts fail, restarts, 2 terms; or a search: 3 records of boosts 0 to 2, 2 projects, similarities -1 to 1, BM25 scores to 1, 2 changes | 1,445,307 | `Findable`, `InStep`, `StatisticsExact`, `SearchExact`; `AnswerSound`, `DominanceRespected`, `ServedInFull` |
| `grep` | 2 workers, 2 files of 2 lines, 1 directory, limit 3, deadline, fairness | 109,912 | `NothingDropped`, `SoundAnswer`, `NoLeak` |
| `instances` | 2 processes that start, stop, fail and die at any point, 2 calls of any kind, 1 embedder, a queue of 1, fairness | 500,628 | `MasterIsAlone`, `StoreIsOwned`, `MasterIsFound`, `ListenSucceeds`, `PoolWhole`, `NoUseAfterClose`, `StoreServedByOwner`, `EveryCallServed` |
| `two_masters` | 2 processes | violation | `AtMostOneMaster` fails |
| `tools` | every text of 6 runes with up to 3 entities; 4 requests of 2 clients; 6 directories, 4 changes; 3 chunks; a request and 2 patch checks of one file, 2 language servers, every fault | 2,171,357 | `EveryTextServed`, `RateKept`, `EveryDirectoryWatched`, `ContextKept`; `OneServer`, `InitializeFirst`, `OwnAnswer`, `NoStrandedCall` |
| `dead_code` | chunks with 2 symbols | violation | `UnusedIsReported` fails |

### Where the code and what is said of it differ

* **`ghost_chunks`.** A page of the repository's wiki says records are "inserted
  atomically (delete old chunks, insert new) to prevent ghost-chunks". The code deletes
  and inserts in separate calls. With the worker and the watcher on one file, both delete
  before either inserts, and a longer version's last chunk stays beside a shorter one's.
* **`two_masters`.** The wiki (`Distributed Architecture.md`) promises a "single master
  constraint" that prevents split-brain. Two processes that start together both dial
  before either listens; the second removes the first one's socket and listens itself,
  over the same store.
* **`dead_code`.** `server.go:420` offers to "find unused exports", and `find_missing_tests`
  to find functions without tests. Both look for records of type `function`, `class`,
  `variable` or `arrow_function`, and every record the indexer stores is of type `chunk`
  (`scanner.go:326`): both find nothing and report that all is well. `UntestedIsReported`
  fails as `UnusedIsReported` does.

Further claims are stated in the modules and do not hold. No run checks them; put in the
place of the properties of the configuration named, TLC refutes each:

* **`EmbeddingsAligned`** (`index_refines`). "Embeddings are generated per chunk" (the page
  of the ghosts). When a text cannot be embedded, `embedSequentially` leaves it out and
  `prepareRecords` gives the i-th chunk the i-th vector there is: the chunks behind it get
  their neighbours' vectors.
* **`EverySaveIndexed`** (`index_live`). "Trigger re-indexing on write/create events" (`File
  Watching and Monitoring.md`). A `Chmod` within half a second of a `Write` takes its
  place in the map, and `processPending` does nothing for it: the save is not indexed until
  the next full run.
* **`BestFirst`** (`store`, with `MCBoost` 0 for two records). `function_score` is said to "boost
  relevance" (`Database Schema and Data Models.md`). It is a factor, and it is 0 for gap
  chunks and for every chunk of `fastChunk` (`chunker.go:413`, `429`, `767`): all of them
  score 0, and a map's order decides.
* **`OnlyStaleRemoved`** (`two_masters`). The comment at `daemon.go:403` says "no one
  listening": since the dial somebody may be.
* **`StoreHandedOver`** (`two_masters`). The store is "master-only to prevent inconsistent
  writes" (`Core Components and Interactions.md`). A master that is being stopped keeps its
  store open after its listener is closed, and the next master opens it too.
* **`VerdictOfPatch`** (`tools`). `verify_patch` is to collect the diagnostics of the modified
  content (`Safety and Compliance.md`). Its handler takes the first diagnostics of the
  file's URI, and a server reports on the file on the disk of its own accord.

Met while modelling, and kept in the models as the code has them:

* A comment in `LexicalSearch` (`store.go:207`) says that extras are fetched "so
  project/category filtering does not starve the final result set". BM25 knows no projects,
  and three times as many documents of another project use up the extras. The hybrid
  answer is full all the same, by its vector half, so no property here sees it.
* `splitIfNeeded` computes the end line of each part from the start line of the whole
  (`chunker.go:590`), so the end lines of all parts but the first are too small;
  `EveryTextServed` speaks of the start lines, which are right.
* A slave's `Embed` that comes before `UpdateEmbedder` ends the master (`daemon.go:143`).
* A read loop that reports its server's end late kills the server that was started since
  (`client.go:316`), and a request can be sent before `initialize` is answered
  (`client.go:189`).
* `set_project_root` tells the watcher over a channel of one place without waiting
  (`handlers_context.go:37`): the second of two quick changes is dropped, and two can
  overtake each other. `EveryDirectoryWatched` speaks of the root the watcher was told.
* `get_related_context` writes chunks of other projects when an import's path occurs in
  theirs (`handlers_analysis.go:132`).
* `find_dead_code` with a target path looks for uses in that part only, so what is used
  from outside would be called dead (`handlers_analysis.go:693`) if anything were.
* `CreateChunks` puts a line of context before a passage of an entity, and a header before the
  string it embeds, after the passages were cut (`chunker.go:72-113`): what the embedder is
  given is longer than the limit. `EveryTextServed` bounds the passages.

### Bounds, and why they are enough

* *Two versions whose chunk counts go down, or three that go down and up* (`MCChunkCount2`,
  `MCChunkCount`): what goes wrong between versions needs an old one that is longer than the
  new one (a chunk left over) and one that is shorter (a chunk missing). Three versions are
  used where a history must be able to go back past one.
* *`BatchLimit` 3* instead of 50: a file of two chunks with its `file_meta` fills a batch,
  and a shorter one leaves a rest, so both flushes happen, and two files share a batch.
* *Two files* where files interact through the batch, one where the faults are many.
* *One indexer beside the watcher*: with two writers `GhostFree` is already false, and
  `StampedFresh` is proved for any number.
* *Two texts per record, two terms, three records* in the store: an update, a term in none,
  one or several documents, and two records of one path, which the delete loops need.
* *`FetchMultiplier` 1* in `store`: with the code's 3 no ranking of three records
  would ever be cut short. The fusion is the same, and the cut is what can go wrong.
  `topK` 1 of three records makes every place contested. Similarities of both signs and 0,
  and a record of boost 0 beside one of 1 and one of 2. The theorems allow any.
* *Limit 3 below four matches*, and a `paths` channel of one place: both channels fill up.
* *Two processes*: a master that stops or dies while the other starts, two starts that meet,
  a slave with its master, and a process that comes when all who met are gone. *One
  embedder*, the program's default, and *two calls*: one holds it while the other waits,
  or fills the queue. The safety properties are proved for any number.
* *Two servers*: one that ends and the one restarted, with each read loop on its own
  stream, on the other's, or early and late. Two loops on one stream beside a third server
  (`Shared`) need three; the proofs cover any number. *Three clients*: two checks
  of a file, and a request beside them.
* *Limits of 3 and 4 with overlaps of 1 and 2 for texts of 6 runes*: up to three parts of
  an entity or a gap, and the last part full, short, or not there. *Trees of three
  entities* have them nested, adjacent and apart.
* *Burst 2, rate 1, time to 2, four requests of two clients*: a bucket runs dry, refills
  below and up to its burst, and up to four first requests race.
* *Six directories three deep*, one ignored and one below it, two roots of which one lies
  in the other, four changes: a walk can meet a directory that was made, filled and removed
  on its way, and a reset unwatch a tree the next walk shares.

### Fairness

`WF(Indexing(r))` of every indexer: its goroutines run whenever they can, and a new run
begins after the last one ended, because index requests (`trigger_project_index`, or a
start with live indexing) come again; without that nothing picks up an edit a run missed.
`WF(Watching)` and, in grep, one weak fairness per goroutine: Go's scheduler runs a
goroutine that can go on, and its timers fire. Nothing is assumed of edits, faults,
crashes, deadlines or of the branch a `select` takes. Edits end because versions are
bounded; `LiveConverges` counts only files saved after the watcher began, since events
are all it knows. That its timer fires is assumed although every event sets it back by half a
second (`watcher.go:131`): it does once events pause that long.

`CallsFairness`: the goroutines of a call that holds an embedder or is in the store go on
(weak), the master's loading does, and a call that waits in `Get` or in the queue is
served if it could be again and again (strong), because a Go channel wakes its receivers
in the order they came and the index worker takes its queue in order. Nothing is assumed of
callers, timeouts, starts, stops or deaths; `EveryCallServed` lets a stop or a death end a
wait. Inference itself is taken to end.

`index_live`, `grep`, the search of `store`, `tools` and `dead_code` end, so their
configurations leave deadlock out.

## 4. The proofs

Theorems hold for every value of the constants that satisfies the `ASSUME`s of the
module, with the hypotheses named.

| theorem | says | hypotheses |
|---|---|---|
| `TypeCorrect` | `TypeOK`: also that no two stored records share an identifier | none |
| `CurrentStampCurrentText` | `StampedFresh` | old content does not come back |
| `NoGhosts` | `GhostFree` | one indexer, no watcher, queries answered |
| `NoOrphans` | `NoOrphanChunks` | one indexer, no watcher, no crash, no `delete_context`, no failing insert |
| `SkippedFilesAreComplete` | `FullyIndexedIsComplete` | one indexer, no watcher, only panics and unreadable roots |
| `CompletedIsIndexed` | `CompletedMeansIndexed` | one indexer, no watcher, only unreadable roots |
| `ImplementsIndex` | the refinement of `FileIndex` | one indexer, no watcher, queries answered, old content does not come back |
| `StatusSettles` | `SettledStatus` | every run a worker's, no crash, no refused query |
| `StoredIsFindable`, `IndexesInStep` | `Findable`, `InStep` | no two clients write one path |
| `StatisticsAreExact` | `StatisticsExact`, of `LexicalSpec` | none |
| `SearchesAreExact` | `SearchExact`, of `LexicalSpec` | no two clients write one path |
| `AnswersAreSound` | `AnswerSound` | none |
| `SearchesAreServed` | `ServedInFull` | no project named twice |
| `BetterComesFirst` | `DominanceRespected`: of records with a positive boost | no project named twice, ranks to 3000 |
| `NoMatchDropped`, `AnswersSound` | `NothingDropped`, `SoundAnswer` | none |
| `SingleMaster`, `SingleStore`, `MasterReachable`, `StartsSucceed` | `MasterIsAlone`, `StoreIsOwned`, `MasterIsFound`, `ListenSucceeds`, of `OneMasterSpec` | none; they speak of states that are not `contested` |
| `EmbeddersKept`, `EmbeddersClosedIdle`, `StoreCallsOwned` | `PoolWhole`, `NoUseAfterClose`, `StoreServedByOwner` | none |
| `CallsImplementInstances`, `OneMasterServesAll` | `CallsSpec => Spec`, and the four of the composition with its history | none |
| `SingleServer`, `Initialized`, `AnswersMatched`, `NobodyStranded` | `OneServer`, `InitializeFirst`, `OwnAnswer`, `NoStrandedCall` | none |
| `CreateChunksServes`, `TextsAreServed` | `ChunksServe` of every sequence of runes, so `EveryTextServed` | none |
| `RateIsKept` | `RateKept`, of `LimiterSpec` | none |
| `TreeIsWatched` | `EveryDirectoryWatched`, of `TreeSpec` | none |
| `ContextIsKept` | `ContextKept`, of `ContextSpec` | finitely many chunks |

**Stamps.** `StampedFresh` speaks of stored chunks and is not inductive: a run carries
hashes and records it has not stored yet. `FreshInv` orders stamp, text and newest version
(`hash <= src <= last`) for stored records, batches, results and the watcher's documents.
A stamp that equals the file's present hash then forces the text between them to be
present too. That is why any number of writers at any speed cannot break it, and why old
content coming back (which breaks `disk \in {0, last}`) can.

**Ghosts.** What is stored of a file says nothing about what the batch will add.
`GhostInv` therefore speaks of stored records and batch together, and of the records of
each result. It needs `OncePerPath`: a path moves from `todo` to `tasks`, to `results`, to
the batch, once per run, so that the delete at collection is the last before its insert.

**Complete.** `WholeInv` says the same records, stored and in the batch, are nothing or
the whole of one version; while a batch is being inserted only the two together are
whole, which is why the property excludes paths in flight.

**Orphans.** `HeadedInv` asks less than `WholeInv` and survives more: where a path has
chunks, stored or in the batch, it has a `file_meta` record in one or the other, and outside
an insert the stored ones have theirs in the store. So a batch lost to a panic takes away
nothing that stored chunks need, and a refused delete leaves old chunks with their old
record. A crash, a `delete_context` or an insert that gives up in the middle does leave
chunks alone (in each case TLC finds the state on the bounds of `index_all`), so none of the
three hypotheses can be spared.

**Completed.** `CompletedMeansIndexed` is about one step, the one that reports. `DueInv` is
what the run owes before it: each listed file is still to be looked at, or is complete in
store and batch, or is on its way as a task or a result, or has changed since it was hashed
(`Handled`); and what is left of a file it did not list is only what the cleanup has still
to delete. When the run reports, nothing is on its way.

**FileIndex.** The specification promises of a file that what is served is never older
than what was served before. `NewestInv` says why: `newest` lies between what is served
and the newest version on disk, and nothing stored, in the batch or in a result is older.
The delete and the insert of a file are steps of their own, so most steps change nothing
that is served, and a crash or a wipe only withdraws.

**Status.** `SettledStatus` is inductive as it stands: every step of a run that writes an
unsettled status leaves that run going, and every step that ends one writes a final status
or, where an insert fails, leaves none. Overlapping runs do no harm: while one is left the
status may be anything, and the last to end has the last word.

**Store.** Between its two halves a call leaves the indexes apart. `Progress(c, r)` says
how far apart, by the call's phase; `Agree(r)` holds when no call is at work on the path.
With `Disjoint` scopes each record has one call to account for it.

**Lexical index.** `IndexOf(i, h)` says that the index `i` is exactly that of the texts
`h`, field by field. `removeLocked` makes of it the index of the other texts
(`RemovedExactly`), `Add` the index with one more or another (`AddedExactly`), and a
rebuild, whatever order it takes, the index of the collection (`RebuiltExactly`); so it
holds of `idx` and the texts in `bm25` whoever shares paths (`LexicalInv`). The average is
exact because the total is recovered from it (`TotalKept`) and changes by one summand
(`TotalSplits`); no term is listed in more documents than there are by the pigeonhole
principle (`ListsFit`). A lexical search then scores what `bm25` holds, which is what the
collection holds where `InStep` does. `Terms` is assumed finite: the terms of the texts.

**Search.** Each half of a search reads the store several times, so the proof speaks of the
records that no change of the call is about (`Steady`). In the vector search such a record
of a project that was queried is found, or `count` records as similar stand in a row
(`Outdone`): then the cut after the sort loses it only to those, by counting places
(`NoRoom`). In the lexical search a hit brings every untouched record with a higher score
with it, because BM25 takes the best of all projects. So each ranking puts the better of two
records first or has neither, and the fused sum is strictly more where the boost is
positive. A priority is a factor of the similarity, so a higher one makes a
negative similarity worse: the claim is made of similarities from 0 up. `FullAnswer` counts the
vector half alone. That a search fails only after a delete is `CountInv`, which needs no
hypothesis. Whole-number reciprocals of neighbouring ranks differ up to rank 3000 at least,
the code's fractions always; a project named twice has its records found twice, and they
take places from others. The callers that append `cross_reference_projects` to the own
project do not exclude that.

**Grep.** `OnItsWay` follows a match from the walker's unvisited files to the channel, a
worker's hands, `matchChan` and the results; a worker that is gone in a live request has
seen the channel closed and empty.

**Processes.** A start or a stop is safe when nobody else is passing, and the program does
not see to that; so the invariant says what follows while nobody has met. `Owner` holds
always: what listens or has the store open is a master, and a master that does not listen
is nearly gone. `Order` holds outside a contest: at most one process is past its dial and
not gone (`Contenders`), what lies at the path is its listener's file until it takes that
away itself, and what it removed before it listens stays removed. `Contest` says that a
contest has somebody left who was there, so that one over leaves nobody to be a second.

**Calls.** `CInv` needs no order of starts and stops. `Home` says a call is at work only
at a process that is a master, that it borrows only where there is a pool; `Loaded` that a
master past loading has its pool and its store; `Lends` accounts for every embedder of an
open pool: in the channel or with exactly one call. The pool closes only what lies in its
channel, which is why nothing lent is closed. `Onward` sums up what the steps of
`Instances` that end no process leave alone, so that one lemma covers them all. The
refinement follows from `Home`: a process that panics in `Get` or `Put` is running, so its
end is a death of `Instances`.

**Language server.** `ServerInv` ties `alive`, `cmd` and the read loop of `cmd` together:
the manager lets go of a server only where it kills it, and a loop that is told the
manager is stopping finds no server. `NumberedOnce` says that whatever is pending,
written or answered has a number of its own, not above the counter; so a message's number
finds its own request or none. `Owed(c)` is what a client can count on: before it waits
its channel is empty, and while it waits for nothing yet its request is pending at the
manager's server.

**Chunks.** A part starts a step behind each part that does not reach the end
(`StartsFollow`), so the last one that starts before a passage reaches its end, the overlap
being what a step is short of a part (`PartsCover`). A rune in no entity lies between the
last end before it and the first start behind it, and that is a gap (`GapsFill`). That
entities are nested is not needed.

**Rate.** `RateKept` speaks of spans that are over. `TokensCount` is about the one that
runs: what was let through since any moment, with the tokens that are left, came from the
burst and the time since. Its equal for the lower bound says that what a client has not
yet been given it still has. `OneBucketEach` is what `LoadOrStore` is for: were two first
requests given a bucket each, neither would count the other's.

**Tree.** `TreeInv` says that a directory that can be seen and is not watched lies below
one that is due: to be entered, just listed, or announced by an event that is not handled.
The order of `enterDir` and `listDir` keeps it: a child made before the listing is listed,
one made after it is announced by the watch.

**Context.** The tokens counted are the sum over all chunks of times written and cost.
`MapThenSumSet` is a recursive function on the subsets of its set; `SumExists`,
`SumUnique` and `SumGrows` get by without induction theorems: among the subsets of a
finite set for which a claim fails there is a smallest one (`SmallestSet`).

### Only model-checked

Liveness (`Converges`, `LiveConverges`, `NoLeak`, `EveryCallServed`) is beyond the prover.
Every other property of the passing runs is proved.

### What the claims do not cover

* `GhostFree` does not hold with two writers (`ghost_chunks`) or with a refused delete.
* `FullyIndexedIsComplete` does not hold after a crash or failed insert in the middle of a batch
  that already stored the `file_meta` record (the file is skipped from then on), nor
  with the worker and the watcher on one file. `CompletedMeansIndexed` does not hold when the
  delete of a stale path is refused (`scanner.go:118`).
* `LiveConverges` leaves out files whose last change the watcher did not hear of or a `Chmod`
  replaced. fsnotify's own queue overflowing is such a change; the channel of its errors is
  never read, which is not modelled.
* `Findable` and `InStep` are about clients that write paths of their own: an insert beside a
  delete of the same path (`store.go:172`) does leave the two indexes apart.
* `DominanceRespected` leaves out records of boost 0 and of negative similarity.
* The lexical half of a search may find nothing of a small project (`store.go:209`).
* The four properties of `OneMaster` are about processes that did not meet. What follows a
  meeting is in the model, and until all who were there are gone nothing is claimed.
* That a slave's early `Embed` cannot end the master is not claimed (`EmbedTooEarly`).
* A grep answer may lack matches that lie in `matchChan` when `select` takes `doneChan`;
  `NothingDropped` says only that they were not lost before. Nor is the race between the
  walk's error and the workers' end (`handlers_search.go:170`) decided by any property.
* `OwnAnswer` lets a request of the server's own with the number of a waiting request
  pass for its answer, because `readLoop` does.
* `NoStrandedCall` does not say that a server answers: a request has no time limit.
* The answer to `initialize` may come after the next request.
* `EveryDirectoryWatched` does not say that the watcher was told of the present root.
* The rate limiter's buckets are never removed: `Cleanup` has no caller.

## 5. Not modelled

The model sessions, the downloader and ONNX are inference and I/O; tree-sitter is external.
The distiller, the pattern analyses and the formatting of answers read the store and write
text. Metrics and tracing feed nothing back. The LRU cache, the input validation and the
model router have no caller in the program. The memory throttler samples a file of the
system and refuses starts, which `LanguageServer` allows at any time. The import resolver
reads configuration once per root; `RelatedContext` takes its result as a constant.

Of the parts that are modelled: the store's listing queries and partly failed prefix
deletes (`store.go:525`), the order of the scores returned beside the records
(`store.go:486`), live indexing's start (`main.go:238`), the compliance check after a
live index, names and docstrings of entities, and the tools that print what one query
returns.

## 6. Plan

Done, in this order, most important behaviour first: `IndexPipeline` with its properties,
refinement and proofs; `VectorStore`, then `LexicalIndex` composed into `LexicalStore`;
`HybridSearch`; `FilesystemGrep`; `Instances`; `LanguageServer` with `PatchSafety`;
`MasterCalls`; `OneMaster`, `LiveIndex`; `Chunker`, `RateLimiter`, `WatchedTree`,
`RelatedContext`, `UsageReports`; the proofs of `MasterCalls` and `OneMaster`, of
`HybridSearch`, of `LexicalStore`, of `CompletedMeansIndexed`, of the refinement of
`FileIndex` and of the parts in `MCTools`.

Next:

1. `Populate` of the graph against a reference definition; the resolver's tsconfig paths.
2. Duplicate projects in the searches, failing deletes in `VectorStore`.
3. The start of live indexing beside the watcher, composed with `Instances`.

-------------------------- MODULE IndexRefinement --------------------------
(***************************************************************************)
(* IndexPipeline implements FileIndex.  The newest version served is not   *)
(* in the program's state: it is a history variable added here.            *)
(***************************************************************************)
EXTENDS IndexPipeline

VARIABLE newest

\* The chunks of f: the file_meta record has no text to serve.
ServedChunks(f, v) ==
    {[idx |-> i, src |-> v, emb |-> i] : i \in TextsOf(v)}

StoredChunks(f) ==
    {[idx |-> d.idx, src |-> d.src, emb |-> d.emb] : d \in {e \in db : e.path = f /\ e.idx # Meta}}

Served(f) ==
    IF \E v \in Versions : StoredChunks(f) # {} /\ StoredChunks(f) = ServedChunks(f, v)
    THEN CHOOSE v \in Versions : StoredChunks(f) = ServedChunks(f, v)
    ELSE 0

served == [f \in Files |-> Served(f)]

HistoryInit == Init /\ newest = [f \in Files |-> 0]

HistoryNext ==
    /\ Next
    /\ newest' = [f \in Files |-> IF Served(f)' > newest[f] THEN Served(f)' ELSE newest[f]]

HistorySpec == HistoryInit /\ [][HistoryNext]_<<vars, newest>>

Abstract == INSTANCE FileIndex WITH written <- last

\* A file's chunks are served version by version, never going back, whatever
\* crashes, panics, refused queries, cut-short inserts and wipes do to a single
\* indexer: collectResults deletes, batches and inserts in an order that can
\* lose records but not bring old ones back.
ImplementsFileIndex == Abstract!Spec

\* A chunk that holds no older text of its file than was served.
NotOlder(d) == d.idx = Meta \/ newest[d.path] <= d.src

\* Strengthened: neither what is stored nor what w has on its way can bring
\* back what a newer version has replaced.
NewestInv(w) ==
    /\ newest \in [Files -> Hashes]
    /\ \A f \in Files : Served(f) <= newest[f] /\ newest[f] <= last[f]
    /\ \A d \in db \cup run[w].batch : NotOlder(d)
    /\ \A res \in run[w].results : \A d \in res.docs : NotOlder(d)
=============================================================================

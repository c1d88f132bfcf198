---------------------------- MODULE VectorStore ----------------------------
(***************************************************************************)
(* The store (internal/db/store.go) as its concurrent callers see it: the  *)
(* chromem collection, which is on disk, and the BM25 index beside it,     *)
(* which is in memory and rebuilt by Connect.  Each locks itself; nothing  *)
(* locks both, so every call to one of them is a step of its own.          *)
(*                                                                         *)
(* A record is an identifier with a path; what it holds is a version of    *)
(* its text.  The BM25 index is what LexicalIndex shows it to be: for each *)
(* identifier the text it was last added with.                             *)
(*                                                                         *)
(* A call to chromem that deletes is taken to succeed; IndexPipeline has   *)
(* the deletes that fail.                                                  *)
(***************************************************************************)
EXTENDS Integers, FiniteSets

CONSTANTS
    Records,     \* record identifiers
    Paths,       \* metadata "path"; a status record has a path of its own
    PathOf,      \* the path of a record
    Clients,     \* goroutines that call the store
    Scope,       \* client -> the paths it inserts and deletes
    MaxVersion,  \* BOUND: number of texts a record may have
    Failing      \* the clients whose AddDocuments may give up

ASSUME RecordsAssumption == IsFiniteSet(Records)
ASSUME PathsAssumption == PathOf \in [Records -> Paths]
ASSUME ScopeAssumption == Scope \in [Clients -> SUBSET Paths]
ASSUME MaxVersionAssumption == MaxVersion \in Nat \ {0}
ASSUME FailingAssumption == Failing \subseteq Clients

VARIABLES
    collection,  \* identifier -> the text of its document, None without one
    bm25,        \* identifier -> the text it is indexed with, None without one
    op           \* client -> the store call it is in

vars == <<collection, bm25, op>>

None == 0
Texts == 1..MaxVersion
RecordsOf(P) == {r \in Records : PathOf[r] \in P}
Stored == {r \in Records : collection[r] # None}

\* pc     where the call is
\* paths  the paths it is about
\* batch  Insert: identifier -> the text it brings (None: not in the batch)
\* todo   the identifiers the loop it is in has not handled yet
\* at     DeleteByPrefix: the path it is about to delete, in a set
\* count  deletes: the size of the collection when it was asked
Calls == [pc : {"idle", "adding", "storing", "counted", "prefixCounted", "removing",
                "prefixes", "prefixDelete"},
          paths : SUBSET Paths,
          batch : [Records -> Texts \cup {None}],
          todo : SUBSET Records,
          at : SUBSET Paths,
          count : Nat]

idle == [pc |-> "idle", paths |-> {}, batch |-> [r \in Records |-> None],
         todo |-> {}, at |-> {}, count |-> 0]

Init ==
    /\ collection = [r \in Records |-> None]
    /\ bm25 = [r \in Records |-> None]
    /\ op = [c \in Clients |-> idle]

\* The call c is in becomes x.
become(c, x) == op' = [op EXCEPT ![c] = x]

-----------------------------------------------------------------------------
(* Insert. *)

\* The caller hands over records of some of its paths.
Insert(c) ==
    /\ op[c].pc = "idle"
    /\ \E P \in SUBSET Scope[c] : \E R \in SUBSET RecordsOf(P) : \E v \in Texts :
        /\ R # {}
        /\ P = {PathOf[r] : r \in R}
        /\ become(c, [idle EXCEPT !.pc = "adding", !.paths = P, !.todo = R,
                                  !.batch = [r \in Records |-> IF r \in R THEN v ELSE None]])
    /\ UNCHANGED <<collection, bm25>>

Batch(c) == {r \in Records : op[c].batch[r] # None}

\* mutant: records that are there already are not indexed again
addNew(c, r) == IF bm25[r] = None THEN [bm25 EXCEPT ![r] = op[c].batch[r]] ELSE bm25

added(c, r) == [bm25 EXCEPT ![r] = op[c].batch[r]]

\* One round of Insert's loop: bm25.Add.
bm25Add(c, r) ==
    /\ op[c].pc = "adding" /\ r \in op[c].todo
    /\ bm25' = added(c, r)
    /\ become(c, IF op[c].todo = {r} THEN [op[c] EXCEPT !.pc = "storing", !.todo = Batch(c)]
                 ELSE [op[c] EXCEPT !.todo = @ \ {r}])
    /\ UNCHANGED collection

\* AddDocuments adds the documents in any order, and with an error some of
\* them never.
AddDocuments(c) ==
    /\ op[c].pc = "storing"
    /\ \/ \E r \in op[c].todo :
            /\ collection' = [collection EXCEPT ![r] = op[c].batch[r]]
            /\ become(c, IF op[c].todo = {r} THEN idle ELSE [op[c] EXCEPT !.todo = @ \ {r}])
       \/ /\ c \in Failing
          /\ become(c, idle)
          /\ UNCHANGED collection
    /\ UNCHANGED bm25

-----------------------------------------------------------------------------
(* deleteByFilter (DeleteByPath, ClearProject, SetStatus) and              *)
(* DeleteByPrefix: both count the collection and then query that many      *)
(* documents, which chromem refuses when there are fewer.                  *)

Count(c) ==
    /\ op[c].pc = "idle" /\ Stored # {}
    /\ \E P \in SUBSET Scope[c] \ {{}} : \E pc \in {"counted", "prefixCounted"} :
        become(c, [idle EXCEPT !.pc = pc, !.paths = P, !.count = Cardinality(Stored)])
    /\ UNCHANGED <<collection, bm25>>

Found(c) == RecordsOf(op[c].paths) \cap Stored

QueryEmbedding(c) ==
    /\ op[c].pc \in {"counted", "prefixCounted"}
    /\ become(c, IF op[c].count > Cardinality(Stored) THEN idle
                 ELSE [op[c] EXCEPT !.todo = Found(c),
                                    !.pc = IF @ = "counted" THEN "removing" ELSE "prefixes"])
    /\ UNCHANGED <<collection, bm25>>

\* mutant: nothing is taken out of the lexical index
keepEntry(r) == bm25

removed(r) == [bm25 EXCEPT ![r] = None]

\* A round of deleteByFilter's loop over what the query found.
bm25Remove(c, r) ==
    /\ op[c].pc = "removing" /\ r \in op[c].todo
    /\ bm25' = removed(r)
    /\ become(c, [op[c] EXCEPT !.todo = @ \ {r}])
    /\ UNCHANGED collection

\* The documents of the paths that are there now.
without(P) == [r \in Records |-> IF PathOf[r] \in P THEN None ELSE collection[r]]

Delete(c) ==
    /\ op[c].pc = "removing" /\ op[c].todo = {}
    /\ collection' = without(op[c].paths)
    /\ become(c, idle)
    /\ UNCHANGED bm25

\* DeleteByPrefix: for each document found, its lexical entry goes and then
\* every document of its path.
prefixRemove(c, r) ==
    /\ op[c].pc = "prefixes" /\ r \in op[c].todo
    /\ bm25' = removed(r)
    /\ become(c, [op[c] EXCEPT !.pc = "prefixDelete", !.todo = @ \ {r}, !.at = {PathOf[r]}])
    /\ UNCHANGED collection

prefixDelete(c) ==
    /\ op[c].pc = "prefixDelete"
    /\ collection' = without(op[c].at)
    /\ become(c, [op[c] EXCEPT !.pc = "prefixes", !.at = {}])
    /\ UNCHANGED bm25

prefixesDone(c) ==
    /\ op[c].pc = "prefixes" /\ op[c].todo = {}
    /\ become(c, idle)
    /\ UNCHANGED <<collection, bm25>>

-----------------------------------------------------------------------------
(* The process. *)

\* mutant: the index starts empty
emptyIndex == [r \in Records |-> None]

rebuildLexicalIndex == collection

\* The process dies and starts again: the collection stays, Connect rebuilds
\* the lexical index from it.
Connect ==
    /\ op' = [c \in Clients |-> idle]
    /\ bm25' = rebuildLexicalIndex
    /\ UNCHANGED collection

\* The steps that leave the lexical index alone, and the ones that change it.
StoreStep(c) ==
    \/ Insert(c) \/ AddDocuments(c)
    \/ Count(c) \/ QueryEmbedding(c) \/ Delete(c)
    \/ prefixDelete(c) \/ prefixesDone(c)

LexicalRemove(c, r) == bm25Remove(c, r) \/ prefixRemove(c, r)

Next ==
    \/ Connect
    \/ \E c \in Clients : StoreStep(c) \/ \E r \in Records : bm25Add(c, r) \/ LexicalRemove(c, r)

Spec == Init /\ [][Next]_vars

-----------------------------------------------------------------------------
(* Properties. *)

TypeOK ==
    /\ collection \in [Records -> Texts \cup {None}]
    /\ bm25 \in [Records -> Texts \cup {None}]
    /\ op \in [Clients -> Calls]

\* No call is at work on r's path.
Quiet(r) == \A c \in Clients : PathOf[r] \notin op[c].paths

\* A record that is in the store can be found by its words: once the calls on
\* its path are over it has an entry in the lexical index.
Findable == \A r \in Records : Quiet(r) /\ collection[r] # None => bm25[r] # None

\* An insert of r may have failed.
Exposed(r) == \E c \in Failing : PathOf[r] \in Scope[c]

\* The two indexes agree record by record once the calls on a path are over:
\* where inserts do not fail, neither has a text the other does not have.
InStep == \A r \in Records : Quiet(r) /\ ~Exposed(r) => bm25[r] = collection[r]
=============================================================================

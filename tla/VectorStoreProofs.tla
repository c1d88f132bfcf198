------------------------- MODULE VectorStoreProofs -------------------------
(***************************************************************************)
(* When no two clients share a path, the lexical index keeps step with the *)
(* collection, for any records, paths and clients, through restarts; and   *)
(* when inserts fail, every stored record can still be found.  Whoever     *)
(* shares paths, the posting lists, lengths and average of the index are   *)
(* those of the texts it was last given.                                   *)
(***************************************************************************)
EXTENDS LexicalStore, FiniteSetTheorems, WellFoundedInduction, TLAPS

Disjoint == \A c, d \in Clients : c # d => Scope[c] \cap Scope[d] = {}

\* What the two indexes owe each other about a record at rest.
Agree(r) == IF Exposed(r) THEN collection[r] # None => bm25[r] # None
            ELSE bm25[r] = collection[r]

\* A record whose entry the delete has taken out, or that had none.
Unlisted(r) == Exposed(r) \/ bm25[r] = None

\* How far the call of c has come with a record r of its paths.
Progress(c, r) ==
    /\ op[c].pc \in {"counted", "prefixCounted"} => Agree(r)
    /\ op[c].pc = "adding" =>
           IF r \in Batch(c) \ op[c].todo THEN bm25[r] = op[c].batch[r] ELSE Agree(r)
    /\ op[c].pc = "storing" =>
           IF r \in Batch(c)
           THEN /\ bm25[r] = op[c].batch[r]
                /\ r \notin op[c].todo => collection[r] = op[c].batch[r]
           ELSE Agree(r)
    /\ op[c].pc = "removing" => r \in op[c].todo \/ Unlisted(r)
    /\ op[c].pc = "prefixes" =>
           r \in op[c].todo \/ (collection[r] = None /\ Unlisted(r))
    /\ op[c].pc = "prefixDelete" =>
           r \in op[c].todo \/ ((collection[r] = None \/ PathOf[r] \in op[c].at) /\ Unlisted(r))

CallOK(c) ==
    /\ op[c].paths \subseteq Scope[c]
    /\ op[c].pc = "idle" => op[c].paths = {}
    /\ op[c].pc \in {"adding", "storing"} => op[c].todo \subseteq Batch(c)
    /\ \A r \in Batch(c) \cup op[c].todo : PathOf[r] \in op[c].paths
    /\ op[c].at \subseteq op[c].paths

IInv ==
    /\ TypeOK
    /\ \A c \in Clients : CallOK(c)
    /\ \A c \in Clients, r \in Records : PathOf[r] \in op[c].paths => Progress(c, r)
    /\ \A r \in Records : Quiet(r) => Agree(r)

-----------------------------------------------------------------------------

LEMMA IdleCall == idle \in Calls
  BY DEF idle, Calls, None

LEMMA InitIInv == Init => IInv
<1> SUFFICES ASSUME Init PROVE IInv
  OBVIOUS
<1>1. TypeOK
  BY IdleCall DEF Init, TypeOK
<1>2. ASSUME NEW c \in Clients PROVE CallOK(c) /\ op[c].paths = {}
  BY ScopeAssumption DEF Init, CallOK, idle, Batch
<1>3. ASSUME NEW r \in Records PROVE Agree(r)
  BY DEF Init, Agree
<1> QED
  BY <1>1, <1>2, <1>3 DEF IInv

\* A client's step leaves the other clients' records alone, so that what it
\* owes concerns its own paths only.
LEMMA ClientStep ==
  ASSUME Disjoint, IInv, NEW c \in Clients, NEW x \in Calls, become(c, x),
         collection' \in [Records -> Texts \cup {None}],
         bm25' \in [Records -> Texts \cup {None}],
         \A r \in Records : PathOf[r] \notin Scope[c] =>
             collection'[r] = collection[r] /\ bm25'[r] = bm25[r],
         CallOK(c)',
         \A r \in Records : PathOf[r] \in x.paths => Progress(c, r)',
         \A r \in Records : PathOf[r] \in Scope[c] \ x.paths => Agree(r)'
  PROVE  IInv'
<1>1. op' \in [Clients -> Calls] /\ op'[c] = x
      /\ \A d \in Clients \ {c} : op'[d] = op[d]
  BY DEF become, IInv, TypeOK
<1>2. TypeOK'
  BY <1>1 DEF TypeOK
<1>3. ASSUME NEW d \in Clients \ {c} PROVE CallOK(d)'
  <2>1. CallOK(d)
    BY DEF IInv
  <2> QED
    BY <2>1, <1>1 DEF CallOK, Batch
<1>4. ASSUME NEW d \in Clients \ {c}, NEW r \in Records, PathOf[r] \in op'[d].paths
      PROVE  Progress(d, r)'
  <2>1. PathOf[r] \in op[d].paths /\ PathOf[r] \notin Scope[c]
    BY <1>1, <1>4 DEF IInv, CallOK, Disjoint
  <2>2. Progress(d, r)
    BY <2>1 DEF IInv
  <2>3. collection'[r] = collection[r] /\ bm25'[r] = bm25[r] /\ op'[d] = op[d]
    BY <2>1, <1>1
  <2> QED
    BY <2>2, <2>3 DEF Progress, Agree, Unlisted, Batch
<1>5. ASSUME NEW r \in Records, Quiet(r)' PROVE Agree(r)'
  <2>1. CASE PathOf[r] \in Scope[c]
    BY <2>1, <1>1, <1>5 DEF Quiet
  <2>2. CASE PathOf[r] \notin Scope[c]
    <3>1. Quiet(r)
      BY <2>2, <1>1, <1>5 DEF Quiet, IInv, CallOK
    <3>2. Agree(r)
      BY <3>1 DEF IInv
    <3> QED
      BY <3>2, <2>2 DEF Agree
  <2> QED
    BY <2>1, <2>2
<1> QED
  BY <1>1, <1>2, <1>3, <1>4, <1>5 DEF IInv

\* A client's records that its call is not about are at rest.
LEMMA AtRest ==
  ASSUME Disjoint, IInv, NEW c \in Clients, NEW r \in Records,
         PathOf[r] \in Scope[c] \ op[c].paths
  PROVE  Agree(r)
<1>1. Quiet(r)
  BY DEF Quiet, IInv, CallOK, Disjoint
<1> QED
  BY <1>1 DEF IInv

-----------------------------------------------------------------------------
(* The actions of one client. *)

LEMMA InsertStep ==
  ASSUME Disjoint, IInv, NEW c \in Clients, Insert(c)
  PROVE  IInv'
<1>1. PICK P \in SUBSET Scope[c] : \E R \in SUBSET RecordsOf(P) : \E v \in Texts :
        /\ R # {}
        /\ P = {PathOf[r] : r \in R}
        /\ become(c, [idle EXCEPT !.pc = "adding", !.paths = P, !.todo = R,
                                  !.batch = [r \in Records |-> IF r \in R THEN v ELSE None]])
  BY DEF Insert
<1>2. PICK R \in SUBSET RecordsOf(P), v \in Texts :
        /\ P = {PathOf[r] : r \in R}
        /\ become(c, [idle EXCEPT !.pc = "adding", !.paths = P, !.todo = R,
                                  !.batch = [r \in Records |-> IF r \in R THEN v ELSE None]])
  BY <1>1
<1> DEFINE x == [idle EXCEPT !.pc = "adding", !.paths = P, !.todo = R,
                            !.batch = [r \in Records |-> IF r \in R THEN v ELSE None]]
<1> DEFINE b == [r \in Records |-> IF r \in R THEN v ELSE None]
<1>b. b \in [Records -> Texts \cup {None}] /\ \A r \in Records : b[r] # None <=> r \in R
  BY DEF Texts, None
<1> HIDE DEF b
<1>3. /\ x \in Calls /\ x.pc = "adding" /\ x.paths = P /\ x.todo = R /\ x.at = {}
      /\ x.batch = b
  <2>1. P \in SUBSET Paths /\ R \in SUBSET Records
    BY ScopeAssumption DEF RecordsOf
  <2>2. x = [idle EXCEPT !.pc = "adding", !.paths = P, !.todo = R, !.batch = b]
    BY DEF b
  <2> HIDE DEF x
  <2> QED
    BY <2>1, <2>2, <1>b, IdleCall DEF Calls, idle
<1>4. op' = [op EXCEPT ![c] = x] /\ op[c].pc = "idle" /\ op[c].paths = {}
  BY <1>2 DEF become, Insert, IInv, CallOK
<1> HIDE DEF x
<1>5. op'[c] = x /\ collection' = collection /\ bm25' = bm25
  BY <1>4 DEF Insert, IInv, TypeOK
<1>6. CallOK(c)'
  BY <1>2, <1>3, <1>5, <1>b DEF CallOK, Batch, RecordsOf
<1>7. ASSUME NEW r \in Records, PathOf[r] \in Scope[c] PROVE Agree(r)'
  BY <1>4, <1>5, <1>7, AtRest DEF Agree
<1>8. \A r \in Records : PathOf[r] \in P => Progress(c, r)'
  BY <1>3, <1>5, <1>7, <1>b DEF Progress, Batch
<1> QED
  BY <1>3, <1>4, <1>5, <1>6, <1>7, <1>8, ClientStep DEF become, IInv, TypeOK

LEMMA bm25AddStep ==
  ASSUME Disjoint, IInv, NEW c \in Clients, NEW r \in Records, bm25Add(c, r)
  PROVE  IInv'
<1>1. /\ r \in op[c].todo
      /\ bm25' = added(c, r)
      /\ become(c, IF op[c].todo = {r} THEN [op[c] EXCEPT !.pc = "storing", !.todo = Batch(c)]
                   ELSE [op[c] EXCEPT !.todo = @ \ {r}])
  BY DEF bm25Add
<1> DEFINE x == IF op[c].todo = {r} THEN [op[c] EXCEPT !.pc = "storing", !.todo = Batch(c)]
                ELSE [op[c] EXCEPT !.todo = @ \ {r}]
<1>2. op[c] \in Calls /\ op[c].pc = "adding" /\ collection' = collection
  BY DEF bm25Add, IInv, TypeOK
<1>3. /\ r \in Batch(c) /\ PathOf[r] \in op[c].paths /\ op[c].paths \subseteq Scope[c]
      /\ op[c].todo \subseteq Batch(c) /\ op[c].at \subseteq op[c].paths
      /\ \A q \in Batch(c) \cup op[c].todo : PathOf[q] \in op[c].paths
  BY <1>1, <1>2 DEF IInv, CallOK
<1>4. /\ x \in Calls /\ x.paths = op[c].paths /\ x.batch = op[c].batch /\ x.at = op[c].at
      /\ \/ x.pc = "adding" /\ x.todo = op[c].todo \ {r}
         \/ x.pc = "storing" /\ x.todo = Batch(c) /\ op[c].todo = {r}
  BY <1>2 DEF Calls, Batch
<1>5. become(c, x)
  BY <1>1
<1> HIDE DEF x
<1>6. op'[c] = x
  BY <1>5 DEF become, IInv, TypeOK
<1>7. /\ bm25' \in [Records -> Texts \cup {None}]
      /\ bm25'[r] = op[c].batch[r]
      /\ \A q \in Records \ {r} : bm25'[q] = bm25[q]
  BY <1>1, <1>2, <1>3 DEF added, Calls, IInv, TypeOK, Batch
<1>8. CallOK(c)'
  BY <1>3, <1>4, <1>6 DEF CallOK, Batch
<1>9. ASSUME NEW q \in Records, PathOf[q] \in x.paths PROVE Progress(c, q)'
  <2>1. IF q \in Batch(c) \ op[c].todo THEN bm25[q] = op[c].batch[q] ELSE Agree(q)
    BY <1>2, <1>4, <1>9 DEF IInv, Progress
  <2> QED
    BY <2>1, <1>2, <1>3, <1>4, <1>6, <1>7 DEF Progress, Agree, Batch
<1>10. ASSUME NEW q \in Records, PathOf[q] \in Scope[c] \ x.paths PROVE Agree(q)'
  BY <1>10, <1>2, <1>3, <1>4, <1>7, AtRest DEF Agree
<1> QED
  BY <1>2, <1>3, <1>4, <1>5, <1>7, <1>8, <1>9, <1>10, ClientStep DEF IInv, TypeOK

LEMMA AddDocumentsStep ==
  ASSUME Disjoint, IInv, NEW c \in Clients, AddDocuments(c)
  PROVE  IInv'
<1>1. /\ op[c] \in Calls /\ op[c].pc = "storing" /\ bm25' = bm25
      /\ bm25 \in [Records -> Texts \cup {None}]
      /\ collection \in [Records -> Texts \cup {None}]
  BY DEF AddDocuments, IInv, TypeOK
<1>2. /\ op[c].paths \subseteq Scope[c] /\ op[c].todo \subseteq Batch(c)
      /\ op[c].at \subseteq op[c].paths
      /\ \A q \in Batch(c) \cup op[c].todo : PathOf[q] \in op[c].paths
  BY <1>1 DEF IInv, CallOK
<1>3. ASSUME NEW q \in Records, PathOf[q] \in op[c].paths
      PROVE  IF q \in Batch(c)
             THEN /\ bm25[q] = op[c].batch[q]
                  /\ q \notin op[c].todo => collection[q] = op[c].batch[q]
             ELSE Agree(q)
  BY <1>1, <1>3 DEF IInv, Progress
<1>4. CASE \E r \in op[c].todo :
            /\ collection' = [collection EXCEPT ![r] = op[c].batch[r]]
            /\ become(c, IF op[c].todo = {r} THEN idle ELSE [op[c] EXCEPT !.todo = @ \ {r}])
  <2>1. PICK r \in op[c].todo :
            /\ collection' = [collection EXCEPT ![r] = op[c].batch[r]]
            /\ become(c, IF op[c].todo = {r} THEN idle ELSE [op[c] EXCEPT !.todo = @ \ {r}])
    BY <1>4
  <2> DEFINE x == IF op[c].todo = {r} THEN idle ELSE [op[c] EXCEPT !.todo = @ \ {r}]
  <2>2. /\ x \in Calls
        /\ \/ x = idle /\ op[c].todo = {r}
           \/ /\ x.pc = "storing" /\ x.todo = op[c].todo \ {r} /\ x.paths = op[c].paths
              /\ x.batch = op[c].batch /\ x.at = op[c].at
    BY <1>1, IdleCall DEF Calls
  <2>3. become(c, x)
    BY <2>1
  <2> HIDE DEF x
  <2>4. op'[c] = x
    BY <2>3 DEF become, IInv, TypeOK
  <2>5. /\ r \in Records /\ collection' \in [Records -> Texts \cup {None}]
        /\ collection'[r] = op[c].batch[r]
        /\ \A q \in Records \ {r} : collection'[q] = collection[q]
    BY <1>1, <2>1 DEF Calls
  <2>6. CallOK(c)'
    BY <1>2, <2>2, <2>4 DEF CallOK, Batch, idle
  <2>7. ASSUME NEW q \in Records, PathOf[q] \in x.paths PROVE Progress(c, q)'
    <3>1. /\ op'[c].pc = "storing" /\ op'[c].todo = op[c].todo \ {r}
          /\ op'[c].batch = op[c].batch /\ PathOf[q] \in op[c].paths
      BY <2>7, <2>2, <2>4 DEF idle
    <3>2. CASE q \in Batch(c)
      <4>1. bm25'[q] = op'[c].batch[q]
        BY <3>1, <3>2, <1>1, <1>3
      <4>2. q \notin op'[c].todo => collection'[q] = op'[c].batch[q]
        BY <3>1, <3>2, <1>1, <1>3, <2>5
      <4> QED
        BY <3>1, <3>2, <4>1, <4>2 DEF Progress, Batch
    <3>3. CASE q \notin Batch(c)
      <4>1. Agree(q) /\ collection'[q] = collection[q] /\ bm25'[q] = bm25[q]
        BY <3>1, <3>3, <1>1, <1>2, <1>3, <2>5
      <4>2. Agree(q)' /\ q \notin Batch(c)'
        BY <3>1, <3>3, <4>1 DEF Agree, Batch
      <4> QED
        BY <3>1, <4>2 DEF Progress
    <3> QED
      BY <3>2, <3>3
  <2>8. ASSUME NEW q \in Records, PathOf[q] \in Scope[c] \ x.paths PROVE Agree(q)'
    <3>1. CASE PathOf[q] \in op[c].paths
      <4>1. op[c].todo = {r}
        BY <3>1, <2>8, <2>2
      <4>2. CASE q \in Batch(c)
        <5>1. collection'[q] = op[c].batch[q] /\ bm25'[q] = op[c].batch[q]
          BY <3>1, <4>1, <4>2, <1>1, <1>3, <2>5
        <5>2. op[c].batch[q] # None
          BY <4>2 DEF Batch
        <5> QED
          BY <5>1, <5>2 DEF Agree
      <4>3. CASE q \notin Batch(c)
        <5>1. Agree(q) /\ collection'[q] = collection[q] /\ bm25'[q] = bm25[q]
          BY <3>1, <4>3, <1>1, <1>2, <1>3, <2>5
        <5> QED
          BY <5>1 DEF Agree
      <4> QED
        BY <4>2, <4>3
    <3>2. CASE PathOf[q] \notin op[c].paths
      <4>1. Agree(q) /\ collection'[q] = collection[q] /\ bm25'[q] = bm25[q]
        BY <3>2, <2>8, <1>1, <1>2, <2>5, AtRest
      <4> QED
        BY <4>1 DEF Agree
    <3> QED
      BY <3>1, <3>2
  <2> QED
    BY <1>1, <1>2, <2>2, <2>3, <2>5, <2>6, <2>7, <2>8, ClientStep
<1>5. CASE c \in Failing /\ become(c, idle) /\ collection' = collection
  <2>1. op'[c] = idle
    BY <1>5 DEF become, IInv, TypeOK
  <2>2. CallOK(c)'
    BY <2>1, ScopeAssumption DEF CallOK, Batch, idle
  <2>3. ASSUME NEW q \in Records, PathOf[q] \in Scope[c] PROVE Agree(q)'
    <3>1. CASE PathOf[q] \in op[c].paths
      BY <3>1, <1>1, <1>2, <1>3, <1>5 DEF Agree, Batch, Exposed
    <3>2. CASE PathOf[q] \notin op[c].paths
      BY <3>2, <2>3, <1>1, <1>5, AtRest DEF Agree
    <3> QED
      BY <3>1, <3>2
  <2>4. \A q \in Records : PathOf[q] \notin idle.paths
    BY DEF idle
  <2> QED
    BY <1>1, <1>5, <2>2, <2>3, <2>4, IdleCall, ClientStep
<1> QED
  BY <1>4, <1>5 DEF AddDocuments

LEMMA StoredFinite == IsFiniteSet(Stored)
  BY RecordsAssumption, FS_Subset DEF Stored

LEMMA CountStep ==
  ASSUME Disjoint, IInv, NEW c \in Clients, Count(c)
  PROVE  IInv'
<1>1. PICK P \in SUBSET Scope[c] \ {{}}, pc \in {"counted", "prefixCounted"} :
        become(c, [idle EXCEPT !.pc = pc, !.paths = P, !.count = Cardinality(Stored)])
  BY DEF Count
<1> DEFINE n == Cardinality(Stored)
           x == [idle EXCEPT !.pc = pc, !.paths = P, !.count = n]
<1>2. n \in Nat
  BY StoredFinite, FS_CardinalityType
<1>3. become(c, x) /\ collection' = collection /\ bm25' = bm25
  BY <1>1 DEF Count
<1> HIDE DEF n
<1>4. /\ x \in Calls /\ x.pc = pc /\ x.paths = P /\ x.todo = {} /\ x.at = {}
      /\ x.batch = [r \in Records |-> None]
  BY <1>2, ScopeAssumption, IdleCall DEF Calls, idle
<1> HIDE DEF x
<1>5. op'[c] = x
  BY <1>3 DEF become, IInv, TypeOK
<1>6. op[c].paths = {}
  BY DEF Count, IInv, CallOK
<1>7. CallOK(c)'
  BY <1>4, <1>5 DEF CallOK, Batch
<1>8. ASSUME NEW r \in Records, PathOf[r] \in Scope[c] PROVE Agree(r)'
  BY <1>3, <1>6, <1>8, AtRest DEF Agree
<1>9. \A r \in Records : PathOf[r] \in x.paths => Progress(c, r)'
  BY <1>4, <1>5, <1>8 DEF Progress
<1> QED
  BY <1>3, <1>4, <1>7, <1>8, <1>9, ClientStep DEF IInv, TypeOK

LEMMA QueryStep ==
  ASSUME Disjoint, IInv, NEW c \in Clients, QueryEmbedding(c)
  PROVE  IInv'
<1>1. /\ op[c] \in Calls /\ op[c].pc \in {"counted", "prefixCounted"}
      /\ collection' = collection /\ bm25' = bm25
      /\ op[c].paths \subseteq Scope[c] /\ op[c].at \subseteq op[c].paths
      /\ \A q \in Batch(c) : PathOf[q] \in op[c].paths
  BY DEF QueryEmbedding, IInv, TypeOK, CallOK
<1>2. ASSUME NEW r \in Records, PathOf[r] \in Scope[c] PROVE Agree(r)'
  <2>1. Agree(r)
    BY <1>1, <1>2, AtRest DEF IInv, Progress
  <2> QED
    BY <2>1, <1>1 DEF Agree
<1>3. CASE become(c, idle)
  <2>1. op'[c] = idle
    BY <1>3 DEF become, IInv, TypeOK
  <2>2. CallOK(c)' /\ \A r \in Records : PathOf[r] \notin idle.paths
    BY <2>1, ScopeAssumption DEF CallOK, Batch, idle
  <2> QED
    BY <1>1, <1>2, <1>3, <2>2, IdleCall, ClientStep DEF IInv, TypeOK
<1>4. CASE become(c, [op[c] EXCEPT !.todo = Found(c),
                                   !.pc = IF @ = "counted" THEN "removing" ELSE "prefixes"])
  <2> DEFINE x == [op[c] EXCEPT !.todo = Found(c),
                                !.pc = IF @ = "counted" THEN "removing" ELSE "prefixes"]
  <2>1. /\ x \in Calls /\ x.pc \in {"removing", "prefixes"} /\ x.paths = op[c].paths
        /\ x.todo = Found(c) /\ x.at = op[c].at /\ x.batch = op[c].batch
    BY <1>1 DEF Calls, Found, RecordsOf
  <2>2. become(c, x)
    BY <1>4
  <2> HIDE DEF x
  <2>3. op'[c] = x
    BY <2>2 DEF become, IInv, TypeOK
  <2>4. CallOK(c)'
    BY <1>1, <2>1, <2>3 DEF CallOK, Batch, Found, RecordsOf
  <2>5. ASSUME NEW r \in Records, PathOf[r] \in x.paths PROVE Progress(c, r)'
    <3>1. r \notin x.todo => collection[r] = None
      BY <2>1, <2>5 DEF Found, RecordsOf, Stored
    <3>2. Agree(r)'
      BY <1>1, <1>2, <2>1, <2>5
    <3> QED
      BY <1>1, <2>1, <2>3, <3>1, <3>2 DEF Progress, Agree, Unlisted
  <2> QED
    BY <1>1, <1>2, <2>1, <2>2, <2>4, <2>5, ClientStep DEF IInv, TypeOK
<1> QED
  BY <1>3, <1>4 DEF QueryEmbedding

\* What taking a record's entry out does to the lexical index.
LEMMA RemovedEntry ==
  ASSUME IInv, NEW r \in Records, bm25' = removed(r)
  PROVE  /\ bm25' \in [Records -> Texts \cup {None}]
         /\ bm25'[r] = None
         /\ \A q \in Records \ {r} : bm25'[q] = bm25[q]
  BY DEF removed, IInv, TypeOK

LEMMA RemoveStep ==
  ASSUME Disjoint, IInv, NEW c \in Clients, NEW r \in Records, bm25Remove(c, r)
  PROVE  IInv'
<1>1. /\ op[c] \in Calls /\ op[c].pc = "removing" /\ collection' = collection
      /\ op[c].paths \subseteq Scope[c] /\ op[c].at \subseteq op[c].paths
      /\ \A q \in Batch(c) \cup op[c].todo : PathOf[q] \in op[c].paths
  BY DEF bm25Remove, IInv, TypeOK, CallOK
<1>2. ASSUME NEW q \in Records, PathOf[q] \in op[c].paths
      PROVE  q \in op[c].todo \/ Unlisted(q)
  BY <1>1, <1>2 DEF IInv, Progress
<1>3. /\ r \in op[c].todo /\ bm25' = removed(r)
      /\ become(c, [op[c] EXCEPT !.todo = @ \ {r}])
  BY DEF bm25Remove
<1> DEFINE x == [op[c] EXCEPT !.todo = @ \ {r}]
<1>4. /\ x \in Calls /\ x.pc = "removing" /\ x.paths = op[c].paths
      /\ x.todo = op[c].todo \ {r} /\ x.at = op[c].at /\ x.batch = op[c].batch
  BY <1>1 DEF Calls
<1>5. become(c, x)
  BY <1>3
<1> HIDE DEF x
<1>6. op'[c] = x
  BY <1>5 DEF become, IInv, TypeOK
<1>7. r \in Records /\ PathOf[r] \in op[c].paths
  BY <1>1, <1>3 DEF Calls
<1>8. /\ bm25' \in [Records -> Texts \cup {None}] /\ bm25'[r] = None
      /\ \A q \in Records \ {r} : bm25'[q] = bm25[q]
  BY <1>3, <1>7, RemovedEntry
<1>9. CallOK(c)'
  BY <1>1, <1>4, <1>6 DEF CallOK, Batch
<1>10. ASSUME NEW q \in Records, PathOf[q] \in x.paths PROVE Progress(c, q)'
  <2>1. q \in x.todo \/ Unlisted(q)'
    BY <1>10, <1>2, <1>4, <1>8 DEF Unlisted
  <2> QED
    BY <2>1, <1>4, <1>6 DEF Progress
<1>11. ASSUME NEW q \in Records, PathOf[q] \in Scope[c] \ x.paths PROVE Agree(q)'
  BY <1>11, <1>1, <1>4, <1>7, <1>8, AtRest DEF Agree
<1> QED
  BY <1>1, <1>4, <1>5, <1>7, <1>8, <1>9, <1>10, <1>11, ClientStep DEF IInv, TypeOK

\* What deleting the documents of some paths does to the collection.
LEMMA WithoutPaths ==
  ASSUME IInv, NEW P, collection' = without(P)
  PROVE  /\ collection' \in [Records -> Texts \cup {None}]
         /\ \A r \in Records : collection'[r] = IF PathOf[r] \in P THEN None ELSE collection[r]
  BY DEF without, IInv, TypeOK

LEMMA DeleteStep ==
  ASSUME Disjoint, IInv, NEW c \in Clients, Delete(c)
  PROVE  IInv'
<1>1. /\ op[c] \in Calls /\ op[c].pc = "removing" /\ bm25' = bm25 /\ become(c, idle)
      /\ op[c].paths \subseteq Scope[c] /\ op[c].todo = {}
  BY DEF Delete, IInv, TypeOK, CallOK
<1>2. /\ collection' \in [Records -> Texts \cup {None}]
      /\ \A r \in Records :
            collection'[r] = IF PathOf[r] \in op[c].paths THEN None ELSE collection[r]
  BY WithoutPaths DEF Delete
<1>3. op'[c] = idle
  BY <1>1 DEF become, IInv, TypeOK
<1>4. CallOK(c)' /\ \A r \in Records : PathOf[r] \notin idle.paths
  BY <1>3, ScopeAssumption DEF CallOK, Batch, idle
<1>5. ASSUME NEW r \in Records, PathOf[r] \in Scope[c] PROVE Agree(r)'
  <2>1. CASE PathOf[r] \in op[c].paths
    <3>1. Unlisted(r)
      BY <2>1, <1>1 DEF IInv, Progress
    <3> QED
      BY <3>1, <2>1, <1>1, <1>2 DEF Agree, Unlisted
  <2>2. CASE PathOf[r] \notin op[c].paths
    BY <2>2, <1>1, <1>2, <1>5, AtRest DEF Agree
  <2> QED
    BY <2>1, <2>2
<1> QED
  BY <1>1, <1>2, <1>4, <1>5, IdleCall, ClientStep DEF IInv, TypeOK

LEMMA PrefixRemoveStep ==
  ASSUME Disjoint, IInv, NEW c \in Clients, NEW r \in Records, prefixRemove(c, r)
  PROVE  IInv'
<1>1. /\ op[c] \in Calls /\ op[c].pc = "prefixes" /\ collection' = collection
      /\ op[c].paths \subseteq Scope[c] /\ op[c].at \subseteq op[c].paths
      /\ \A q \in Batch(c) \cup op[c].todo : PathOf[q] \in op[c].paths
  BY DEF prefixRemove, IInv, TypeOK, CallOK
<1>2. ASSUME NEW q \in Records, PathOf[q] \in op[c].paths
      PROVE  q \in op[c].todo \/ (collection[q] = None /\ Unlisted(q))
  BY <1>1, <1>2 DEF IInv, Progress
<1>3. /\ r \in op[c].todo /\ bm25' = removed(r)
      /\ become(c, [op[c] EXCEPT !.pc = "prefixDelete", !.todo = @ \ {r}, !.at = {PathOf[r]}])
  BY DEF prefixRemove
<1> DEFINE x == [op[c] EXCEPT !.pc = "prefixDelete", !.todo = @ \ {r}, !.at = {PathOf[r]}]
<1>4. r \in Records /\ PathOf[r] \in op[c].paths
  BY <1>1, <1>3 DEF Calls
<1>5. /\ x \in Calls /\ x.pc = "prefixDelete" /\ x.paths = op[c].paths
      /\ x.todo = op[c].todo \ {r} /\ x.at = {PathOf[r]} /\ x.batch = op[c].batch
  BY <1>1, <1>4 DEF Calls
<1>6. become(c, x)
  BY <1>3
<1> HIDE DEF x
<1>7. op'[c] = x
  BY <1>6 DEF become, IInv, TypeOK
<1>8. /\ bm25' \in [Records -> Texts \cup {None}] /\ bm25'[r] = None
      /\ \A q \in Records \ {r} : bm25'[q] = bm25[q]
  BY <1>3, <1>4, RemovedEntry
<1>9. CallOK(c)'
  BY <1>1, <1>4, <1>5, <1>7 DEF CallOK, Batch
<1>10. ASSUME NEW q \in Records, PathOf[q] \in x.paths PROVE Progress(c, q)'
  <2>1. q \in x.todo \/ ((collection'[q] = None \/ PathOf[q] \in x.at) /\ Unlisted(q)')
    BY <1>10, <1>1, <1>2, <1>4, <1>5, <1>8 DEF Unlisted
  <2> QED
    BY <2>1, <1>5, <1>7 DEF Progress
<1>11. ASSUME NEW q \in Records, PathOf[q] \in Scope[c] \ x.paths PROVE Agree(q)'
  BY <1>11, <1>1, <1>4, <1>5, <1>8, AtRest DEF Agree
<1> QED
  BY <1>1, <1>4, <1>5, <1>6, <1>8, <1>9, <1>10, <1>11, ClientStep DEF IInv, TypeOK

LEMMA PrefixesDoneStep ==
  ASSUME Disjoint, IInv, NEW c \in Clients, prefixesDone(c)
  PROVE  IInv'
<1>1. /\ op[c] \in Calls /\ op[c].pc = "prefixes" /\ op[c].todo = {}
      /\ collection' = collection /\ bm25' = bm25 /\ become(c, idle)
      /\ op[c].paths \subseteq Scope[c]
  BY DEF prefixesDone, IInv, TypeOK, CallOK
<1>2. op'[c] = idle
  BY <1>1 DEF become, IInv, TypeOK
<1>3. CallOK(c)' /\ \A r \in Records : PathOf[r] \notin idle.paths
  BY <1>2, ScopeAssumption DEF CallOK, Batch, idle
<1>4. ASSUME NEW r \in Records, PathOf[r] \in op[c].paths
      PROVE  collection[r] = None /\ Unlisted(r)
  BY <1>1, <1>4 DEF IInv, Progress
<1>5. ASSUME NEW r \in Records, PathOf[r] \in Scope[c] PROVE Agree(r)'
  <2>1. Agree(r)
    BY <1>4, <1>5, AtRest DEF Agree, Unlisted
  <2> QED
    BY <2>1, <1>1 DEF Agree
<1> QED
  BY <1>1, <1>3, <1>5, IdleCall, ClientStep DEF IInv, TypeOK

LEMMA PrefixDeleteStep ==
  ASSUME Disjoint, IInv, NEW c \in Clients, prefixDelete(c)
  PROVE  IInv'
<1>1. /\ op[c] \in Calls /\ op[c].pc = "prefixDelete" /\ bm25' = bm25
      /\ op[c].paths \subseteq Scope[c] /\ op[c].at \subseteq op[c].paths
      /\ \A q \in Batch(c) \cup op[c].todo : PathOf[q] \in op[c].paths
  BY DEF prefixDelete, IInv, TypeOK, CallOK
<1> DEFINE x == [op[c] EXCEPT !.pc = "prefixes", !.at = {}]
<1>2. /\ x \in Calls /\ x.pc = "prefixes" /\ x.paths = op[c].paths
      /\ x.todo = op[c].todo /\ x.at = {} /\ x.batch = op[c].batch
  BY <1>1 DEF Calls
<1>3. become(c, x)
  BY DEF prefixDelete
<1> HIDE DEF x
<1>4. op'[c] = x
  BY <1>3 DEF become, IInv, TypeOK
<1>5. /\ collection' \in [Records -> Texts \cup {None}]
      /\ \A r \in Records :
            collection'[r] = IF PathOf[r] \in op[c].at THEN None ELSE collection[r]
  BY WithoutPaths DEF prefixDelete
<1>6. CallOK(c)'
  BY <1>1, <1>2, <1>4 DEF CallOK, Batch
<1>7. ASSUME NEW r \in Records, PathOf[r] \in x.paths PROVE Progress(c, r)'
  <2>1. r \in op[c].todo \/ ((collection[r] = None \/ PathOf[r] \in op[c].at) /\ Unlisted(r))
    BY <1>1, <1>2, <1>7 DEF IInv, Progress
  <2>2. r \in x.todo \/ (collection'[r] = None /\ Unlisted(r)')
    BY <2>1, <1>1, <1>2, <1>5 DEF Unlisted
  <2> QED
    BY <2>2, <1>2, <1>4 DEF Progress
<1>8. ASSUME NEW r \in Records, PathOf[r] \in Scope[c] \ x.paths PROVE Agree(r)'
  BY <1>8, <1>1, <1>2, <1>5, AtRest DEF Agree
<1> QED
  BY <1>1, <1>2, <1>3, <1>5, <1>6, <1>7, <1>8, ClientStep DEF IInv, TypeOK

-----------------------------------------------------------------------------

LEMMA ConnectStep ==
  ASSUME IInv, Connect
  PROVE  IInv'
<1>1. /\ collection' = collection /\ bm25' = collection
      /\ op' = [c \in Clients |-> idle]
  BY DEF Connect, rebuildLexicalIndex
<1>2. TypeOK'
  BY <1>1, IdleCall DEF IInv, TypeOK
<1>3. ASSUME NEW c \in Clients PROVE CallOK(c)' /\ op'[c].paths = {}
  BY <1>1, ScopeAssumption DEF CallOK, idle, Batch
<1>4. ASSUME NEW r \in Records PROVE Agree(r)'
  BY <1>1 DEF Agree
<1> QED
  BY <1>2, <1>3, <1>4 DEF IInv

LEMMA NextIInv == Disjoint /\ IInv /\ [Next]_vars => IInv'
<1> SUFFICES ASSUME Disjoint, IInv, [Next]_vars PROVE IInv'
  OBVIOUS
<1>1. CASE Connect
  BY <1>1, ConnectStep
<1>2. CASE \E c \in Clients : StoreStep(c)
  BY <1>2, InsertStep, AddDocumentsStep, CountStep, QueryStep, DeleteStep,
     PrefixDeleteStep, PrefixesDoneStep DEF StoreStep
<1>3. CASE \E c \in Clients, r \in Records : bm25Add(c, r) \/ LexicalRemove(c, r)
  BY <1>3, bm25AddStep, RemoveStep, PrefixRemoveStep DEF LexicalRemove
<1>4. CASE UNCHANGED vars
  BY <1>4 DEF vars, IInv, TypeOK, CallOK, Progress, Agree, Unlisted, Quiet, Batch
<1> QED
  BY <1>1, <1>2, <1>3, <1>4 DEF Next

LEMMA Invariance ==
  ASSUME Disjoint
  PROVE  Spec => []IInv
<1>1. Init => IInv
  BY InitIInv
<1>2. IInv /\ [Next]_vars => IInv'
  BY NextIInv
<1> QED
  BY <1>1, <1>2, PTL DEF Spec

\* A stored record of a path nobody is working on has an entry in the lexical
\* index, through restarts and inserts that fail (Store.Insert, deleteByFilter,
\* DeleteByPrefix, Connect).
THEOREM StoredIsFindable ==
  ASSUME Disjoint
  PROVE  Spec => []Findable
<1>1. IInv => Findable
  BY DEF IInv, Agree, Findable
<1> QED
  BY <1>1, Invariance, PTL

\* Where inserts do not fail, the lexical index and the collection hold the same
\* text for every record of a path nobody is working on.
THEOREM IndexesInStep ==
  ASSUME Disjoint
  PROVE  Spec => []InStep
<1>1. IInv => InStep
  BY DEF IInv, Agree, InStep
<1> QED
  BY <1>1, Invariance, PTL

-----------------------------------------------------------------------------
(* Folds over a finite set, as MapThenFoldSet computes them. *)

\* Among some subsets of a finite set there is one none of the others is in.
LEMMA SmallestSet ==
    ASSUME NEW S, IsFiniteSet(S), NEW B, B \subseteq SUBSET S, B # {}
    PROVE  \E s \in B : \A t \in B : t \subseteq s => t = s
<1>1. IsWellFoundedOn(StrictSubsetOrdering(S), SUBSET S)
  BY FS_StrictSubsetOrderingWellFounded, FS_FiniteSubsetsOfFinite
<1>2. PICK s \in B : \A t \in B : <<t, s>> \notin StrictSubsetOrdering(S)
  BY <1>1, WFMin
<1> QED
  BY <1>2 DEF StrictSubsetOrdering

\* Some naturals have a least one.
LEMMA LeastNumber ==
    ASSUME NEW B, B \subseteq Nat, B # {}
    PROVE  \E n \in B : \A m \in B : n <= m
<1> DEFINE R == OpToRel(<, Nat)
<1>1. PICK n \in B : \A m \in B : <<m, n>> \notin R
  <2>1. IsWellFoundedOn(R, Nat)
    BY NatLessThanWellFounded
  <2> HIDE DEF R
  <2> QED
    BY <2>1, WFMin
<1>2. R = {ss \in Nat \X Nat : ss[1] < ss[2]}
  BY DEF OpToRel
<1> HIDE DEF R
<1>3. ASSUME NEW m \in B PROVE n <= m
  <2>1. m \in Nat /\ n \in Nat /\ <<m, n>> \in Nat \X Nat /\ <<m, n>>[1] = m /\ <<m, n>>[2] = n
    OBVIOUS
  <2>2. ~ m < n
    BY <1>1, <1>2, <2>1
  <2> QED
    BY <2>1, <2>2
<1> QED
  BY <1>3

LEMMA Quotient ==
    ASSUME NEW s \in Nat, NEW n \in Nat \ {0}
    PROVE  (s * n) \div n = s
  OBVIOUS

\* g folds h over every subset of S: h[x] makes of a value the next one.
one(s) == CHOOSE x \in s : TRUE

FoldsTo(g, h, base, S) ==
    g = [s \in SUBSET S |-> IF s = {} THEN base ELSE h[one(s)][g[s \ {one(s)}]]]

LEMMA FoldStep ==
    ASSUME NEW g, NEW h, NEW base, NEW S, FoldsTo(g, h, base, S)
    PROVE  /\ g[{}] = base
           /\ \A s \in SUBSET S : s # {} => /\ one(s) \in s /\ s \ {one(s)} \in SUBSET S
                                          /\ g[s] = h[one(s)][g[s \ {one(s)}]]
<1>1. g[{}] = base
  BY DEF FoldsTo
<1>2. ASSUME NEW s \in SUBSET S, s # {}
      PROVE  /\ one(s) \in s /\ s \ {one(s)} \in SUBSET S
             /\ g[s] = h[one(s)][g[s \ {one(s)}]]
  <2>1. one(s) \in s
    BY <1>2 DEF one
  <2>2. g[s] = h[one(s)][g[s \ {one(s)}]]
    BY <1>2 DEF FoldsTo
  <2> QED
    BY <2>1, <2>2
<1> QED
  BY <1>1, <1>2

\* A fold over a set is a fold over each of its subsets.
LEMMA FoldUnique ==
    ASSUME NEW h, NEW base, NEW S, IsFiniteSet(S), NEW T, T \subseteq S,
           NEW g, FoldsTo(g, h, base, S), NEW k, FoldsTo(k, h, base, T)
    PROVE  \A s \in SUBSET T : g[s] = k[s]
<1> DEFINE Bad == {s \in SUBSET T : g[s] # k[s]}
<1>g. /\ g[{}] = base
      /\ \A s \in SUBSET S : s # {} => /\ one(s) \in s /\ s \ {one(s)} \in SUBSET S
                                     /\ g[s] = h[one(s)][g[s \ {one(s)}]]
  BY FoldStep
<1>k. /\ k[{}] = base
      /\ \A s \in SUBSET T : s # {} => /\ one(s) \in s /\ s \ {one(s)} \in SUBSET T
                                     /\ k[s] = h[one(s)][k[s \ {one(s)}]]
  BY FoldStep
<1>1. ASSUME Bad # {} PROVE FALSE
  <2>1. PICK s \in Bad : \A t \in Bad : t \subseteq s => t = s
    <3>1. Bad \subseteq SUBSET S
      OBVIOUS
    <3> HIDE DEF Bad
    <3> QED
      BY <1>1, <3>1, SmallestSet
  <2>2. s # {} /\ s \in SUBSET T /\ s \in SUBSET S /\ g[s] # k[s]
    BY <1>g, <1>k
  <2>3. one(s) \in s /\ s \ {one(s)} \in SUBSET T
    BY <1>k, <2>2
  <2>4. g[s \ {one(s)}] = k[s \ {one(s)}]
    BY <2>1, <2>3
  <2> QED
    BY <1>g, <1>k, <2>2, <2>4
<1> QED
  BY <1>1

\* The fold of a finite set, which MapThenFoldSet chooses, is there.
LEMMA FoldExists ==
    ASSUME NEW h, NEW base, NEW S, IsFiniteSet(S)
    PROVE  \E g : FoldsTo(g, h, base, S)
<1> DEFINE Bad == {s \in SUBSET S : ~ \E g : FoldsTo(g, h, base, s)}
<1>1. ASSUME Bad # {} PROVE FALSE
  <2>1. PICK s \in Bad : \A t \in Bad : t \subseteq s => t = s
    <3>1. Bad \subseteq SUBSET S
      OBVIOUS
    <3> HIDE DEF Bad
    <3> QED
      BY <1>1, <3>1, SmallestSet
  <2> DEFINE foldOf(t) == CHOOSE k : FoldsTo(k, h, base, t)
  <2>2. \A t \in SUBSET s : t # s => FoldsTo(foldOf(t), h, base, t)
    BY <2>1
  <2> DEFINE g == [t \in SUBSET s |-> IF t = {} THEN base
                                      ELSE h[one(t)][foldOf(t \ {one(t)})[t \ {one(t)}]]]
  <2> HIDE DEF foldOf
  <2>3. ASSUME NEW u \in SUBSET s, u # s PROVE g[u] = foldOf(u)[u]
    <3>1. FoldsTo(foldOf(u), h, base, u)
      BY <2>2, <2>3
    <3>s. /\ foldOf(u)[{}] = base
          /\ u # {} => /\ one(u) \in u
                       /\ foldOf(u)[u] = h[one(u)][foldOf(u)[u \ {one(u)}]]
      BY <3>1, FoldStep
    <3>2. CASE u = {}
      BY <3>s, <3>2
    <3>3. CASE u # {}
      <4> DEFINE v == u \ {one(u)}
      <4>1. v \in SUBSET s /\ v # s /\ v \subseteq u
        BY <2>3, <3>s, <3>3
      <4>2. g[u] = h[one(u)][foldOf(v)[v]]
        BY <3>3
      <4>3. FoldsTo(foldOf(v), h, base, v)
        BY <2>2, <4>1
      <4>4. IsFiniteSet(u)
        BY FS_Subset
      <4> HIDE DEF v
      <4>5. foldOf(u)[v] = foldOf(v)[v]
        BY <3>1, <4>1, <4>3, <4>4, FoldUnique
      <4> QED
        BY <3>s, <3>3, <4>2, <4>5 DEF v
    <3> QED
      BY <3>2, <3>3
  <2>4. g = [t \in SUBSET s |-> IF t = {} THEN base ELSE h[one(t)][g[t \ {one(t)}]]]
    <3>1. ASSUME NEW t \in SUBSET s, t # {}
          PROVE  foldOf(t \ {one(t)})[t \ {one(t)}] = g[t \ {one(t)}]
      <4>1. one(t) \in t
        BY <3>1 DEF one
      <4>2. t \ {one(t)} \in SUBSET s /\ t \ {one(t)} # s
        BY <4>1
      <4> HIDE DEF g
      <4> QED
        BY <2>3, <4>2
    <3>2. ASSUME NEW t \in SUBSET s
          PROVE  (IF t = {} THEN base ELSE h[one(t)][foldOf(t \ {one(t)})[t \ {one(t)}]])
                 = (IF t = {} THEN base ELSE h[one(t)][g[t \ {one(t)}]])
      <4> HIDE DEF g
      <4> QED
        BY <3>1
    <3> QED
      BY <3>2
  <2> HIDE DEF g
  <2>5. FoldsTo(g, h, base, s)
    BY <2>4 DEF FoldsTo
  <2> QED
    BY <2>1, <2>5
<1>2. S \notin Bad
  BY <1>1
<1> QED
  BY <1>2

-----------------------------------------------------------------------------
(* Sums, as SumFunction computes them. *)

\* g sums f over every subset of S.
SumsTo(g, f, S) ==
    g = [s \in SUBSET S |-> IF s = {} THEN 0 ELSE f[one(s)] + g[s \ {one(s)}]]

Counts(f, S) == IsFiniteSet(S) /\ \A x \in S : f[x] \in Nat

LEMMA SumStep ==
    ASSUME NEW g, NEW f, NEW S, SumsTo(g, f, S)
    PROVE  /\ g[{}] = 0
           /\ \A s \in SUBSET S : s # {} => /\ one(s) \in s /\ s \ {one(s)} \in SUBSET S
                                          /\ g[s] = f[one(s)] + g[s \ {one(s)}]
<1>1. g[{}] = 0
  BY DEF SumsTo
<1>2. ASSUME NEW s \in SUBSET S, s # {}
      PROVE  /\ one(s) \in s /\ s \ {one(s)} \in SUBSET S
             /\ g[s] = f[one(s)] + g[s \ {one(s)}]
  <2>1. one(s) \in s
    BY <1>2 DEF one
  <2>2. g[s] = f[one(s)] + g[s \ {one(s)}]
    BY <1>2 DEF SumsTo
  <2> QED
    BY <2>1, <2>2
<1> QED
  BY <1>1, <1>2

LEMMA SumExists ==
    ASSUME NEW f, NEW S, Counts(f, S)
    PROVE  \E g : SumsTo(g, f, S)
<1> DEFINE plus == [x \in S |-> [n \in Nat |-> f[x] + n]]
<1>1. PICK g : FoldsTo(g, plus, 0, S)
  BY FoldExists DEF Counts
<1>p. \A x \in S, n \in Nat : plus[x][n] = f[x] + n
  OBVIOUS
<1> HIDE DEF plus
<1>g. /\ g[{}] = 0
      /\ \A s \in SUBSET S : s # {} => /\ one(s) \in s /\ s \ {one(s)} \in SUBSET S
                                     /\ g[s] = plus[one(s)][g[s \ {one(s)}]]
  BY <1>1, FoldStep
<1> DEFINE Bad == {s \in SUBSET S : g[s] \notin Nat}
<1>2. ASSUME Bad # {} PROVE FALSE
  <2>1. PICK s \in Bad : \A t \in Bad : t \subseteq s => t = s
    <3>1. Bad \subseteq SUBSET S
      OBVIOUS
    <3> HIDE DEF Bad
    <3> QED
      BY <1>2, <3>1, SmallestSet DEF Counts
  <2>a. s \in SUBSET S /\ g[s] \notin Nat
    OBVIOUS
  <2>2. s # {} /\ s \in SUBSET S /\ g[s] \notin Nat
    <3> HIDE DEF Bad
    <3> QED
      BY <1>g, <2>a
  <2>3. one(s) \in s /\ s \ {one(s)} \in SUBSET S
    BY <1>g, <2>2
  <2>4. g[s \ {one(s)}] \in Nat /\ f[one(s)] \in Nat
    BY <2>1, <2>3 DEF Counts
  <2>5. g[s] = f[one(s)] + g[s \ {one(s)}]
    BY <1>g, <1>p, <2>2, <2>3, <2>4
  <2> QED
    BY <2>2, <2>4, <2>5
<1>3. ASSUME NEW s \in SUBSET S, s # {}
      PROVE  plus[one(s)][g[s \ {one(s)}]] = f[one(s)] + g[s \ {one(s)}]
  <2>1. one(s) \in S /\ g[s \ {one(s)}] \in Nat
    BY <1>g, <1>2, <1>3
  <2> QED
    BY <1>p, <2>1
<1>4. [s \in SUBSET S |-> IF s = {} THEN 0 ELSE plus[one(s)][g[s \ {one(s)}]]]
      = [s \in SUBSET S |-> IF s = {} THEN 0 ELSE f[one(s)] + g[s \ {one(s)}]]
  BY <1>3
<1>5. SumsTo(g, f, S)
  BY <1>1, <1>4 DEF FoldsTo, SumsTo
<1> QED
  BY <1>5

\* Any summand can be taken out of a sum.
LEMMA SumSplits ==
    ASSUME NEW f, NEW S, Counts(f, S), NEW g, SumsTo(g, f, S)
    PROVE  \A s \in SUBSET S : g[s] \in Nat /\ \A d \in s : g[s] = f[d] + g[s \ {d}]
<1> DEFINE Good(s) == g[s] \in Nat /\ \A d \in s : g[s] = f[d] + g[s \ {d}]
           Bad == {s \in SUBSET S : ~ Good(s)}
<1>g. /\ g[{}] = 0
      /\ \A s \in SUBSET S : s # {} => /\ one(s) \in s /\ s \ {one(s)} \in SUBSET S
                                     /\ g[s] = f[one(s)] + g[s \ {one(s)}]
  BY SumStep
<1>1. ASSUME Bad # {} PROVE FALSE
  <2>1. PICK s \in Bad : \A t \in Bad : t \subseteq s => t = s
    <3>1. Bad \subseteq SUBSET S
      OBVIOUS
    <3> HIDE DEF Bad
    <3> QED
      BY <1>1, <3>1, SmallestSet DEF Counts
  <2>a. s \in SUBSET S /\ ~ Good(s)
    OBVIOUS
  <2>b. Good({})
    BY <1>g
  <2>2. s # {} /\ s \in SUBSET S /\ ~ Good(s)
    <3> HIDE DEF Bad, Good
    <3> QED
      BY <2>a, <2>b
  <2>3. ASSUME NEW x \in s PROVE Good(s \ {x})
    <3>1. s \ {x} \in SUBSET S /\ s \ {x} \subseteq s /\ s \ {x} # s
      BY <2>2
    <3> HIDE DEF Good
    <3> QED
      BY <2>1, <3>1
  <2> DEFINE x == one(s)
  <2>4. x \in s /\ g[s] = f[x] + g[s \ {x}]
    BY <1>g, <2>2
  <2> HIDE DEF x
  <2>5. g[s \ {x}] \in Nat /\ \A d \in s : f[d] \in Nat
    BY <2>2, <2>3, <2>4 DEF Counts
  <2>6. ASSUME NEW d \in s PROVE g[s] = f[d] + g[s \ {d}]
    <3>1. CASE d = x
      BY <2>4, <3>1
    <3>2. CASE d # x
      <4>1. d \in s \ {x} /\ x \in s \ {d} /\ (s \ {x}) \ {d} = (s \ {d}) \ {x}
        BY <2>4, <3>2
      <4> DEFINE r == (s \ {x}) \ {d}
      <4>2. g[s \ {x}] = f[d] + g[r]
        BY <2>3, <2>4, <4>1
      <4>3. g[s \ {d}] = f[x] + g[r]
        BY <2>3, <4>1
      <4>4. Good((s \ {x}) \ {d})
        <5>1. r \in SUBSET S /\ r \subseteq s /\ r # s
          BY <2>2, <4>1
        <5> HIDE DEF Good
        <5> QED
          BY <2>1, <5>1
      <4>5. g[r] \in Nat
        BY <4>4
      <4> HIDE DEF r
      <4> QED
        BY <2>4, <2>5, <4>2, <4>3, <4>5
    <3> QED
      BY <3>1, <3>2
  <2>7. g[s] \in Nat
    BY <2>4, <2>5
  <2>8. Good(s)
    BY <2>6, <2>7
  <2> QED
    BY <2>2, <2>8
<1>2. \A s \in SUBSET S : Good(s)
  BY <1>1
<1> QED
  BY <1>2

\* SumFunction is such a sum.
LEMMA TotalIsSum ==
    ASSUME NEW f, NEW S, S = DOMAIN f, Counts(f, S)
    PROVE  \E g : SumsTo(g, f, S) /\ SumFunction(f) = g[S]
<1> DEFINE adds(g) == g = [s \in SUBSET S |->
                             IF s = {} THEN 0
                             ELSE f[CHOOSE x \in s : TRUE] + g[s \ {CHOOSE x \in s : TRUE}]]
           total == CHOOSE g : adds(g)
<1>1. SumFunction(f) = total[S]
  BY DEF SumFunction, SumFunctionOnSet, FoldFunctionOnSet, MapThenFoldSet
<1>2. \A g : SumsTo(g, f, S) <=> adds(g)
  BY DEF SumsTo, one
<1>3. adds(total)
  <2>1. \E g : adds(g)
    <3>1. \E g : SumsTo(g, f, S)
      BY SumExists
    <3> HIDE DEF adds
    <3> QED
      BY <1>2, <3>1
  <2> HIDE DEF adds
  <2> QED
    BY <2>1
<1> HIDE DEF adds, total
<1> QED
  BY <1>1, <1>2, <1>3

\* SumFunction loses with an element what the element counts.
LEMMA TotalSplits ==
    ASSUME NEW f, NEW S, S = DOMAIN f, Counts(f, S)
    PROVE  /\ SumFunction(f) \in Nat
           /\ S = {} => SumFunction(f) = 0
           /\ \A d \in S : SumFunction(f) = f[d] + SumFunction(Restrict(f, S \ {d}))
<1>1. PICK g : SumsTo(g, f, S) /\ SumFunction(f) = g[S]
  BY TotalIsSum
<1>2. \A s \in SUBSET S : g[s] \in Nat /\ \A d \in s : g[s] = f[d] + g[s \ {d}]
  <2>1. SumsTo(g, f, S)
    BY <1>1
  <2> QED
    BY <2>1, SumSplits
<1>3. g[{}] = 0
  BY <1>1, SumStep
<1>4. ASSUME NEW d \in S PROVE SumFunction(Restrict(f, S \ {d})) = g[S \ {d}]
  <2> DEFINE T == S \ {d}
             h == Restrict(f, T)
  <2>1. DOMAIN h = T /\ \A x \in T : h[x] = f[x]
    BY DEF Restrict
  <2>2. Counts(h, T) /\ IsFiniteSet(T)
    BY <2>1, FS_Subset DEF Counts
  <2> HIDE DEF h
  <2>3. PICK k : SumsTo(k, h, T) /\ SumFunction(h) = k[T]
    BY <2>1, <2>2, TotalIsSum
  <2> HIDE DEF T
  <2>4. /\ k[{}] = 0
        /\ \A s \in SUBSET T : s # {} => /\ one(s) \in s /\ s \ {one(s)} \in SUBSET T
                                       /\ k[s] = h[one(s)] + k[s \ {one(s)}]
    <3>1. SumsTo(k, h, T)
      BY <2>3
    <3> QED
      BY <3>1, SumStep, Zenon
  <2>5. T \subseteq S
    BY DEF T
  <2> DEFINE Bad == {s \in SUBSET T : k[s] # g[s]}
  <2>6. ASSUME Bad # {} PROVE FALSE
    <3>1. PICK s \in Bad : \A t \in Bad : t \subseteq s => t = s
      <4>1. Bad \subseteq SUBSET T
        OBVIOUS
      <4> HIDE DEF Bad
      <4> QED
        BY <2>2, <2>6, <4>1, SmallestSet DEF T
    <3>2. s # {} /\ s \in SUBSET T /\ s \in SUBSET S /\ k[s] # g[s]
      BY <1>3, <2>4, <2>5
    <3>3. one(s) \in s /\ s \ {one(s)} \in SUBSET T /\ k[s \ {one(s)}] = g[s \ {one(s)}]
      BY <2>4, <3>1, <3>2
    <3>4. g[s] = f[one(s)] + g[s \ {one(s)}] /\ h[one(s)] = f[one(s)]
      BY <1>2, <2>1, <3>2, <3>3
    <3> QED
      BY <2>4, <3>2, <3>3, <3>4
  <2>7. k[T] = g[T]
    BY <2>6
  <2> QED
    BY <2>3, <2>7 DEF T, h
<1>5. ASSUME NEW d \in S
      PROVE  SumFunction(f) = f[d] + SumFunction(Restrict(f, S \ {d}))
  <2>1. g[S] = f[d] + g[S \ {d}]
    BY <1>2
  <2> QED
    BY <1>1, <1>4, <2>1
<1>6. SumFunction(f) \in Nat /\ (S = {} => SumFunction(f) = 0)
  BY <1>1, <1>2, <1>3
<1> QED
  BY <1>5, <1>6

-----------------------------------------------------------------------------
(* What Add and Remove make of the index. *)

\* An entry put at the end of a list.
LEMMA Appended ==
    ASSUME NEW E, NEW s \in Seq(E), NEW e \in E
    PROVE  /\ Append(s, e) \in Seq(E)
           /\ Range(Append(s, e)) = Range(s) \cup {e}
           /\ IsInjective(s) /\ e \notin Range(s) => IsInjective(Append(s, e))
<1> DEFINE a == Append(s, e)
           n == Len(s)
<1>1. /\ a \in Seq(E) /\ n \in Nat /\ DOMAIN s = 1 .. n /\ DOMAIN a = 1 .. (n + 1)
      /\ a[n + 1] = e /\ \A i \in 1 .. n : a[i] = s[i]
  OBVIOUS
<1> HIDE DEF a, n
<1>2. ASSUME NEW x PROVE x \in Range(a) <=> x \in Range(s) \cup {e}
  <2>1. ASSUME x \in Range(a) PROVE x \in Range(s) \cup {e}
    <3>1. PICK i \in 1 .. (n + 1) : x = a[i]
      BY <1>1, <2>1 DEF Range
    <3>2. i = n + 1 \/ i \in 1 .. n
      BY <1>1
    <3> QED
      BY <1>1, <3>1, <3>2 DEF Range
  <2>2. ASSUME x \in Range(s) PROVE x \in Range(a)
    <3>1. PICK i \in 1 .. n : x = s[i]
      BY <1>1, <2>2 DEF Range
    <3>2. i \in 1 .. (n + 1) /\ x = a[i]
      BY <1>1, <3>1
    <3> QED
      BY <1>1, <3>2 DEF Range
  <2>3. e \in Range(a)
    <3>1. n + 1 \in 1 .. (n + 1)
      BY <1>1
    <3> QED
      BY <1>1, <3>1 DEF Range
  <2> QED
    BY <2>1, <2>2, <2>3
<1>3. ASSUME IsInjective(s), e \notin Range(s) PROVE IsInjective(a)
  <2> SUFFICES ASSUME NEW i \in 1 .. (n + 1), NEW j \in 1 .. (n + 1), a[i] = a[j]
               PROVE  i = j
    BY <1>1 DEF IsInjective
  <2>1. \A k \in 1 .. n : s[k] # e
    BY <1>1, <1>3 DEF Range
  <2>2. \A k, l \in 1 .. n : s[k] = s[l] => k = l
    BY <1>1, <1>3 DEF IsInjective
  <2>3. (i = n + 1 \/ i \in 1 .. n) /\ (j = n + 1 \/ j \in 1 .. n)
    BY <1>1
  <2> QED
    BY <1>1, <2>1, <2>2, <2>3
<1> QED
  BY <1>1, <1>2, <1>3 DEF a

\* g holds what the pass of filtered has kept after each entry.
Pass(g, posts, d, n) ==
    g = [m \in 0 .. n |->
            IF m = 0 THEN <<>>
            ELSE IF posts[m].doc # d THEN Append(g[m - 1], posts[m]) ELSE g[m - 1]]

\* There is such a pass over any list.
LEMMA PassExists ==
    ASSUME NEW posts, NEW d, NEW n \in Nat
    PROVE  \E g : Pass(g, posts, d, n)
<1> DEFINE Bad == {k \in Nat : ~ \E g : Pass(g, posts, d, k)}
<1>1. ASSUME Bad # {} PROVE FALSE
  <2>1. PICK k \in Bad : \A m \in Bad : k <= m
    <3>1. Bad \subseteq Nat
      OBVIOUS
    <3> HIDE DEF Bad
    <3> QED
      BY <1>1, <3>1, LeastNumber
  <2>2. k \in Nat /\ ~ \E g : Pass(g, posts, d, k)
    OBVIOUS
  <2>3. CASE k = 0
    <3> DEFINE g == [m \in 0 .. 0 |-> <<>>]
    <3>1. g = [m \in 0 .. 0 |->
                 IF m = 0 THEN <<>>
                 ELSE IF posts[m].doc # d THEN Append(g[m - 1], posts[m]) ELSE g[m - 1]]
      OBVIOUS
    <3> HIDE DEF g
    <3>2. Pass(g, posts, d, 0)
      BY <3>1 DEF Pass
    <3> QED
      BY <2>2, <2>3, <3>2
  <2>4. CASE k # 0
    <3>1. k - 1 \in Nat /\ k - 1 \notin Bad
      BY <2>1, <2>2, <2>4
    <3>2. PICK h : Pass(h, posts, d, k - 1)
      BY <3>1
    <3> DEFINE more(g, m) == IF m = 0 THEN <<>>
                             ELSE IF posts[m].doc # d THEN Append(g[m - 1], posts[m])
                             ELSE g[m - 1]
               g == [m \in 0 .. k |-> IF m = k THEN more(h, k) ELSE h[m]]
    <3>3. ASSUME NEW m \in 0 .. k PROVE g[m] = more(g, m)
      <4>1. m # 0 => m - 1 \in 0 .. k /\ m - 1 # k /\ g[m - 1] = h[m - 1]
        BY <2>2
      <4>2. more(g, m) = more(h, m)
        BY <4>1
      <4>3. CASE m = k
        BY <4>2, <4>3
      <4>4. CASE m # k
        <5>1. m \in 0 .. (k - 1)
          BY <2>2, <4>4
        <5>2. h[m] = more(h, m)
          BY <3>2, <5>1 DEF Pass
        <5> QED
          BY <4>2, <4>4, <5>2
      <4> QED
        BY <4>3, <4>4
    <3>4. g = [m \in 0 .. k |-> g[m]]
      OBVIOUS
    <3>5. [m \in 0 .. k |-> g[m]] = [m \in 0 .. k |-> more(g, m)]
      <4> HIDE DEF g, more
      <4> QED
        BY <3>3
    <3>6. g = [m \in 0 .. k |-> more(g, m)]
      <4> HIDE DEF g, more
      <4> QED
        BY <3>4, <3>5
    <3> HIDE DEF g
    <3>7. Pass(g, posts, d, k)
      BY <3>6 DEF Pass
    <3> QED
      BY <2>2, <3>7
  <2> QED
    BY <2>3, <2>4
<1> QED
  BY <1>1

\* filtered keeps the entries of the other documents, each as often as before.
LEMMA Filtered ==
    ASSUME NEW E, NEW posts \in Seq(E), NEW d
    PROVE  /\ filtered(posts, d) \in Seq(E)
           /\ Range(filtered(posts, d)) = {p \in Range(posts) : p.doc # d}
           /\ IsInjective(posts) => IsInjective(filtered(posts, d))
<1> DEFINE n == Len(posts)
           passes(g) == g = [m \in 0 .. Len(posts) |->
                               IF m = 0 THEN <<>>
                               ELSE IF posts[m].doc # d THEN Append(g[m - 1], posts[m])
                               ELSE g[m - 1]]
           pass == CHOOSE g : passes(g)
<1>1. filtered(posts, d) = pass[n]
  BY DEF filtered
<1>2. n \in Nat /\ DOMAIN posts = 1 .. n /\ \A m \in 1 .. n : posts[m] \in E
  OBVIOUS
<1>3. passes(pass)
  <2>1. PICK g : Pass(g, posts, d, n)
    BY <1>2, PassExists
  <2>2. passes(g)
    BY <2>1 DEF Pass
  <2> HIDE DEF passes
  <2> QED
    BY <2>2
<1>4. pass[0] = <<>>
  <2> HIDE DEF pass
  <2> QED
    BY <1>2, <1>3
<1>5. ASSUME NEW m \in 1 .. n
      PROVE  pass[m] = IF posts[m].doc # d THEN Append(pass[m - 1], posts[m]) ELSE pass[m - 1]
  <2>1. m \in 0 .. Len(posts) /\ m # 0
    BY <1>2
  <2> HIDE DEF pass
  <2>2. pass[m] = IF m = 0 THEN <<>>
                  ELSE IF posts[m].doc # d THEN Append(pass[m - 1], posts[m])
                  ELSE pass[m - 1]
    BY <1>3, <2>1
  <2> QED
    BY <2>1, <2>2
<1> HIDE DEF pass, passes, n
<1> DEFINE kept(m) == {posts[k] : k \in {j \in 1 .. m : posts[j].doc # d}}
           Good(m) == /\ pass[m] \in Seq(E)
                      /\ Range(pass[m]) = kept(m)
                      /\ IsInjective(posts) => IsInjective(pass[m])
           Bad == {m \in 0 .. n : ~ Good(m)}
<1>6. Good(0)
  <2>1. kept(0) = {}
    OBVIOUS
  <2>2. Range(<<>>) = {} /\ IsInjective(<<>>) /\ <<>> \in Seq(E)
    BY DEF Range, IsInjective
  <2> HIDE DEF kept
  <2> QED
    BY <1>4, <2>1, <2>2
<1>7. ASSUME NEW m \in 1 .. n, Good(m - 1) PROVE Good(m)
  <2>1. m \in Nat /\ \A k \in 1 .. m : k = m \/ k \in 1 .. (m - 1)
    BY <1>2
  <2>2. 1 .. m = (1 .. (m - 1)) \cup {m}
    BY <1>2
  <2>3. CASE posts[m].doc # d
    <3>1. kept(m) = kept(m - 1) \cup {posts[m]}
      BY <2>2, <2>3
    <3>2. IsInjective(posts) => posts[m] \notin kept(m - 1)
      <4> SUFFICES ASSUME IsInjective(posts), NEW k \in 1 .. (m - 1), posts[m] = posts[k]
                   PROVE  FALSE
        OBVIOUS
      <4>1. k \in DOMAIN posts /\ m \in DOMAIN posts /\ k # m
        BY <1>2
      <4> QED
        BY <4>1 DEF IsInjective
    <3> HIDE DEF kept
    <3>3. posts[m] \in E /\ pass[m] = Append(pass[m - 1], posts[m])
      BY <1>2, <1>5, <2>3
    <3> QED
      BY <1>7, <3>1, <3>2, <3>3, Appended
  <2>4. CASE posts[m].doc = d
    <3>1. kept(m) = kept(m - 1)
      BY <2>2, <2>4
    <3>2. pass[m] = pass[m - 1]
      BY <1>5, <2>4
    <3> HIDE DEF kept
    <3> QED
      BY <1>7, <3>1, <3>2
  <2> QED
    BY <2>3, <2>4
<1> HIDE DEF Good
<1>8. ASSUME Bad # {} PROVE FALSE
  <2>1. PICK m \in Bad : \A k \in Bad : m <= k
    <3>1. Bad \subseteq Nat
      BY <1>2
    <3> HIDE DEF Bad
    <3> QED
      BY <1>8, <3>1, LeastNumber
  <2>2. m \in 0 .. n /\ ~ Good(m)
    OBVIOUS
  <2>3. m # 0
    BY <1>6, <2>2
  <2>4. m \in 1 .. n /\ m - 1 \in 0 .. n /\ ~ m <= m - 1
    BY <1>2, <2>2, <2>3
  <2>5. Good(m - 1)
    BY <2>1, <2>4
  <2> QED
    BY <1>7, <2>2, <2>4, <2>5
<1>9. Good(n)
  BY <1>2, <1>8
<1>10. kept(n) = {p \in Range(posts) : p.doc # d}
  BY <1>2 DEF Range
<1> HIDE DEF kept
<1> QED
  BY <1>1, <1>9, <1>10 DEF Good

Entries == [doc : Records, tf : Nat]

\* h is the texts of some records, none of them without a token.
AreTexts(h) ==
    /\ DOMAIN h \subseteq Records
    /\ h \in [DOMAIN h -> [Terms -> Nat] \ {NoTokens}]

Listed(h, t) == {[doc |-> r, tf |-> h[r][t]] : r \in {x \in DOMAIN h : h[x][t] > 0}}
Lengths(h) == [r \in DOMAIN h |-> TextLen(h[r])]

\* The index i is exactly that of the texts h.
IsIndex(i) == i = [postings |-> i.postings, docLen |-> i.docLen,
                   docCount |-> i.docCount, avgLen |-> i.avgLen]

IndexOf(i, h) ==
    /\ IsIndex(i)
    /\ i.postings \in [Terms -> Seq(Entries)]
    /\ \A t \in Terms : IsInjective(i.postings[t]) /\ Range(i.postings[t]) = Listed(h, t)
    /\ i.docLen = Lengths(h)
    /\ i.docCount = Cardinality(DOMAIN h)
    /\ i.avgLen = Average(SumFunction(Lengths(h)), Cardinality(DOMAIN h))

Without(h, d) == Restrict(h, DOMAIN h \ {d})
With(h, d, x) == [r \in DOMAIN h \cup {d} |-> IF r = d THEN x ELSE h[r]]

\* A text with a token is longer than zero.
LEMMA LengthOfText ==
    ASSUME NEW x \in [Terms -> Nat]
    PROVE  /\ TextLen(x) \in Nat
           /\ x # NoTokens => TextLen(x) > 0
<1>1. DOMAIN x = Terms /\ Counts(x, Terms)
  BY TermsAssumption DEF Counts
<1>2. /\ SumFunction(x) \in Nat
      /\ \A t \in Terms : SumFunction(x) = x[t] + SumFunction(Restrict(x, Terms \ {t}))
  BY <1>1, TotalSplits
<1>3. ASSUME NEW t \in Terms PROVE SumFunction(Restrict(x, Terms \ {t})) \in Nat
  <2> DEFINE T == Terms \ {t}
             y == Restrict(x, T)
  <2>1. DOMAIN y = T /\ Counts(y, T)
    BY <1>1, FS_Subset DEF Counts, Restrict
  <2> HIDE DEF T, y
  <2>2. SumFunction(y) \in Nat
    BY <2>1, TotalSplits
  <2> QED
    BY <2>2 DEF T, y
<1>4. ASSUME x # NoTokens PROVE SumFunction(x) > 0
  <2>1. PICK t \in Terms : x[t] # 0
    BY <1>4 DEF NoTokens
  <2>2. x[t] \in Nat /\ x[t] > 0
    BY <2>1
  <2>3. SumFunction(x) = x[t] + SumFunction(Restrict(x, Terms \ {t}))
    BY <1>2
  <2>4. SumFunction(Restrict(x, Terms \ {t})) \in Nat
    BY <1>3
  <2> QED
    BY <2>2, <2>3, <2>4
<1> QED
  BY <1>2, <1>4 DEF TextLen

\* The texts of some records have lengths that add up.
LEMMA LengthsCounted ==
    ASSUME NEW h, AreTexts(h)
    PROVE  /\ DOMAIN Lengths(h) = DOMAIN h /\ Counts(Lengths(h), DOMAIN h)
           /\ \A r \in DOMAIN h : Lengths(h)[r] \in Nat /\ Lengths(h)[r] > 0
           /\ IsFiniteSet(DOMAIN h) /\ Cardinality(DOMAIN h) \in Nat
           /\ Cardinality(DOMAIN h) = 0 <=> DOMAIN h = {}
           /\ SumFunction(Lengths(h)) \in Nat
           /\ DOMAIN h = {} => SumFunction(Lengths(h)) = 0
<1>1. /\ IsFiniteSet(DOMAIN h) /\ Cardinality(DOMAIN h) \in Nat
      /\ Cardinality(DOMAIN h) = 0 <=> DOMAIN h = {}
  BY RecordsAssumption, FS_Subset, FS_CardinalityType, FS_EmptySet DEF AreTexts
<1>2. \A r \in DOMAIN h : TextLen(h[r]) \in Nat /\ TextLen(h[r]) > 0
  BY LengthOfText DEF AreTexts
<1>3. DOMAIN Lengths(h) = DOMAIN h /\ \A r \in DOMAIN h : Lengths(h)[r] = TextLen(h[r])
  BY DEF Lengths
<1>4. Counts(Lengths(h), DOMAIN h)
  BY <1>1, <1>2, <1>3 DEF Counts
<1>5. /\ SumFunction(Lengths(h)) \in Nat
      /\ DOMAIN h = {} => SumFunction(Lengths(h)) = 0
  BY <1>3, <1>4, TotalSplits
<1> QED
  BY <1>1, <1>2, <1>3, <1>4, <1>5

\* The total that Add and Remove compute from the average is the total.
LEMMA TotalKept ==
    ASSUME NEW h, AreTexts(h), NEW i, IndexOf(i, h)
    PROVE  totalLen(i, i.docCount) = SumFunction(Lengths(h))
<1> DEFINE s == SumFunction(Lengths(h))
           n == Cardinality(DOMAIN h)
<1>1. s \in Nat /\ n \in Nat /\ (n = 0 => s = 0)
  BY LengthsCounted
<1>2. i.avgLen = Average(s, n) /\ i.docCount = n
  BY DEF IndexOf
<1> HIDE DEF s, n
<1>3. CASE n > 0
  <2>1. i.avgLen.sum = s /\ i.avgLen.count = n
    BY <1>2, <1>3 DEF Average
  <2>2. (s * n) \div n = s
    BY <1>1, <1>3, Quotient
  <2>3. totalLen(i, i.docCount) = s
    BY <1>2, <2>1, <2>2 DEF totalLen
  <2> QED
    BY <2>3 DEF s
<1>4. CASE n = 0
  <2>1. i.avgLen.sum = 0 /\ i.avgLen.count = 1 /\ s = 0
    BY <1>1, <1>2, <1>4 DEF Average, Zero
  <2>2. (0 * 0) \div 1 = 0
    OBVIOUS
  <2>3. totalLen(i, i.docCount) = s
    BY <1>2, <1>4, <2>1, <2>2 DEF totalLen
  <2> QED
    BY <2>3 DEF s
<1> QED
  BY <1>1, <1>3, <1>4

\* removeLocked makes of the index of some texts the index of the others.
LEMMA RemovedExactly ==
    ASSUME NEW h, AreTexts(h), NEW i, IndexOf(i, h), NEW d
    PROVE  /\ AreTexts(Without(h, d))
           /\ IndexOf(removeLocked(i, d), Without(h, d))
<1> DEFINE k == Without(h, d)
           D == DOMAIN h \ {d}
<1>1. DOMAIN k = D /\ k = [r \in D |-> h[r]] /\ \A r \in D : k[r] = h[r]
  BY DEF Without, Restrict
<1> HIDE DEF k
<1>2. AreTexts(k)
  BY <1>1 DEF AreTexts
<1>3. DOMAIN i.docLen = DOMAIN h /\ i.docLen = Lengths(h) /\ i.docCount = Cardinality(DOMAIN h)
  BY LengthsCounted DEF IndexOf
<1>4. CASE d \notin DOMAIN h
  <2>1. h = [r \in DOMAIN h |-> h[r]] /\ D = DOMAIN h
    BY <1>4 DEF AreTexts
  <2>2. k = h /\ removeLocked(i, d) = i
    BY <1>1, <1>3, <1>4, <2>1 DEF removeLocked
  <2> QED
    BY <1>2, <2>2 DEF k
<1>5. CASE d \in DOMAIN h
  <2> DEFINE j == removeLocked(i, d)
  <2>1. j = [postings |-> [t \in Terms |-> filtered(i.postings[t], d)],
             docLen   |-> Restrict(i.docLen, DOMAIN i.docLen \ {d}),
             docCount |-> i.docCount - 1,
             avgLen   |-> Average(totalLen(i, i.docCount) - i.docLen[d], i.docCount - 1)]
    BY <1>3, <1>5 DEF removeLocked
  <2> HIDE DEF j
  <2>2. /\ j.postings = [t \in Terms |-> filtered(i.postings[t], d)]
        /\ j.docLen = Restrict(i.docLen, DOMAIN i.docLen \ {d})
        /\ j.docCount = i.docCount - 1
        /\ j.avgLen = Average(totalLen(i, i.docCount) - i.docLen[d], i.docCount - 1)
    BY <2>1
  <2>3. ASSUME NEW t \in Terms
        PROVE  /\ j.postings[t] \in Seq(Entries) /\ IsInjective(j.postings[t])
               /\ Range(j.postings[t]) = Listed(k, t)
    <3>1. /\ i.postings[t] \in Seq(Entries) /\ IsInjective(i.postings[t])
          /\ Range(i.postings[t]) = Listed(h, t)
      BY DEF IndexOf
    <3>2. /\ filtered(i.postings[t], d) \in Seq(Entries)
          /\ Range(filtered(i.postings[t], d)) = {p \in Listed(h, t) : p.doc # d}
          /\ IsInjective(filtered(i.postings[t], d))
      BY <3>1, Filtered
    <3>3. {p \in Listed(h, t) : p.doc # d} = Listed(k, t)
      BY <1>1 DEF Listed
    <3>4. j.postings[t] = filtered(i.postings[t], d)
      BY <2>2
    <3> QED
      BY <3>2, <3>3, <3>4
  <2>4. j.docLen = Lengths(k)
    BY <1>1, <1>3, <2>2 DEF Lengths, Restrict
  <2>5. j.docCount = Cardinality(D)
    <3>1. IsFiniteSet(DOMAIN h)
      BY LengthsCounted
    <3>2. Cardinality(D) = Cardinality(DOMAIN h) - 1
      BY <1>5, <3>1, FS_RemoveElement
    <3> QED
      BY <1>3, <2>2, <3>2
  <2>6. totalLen(i, i.docCount) - i.docLen[d] = SumFunction(Lengths(k))
    <3>1. /\ Counts(Lengths(h), DOMAIN h) /\ DOMAIN Lengths(h) = DOMAIN h
          /\ Lengths(h)[d] \in Nat
      BY <1>5, LengthsCounted
    <3>2. SumFunction(Lengths(h)) = Lengths(h)[d] + SumFunction(Restrict(Lengths(h), D))
      BY <1>5, <3>1, TotalSplits
    <3>3. Restrict(Lengths(h), D) = Lengths(k)
      BY <1>3, <2>2, <2>4
    <3>4. totalLen(i, i.docCount) = SumFunction(Lengths(h))
      BY TotalKept
    <3>5. SumFunction(Lengths(k)) \in Nat
      BY <1>2, LengthsCounted
    <3> QED
      BY <1>3, <3>1, <3>2, <3>3, <3>4, <3>5
  <2>7. j.postings \in [Terms -> Seq(Entries)]
    BY <2>2, <2>3
  <2>8. IsIndex(j)
    BY <2>1 DEF IsIndex
  <2>9. IndexOf(j, k)
    BY <1>1, <2>8, <2>2, <2>3, <2>4, <2>5, <2>6, <2>7 DEF IndexOf
  <2> QED
    BY <1>2, <2>9 DEF j, k
<1> QED
  BY <1>4, <1>5

\* Add makes of the index of some texts the index with one more or another text.
LEMMA AddedExactly ==
    ASSUME NEW h, AreTexts(h), NEW i, IndexOf(i, h), NEW d \in Records,
           NEW x \in [Terms -> Nat] \ {NoTokens}
    PROVE  /\ AreTexts(With(h, d, x))
           /\ IndexOf(Add(i, d, x), With(h, d, x))
<1> DEFINE k == Without(h, d)
           j == removeLocked(i, d)
           w == With(h, d, x)
           D == DOMAIN h \ {d}
           E == DOMAIN h \cup {d}
<1>1. AreTexts(k) /\ IndexOf(j, k)
  BY RemovedExactly
<1>2. DOMAIN k = D /\ \A r \in D : k[r] = h[r]
  BY DEF Without, Restrict
<1>3. /\ DOMAIN w = E /\ w[d] = x /\ \A r \in D : w[r] = k[r]
      /\ w = [r \in E |-> w[r]] /\ E = D \cup {d}
  BY <1>2 DEF With
<1> DEFINE a == Add(i, d, x)
<1>4. a = [postings |-> [t \in Terms |->
                            IF x[t] > 0 THEN Append(j.postings[t], [doc |-> d, tf |-> x[t]])
                            ELSE j.postings[t]],
           docLen   |-> [e \in DOMAIN j.docLen \cup {d} |->
                            IF e = d THEN TextLen(x) ELSE j.docLen[e]],
           docCount |-> j.docCount + 1,
           avgLen   |-> Average(totalLen(j, j.docCount) + TextLen(x), j.docCount + 1)]
  BY DEF Add, add
<1> HIDE DEF k, j, w, a
<1>5. /\ a.postings = [t \in Terms |->
                          IF x[t] > 0 THEN Append(j.postings[t], [doc |-> d, tf |-> x[t]])
                          ELSE j.postings[t]]
      /\ a.docLen = [e \in DOMAIN j.docLen \cup {d} |->
                        IF e = d THEN TextLen(x) ELSE j.docLen[e]]
      /\ a.docCount = j.docCount + 1
      /\ a.avgLen = Average(totalLen(j, j.docCount) + TextLen(x), j.docCount + 1)
  BY <1>4
<1>6. AreTexts(w)
  <2>1. E \subseteq Records
    BY DEF AreTexts
  <2>2. \A r \in E : w[r] \in [Terms -> Nat] \ {NoTokens}
    BY <1>1, <1>2, <1>3 DEF AreTexts
  <2> QED
    BY <1>3, <2>1, <2>2 DEF AreTexts
<1>7. ASSUME NEW t \in Terms
      PROVE  /\ a.postings[t] \in Seq(Entries) /\ IsInjective(a.postings[t])
             /\ Range(a.postings[t]) = Listed(w, t)
  <2> DEFINE p == [doc |-> d, tf |-> x[t]]
  <2>1. /\ j.postings[t] \in Seq(Entries) /\ IsInjective(j.postings[t])
        /\ Range(j.postings[t]) = Listed(k, t)
    BY <1>1 DEF IndexOf
  <2>2. p \in Entries /\ p \notin Listed(k, t)
    BY <1>2 DEF Entries, Listed
  <2>3. CASE x[t] > 0
    <3>1. Listed(w, t) = Listed(k, t) \cup {p}
      <4>1. {r \in DOMAIN w : w[r][t] > 0} = {r \in DOMAIN k : k[r][t] > 0} \cup {d}
        BY <1>2, <1>3, <2>3
      <4> DEFINE K == {r \in DOMAIN k : k[r][t] > 0}
      <4>2. \A r \in K : w[r] = k[r]
        BY <1>2, <1>3
      <4> HIDE DEF K
      <4>3. {[doc |-> r, tf |-> w[r][t]] : r \in K \cup {d}}
            = {[doc |-> r, tf |-> k[r][t]] : r \in K} \cup {p}
        <5> DEFINE e(r) == [doc |-> r, tf |-> w[r][t]]
        <5>1. \A r \in K : e(r) = [doc |-> r, tf |-> k[r][t]]
          BY <4>2
        <5>2. e(d) = p
          BY <1>3
        <5> HIDE DEF e
        <5>3. {e(r) : r \in K \cup {d}} = {[doc |-> r, tf |-> k[r][t]] : r \in K} \cup {p}
          BY <5>1, <5>2
        <5> QED
          BY <5>3 DEF e
      <4> QED
        BY <4>1, <4>3 DEF Listed, K
    <3>2. a.postings[t] = Append(j.postings[t], p)
      BY <1>5, <2>3
    <3> HIDE DEF p
    <3> QED
      BY <2>1, <2>2, <3>1, <3>2, Appended
  <2>4. CASE ~ x[t] > 0
    <3>1. Listed(w, t) = Listed(k, t)
      <4>1. {r \in DOMAIN w : w[r][t] > 0} = {r \in DOMAIN k : k[r][t] > 0}
        BY <1>2, <1>3, <2>4
      <4>2. \A r \in DOMAIN k : w[r] = k[r]
        BY <1>2, <1>3
      <4> QED
        BY <4>1, <4>2 DEF Listed
    <3>2. a.postings[t] = j.postings[t]
      BY <1>5, <2>4
    <3> QED
      BY <2>1, <3>1, <3>2
  <2> QED
    BY <2>3, <2>4
<1>8. a.postings \in [Terms -> Seq(Entries)]
  BY <1>5, <1>7
<1>9. j.docLen = Lengths(k) /\ DOMAIN j.docLen = D /\ j.docCount = Cardinality(D)
  BY <1>1, <1>2, LengthsCounted DEF IndexOf
<1>10. a.docLen = Lengths(w)
  <2>1. \A e \in E : (IF e = d THEN TextLen(x) ELSE j.docLen[e]) = TextLen(w[e])
    BY <1>2, <1>3, <1>9 DEF Lengths
  <2>2. a.docLen = [e \in E |-> IF e = d THEN TextLen(x) ELSE j.docLen[e]]
    BY <1>3, <1>5, <1>9
  <2>3. [e \in E |-> IF e = d THEN TextLen(x) ELSE j.docLen[e]] = [e \in E |-> TextLen(w[e])]
    BY <2>1
  <2> QED
    BY <1>3, <2>2, <2>3 DEF Lengths
<1>11. a.docCount = Cardinality(E)
  <2>1. IsFiniteSet(D) /\ d \notin D
    BY <1>1, <1>2, LengthsCounted
  <2>2. Cardinality(D \cup {d}) = Cardinality(D) + 1
    BY <2>1, FS_AddElement
  <2> QED
    BY <1>3, <1>5, <1>9, <2>2
<1>12. totalLen(j, j.docCount) + TextLen(x) = SumFunction(Lengths(w))
  <2>1. Counts(Lengths(w), E) /\ DOMAIN Lengths(w) = E /\ d \in E
    BY <1>3, <1>6, LengthsCounted
  <2>2. SumFunction(Lengths(w)) = Lengths(w)[d] + SumFunction(Restrict(Lengths(w), E \ {d}))
    BY <2>1, TotalSplits
  <2>3. Restrict(Lengths(w), E \ {d}) = Lengths(k)
    <3>1. E \ {d} = DOMAIN k
      BY <1>2
    <3>2. \A r \in DOMAIN k : Lengths(w)[r] = TextLen(k[r])
      BY <1>2, <1>3 DEF Lengths
    <3> QED
      BY <3>1, <3>2 DEF Restrict, Lengths
  <2>4. Lengths(w)[d] = TextLen(x) /\ TextLen(x) \in Nat
    BY <1>3, LengthOfText DEF Lengths
  <2>5. totalLen(j, j.docCount) = SumFunction(Lengths(k)) /\ SumFunction(Lengths(k)) \in Nat
    BY <1>1, TotalKept, LengthsCounted
  <2> QED
    BY <2>2, <2>3, <2>4, <2>5
<1>13. a.avgLen = Average(SumFunction(Lengths(w)), Cardinality(E))
  BY <1>5, <1>11, <1>12
<1>14. IsIndex(a)
  BY <1>4 DEF IsIndex
<1>15. IndexOf(a, w)
  BY <1>3, <1>7, <1>8, <1>10, <1>11, <1>13, <1>14 DEF IndexOf
<1> QED
  BY <1>6, <1>15 DEF a, w

NoTexts == [r \in {} |-> NoTokens]

\* An index without documents is that of no text.
LEMMA EmptyExactly == AreTexts(NoTexts) /\ IndexOf(NewIndex, NoTexts)
<1>1. DOMAIN NoTexts = {} /\ AreTexts(NoTexts)
  BY DEF NoTexts, AreTexts
<1>2. Cardinality({}) = 0
  BY FS_EmptySet
<1>3. ASSUME NEW t \in Terms
      PROVE  /\ NewIndex.postings[t] = <<>> /\ <<>> \in Seq(Entries)
             /\ IsInjective(<<>>) /\ Range(<<>>) = Listed(NoTexts, t)
  BY <1>1 DEF NewIndex, IsInjective, Range, Listed
<1>4. NewIndex.postings \in [Terms -> Seq(Entries)]
  BY DEF NewIndex
<1>5. NewIndex.docLen = Lengths(NoTexts)
  BY <1>1 DEF NewIndex, Lengths
<1>6. SumFunction(Lengths(NoTexts)) = 0
  BY <1>1, LengthsCounted
<1>7. NewIndex.docCount = 0 /\ NewIndex.avgLen = Average(0, 0) /\ IsIndex(NewIndex)
  BY DEF NewIndex, Average, IsIndex
<1> QED
  BY <1>1, <1>2, <1>3, <1>4, <1>5, <1>6, <1>7 DEF IndexOf

-----------------------------------------------------------------------------
(* The index Connect builds. *)

Indexes == [postings : [Terms -> Seq(Entries)],
            docLen   : UNION {[D -> Nat] : D \in SUBSET Records},
            docCount : Nat,
            avgLen   : [sum : Nat, count : Nat]]

\* The fields of such an index have their types.
LEMMA IndexTyped ==
    ASSUME NEW h, AreTexts(h), NEW i, IndexOf(i, h)
    PROVE  i \in Indexes
<1>1. Lengths(h) \in [DOMAIN h -> Nat]
  <2>1. \A r \in DOMAIN h : TextLen(h[r]) \in Nat
    BY LengthOfText DEF AreTexts
  <2> QED
    BY <2>1 DEF Lengths
<1>2. i.docLen \in UNION {[D -> Nat] : D \in SUBSET Records}
  BY <1>1 DEF IndexOf, AreTexts
<1>3. Cardinality(DOMAIN h) \in Nat /\ SumFunction(Lengths(h)) \in Nat
  BY LengthsCounted
<1>4. i.avgLen \in [sum : Nat, count : Nat]
  BY <1>3 DEF IndexOf, Average, Zero
<1>5. i.postings \in [Terms -> Seq(Entries)] /\ i.docCount \in Nat /\ IsIndex(i)
  BY <1>3 DEF IndexOf
<1> QED
  BY <1>2, <1>4, <1>5 DEF Indexes, IsIndex

\* The texts c are added one after another.
AddsAll(g, c) ==
    g = [s \in SUBSET DOMAIN c |->
            IF s = {} THEN NewIndex ELSE Add(g[s \ {one(s)}], one(s), c[one(s)])]

\* In whatever order: the index that comes of it is that of the texts c.
LEMMA AddingAll ==
    ASSUME NEW c, AreTexts(c)
    PROVE  /\ \E g : AddsAll(g, c)
           /\ \A g : AddsAll(g, c) => IndexOf(g[DOMAIN c], c)
<1> DEFINE S == DOMAIN c
           h == [r \in S |-> [i \in Indexes |-> Add(i, r, c[r])]]
           Exact(i, s) == AreTexts(Restrict(c, s)) /\ IndexOf(i, Restrict(c, s))
<1>f. IsFiniteSet(S)
  BY LengthsCounted
<1>h. \A r \in S, i \in Indexes : h[r][i] = Add(i, r, c[r])
  OBVIOUS
<1> HIDE DEF h
<1>1. Exact(NewIndex, {})
  <2>1. Restrict(c, {}) = NoTexts
    BY DEF Restrict, NoTexts
  <2> QED
    BY <2>1, EmptyExactly
<1>2. ASSUME NEW s \in SUBSET S, NEW x \in s, NEW i, Exact(i, s \ {x})
      PROVE  i \in Indexes /\ Exact(Add(i, x, c[x]), s)
  <2> DEFINE b == Restrict(c, s \ {x})
  <2>1. With(b, x, c[x]) = Restrict(c, s)
    <3>1. DOMAIN b \cup {x} = s /\ \A r \in s : r # x => b[r] = c[r]
      BY DEF Restrict
    <3>2. [r \in s |-> IF r = x THEN c[x] ELSE b[r]] = [r \in s |-> c[r]]
      BY <3>1
    <3> QED
      BY <3>1, <3>2 DEF With, Restrict
  <2>2. x \in Records /\ c[x] \in [Terms -> Nat] \ {NoTokens}
    BY DEF AreTexts
  <2>3. AreTexts(b) /\ IndexOf(i, b)
    BY <1>2
  <2> HIDE DEF b
  <2>4. AreTexts(With(b, x, c[x])) /\ IndexOf(Add(i, x, c[x]), With(b, x, c[x]))
    BY <2>2, <2>3, AddedExactly
  <2> QED
    BY <2>1, <2>3, <2>4, IndexTyped
<1> HIDE DEF Exact
<1>3. ASSUME NEW g, g[{}] = NewIndex,
             \A s \in SUBSET S :
                 /\ s # {}
                 /\ Exact(g[s \ {one(s)}], s \ {one(s)})
                 => g[s] = Add(g[s \ {one(s)}], one(s), c[one(s)])
      PROVE  \A s \in SUBSET S : Exact(g[s], s)
  <2> DEFINE Bad == {s \in SUBSET S : ~ Exact(g[s], s)}
  <2>1. ASSUME Bad # {} PROVE FALSE
    <3>1. PICK s \in Bad : \A t \in Bad : t \subseteq s => t = s
      <4>1. Bad \subseteq SUBSET S
        OBVIOUS
      <4> HIDE DEF Bad
      <4> QED
        BY <1>f, <2>1, <4>1, SmallestSet
    <3>2. s \in SUBSET S /\ ~ Exact(g[s], s)
      OBVIOUS
    <3>3. s # {}
      BY <1>1, <1>3, <3>2
    <3>4. one(s) \in s /\ s \ {one(s)} \in SUBSET S
      BY <3>2, <3>3 DEF one
    <3>5. Exact(g[s \ {one(s)}], s \ {one(s)})
      BY <3>1, <3>4
    <3> QED
      BY <1>2, <1>3, <3>2, <3>3, <3>4, <3>5
  <2> QED
    BY <2>1
<1>4. \E g : AddsAll(g, c)
  <2>1. PICK g : FoldsTo(g, h, NewIndex, S)
    BY <1>f, FoldExists
  <2>2. /\ g[{}] = NewIndex
        /\ \A s \in SUBSET S : s # {} => /\ one(s) \in s /\ s \ {one(s)} \in SUBSET S
                                       /\ g[s] = h[one(s)][g[s \ {one(s)}]]
    BY <2>1, FoldStep
  <2>3. ASSUME NEW s \in SUBSET S, s # {}, Exact(g[s \ {one(s)}], s \ {one(s)})
        PROVE  g[s] = Add(g[s \ {one(s)}], one(s), c[one(s)])
    BY <1>2, <1>h, <2>2, <2>3
  <2>4. \A s \in SUBSET S : Exact(g[s], s)
    BY <1>3, <2>2, <2>3
  <2>5. ASSUME NEW s \in SUBSET S, s # {}
        PROVE  h[one(s)][g[s \ {one(s)}]] = Add(g[s \ {one(s)}], one(s), c[one(s)])
    BY <2>2, <2>3, <2>4, <2>5
  <2>6. [s \in SUBSET S |-> IF s = {} THEN NewIndex ELSE h[one(s)][g[s \ {one(s)}]]]
        = [s \in SUBSET S |->
              IF s = {} THEN NewIndex ELSE Add(g[s \ {one(s)}], one(s), c[one(s)])]
    BY <2>5
  <2>7. AddsAll(g, c)
    BY <2>1, <2>6 DEF FoldsTo, AddsAll
  <2> QED
    BY <2>7
<1>5. ASSUME NEW g, AddsAll(g, c) PROVE IndexOf(g[S], c)
  <2>1. g[{}] = NewIndex
    BY <1>5 DEF AddsAll
  <2>2. \A s \in SUBSET S : s # {} => g[s] = Add(g[s \ {one(s)}], one(s), c[one(s)])
    BY <1>5 DEF AddsAll
  <2>3. Exact(g[S], S)
    BY <1>3, <2>1, <2>2
  <2>4. Restrict(c, S) = c
    BY DEF Restrict, AreTexts
  <2> QED
    BY <2>3, <2>4 DEF Exact
<1> QED
  BY <1>4, <1>5

\* The texts that m says the records have.
TextsIn(m) == [r \in {x \in Records : m[x] # None} |-> Tokens[r][m[r]]]

\* They are texts of some records, with tokens.
LEMMA TextsTyped ==
    ASSUME NEW m \in [Records -> Texts \cup {None}]
    PROVE  AreTexts(TextsIn(m))
<1> DEFINE D == {x \in Records : m[x] # None}
<1>1. ASSUME NEW r \in D PROVE Tokens[r][m[r]] \in [Terms -> Nat] \ {NoTokens}
  <2>1. r \in Records /\ m[r] \in Texts
    OBVIOUS
  <2> QED
    BY <2>1, TokensAssumption
<1>2. DOMAIN TextsIn(m) = D /\ TextsIn(m) \in [D -> [Terms -> Nat] \ {NoTokens}]
  BY <1>1 DEF TextsIn
<1> QED
  BY <1>2 DEF AreTexts

\* rebuildLexicalIndex makes the index of what the collection holds.
LEMMA RebuiltExactly ==
    ASSUME TypeOK
    PROVE  IndexOf(rebuiltIndex, TextsIn(collection))
<1> DEFINE c == TextsIn(collection)
           adds(g) == g = [s \in SUBSET Stored |->
                             IF s = {} THEN NewIndex
                             ELSE Add(g[s \ {CHOOSE x \in s : TRUE}], CHOOSE x \in s : TRUE,
                                      Tokens[CHOOSE x \in s : TRUE]
                                            [collection[CHOOSE x \in s : TRUE]])]
           all == CHOOSE g : adds(g)
<1>1. rebuiltIndex = all[Stored]
  BY DEF rebuiltIndex, FoldSet, MapThenFoldSet
<1>2. AreTexts(c) /\ DOMAIN c = Stored /\ \A r \in Stored : c[r] = Tokens[r][collection[r]]
  BY TextsTyped DEF TypeOK, TextsIn, Stored
<1> HIDE DEF c
<1>3. ASSUME NEW g PROVE AddsAll(g, c) <=> adds(g)
  <2>1. \A s \in SUBSET Stored :
           s # {} => c[one(s)] = Tokens[CHOOSE x \in s : TRUE][collection[CHOOSE x \in s : TRUE]]
    BY <1>2 DEF one
  <2>2. [s \in SUBSET Stored |->
            IF s = {} THEN NewIndex ELSE Add(g[s \ {one(s)}], one(s), c[one(s)])]
        = [s \in SUBSET Stored |->
             IF s = {} THEN NewIndex
             ELSE Add(g[s \ {CHOOSE x \in s : TRUE}], CHOOSE x \in s : TRUE,
                      Tokens[CHOOSE x \in s : TRUE][collection[CHOOSE x \in s : TRUE]])]
    BY <2>1 DEF one
  <2> QED
    BY <1>2, <2>2 DEF AddsAll
<1>4. (\E g : AddsAll(g, c)) /\ \A g : AddsAll(g, c) => IndexOf(g[DOMAIN c], c)
  BY <1>2, AddingAll
<1>5. adds(all)
  <2>1. \E g : adds(g)
    <3> HIDE DEF adds
    <3> QED
      BY <1>3, <1>4
  <2> HIDE DEF adds
  <2> QED
    BY <2>1
<1> HIDE DEF adds, all
<1>6. IndexOf(all[Stored], c)
  BY <1>2, <1>3, <1>4, <1>5
<1> QED
  BY <1>1, <1>6 DEF c

-----------------------------------------------------------------------------
(* The lexical index is that of the texts indexed, whoever shares paths.   *)

StoreInv ==
    /\ TypeOK
    /\ \A c \in Clients : op[c].pc = "adding" => op[c].todo \subseteq Batch(c)

LexicalInv == StoreInv /\ IndexOf(idx, TextsIn(bm25))

\* A step that changes what the call of c is in.
LEMMA CallTyped ==
    ASSUME StoreInv, NEW c \in Clients, NEW x \in Calls, become(c, x),
           collection' \in [Records -> Texts \cup {None}],
           bm25' \in [Records -> Texts \cup {None}],
           x.pc = "adding" => \A r \in x.todo : r \in Records /\ x.batch[r] # None
    PROVE  StoreInv'
<1>1. /\ op' \in [Clients -> Calls] /\ op'[c] = x
      /\ \A d \in Clients \ {c} : op'[d] = op[d]
  BY DEF become, StoreInv, TypeOK
<1>2. TypeOK'
  BY <1>1 DEF TypeOK
<1>3. ASSUME NEW d \in Clients, op'[d].pc = "adding" PROVE op'[d].todo \subseteq Batch(d)'
  <2>1. CASE d = c
    BY <1>1, <1>3, <2>1 DEF Batch
  <2>2. CASE d # c
    BY <1>1, <1>3, <2>2 DEF StoreInv, Batch
  <2> QED
    BY <2>1, <2>2
<1> QED
  BY <1>2, <1>3 DEF StoreInv

\* The steps that leave the lexical index alone.
LEMMA StoreStepTyped ==
    ASSUME StoreInv, NEW c \in Clients, StoreStep(c)
    PROVE  StoreInv' /\ bm25' = bm25
<1>1. /\ op[c] \in Calls /\ idle \in Calls /\ idle.pc = "idle"
      /\ collection \in [Records -> Texts \cup {None}] /\ bm25 \in [Records -> Texts \cup {None}]
  BY IdleCall DEF StoreInv, TypeOK, idle
<1>2. CASE Insert(c)
  <2>1. PICK P \in SUBSET Scope[c] : \E R \in SUBSET RecordsOf(P) : \E v \in Texts :
          become(c, [idle EXCEPT !.pc = "adding", !.paths = P, !.todo = R,
                                 !.batch = [r \in Records |-> IF r \in R THEN v ELSE None]])
    BY <1>2 DEF Insert
  <2>2. PICK R \in SUBSET RecordsOf(P), v \in Texts :
          become(c, [idle EXCEPT !.pc = "adding", !.paths = P, !.todo = R,
                                 !.batch = [r \in Records |-> IF r \in R THEN v ELSE None]])
    BY <2>1
  <2> DEFINE b == [r \in Records |-> IF r \in R THEN v ELSE None]
             x == [idle EXCEPT !.pc = "adding", !.paths = P, !.todo = R, !.batch = b]
  <2>3. P \in SUBSET Paths /\ R \in SUBSET Records
    BY ScopeAssumption DEF RecordsOf
  <2>4. b \in [Records -> Texts \cup {None}] /\ \A r \in R : r \in Records /\ b[r] # None
    BY <2>3 DEF Texts, None
  <2>5. become(c, x)
    BY <2>2
  <2> HIDE DEF b
  <2>6. x \in Calls /\ x.todo = R /\ x.batch = b
    BY <2>3, <2>4, IdleCall DEF Calls, idle
  <2> HIDE DEF x
  <2>7. bm25' = bm25 /\ collection' = collection
    BY <1>2 DEF Insert
  <2> QED
    BY <1>1, <2>4, <2>5, <2>6, <2>7, CallTyped
<1>3. CASE AddDocuments(c)
  <2>1. bm25' = bm25 /\ op[c].pc = "storing"
    BY <1>3 DEF AddDocuments
  <2>2. ASSUME NEW r \in op[c].todo,
               collection' = [collection EXCEPT ![r] = op[c].batch[r]],
               become(c, IF op[c].todo = {r} THEN idle ELSE [op[c] EXCEPT !.todo = @ \ {r}])
        PROVE  StoreInv'
    <3> DEFINE x == IF op[c].todo = {r} THEN idle ELSE [op[c] EXCEPT !.todo = @ \ {r}]
    <3>1. x \in Calls /\ x.pc # "adding"
      BY <1>1, <2>1 DEF Calls
    <3>2. become(c, x)
      BY <2>2
    <3> HIDE DEF x
    <3>3. collection' \in [Records -> Texts \cup {None}]
      BY <1>1, <2>2 DEF Calls
    <3> QED
      BY <1>1, <2>1, <3>1, <3>2, <3>3, CallTyped
  <2>3. CASE become(c, idle) /\ collection' = collection
    BY <1>1, <2>1, <2>3, CallTyped
  <2> QED
    BY <1>3, <2>1, <2>2, <2>3 DEF AddDocuments
<1>4. CASE Count(c)
  <2>1. PICK P \in SUBSET Scope[c] \ {{}}, pc \in {"counted", "prefixCounted"} :
          become(c, [idle EXCEPT !.pc = pc, !.paths = P, !.count = Cardinality(Stored)])
    BY <1>4 DEF Count
  <2> DEFINE n == Cardinality(Stored)
             x == [idle EXCEPT !.pc = pc, !.paths = P, !.count = n]
  <2>2. n \in Nat
    BY StoredFinite, FS_CardinalityType
  <2>3. become(c, x) /\ collection' = collection /\ bm25' = bm25
    BY <1>4, <2>1 DEF Count
  <2> HIDE DEF n
  <2>4. x \in Calls /\ x.pc = pc
    BY <2>2, ScopeAssumption, IdleCall DEF Calls, idle
  <2> HIDE DEF x
  <2> QED
    BY <1>1, <2>3, <2>4, CallTyped
<1>5. CASE QueryEmbedding(c)
  <2> DEFINE x == IF op[c].count > Cardinality(Stored) THEN idle
                  ELSE [op[c] EXCEPT !.todo = Found(c),
                                     !.pc = IF @ = "counted" THEN "removing" ELSE "prefixes"]
  <2>1. x \in Calls /\ x.pc # "adding"
    BY <1>1 DEF Calls, Found, RecordsOf
  <2>2. become(c, x) /\ collection' = collection /\ bm25' = bm25
    BY <1>5 DEF QueryEmbedding
  <2> HIDE DEF x
  <2> QED
    BY <1>1, <2>1, <2>2, CallTyped
<1>6. CASE Delete(c) \/ prefixesDone(c)
  <2>1. become(c, idle) /\ bm25' = bm25
    BY <1>6 DEF Delete, prefixesDone
  <2>2. collection' \in [Records -> Texts \cup {None}]
    BY <1>1, <1>6 DEF Delete, prefixesDone, without
  <2> QED
    BY <1>1, <2>1, <2>2, CallTyped
<1>7. CASE prefixDelete(c)
  <2> DEFINE x == [op[c] EXCEPT !.pc = "prefixes", !.at = {}]
  <2>1. x \in Calls /\ x.pc # "adding"
    BY <1>1 DEF Calls
  <2>2. become(c, x) /\ bm25' = bm25
    BY <1>7 DEF prefixDelete
  <2>3. collection' \in [Records -> Texts \cup {None}]
    BY <1>1, <1>7 DEF prefixDelete, without
  <2> HIDE DEF x
  <2> QED
    BY <1>1, <2>1, <2>2, <2>3, CallTyped
<1> QED
  BY <1>2, <1>3, <1>4, <1>5, <1>6, <1>7 DEF StoreStep

\* What a round of Insert adds is a text.
LEMMA AddTyped ==
    ASSUME StoreInv, NEW c \in Clients, NEW r \in Records, bm25Add(c, r)
    PROVE  /\ StoreInv'
           /\ op[c].batch[r] \in Texts /\ bm25' = [bm25 EXCEPT ![r] = op[c].batch[r]]
<1>1. /\ op[c] \in Calls /\ collection' = collection /\ r \in op[c].todo
      /\ bm25' = [bm25 EXCEPT ![r] = op[c].batch[r]]
      /\ collection \in [Records -> Texts \cup {None}] /\ bm25 \in [Records -> Texts \cup {None}]
      /\ op[c].todo \subseteq Batch(c)
  BY DEF StoreInv, TypeOK, bm25Add, added
<1>2. op[c].batch[r] \in Texts
  BY <1>1 DEF Calls, Batch
<1> DEFINE x == IF op[c].todo = {r} THEN [op[c] EXCEPT !.pc = "storing", !.todo = Batch(c)]
                ELSE [op[c] EXCEPT !.todo = @ \ {r}]
<1>3. x \in Calls /\ x.todo \subseteq Batch(c) /\ x.batch = op[c].batch
  BY <1>1 DEF Calls, Batch
<1>4. become(c, x)
  BY DEF bm25Add
<1> HIDE DEF x
<1>5. \A q \in x.todo : q \in Records /\ x.batch[q] # None
  BY <1>3 DEF Batch
<1>6. bm25' \in [Records -> Texts \cup {None}]
  BY <1>1, <1>2
<1>7. StoreInv'
  BY <1>1, <1>3, <1>4, <1>5, <1>6, CallTyped
<1> QED
  BY <1>1, <1>2, <1>7

\* The deletes take one entry out.
LEMMA RemoveTyped ==
    ASSUME StoreInv, NEW c \in Clients, NEW r \in Records, LexicalRemove(c, r)
    PROVE  StoreInv' /\ bm25' = [bm25 EXCEPT ![r] = None]
<1>1. /\ op[c] \in Calls /\ r \in op[c].todo /\ op[c].pc \in {"removing", "prefixes"}
      /\ collection' = collection /\ bm25' = [bm25 EXCEPT ![r] = None]
      /\ collection \in [Records -> Texts \cup {None}] /\ bm25 \in [Records -> Texts \cup {None}]
  BY DEF StoreInv, TypeOK, LexicalRemove, bm25Remove, prefixRemove, removed
<1>2. bm25' \in [Records -> Texts \cup {None}]
  BY <1>1
<1>3. CASE bm25Remove(c, r)
  <2> DEFINE x == [op[c] EXCEPT !.todo = @ \ {r}]
  <2>1. x \in Calls /\ x.pc # "adding"
    BY <1>1 DEF Calls
  <2>2. become(c, x)
    BY <1>3 DEF bm25Remove
  <2> HIDE DEF x
  <2> QED
    BY <1>1, <1>2, <2>1, <2>2, CallTyped
<1>4. CASE prefixRemove(c, r)
  <2> DEFINE x == [op[c] EXCEPT !.pc = "prefixDelete", !.todo = @ \ {r}, !.at = {PathOf[r]}]
  <2>3. {PathOf[r]} \in SUBSET Paths
    BY PathsAssumption
  <2>1. x \in Calls /\ x.pc # "adding"
    BY <1>1, <2>3 DEF Calls
  <2>2. become(c, x)
    BY <1>4 DEF prefixRemove
  <2> HIDE DEF x
  <2> QED
    BY <1>1, <1>2, <2>1, <2>2, CallTyped
<1> QED
  BY <1>3, <1>4 DEF LexicalRemove

LEMMA LexicalInitInv == LexicalInit => LexicalInv
<1> SUFFICES ASSUME LexicalInit PROVE LexicalInv
  OBVIOUS
<1>1. StoreInv
  BY IdleCall DEF LexicalInit, Init, StoreInv, TypeOK, idle
<1>2. TextsIn(bm25) = NoTexts
  BY DEF LexicalInit, Init, TextsIn, NoTexts
<1>3. IndexOf(NewIndex, NoTexts)
  BY EmptyExactly
<1> QED
  BY <1>1, <1>2, <1>3 DEF LexicalInit, LexicalInv

LEMMA LexicalNextInv == LexicalInv /\ [LexicalNext]_<<vars, idx>> => LexicalInv'
<1> SUFFICES ASSUME LexicalInv, [LexicalNext]_<<vars, idx>> PROVE LexicalInv'
  OBVIOUS
<1> USE DEF LexicalInv
<1>t. bm25 \in [Records -> Texts \cup {None}] /\ AreTexts(TextsIn(bm25))
  BY TextsTyped DEF StoreInv, TypeOK
<1>1. CASE Connect /\ idx' = rebuiltIndex
  <2>1. StoreInv'
    BY <1>1, IdleCall DEF Connect, rebuildLexicalIndex, StoreInv, TypeOK, idle
  <2>2. TextsIn(bm25)' = TextsIn(collection)
    BY <1>1 DEF Connect, rebuildLexicalIndex, TextsIn
  <2>3. IndexOf(rebuiltIndex, TextsIn(collection))
    BY RebuiltExactly DEF StoreInv
  <2> QED
    BY <1>1, <2>1, <2>2, <2>3
<1>2. ASSUME NEW c \in Clients, StoreStep(c), idx' = idx PROVE LexicalInv'
  <2>1. StoreInv' /\ bm25' = bm25
    BY <1>2, StoreStepTyped
  <2>2. TextsIn(bm25)' = TextsIn(bm25)
    BY <2>1 DEF TextsIn
  <2> QED
    BY <1>2, <2>1, <2>2
<1>3. ASSUME NEW c \in Clients, NEW r \in Records, bm25Add(c, r),
             idx' = Add(idx, r, Tokens[r][op[c].batch[r]])
      PROVE  LexicalInv'
  <2> DEFINE v == op[c].batch[r]
  <2>1. StoreInv' /\ v \in Texts /\ bm25' = [bm25 EXCEPT ![r] = v]
    BY <1>3, AddTyped
  <2> HIDE DEF v
  <2>2. Tokens[r][v] \in [Terms -> Nat] \ {NoTokens}
    BY <2>1, TokensAssumption
  <2>3. TextsIn(bm25)' = With(TextsIn(bm25), r, Tokens[r][v])
    <3>1. {x \in Records : bm25'[x] # None} = {x \in Records : bm25[x] # None} \cup {r}
      BY <1>t, <2>1 DEF Texts, None
    <3>2. \A q \in Records : bm25'[q] = IF q = r THEN v ELSE bm25[q]
      BY <1>t, <2>1
    <3>3. DOMAIN TextsIn(bm25) = {x \in Records : bm25[x] # None}
      BY DEF TextsIn
    <3>4. \A q \in {x \in Records : bm25[x] # None} \cup {r} :
             Tokens[q][bm25'[q]] = IF q = r THEN Tokens[r][v] ELSE TextsIn(bm25)[q]
      BY <3>2 DEF TextsIn
    <3> QED
      BY <3>1, <3>3, <3>4 DEF TextsIn, With
  <2>4. IndexOf(Add(idx, r, Tokens[r][v]), With(TextsIn(bm25), r, Tokens[r][v]))
    BY <1>t, <2>2, AddedExactly
  <2>5. idx' = Add(idx, r, Tokens[r][v])
    BY <1>3 DEF v
  <2> QED
    BY <2>1, <2>3, <2>4, <2>5
<1>4. ASSUME NEW c \in Clients, NEW r \in Records, LexicalRemove(c, r),
             idx' = removeLocked(idx, r)
      PROVE  LexicalInv'
  <2>1. StoreInv' /\ bm25' = [bm25 EXCEPT ![r] = None]
    BY <1>4, RemoveTyped
  <2>2. TextsIn(bm25)' = Without(TextsIn(bm25), r)
    <3>1. {x \in Records : bm25'[x] # None} = {x \in Records : bm25[x] # None} \ {r}
      BY <1>t, <2>1
    <3>2. \A q \in Records : q # r => bm25'[q] = bm25[q]
      BY <1>t, <2>1
    <3>3. DOMAIN TextsIn(bm25) = {x \in Records : bm25[x] # None}
      BY DEF TextsIn
    <3>4. \A q \in {x \in Records : bm25[x] # None} \ {r} :
             Tokens[q][bm25'[q]] = TextsIn(bm25)[q]
      BY <3>2 DEF TextsIn
    <3> QED
      BY <3>1, <3>3, <3>4 DEF TextsIn, Without, Restrict
  <2>3. IndexOf(removeLocked(idx, r), Without(TextsIn(bm25), r))
    BY <1>t, RemovedExactly
  <2> QED
    BY <1>4, <2>1, <2>2, <2>3
<1>5. CASE UNCHANGED <<vars, idx>>
  BY <1>5 DEF vars, StoreInv, TypeOK, Batch, TextsIn
<1> QED
  BY <1>1, <1>2, <1>3, <1>4, <1>5 DEF LexicalNext

\* What the records' texts list under a term, by text.
LEMMA ListedText ==
    ASSUME StoreInv, NEW t \in Terms
    PROVE  /\ Listed(TextsIn(bm25), t) =
                  {[doc |-> r, tf |-> text(r)[t]] : r \in {x \in Records : text(x)[t] > 0}}
           /\ \A r \in Records : text(r)[t] \in Nat
<1> DEFINE h == TextsIn(bm25)
<1>1. /\ DOMAIN h = {r \in Records : bm25[r] # None}
      /\ \A r \in DOMAIN h : h[r] = text(r)
  BY DEF TextsIn, text
<1>2. \A r \in Records : r \notin DOMAIN h => text(r)[t] = 0
  BY <1>1 DEF text, NoTokens
<1>3. \A r \in DOMAIN h : h[r][t] \in Nat
  BY TextsTyped DEF StoreInv, TypeOK, AreTexts
<1> HIDE DEF h
<1>4. {x \in DOMAIN h : h[x][t] > 0} = {x \in Records : text(x)[t] > 0}
  BY <1>1, <1>2
<1>5. {[doc |-> r, tf |-> h[r][t]] : r \in {x \in DOMAIN h : h[x][t] > 0}}
      = {[doc |-> r, tf |-> text(r)[t]] : r \in {x \in DOMAIN h : h[x][t] > 0}}
  BY <1>1
<1>6. \A r \in Records : text(r)[t] \in Nat
  BY <1>1, <1>2, <1>3
<1> QED
  BY <1>4, <1>5, <1>6 DEF Listed, h

LEMMA PostingsFollow == LexicalInv => PostingsExact
BY ListedText DEF LexicalInv, IndexOf, PostingsExact

LEMMA AverageFollows == LexicalInv => AverageExact
<1> SUFFICES ASSUME LexicalInv PROVE AverageExact
  OBVIOUS
<1> DEFINE h == TextsIn(bm25)
           held == {r \in Records : bm25[r] # None}
<1>1. DOMAIN h = held /\ \A r \in held : h[r] = text(r)
  BY DEF TextsIn, text
<1>2. Lengths(h) = [r \in held |-> TextLen(text(r))]
  BY <1>1 DEF Lengths
<1>3. /\ idx.docLen = Lengths(h) /\ idx.docCount = Cardinality(held)
      /\ idx.avgLen = Average(SumFunction(Lengths(h)), Cardinality(held))
  BY <1>1 DEF LexicalInv, IndexOf
<1> QED
  BY <1>2, <1>3 DEF AverageExact

\* No term is listed in more documents than there are.
LEMMA ListsFit ==
    ASSUME LexicalInv, NEW t \in Terms
    PROVE  df(idx, t) \in Nat /\ idx.docCount \in Nat /\ df(idx, t) <= idx.docCount
<1> DEFINE posts == idx.postings[t]
           h == TextsIn(bm25)
           n == Len(posts)
           D == DOMAIN h
<1>1. /\ posts \in Seq(Entries) /\ IsInjective(posts) /\ Range(posts) = Listed(h, t)
      /\ idx.docCount = Cardinality(D)
  BY DEF LexicalInv, IndexOf
<1>2. IsFiniteSet(D) /\ Cardinality(D) \in Nat
  BY TextsTyped, LengthsCounted DEF LexicalInv, StoreInv, TypeOK
<1>3. n \in Nat /\ DOMAIN posts = 1 .. n
  BY <1>1
<1> HIDE DEF posts, h, D, n
<1>4. ASSUME n > Cardinality(D) PROVE FALSE
  <2> DEFINE docOf == [k \in 1 .. n |-> posts[k].doc]
  <2>1. ASSUME NEW k \in 1 .. n
        PROVE  posts[k].doc \in D /\ posts[k] = [doc |-> posts[k].doc, tf |-> h[posts[k].doc][t]]
    <3>1. posts[k] \in Listed(h, t)
      BY <1>1, <1>3 DEF Range
    <3> QED
      BY <3>1 DEF Listed, D
  <2>2. docOf \in [1 .. n -> D]
    BY <2>1
  <2>3. IsFiniteSet(1 .. n) /\ Cardinality(1 .. n) = n
    <3>1. 1 \in Int /\ n \in Int
      BY <1>3
    <3>2. IsFiniteSet(1 .. n) /\ Cardinality(1 .. n) = IF 1 > n THEN 0 ELSE n - 1 + 1
      BY <3>1, FS_Interval
    <3> QED
      BY <1>3, <3>2
  <2>4. \E j, k \in 1 .. n : j # k /\ docOf[j] = docOf[k]
    <3> HIDE DEF docOf
    <3>1. Cardinality(D) < Cardinality(1 .. n)
      BY <1>2, <1>3, <1>4, <2>3
    <3> QED
      BY <1>2, <2>2, <2>3, <3>1, FS_PigeonHole
  <2>5. PICK j \in 1 .. n, k \in 1 .. n : j # k /\ posts[j].doc = posts[k].doc
    BY <2>4
  <2>6. posts[j] = posts[k]
    BY <2>1, <2>5
  <2> QED
    BY <1>1, <1>3, <2>5, <2>6 DEF IsInjective
<1> QED
  BY <1>1, <1>2, <1>3, <1>4 DEF df, posts, n

\* The documents scored are those that have a term of the query.
LEMMA ScoredExactly ==
    ASSUME LexicalInv, NEW q \in SUBSET Terms
    PROVE  Scored(idx, q) = {r \in Records : \E t \in q : text(r)[t] > 0}
<1>1. \A t \in q : Range(idx.postings[t]) =
           {[doc |-> r, tf |-> text(r)[t]] : r \in {x \in Records : text(x)[t] > 0}}
  BY PostingsFollow DEF PostingsExact
<1>2. ASSUME NEW d
      PROVE  d \in Scored(idx, q) <=>
                \E t \in q : \E p \in Range(idx.postings[t]) : p.doc = d
  BY DEF Scored
<1>3. ASSUME NEW d
      PROVE  d \in Scored(idx, q) <=> d \in {r \in Records : \E t \in q : text(r)[t] > 0}
  <2>1. ASSUME NEW t \in q
        PROVE  (\E p \in Range(idx.postings[t]) : p.doc = d) <=> d \in Records /\ text(d)[t] > 0
    <3>1. ASSUME d \in Records, text(d)[t] > 0
          PROVE  \E p \in Range(idx.postings[t]) : p.doc = d
      <4> DEFINE p == [doc |-> d, tf |-> text(d)[t]]
      <4>1. p.doc = d /\ p \in Range(idx.postings[t])
        BY <1>1, <3>1
      <4> HIDE DEF p
      <4> QED
        BY <4>1
    <3>2. ASSUME NEW p \in Range(idx.postings[t]), p.doc = d
          PROVE  d \in Records /\ text(d)[t] > 0
      <4>1. PICK r \in {x \in Records : text(x)[t] > 0} : p = [doc |-> r, tf |-> text(r)[t]]
        BY <1>1
      <4>2. r = d
        BY <3>2, <4>1
      <4> QED
        BY <4>1, <4>2
    <3> QED
      BY <3>1, <3>2
  <2> QED
    BY <1>2, <2>1
<1> QED
  BY <1>3

LEMMA ScoresFollow == LexicalInv => ScoresPositive
<1> SUFFICES ASSUME LexicalInv PROVE ScoresPositive
  OBVIOUS
<1>1. \A t \in Terms : 2 * (idx.docCount - df(idx, t)) + 1 > 0
  BY ListsFit
<1>2. ASSUME NEW q \in SUBSET Terms, Scored(idx, q) # {}
      PROVE  idx.docCount > 0 /\ idx.avgLen.sum > 0
  <2> DEFINE h == TextsIn(bm25)
             S == DOMAIN h
             L == Lengths(h)
  <2>1. AreTexts(h)
    BY TextsTyped DEF LexicalInv, StoreInv, TypeOK
  <2>2. PICK r \in Records, t \in q : text(r)[t] > 0
    BY <1>2, ScoredExactly
  <2>3. r \in S
    BY <2>2 DEF TextsIn, text, NoTokens
  <2>4. idx.docCount = Cardinality(S) /\ idx.avgLen = Average(SumFunction(L), Cardinality(S))
    BY DEF LexicalInv, IndexOf
  <2> HIDE DEF h
  <2>5. /\ DOMAIN L = S /\ Counts(L, S) /\ L[r] \in Nat /\ L[r] > 0
        /\ Cardinality(S) \in Nat /\ Cardinality(S) # 0
    BY <2>1, <2>3, LengthsCounted
  <2>6. SumFunction(L) = L[r] + SumFunction(Restrict(L, S \ {r}))
    BY <2>3, <2>5, TotalSplits
  <2>7. SumFunction(Restrict(L, S \ {r})) \in Nat
    <3>1. AreTexts(Without(h, r))
      BY <2>1 DEF AreTexts, Without, Restrict
    <3>2. Restrict(L, S \ {r}) = Lengths(Without(h, r))
      BY DEF Restrict, Lengths, Without
    <3> QED
      BY <3>1, <3>2, LengthsCounted
  <2>8. SumFunction(L) > 0 /\ Cardinality(S) > 0
    BY <2>5, <2>6, <2>7
  <2> HIDE DEF S, L
  <2> QED
    BY <2>4, <2>8 DEF Average
<1> QED
  BY <1>1, <1>2 DEF ScoresPositive

\* Whatever the history of Add, Remove and restarts, and whoever shares paths,
\* the posting lists, lengths and average are those of the texts last indexed,
\* and every match scores (Index.Add, removeLocked, Search, rebuildLexicalIndex).
THEOREM StatisticsAreExact == LexicalSpec => []StatisticsExact
<1>1. LexicalInit => LexicalInv
  BY LexicalInitInv
<1>2. LexicalInv /\ [LexicalNext]_<<vars, idx>> => LexicalInv'
  BY LexicalNextInv
<1>3. LexicalInv => StatisticsExact
  BY PostingsFollow, AverageFollows, ScoresFollow DEF StatisticsExact
<1> QED
  BY <1>1, <1>2, <1>3, PTL DEF LexicalSpec

\* The steps of the store with its index are steps of the store.
LEMMA StoreKept == LexicalSpec => Spec
<1>1. LexicalInit => Init
  BY DEF LexicalInit
<1>2. [LexicalNext]_<<vars, idx>> => [Next]_vars
  BY DEF LexicalNext, Next, vars
<1> QED
  BY <1>1, <1>2, PTL DEF LexicalSpec, Spec

\* Where no two clients share a path and inserts do not fail, a lexical search
\* scores exactly the stored documents that have one of its terms, at every
\* record whose path is at rest (Index.Search over Store.Insert, deleteByFilter,
\* DeleteByPrefix and Connect).
THEOREM SearchesAreExact ==
  ASSUME Disjoint
  PROVE  LexicalSpec => []SearchExact
<1>1. LexicalInit => LexicalInv
  BY LexicalInitInv
<1>2. LexicalInv /\ [LexicalNext]_<<vars, idx>> => LexicalInv'
  BY LexicalNextInv
<1>3. LexicalInv /\ InStep => SearchExact
  <2> SUFFICES ASSUME LexicalInv, InStep, NEW q \in SUBSET Terms, NEW r \in Records,
                      Quiet(r), ~Exposed(r)
               PROVE  r \in Scored(idx, q) <=>
                         collection[r] # None /\ \E t \in q : Tokens[r][collection[r]][t] > 0
    BY DEF SearchExact
  <2>1. bm25[r] = collection[r]
    BY DEF InStep
  <2>2. r \in Scored(idx, q) <=> \E t \in q : text(r)[t] > 0
    BY ScoredExactly
  <2>3. \A t \in q : text(r)[t] > 0 <=>
            collection[r] # None /\ Tokens[r][collection[r]][t] > 0
    BY <2>1 DEF text, NoTokens
  <2> QED
    BY <2>2, <2>3
<1>4. Spec => []InStep
  BY IndexesInStep
<1> QED
  BY <1>1, <1>2, <1>3, <1>4, StoreKept, PTL DEF LexicalSpec
=============================================================================

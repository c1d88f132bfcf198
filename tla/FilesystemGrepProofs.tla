----------------------- MODULE FilesystemGrepProofs -----------------------
(***************************************************************************)
(* For any tree, number of workers and capacity of the channels: no match  *)
(* is dropped while the request lives, and the answer is sound.            *)
(***************************************************************************)
EXTENDS FilesystemGrep, FiniteSetTheorems, TLAPS

\* A match is still to come from the walker or a worker, or has been sent.
OnItsWay(m) ==
    \/ m[1] \in walk.left \cup paths
    \/ \E w \in Workers : m \in worker[w].todo
    \/ m \in matchChan \cup handler.results

WorkerOK(w) ==
    /\ worker[w].todo \subseteq All
    /\ worker[w].pc # "send" => worker[w].todo = {}
    /\ worker[w].pc = "gone" /\ ctx = "live" => pathsClosed /\ paths = {}

HandlerOK ==
    /\ matchChan \cup handler.results \subseteq All
    /\ IF handler.limitReached THEN Cardinality(handler.results) = MaxMatches
       ELSE Cardinality(handler.results) < MaxMatches
    /\ handler.pc = "collect" => ~handler.limitReached

IInv ==
    /\ TypeOK
    /\ \A w \in Workers : WorkerOK(w)
    /\ HandlerOK
    /\ walk.pc \in {"failed", "returned"} => walk.left # {}
    /\ pathsClosed => walk.pc = "ended"
    /\ doneChan => AllGone
    /\ ctx = "live" /\ ~WalkFailed => \A m \in All : OnItsWay(m)

-----------------------------------------------------------------------------

\* There are finitely many matches.
LEMMA FiniteAll == IsFiniteSet(All) /\ All \subseteq Matches
<1>1. IsFiniteSet(Matches)
  BY FilesAssumption, LinesAssumption, FS_Product DEF Matches
<1>2. All \subseteq Matches
  BY DEF All, MatchesOf
<1> QED
  BY <1>1, <1>2, FS_Subset

\* Receiving one match makes the result one longer at the most.
LEMMA OneMore ==
  ASSUME NEW R \in SUBSET All, NEW m \in All
  PROVE  /\ Cardinality(R) \in Nat
         /\ Cardinality(R \cup {m}) \in Nat
         /\ Cardinality(R \cup {m}) <= Cardinality(R) + 1
<1>1. IsFiniteSet(R)
  BY FiniteAll, FS_Subset
<1>2. Cardinality(R) \in Nat
  BY <1>1, FS_CardinalityType
<1>3. Cardinality(R \cup {m}) = IF m \in R THEN Cardinality(R) ELSE Cardinality(R) + 1
  BY <1>1, FS_AddElement
<1> QED
  BY <1>2, <1>3

LEMMA InitIInv == Init => IInv
<1> SUFFICES ASSUME Init PROVE IInv
  OBVIOUS
<1>1. TypeOK
  BY DEF Init, TypeOK
<1>2. \A w \in Workers : WorkerOK(w)
  BY DEF Init, WorkerOK
<1>3. HandlerOK
  BY FS_EmptySet, CapAssumption DEF Init, HandlerOK
<1>4. \A m \in All : OnItsWay(m)
  BY DEF Init, OnItsWay, All, MatchesOf, Matches, Entries
<1> QED
  BY <1>1, <1>2, <1>3, <1>4, WorkersAssumption DEF IInv, Init, AllGone

\* Which matches there are never changes.
LEMMA Fixed == [Next]_vars => UNCHANGED <<matching, All>>
  BY DEF Next, vars, Walk, Work, Collect, sendPath, enterDir, skipDir, walkError, sendError,
         closePaths, takePath, pathsEnded, sendMatch, fileDone, giveUp, closeDone,
         receiveMatch, receiveDone, receiveError, receiveCtxDone, expire, All, MatchesOf

\* The walker leaves the workers and the handler alone.
LEMMA WalkStep ==
  ASSUME IInv, Walk, UNCHANGED <<matching, All>>
  PROVE  IInv'
<1> USE DEF Walk, sendPath, enterDir, skipDir, walkError, sendError, closePaths, Done
<1>1. TypeOK'
  <2>1. walk' \in [pc : {"walking", "failed", "returned", "ended"}, left : SUBSET Entries]
    BY DEF IInv, TypeOK
  <2>2. paths' \in SUBSET Files /\ pathsClosed' \in BOOLEAN /\ errChan' \in BOOLEAN
    BY DEF IInv, TypeOK
  <2>3. UNCHANGED <<matching, worker, matchChan, doneChan, ctx, handler>>
    OBVIOUS
  <2> QED
    BY <2>1, <2>2, <2>3 DEF IInv, TypeOK
<1>2. \A w \in Workers : WorkerOK(w)'
  BY DEF IInv, WorkerOK
<1>3. HandlerOK'
  BY DEF IInv, HandlerOK
<1>4. (walk.pc \in {"failed", "returned"} => walk.left # {})' /\ (pathsClosed => walk.pc = "ended")'
      /\ (doneChan => AllGone)'
  BY DEF IInv, TypeOK, AllGone
<1>5. ASSUME ctx' = "live", ~WalkFailed', NEW m \in All PROVE OnItsWay(m)'
  <2>1. ctx = "live" /\ ~WalkFailed
    BY <1>5 DEF IInv, TypeOK, WalkFailed
  <2>2. OnItsWay(m) /\ m[1] \in Files
    BY <2>1, FiniteAll DEF IInv, Matches
  <2>3. UNCHANGED <<worker, matchChan, handler>>
    OBVIOUS
  <2>4. m[1] \in walk.left \cup paths => m[1] \in walk'.left \cup paths'
    <3>1. CASE sendPath
      BY <3>1 DEF IInv, TypeOK
    <3>2. CASE enterDir
      BY <2>2, <3>2, FilesAssumption DEF IInv, TypeOK
    <3> QED
      BY <2>1, <3>1, <3>2 DEF IInv, TypeOK
  <2> QED
    BY <2>2, <2>3, <2>4 DEF OnItsWay
<1> QED
  BY <1>1, <1>2, <1>3, <1>4, <1>5 DEF IInv

\* What a worker takes from a channel it holds, and what it holds it sends.
LEMMA WorkStep ==
  ASSUME IInv, NEW w \in Workers, Work(w), UNCHANGED <<matching, All>>
  PROVE  IInv'
<1> USE DEF Work, takePath, pathsEnded, sendMatch, fileDone, giveUp, heard, Done
<1>1. PICK x \in [pc : {"next", "send", "gone"}, todo : SUBSET All] :
          /\ worker' = [worker EXCEPT ![w] = x]
          /\ x.pc # "send" => x.todo = {}
          /\ x.pc = "gone" /\ ctx = "live" => pathsClosed /\ paths = {}
  <2> DEFINE X == [pc : {"next", "send", "gone"}, todo : SUBSET All]
  <2>1. worker[w] \in X /\ (worker[w].pc # "send" => worker[w].todo = {})
    BY DEF IInv, TypeOK, WorkerOK
  <2>2. CASE takePath(w)
    <3>1. PICK f \in paths : worker' = [worker EXCEPT ![w] =
                              IF Done THEN [pc |-> "gone", todo |-> {}]
                              ELSE [pc |-> "send", todo |-> scanned(f)]]
      BY <2>2
    <3>2. scanned(f) \subseteq All
      BY DEF scanned, All, MatchesOf, IInv, TypeOK
    <3>3. CASE Done
      <4> DEFINE x == [pc |-> "gone", todo |-> {}]
      <4>1. x \in X /\ x.todo = {} /\ ctx # "live"
        BY <3>3
      <4>2. worker' = [worker EXCEPT ![w] = x]
        BY <3>1, <3>3
      <4> HIDE DEF x
      <4> QED
        BY <4>1, <4>2
    <3>4. CASE ~Done
      <4> DEFINE x == [pc |-> "send", todo |-> scanned(f)]
      <4>1. x \in X /\ x.pc = "send"
        BY <3>2
      <4>2. worker' = [worker EXCEPT ![w] = x]
        BY <3>1, <3>4
      <4> HIDE DEF x
      <4> QED
        BY <4>1, <4>2
    <3> QED
      BY <3>3, <3>4
  <2>3. CASE pathsEnded(w)
    <3> DEFINE x == [worker[w] EXCEPT !.pc = "gone"]
    <3>1. x \in X /\ x.todo = {} /\ pathsClosed /\ paths = {}
      BY <2>3, <2>1
    <3>2. worker' = [worker EXCEPT ![w] = x]
      BY <2>3
    <3> HIDE DEF x
    <3> QED
      BY <3>1, <3>2
  <2>4. CASE sendMatch(w)
    <3>1. PICK m \in worker[w].todo : worker' = [worker EXCEPT ![w].todo = @ \ {m}]
      BY <2>4
    <3> DEFINE x == [worker[w] EXCEPT !.todo = @ \ {m}]
    <3>2. x \in X /\ x.pc = "send"
      BY <2>4, <2>1
    <3>3. worker' = [worker EXCEPT ![w] = x]
      BY <3>1
    <3> HIDE DEF x
    <3> QED
      BY <3>2, <3>3
  <2>5. CASE fileDone(w)
    <3> DEFINE x == [worker[w] EXCEPT !.pc = "next"]
    <3>1. x \in X /\ x.todo = {} /\ x.pc = "next"
      BY <2>5, <2>1
    <3>2. worker' = [worker EXCEPT ![w] = x]
      BY <2>5
    <3> HIDE DEF x
    <3> QED
      BY <3>1, <3>2
  <2>6. CASE giveUp(w)
    <3> DEFINE x == [pc |-> "gone", todo |-> {}]
    <3>1. x \in X /\ x.todo = {} /\ ctx # "live"
      BY <2>6
    <3>2. worker' = [worker EXCEPT ![w] = x]
      BY <2>6
    <3> HIDE DEF x
    <3> QED
      BY <3>1, <3>2
  <2> QED
    BY <2>2, <2>3, <2>4, <2>5, <2>6
<1>2. worker' \in [Workers -> [pc : {"next", "send", "gone"}, todo : SUBSET Matches]]
      /\ worker'[w] = x /\ \A v \in Workers \ {w} : worker'[v] = worker[v]
  BY <1>1, FiniteAll DEF IInv, TypeOK
<1>3. matchChan' \subseteq All /\ matchChan \subseteq matchChan'
      /\ UNCHANGED <<walk, pathsClosed, errChan, doneChan, ctx, handler>>
      /\ paths' \subseteq paths
  BY DEF IInv, HandlerOK, WorkerOK
<1>4. TypeOK'
  BY <1>2, <1>3, FiniteAll DEF IInv, TypeOK
<1>5. ASSUME NEW v \in Workers PROVE WorkerOK(v)'
  <2>1. CASE v = w
    BY <2>1, <1>1, <1>2, <1>3 DEF WorkerOK
  <2>2. CASE v # w
    BY <2>2, <1>2, <1>3 DEF IInv, WorkerOK
  <2> QED
    BY <2>1, <2>2
<1>6. HandlerOK'
  BY <1>3 DEF IInv, HandlerOK
<1>7. worker[w].pc # "gone"
  OBVIOUS
<1>8. (doneChan => AllGone)'
  BY <1>3, <1>7 DEF IInv, AllGone
<1>9. ASSUME ctx' = "live", ~WalkFailed', NEW m \in All PROVE OnItsWay(m)'
  <2>1. OnItsWay(m) /\ ctx = "live"
    BY <1>9, <1>3 DEF IInv, WalkFailed
  <2>2. ASSUME m \in worker[w].todo PROVE m \in worker'[w].todo \cup matchChan'
    BY <2>1, <2>2, <1>2 DEF IInv, TypeOK, WorkerOK
  <2>3. ASSUME m[1] \in paths PROVE m[1] \in paths' \/ m \in worker'[w].todo
    BY <2>1, <2>3, <1>2 DEF IInv, TypeOK, scanned, All, MatchesOf
  <2> QED
    BY <2>1, <2>2, <2>3, <1>2, <1>3 DEF OnItsWay
<1> QED
  BY <1>3, <1>4, <1>5, <1>6, <1>8, <1>9 DEF IInv, WalkFailed

\* What becomes of the results when a match is received.
LEMMA ReceiveStep ==
  ASSUME IInv, receiveMatch
  PROVE  /\ matchChan' \subseteq matchChan
         /\ handler' \in [pc : {"collect", "answered"}, results : SUBSET All,
                          limitReached : BOOLEAN]
         /\ matchChan \cup handler.results = matchChan' \cup handler'.results
         /\ IF handler'.limitReached THEN Cardinality(handler'.results) = MaxMatches
            ELSE Cardinality(handler'.results) < MaxMatches
         /\ handler'.pc = "collect" => ~handler'.limitReached
<1> DEFINE got(m) == handler.results \cup {m}
           n(m) == Cardinality(got(m))
<1>1. PICK m \in matchChan :
          /\ matchChan' = matchChan \ {m}
          /\ IF n(m) >= MaxMatches
             THEN handler' = [pc |-> "answered", results |-> got(m), limitReached |-> TRUE]
             ELSE handler' = [handler EXCEPT !.results = got(m)]
  BY DEF receiveMatch, atLimit
<1>2. n(m) \in Nat /\ n(m) <= Cardinality(handler.results) + 1 /\ Cardinality(handler.results) \in Nat
  BY OneMore DEF IInv, HandlerOK
<1>3. handler.pc = "collect" /\ ~handler.limitReached /\ Cardinality(handler.results) < MaxMatches
  BY DEF IInv, HandlerOK, receiveMatch
<1>4. got(m) \in SUBSET All /\ matchChan \cup handler.results = (matchChan \ {m}) \cup got(m)
  BY DEF IInv, HandlerOK
<1> HIDE DEF n, got
<1>5. CASE n(m) >= MaxMatches
  <2>1. handler' = [pc |-> "answered", results |-> got(m), limitReached |-> TRUE]
    BY <1>1, <1>5
  <2>2. n(m) = MaxMatches
    BY <1>2, <1>3, <1>5, CapAssumption
  <2> QED
    BY <1>1, <1>4, <2>1, <2>2 DEF n
<1>6. CASE ~(n(m) >= MaxMatches)
  <2>1. handler' = [handler EXCEPT !.results = got(m)]
    BY <1>1, <1>6
  <2>2. n(m) < MaxMatches
    BY <1>2, <1>6, CapAssumption
  <2>3. handler' = [pc |-> "collect", results |-> got(m), limitReached |-> FALSE]
    BY <2>1, <1>3 DEF IInv, TypeOK
  <2> QED
    BY <1>1, <1>4, <2>2, <2>3 DEF n
<1> QED
  BY <1>5, <1>6

LEMMA CollectStep ==
  ASSUME IInv, Collect, UNCHANGED <<matching, All>>
  PROVE  IInv'
<1> USE DEF Done
<1>1. UNCHANGED <<walk, paths, pathsClosed, doneChan, worker>>
      /\ errChan' \in BOOLEAN /\ ctx' \in {"live", "cancelled", "expired"}
      /\ (ctx' = "live" => ctx = "live")
  BY DEF Collect, receiveMatch, receiveDone, receiveError, receiveCtxDone, returns, IInv, TypeOK
<1>2. /\ matchChan' \subseteq matchChan
      /\ handler' \in [pc : {"collect", "answered", "error", "timeout"},
                       results : SUBSET All, limitReached : BOOLEAN]
      /\ matchChan \cup handler.results = matchChan' \cup handler'.results
      /\ IF handler'.limitReached THEN Cardinality(handler'.results) = MaxMatches
         ELSE Cardinality(handler'.results) < MaxMatches
      /\ handler'.pc = "collect" => ~handler'.limitReached
  <2>1. CASE receiveMatch
    BY <2>1, ReceiveStep
  <2>2. CASE ~receiveMatch
    <3>1. PICK how \in {"answered", "error", "timeout"} :
              handler' = [handler EXCEPT !.pc = how] /\ matchChan' = matchChan
      BY <2>2 DEF Collect, receiveDone, receiveError, receiveCtxDone, returns
    <3> QED
      BY <3>1 DEF IInv, TypeOK, HandlerOK
  <2> QED
    BY <2>1, <2>2
<1>3. TypeOK'
  BY <1>1, <1>2, FiniteAll DEF IInv, TypeOK
<1>4. \A w \in Workers : WorkerOK(w)'
  BY <1>1 DEF IInv, WorkerOK
<1>5. HandlerOK'
  BY <1>2 DEF IInv, HandlerOK
<1>6. ASSUME ctx' = "live", ~WalkFailed', NEW m \in All PROVE OnItsWay(m)'
  <2>1. OnItsWay(m)
    BY <1>1, <1>6 DEF IInv, WalkFailed
  <2> QED
    BY <2>1, <1>1, <1>2 DEF OnItsWay
<1> QED
  BY <1>1, <1>3, <1>4, <1>5, <1>6 DEF IInv, AllGone

LEMMA StepIInv == IInv /\ [Next]_vars => IInv'
<1> SUFFICES ASSUME IInv, [Next]_vars PROVE IInv'
  OBVIOUS
<1>1. UNCHANGED <<matching, All>>
  BY Fixed
<1>2. CASE UNCHANGED vars
  BY <1>1, <1>2 DEF vars, IInv, TypeOK, WorkerOK, HandlerOK, OnItsWay, WalkFailed, AllGone
<1>3. CASE Walk
  BY <1>1, <1>3, WalkStep
<1>4. CASE closeDone
  BY <1>1, <1>4 DEF closeDone, IInv, TypeOK, WorkerOK, HandlerOK, OnItsWay, WalkFailed, AllGone
<1>5. CASE Collect
  BY <1>1, <1>5, CollectStep
<1>6. CASE expire
  BY <1>1, <1>6 DEF expire, IInv, TypeOK, WorkerOK, HandlerOK, OnItsWay, WalkFailed, AllGone
<1>7. ASSUME NEW w \in Workers, Work(w) PROVE IInv'
  BY <1>1, <1>7, WorkStep
<1> QED
  BY <1>2, <1>3, <1>4, <1>5, <1>6, <1>7 DEF Next

-----------------------------------------------------------------------------

\* While the request lives and the walk has not failed, the walker and the
\* workers drop no match: when doneChan is closed the handler has it or it lies
\* in matchChan.
THEOREM NoMatchDropped == Spec => []NothingDropped
<1>1. IInv => NothingDropped
  BY WorkersAssumption DEF IInv, WorkerOK, HandlerOK, AllGone, OnItsWay, NothingDropped, WalkFailed
<1> QED
  BY <1>1, InitIInv, StepIInv, PTL DEF Spec

\* The handler returns matches only, never more than the limit, and says that
\* there may be more exactly at the limit.
THEOREM AnswersSound == Spec => []SoundAnswer
<1>1. IInv => SoundAnswer
  <2> SUFFICES ASSUME IInv PROVE SoundAnswer
    OBVIOUS
  <2>1. IsFiniteSet(handler.results) /\ Cardinality(handler.results) \in Nat
    BY FiniteAll, FS_Subset, FS_CardinalityType DEF IInv, HandlerOK
  <2> QED
    BY <2>1, CapAssumption DEF IInv, HandlerOK, TypeOK, SoundAnswer
<1> QED
  BY <1>1, InitIInv, StepIInv, PTL DEF Spec
=============================================================================

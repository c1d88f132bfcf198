---------------------------- MODULE MasterCalls ----------------------------
(***************************************************************************)
(* What the processes of Instances ask of their master: embeddings, index  *)
(* runs and store calls over the socket (internal/daemon), and the pool of *)
(* embedders the master lends to those calls, to its index worker and to   *)
(* its own tools (internal/embedding/types.go, poolEmbedder in main.go).   *)
(*                                                                         *)
(* A call goes on at the master after its caller has given it up.          *)
(***************************************************************************)
EXTENDS Instances, Naturals, FiniteSets

CONSTANTS
    Calls,       \* each is made once, by any process
    Embedders,   \* the embedders of one pool
    QueueSize    \* capacity of a.indexQueue

ASSUME MasterCallsAssumption == QueueSize \in Nat

VARIABLES
    pool,        \* instance -> its pool: "none", "open" or "closed"
    idle,        \* instance -> the embedders in the pool's channel
    shut,        \* instance -> the embedders that were closed
    call         \* call -> what is asked, how far it is, and where

poolVars == <<pool, idle, shut>>
callVars == <<poolVars, call>>

Kinds == {"embed", "index", "store"}
Nobody == "nobody"

\* by, at: the caller and the master; answer: what the caller knows.
Call == [kind : Kinds, phase : {"new", "queued", "get", "using", "store", "over"},
         by : Instances \cup {Nobody}, at : Instances \cup {Nobody},
         emb : Embedders \cup {Nobody}, answer : {"none", "waiting", "ok", "error"}]

CallsInit ==
    /\ Init
    /\ pool = [p \in Instances |-> "none"]
    /\ idle = [p \in Instances |-> {}]
    /\ shut = [p \in Instances |-> {}]
    /\ call \in [Calls -> {[kind |-> k, phase |-> "new", by |-> Nobody, at |-> Nobody,
                            emb |-> Nobody, answer |-> "none"] : k \in Kinds}]

At(p, phase) == {c \in Calls : call[c].phase = phase /\ call[c].at = p}

\* The call is over at its master: an answer for whoever still waits.
over(x, answer) ==
    [x EXCEPT !.phase = "over", !.at = Nobody, !.by = Nobody, !.emb = Nobody,
              !.answer = IF @ \in {"none", "waiting"} THEN answer ELSE @]

finish(c, answer) == call' = [call EXCEPT ![c] = over(@, answer)]

\* The process is gone: its pool, the calls it served (their connections are
\* closed), and it no longer waits for any.
dropped(p) ==
    /\ pool' = [pool EXCEPT ![p] = "none"]
    /\ idle' = [idle EXCEPT ![p] = {}]
    /\ shut' = [shut EXCEPT ![p] = {}]
    /\ call' = [c \in Calls |->
                    IF call[c].at = p THEN over(call[c], "error")
                    ELSE IF call[c].by = p
                         THEN [call[c] EXCEPT !.by = Nobody, !.answer = "error"] ELSE call[c]]

crash(p) == Gone(p) /\ dropped(p)

-----------------------------------------------------------------------------
(* The pool. *)

NewEmbedderPool(p) ==
    /\ main[p] = "load" /\ pool[p] = "none"
    /\ pool' = [pool EXCEPT ![p] = "open"]
    /\ idle' = [idle EXCEPT ![p] = Embedders]
    /\ UNCHANGED <<vars, shut, call>>

\* A panic in c: ProcessFile recovers from it, and so does the HTTP server if the
\* tool was called through it; a goroutine of net/rpc ends the process.
panics(c) ==
    \/ /\ call[c].kind = "index" \/ call[c].by = call[c].at
       /\ finish(c, "error")
       /\ UNCHANGED <<vars, poolVars>>
    \/ call[c].kind # "index" /\ crash(call[c].at)

\* A receive from the pool's channel; a closed and empty one yields nil, whose
\* use panics.
Get(c) ==
    /\ call[c].phase = "get"
    /\ LET p == call[c].at
       IN  \/ \E e \in idle[p] :
                 /\ idle' = [idle EXCEPT ![p] = @ \ {e}]
                 /\ call' = [call EXCEPT ![c].phase = "using", ![c].emb = e]
                 /\ UNCHANGED <<vars, pool, shut>>
           \/ pool[p] = "closed" /\ idle[p] = {} /\ panics(c)

\* ctx.Done in Get, for the worker and the tools, whose context Stop cancels.
\* (Service.Embed gives the background context.)
cancelGet(c) ==
    /\ call[c].phase = "get"
    /\ call[c].kind = "index" \/ call[c].by = call[c].at
    /\ stop[call[c].at] # "no"
    /\ finish(c, "error")
    /\ UNCHANGED <<vars, poolVars>>

\* mutant: an embedder whose caller has left is not returned
returnedTo(c) == call[c].answer = "waiting" \/ call[c].kind = "index"

\* mutant: the service does not return it
returnedAtHome(c) == call[c].kind = "index" \/ call[c].by = call[c].at

returned(c) == TRUE

\* The deferred Put, after the embedding or its error; the channel is closed
\* when the pool is, and a send on it panics.
Put(c) ==
    /\ call[c].phase = "using"
    /\ LET p == call[c].at
       IN  IF pool[p] = "open"
           THEN /\ idle' = IF returned(c) THEN [idle EXCEPT ![p] = @ \cup {call[c].emb}] ELSE idle
                /\ \E answer \in {"ok", "error"} : finish(c, answer)
                /\ UNCHANGED <<vars, pool, shut>>
           ELSE panics(c)

\* mutant: the embedders that are lent are closed too
everyEmbedder(p) == Embedders

closes(p) == idle[p]

\* EmbedderPool.Close after close(p.pool): what lies in the channel is closed,
\* unless a Get takes it first.
drain(p) ==
    /\ stop[p] = "unlink" /\ pool[p] = "closed"
    /\ \E e \in closes(p) \ shut[p] :
          /\ idle' = [idle EXCEPT ![p] = @ \ {e}]
          /\ shut' = [shut EXCEPT ![p] = @ \cup {e}]
    /\ UNCHANGED <<vars, pool, call>>

-----------------------------------------------------------------------------
(* The calls. *)

\* mutant: the service's store is not looked at
anyMaster(m) == TRUE

hasStore(m) == main[m] \notin Loading

\* rpc.Dial, the request, and what the service does first.
callMaster(c, s) ==
    /\ call[c].phase = "new" /\ main[s] = "slave"
    /\ answers
    /\ LET m == file
           enter(phase, answer) ==
               call' = [call EXCEPT ![c].phase = phase, ![c].by = s, ![c].at = m,
                                    ![c].answer = answer]
       IN  \/ /\ call[c].kind = "embed"
              /\ main[m] \notin Loading
              /\ enter("get", "waiting")
              /\ UNCHANGED <<vars, poolVars>>
           \/ /\ call[c].kind = "embed"
              /\ EmbedTooEarly(s, m)
              /\ dropped(m)
           \/ /\ call[c].kind = "index"
              /\ IF Cardinality(At(m, "queued")) < QueueSize
                 THEN enter("queued", "ok") ELSE finish(c, "error")
              /\ UNCHANGED <<vars, poolVars>>
           \/ /\ call[c].kind = "store"
              /\ IF hasStore(m) THEN enter("store", "waiting") ELSE finish(c, "error")
              /\ UNCHANGED <<vars, poolVars>>

cannotDial(c, s) ==
    /\ call[c].phase = "new" /\ main[s] = "slave"
    /\ ~answers
    /\ finish(c, "error")
    /\ UNCHANGED <<vars, poolVars>>

\* A tool of the master itself embeds through the pool.
embedHere(c, p) ==
    /\ call[c].phase = "new" /\ call[c].kind = "embed"
    /\ main[p] = "ready"
    /\ call' = [call EXCEPT ![c].phase = "get", ![c].by = p, ![c].at = p,
                            ![c].answer = "waiting"]
    /\ UNCHANGED <<vars, poolVars>>

storeReturns(c) ==
    /\ call[c].phase = "store"
    /\ \E answer \in {"ok", "error"} : finish(c, answer)
    /\ UNCHANGED <<vars, poolVars>>

\* EmbedTimeout or the caller's context; the connection is closed and the
\* master knows nothing of it.  (Store calls have no timeout.)
timeout(c) ==
    /\ call[c].kind = "embed" /\ call[c].answer = "waiting"
    /\ call[c].by # call[c].at
    /\ call' = [call EXCEPT ![c].answer = "error", ![c].by = Nobody]
    /\ UNCHANGED <<vars, poolVars>>

\* The index worker takes one request after the other.
processPath(c) ==
    /\ call[c].phase = "queued"
    /\ LET m == call[c].at
       IN  /\ main[m] = "ready"
           /\ \A d \in At(m, "get") \cup At(m, "using") : call[d].kind # "index"
    /\ call' = [call EXCEPT ![c].phase = "get"]
    /\ UNCHANGED <<vars, poolVars>>

-----------------------------------------------------------------------------
(* The processes: what Instances has, with the pool. *)

\* a.embedPool.Close comes before a.masterServer.Close.
StopApp(p) ==
    /\ Stop(p)
    /\ pool' = [pool EXCEPT ![p] = IF @ = "open" THEN "closed" ELSE @]
    /\ UNCHANGED <<idle, shut, call>>

\* The store is opened once the pool is there.
opens(p) == getStore(p) /\ (main[p] = "load" => pool[p] # "none")

\* The listener is closed once the pool is.
unlinks(p) == unlink(p) /\ (pool[p] = "closed" => idle[p] = {})

Alone(p) ==
    /\ \/ Start(p) \/ Dial(p) \/ RemoveStale(p) \/ UpdateEmbedder(p)
       \/ opens(p) \/ unlinks(p) \/ closeListener(p)
       \/ file = NoFile /\ Listen(p)
    /\ UNCHANGED callVars

Ends(p) ==
    /\ Die(p) \/ (file # NoFile /\ Listen(p))
    /\ dropped(p)

Serving(c) == Get(c) \/ cancelGet(c) \/ Put(c) \/ storeReturns(c) \/ processPath(c)

CallsNext ==
    \/ \E p \in Instances : Alone(p) \/ Ends(p) \/ StopApp(p) \/ NewEmbedderPool(p) \/ drain(p)
    \/ \E c \in Calls, p \in Instances : callMaster(c, p) \/ cannotDial(c, p) \/ embedHere(c, p)
    \/ \E c \in Calls : Serving(c) \/ timeout(c)

allVars == <<vars, callVars>>

CallsSpec == CallsInit /\ [][CallsNext]_allVars

\* The master's goroutines run, main too while it loads; a channel wakes its receivers in the order they
\* came, so that none is passed over for ever.
loads(p) == NewEmbedderPool(p) \/ (main[p] \in Loading /\ Alone(p))

CallsFairness ==
    /\ \A p \in Instances : WF_allVars(loads(p))
    /\ \A c \in Calls :
          /\ SF_allVars(Get(c))
          /\ WF_allVars(Put(c) \/ storeReturns(c))
          /\ SF_allVars(processPath(c))

FairCallsSpec == CallsSpec /\ CallsFairness

-----------------------------------------------------------------------------
(* Properties. *)

Lent(p) == {call[c].emb : c \in At(p, "using")}

\* Until the pool is closed every embedder is in its channel or lent to one
\* call: none is lost when a caller times out, dies or is answered with an
\* error, and none is lent twice.
PoolWhole ==
    \A p \in Instances :
        /\ pool[p] = "open" => idle[p] \cup Lent(p) = Embedders
        /\ idle[p] \cap Lent(p) = {}
        /\ \A c, d \in At(p, "using") : call[c].emb = call[d].emb => c = d

\* Close finds only the embedders nobody uses: none is closed while a call is
\* still computing with it.
NoUseAfterClose == \A p \in Instances : Lent(p) \cap shut[p] = {}

\* A store call is served by a process that has the store open, also while
\* masters change.
StoreServedByOwner == \A p \in Instances : At(p, "store") # {} => p \in open

\* An index request that was accepted is taken up, and a call that needs an
\* embedder gets one, unless the master is stopped or dies.
EveryCallServed ==
    \A c \in Calls :
        call[c].phase \in {"queued", "get"}
            ~> \/ call[c].phase \notin {"queued", "get"}
               \/ stop[call[c].at] # "no"
=============================================================================

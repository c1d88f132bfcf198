------------------------- MODULE MasterCallsProofs -------------------------
(***************************************************************************)
(* The processes of one data directory, and the calls of the clients at    *)
(* their masters, for any processes, calls and embedders, in whatever      *)
(* order processes start, stop and die.                                    *)
(***************************************************************************)
EXTENDS MasterCalls, OneMaster, TLAPS

-----------------------------------------------------------------------------
(* OneMaster: as long as no start has met another start or a stop there is *)
(* one master, it has the store for itself and can be dialled.             *)

\* What holds whoever met: a process listens, and has the store open, only as the
\* master it became, and only one that is being stopped has given its listener up.
Owner ==
    /\ open \subseteq {p \in Instances : main[p] \in Master}
    /\ listening \subseteq {p \in Instances : main[p] \in Master}
    /\ \A p \in Instances : main[p] \in Master =>
           p \in listening \/ stop[p] \in {"removeAgain", "exit"}
    /\ \A p \in Instances : main[p] \in Starting \cup {"off"} => stop[p] = "no"
    /\ \A p \in Instances : main[p] = "slave" => stop[p] \in {"no", "exit"}

\* A contest lasts while somebody is left who was there.
Contest == contested \in BOOLEAN /\ (contested => Contenders # {})

\* What is so without one: there is one contender, its listener is what is at the
\* path until it takes it away itself, and what it removed before stays removed.
Order ==
    /\ \A p, q \in Contenders : p = q
    /\ \A p \in listening : stop[p] \in {"no", "unlink"} => file = p
    /\ \A p \in Instances : main[p] = "listen" => file = NoFile

IInv == TypeOK /\ Owner /\ Contest /\ (~contested => Order)

History == contested = FALSE /\ [][ContestedNext]_<<vars, contested>>

-----------------------------------------------------------------------------
LEMMA InitIInv == OneMasterInit => IInv
  BY DEF OneMasterInit, Init, IInv, TypeOK, Owner, Contest, Order, Contenders, Starting, Master,
         Loading

\* A process that is gone owns nothing.
LEMMA DeathKeeps ==
  ASSUME TypeOK, Owner, NEW p \in Instances, Gone(p)
  PROVE  TypeOK' /\ Owner'
BY DEF TypeOK, Owner, Gone, Starting, Master, Loading

LEMMA StepOwner ==
  ASSUME TypeOK, Owner, Next
  PROVE  TypeOK' /\ Owner'
<1> USE NoFileAssumption DEF TypeOK, Owner, Starting, Master, Loading, goto, stopAt
<1>1. ASSUME NEW p \in Instances, Gone(p) PROVE TypeOK' /\ Owner'
  BY <1>1, DeathKeeps
<1>2. ASSUME NEW p \in Instances, Start(p) PROVE TypeOK' /\ Owner'
  BY <1>2 DEF Start
<1>3. ASSUME NEW p \in Instances, Dial(p) PROVE TypeOK' /\ Owner'
  BY <1>3 DEF Dial
<1>4. ASSUME NEW p \in Instances, RemoveStale(p) PROVE TypeOK' /\ Owner'
  BY <1>4 DEF RemoveStale, emptied
<1>5. ASSUME NEW p \in Instances, Listen(p), file = NoFile PROVE TypeOK' /\ Owner'
  BY <1>5 DEF Listen
<1>6. ASSUME NEW p \in Instances, getStore(p) PROVE TypeOK' /\ Owner'
  BY <1>6 DEF getStore, mayOpen
<1>7. ASSUME NEW p \in Instances, UpdateEmbedder(p) PROVE TypeOK' /\ Owner'
  BY <1>7 DEF UpdateEmbedder
<1>8. ASSUME NEW p \in Instances, Stop(p) PROVE TypeOK' /\ Owner'
  BY <1>8 DEF Stop, hasMasterServer
<1>9. ASSUME NEW p \in Instances, unlink(p) PROVE TypeOK' /\ Owner'
  BY <1>9 DEF unlink
<1>10. ASSUME NEW p \in Instances, closeListener(p) PROVE TypeOK' /\ Owner'
  BY <1>10 DEF closeListener
<1> QED
  BY <1>1, <1>2, <1>3, <1>4, <1>5, <1>6, <1>7, <1>8, <1>9, <1>10
     DEF Next, Listen, EmbedTooEarly, Die

\* A process that dials in vain while nobody is passing finds no other contender:
\* every settled master has its own listener at the path.
LEMMA VainDial ==
  ASSUME IInv, ~contested, NEW p \in Instances, Dial(p), main'[p] = "remove", ~Meet
  PROVE  Contenders = {}
<1> SUFFICES ASSUME NEW q \in Contenders PROVE FALSE
  OBVIOUS
<1> USE DEF IInv, Contenders, Passing, Starting, Master, Loading
<1>1. p # q /\ q \in Instances /\ main[p] = "dial" /\ ~answers
  BY DEF Dial, goto, TypeOK
<1>2. main[q] \in Master /\ stop[q] = "no"
  BY <1>1 DEF Meet
<1>3. q \in listening /\ file = q
  BY <1>1, <1>2 DEF Owner, Order
<1> QED
  BY <1>1, <1>3 DEF answers

LEMMA StepOrder ==
  ASSUME IInv, ~contested, Next, ~Meet
  PROVE  Order'
<1> USE NoFileAssumption DEF IInv, TypeOK, Order, Contenders, Starting, Master, Loading, goto, stopAt
<1>1. ASSUME NEW p \in Instances, Gone(p) PROVE Order'
  BY <1>1 DEF Gone, Owner
<1>2. ASSUME NEW p \in Instances, Start(p) PROVE Order'
  BY <1>2 DEF Start
<1>3. ASSUME NEW p \in Instances, Dial(p) PROVE Order'
  <2>1. CASE main'[p] = "remove"
    <3>1. Contenders = {}
      BY <1>3, <2>1, VainDial
    <3>2. Contenders' = {p} /\ listening' = {}
      BY <1>3, <2>1, <3>1 DEF Dial, Owner
    <3> QED
      BY <1>3, <2>1, <3>1, <3>2 DEF Dial
  <2>2. CASE main'[p] = "slave"
    BY <1>3, <2>2 DEF Dial
  <2> QED
    BY <1>3, <2>1, <2>2 DEF Dial
<1>4. ASSUME NEW p \in Instances, RemoveStale(p) PROVE Order'
  BY <1>4 DEF RemoveStale, emptied, Owner
<1>5. ASSUME NEW p \in Instances, Listen(p), file = NoFile PROVE Order'
  BY <1>5 DEF Listen, Owner
<1>6. ASSUME NEW p \in Instances, getStore(p) PROVE Order'
  BY <1>6 DEF getStore, mayOpen
<1>7. ASSUME NEW p \in Instances, UpdateEmbedder(p) PROVE Order'
  BY <1>7 DEF UpdateEmbedder
<1>8. ASSUME NEW p \in Instances, Stop(p) PROVE Order'
  BY <1>8 DEF Stop, hasMasterServer
<1>9. ASSUME NEW p \in Instances, unlink(p) PROVE Order'
  BY <1>9 DEF unlink, Owner
<1>10. ASSUME NEW p \in Instances, closeListener(p) PROVE Order'
  BY <1>10 DEF closeListener
<1> QED
  BY <1>1, <1>2, <1>3, <1>4, <1>5, <1>6, <1>7, <1>8, <1>9, <1>10
     DEF Next, Listen, EmbedTooEarly, Die

LEMMA StepIInv ==
  ASSUME IInv, [Next]_vars, [ContestedNext]_<<vars, contested>>
  PROVE  IInv'
<1>1. CASE UNCHANGED vars
  <2>1. contested' = contested
    BY <1>1 DEF IInv, Contest, ContestedNext, Meet, Contenders, vars
  <2> QED
    BY <1>1, <2>1 DEF vars, IInv, TypeOK, Owner, Contest, Order, Contenders
<1>2. CASE Next /\ ContestedNext
  <2>1. TypeOK' /\ Owner'
    BY <1>2, StepOwner DEF IInv
  <2>2. Contest'
    <3>1. Meet => Contenders' # {}
      BY <2>1 DEF Meet, Contenders
    <3> QED
      BY <1>2, <3>1 DEF ContestedNext, Contest, IInv
  <2>3. ASSUME ~contested' PROVE Order'
    <3>1. CASE Contenders' = {}
      BY <2>1, <3>1 DEF TypeOK, Owner, Contenders, Order
    <3>2. CASE Contenders' # {}
      BY <1>2, <2>3, <3>2, StepOrder DEF ContestedNext
    <3> QED
      BY <3>1, <3>2
  <2> QED
    BY <2>1, <2>2, <2>3 DEF IInv
<1>3. CASE UNCHANGED <<vars, contested>>
  BY <1>1, <1>3
<1> QED
  BY <1>1, <1>2, <1>3

-----------------------------------------------------------------------------

LEMMA IInvSuffices == IInv => MasterIsAlone /\ StoreIsOwned /\ MasterIsFound /\ ListenSucceeds
  BY DEF IInv, TypeOK, Owner, Order, Contenders, MasterIsAlone, StoreIsOwned, MasterIsFound,
         ListenSucceeds

\* The invariant holds of the processes and of whatever implements them.
THEOREM Invariance == Spec /\ History => []IInv
<1>1. Init /\ contested = FALSE => IInv
  BY InitIInv DEF OneMasterInit
<1> QED
  BY <1>1, StepIInv, PTL DEF Spec, History

LEMMA WithHistory == OneMasterSpec => Spec /\ History
<1>1. [OneMasterNext]_<<vars, contested>> => [Next]_vars /\ [ContestedNext]_<<vars, contested>>
  BY DEF OneMasterNext, vars
<1> QED
  BY <1>1, PTL DEF OneMasterSpec, OneMasterInit, Spec, History

\* StartMasterServer's test for an existing master is enough for every start that
\* meets neither another start nor a stop, and for the next one after those who
\* met are gone: no two processes listen, however many there are and wherever
\* they die.
THEOREM SingleMaster == OneMasterSpec => []MasterIsAlone
<1> QED
  BY WithHistory, Invariance, IInvSuffices, PTL

\* Likewise no two processes have the store open (getStore asks isMaster).
THEOREM SingleStore == OneMasterSpec => []StoreIsOwned
<1> QED
  BY WithHistory, Invariance, IInvSuffices, PTL

\* Likewise the master's socket stays where slaves look for it: neither a start
\* nor a stop of another process removes it.
THEOREM MasterReachable == OneMasterSpec => []MasterIsFound
<1> QED
  BY WithHistory, Invariance, IInvSuffices, PTL

\* Likewise no start fails: when Listen comes to the path, nothing is there.
THEOREM StartsSucceed == OneMasterSpec => []ListenSucceeds
<1> QED
  BY WithHistory, Invariance, IInvSuffices, PTL

-----------------------------------------------------------------------------
(* MasterCalls: the embedders of a pool and the store behind the calls are *)
(* used by one owner at a time, and the calls take nothing from what       *)
(* Instances promises.                                                     *)

Active == {"queued", "get", "using", "store"}

CallsTypeOK ==
    /\ TypeOK
    /\ pool \in [Instances -> {"none", "open", "closed"}]
    /\ idle \in [Instances -> SUBSET Embedders]
    /\ shut \in [Instances -> SUBSET Embedders]
    /\ call \in [Calls -> Call]

\* A call is at work only at a master, borrows only where there is a pool, and
\* uses the store only where it is open.
Home(c) ==
    /\ call[c].phase \in Active => call[c].at \in Instances /\ main[call[c].at] \in Master
    /\ call[c].phase \in {"get", "using"} => pool[call[c].at] # "none"
    /\ call[c].phase = "using" => call[c].emb \in Embedders
    /\ call[c].phase = "store" => call[c].at \in open

\* A master that is loaded has its pool and its store; nobody else has either.
Loaded(p) ==
    /\ main[p] \in {"update", "ready"} => pool[p] # "none" /\ p \in open
    /\ p \in listening => main[p] \in Master
    /\ main[p] \notin Master => pool[p] = "none"
    /\ pool[p] = "none" => idle[p] = {} /\ shut[p] = {}
    /\ pool[p] = "open" => shut[p] = {}
    /\ idle[p] \cap shut[p] = {}

\* No embedder is lent twice, nor lies in the pool or is closed while it is lent,
\* and until the pool is closed none is missing.
Lends(p) ==
    /\ \A c, d \in Calls :
          (/\ call[c].phase = "using" /\ call[c].at = p
           /\ call[d].phase = "using" /\ call[d].at = p
           /\ call[c].emb = call[d].emb) => c = d
    /\ \A c \in Calls : call[c].phase = "using" /\ call[c].at = p
                            => call[c].emb \notin idle[p] \cup shut[p]
    /\ pool[p] = "open" =>
          \A e \in Embedders :
              e \in idle[p] \/ \E c \in Calls : /\ call[c].phase = "using"
                                                /\ call[c].at = p /\ call[c].emb = e

CInv ==
    /\ CallsTypeOK
    /\ \A c \in Calls : Home(c)
    /\ \A p \in Instances : Loaded(p)
    /\ \A p \in Instances : Lends(p)

-----------------------------------------------------------------------------

LEMMA CallsInitInv == CallsInit => CInv
<1> SUFFICES ASSUME CallsInit PROVE CInv
  OBVIOUS
<1> USE DEF CallsInit, Init
<1>1. CallsTypeOK
  BY DEF CallsTypeOK, TypeOK, Call, Kinds
<1>2. \A c \in Calls : Home(c)
  BY DEF Home, Active
<1>3. \A p \in Instances : Loaded(p)
  BY DEF Loaded, Master, Loading
<1>4. \A c \in Calls : call[c].phase = "new"
  OBVIOUS
<1>5. \A p \in Instances : Lends(p)
  BY <1>4 DEF Lends
<1> QED
  BY <1>1, <1>2, <1>3, <1>5 DEF CInv

\* What the steps of Instances that end no process leave alone.
Onward ==
    /\ TypeOK'
    /\ \A p \in Instances :
          /\ main[p] \in Master => main'[p] \in Master
          /\ p \in open => p \in open'
          /\ main'[p] \in {"update", "ready"} => (pool[p] # "none" /\ p \in open')
          /\ p \in listening' => main'[p] \in Master
          /\ main'[p] \notin Master => main[p] \notin Master

LEMMA OnwardKeeps ==
  ASSUME CInv, Onward, UNCHANGED callVars
  PROVE  CInv'
<1>1. CallsTypeOK'
  BY DEF CInv, CallsTypeOK, Onward, callVars, poolVars
<1>2. ASSUME NEW c \in Calls PROVE Home(c)'
  BY DEF CInv, Home, Onward, callVars, poolVars, Active
<1>3. ASSUME NEW p \in Instances PROVE Loaded(p)' /\ Lends(p)'
  BY DEF CInv, Loaded, Lends, Onward, callVars, poolVars
<1> QED
  BY <1>1, <1>2, <1>3 DEF CInv

LEMMA AloneOnward ==
  ASSUME CInv, NEW p \in Instances, Alone(p)
  PROVE  Onward
<1> USE DEF Master, Loading, Starting, Onward, TypeOK, goto, stopAt
<1> TypeOK /\ \A q \in Instances : Loaded(q)
  BY DEF CInv, CallsTypeOK
<1> USE DEF Loaded
<1>1. CASE Start(p)
  BY <1>1 DEF Start
<1>2. CASE Dial(p)
  BY <1>2 DEF Dial
<1>3. CASE RemoveStale(p)
  BY <1>3 DEF RemoveStale, emptied
<1>4. CASE UpdateEmbedder(p)
  BY <1>4 DEF UpdateEmbedder
<1>5. CASE opens(p)
  BY <1>5 DEF opens, getStore, mayOpen
<1>6. CASE unlinks(p)
  BY <1>6 DEF unlinks, unlink
<1>7. CASE closeListener(p)
  BY <1>7 DEF closeListener
<1>8. CASE file = NoFile /\ Listen(p)
  BY <1>8 DEF Listen
<1> QED
  BY <1>1, <1>2, <1>3, <1>4, <1>5, <1>6, <1>7, <1>8 DEF Alone

\* A process that is gone is owed nothing, and takes its own calls with it.
LEMMA CrashKeeps ==
  ASSUME CInv, NEW p \in Instances, Gone(p), dropped(p)
  PROVE  CInv'
<1> USE DEF Master, Loading, Starting
<1>0. CallsTypeOK
  BY DEF CInv
<1>1. \A q \in Instances \ {p} :
         /\ main'[q] = main[q] /\ stop'[q] = stop[q] /\ pool'[q] = pool[q]
         /\ idle'[q] = idle[q] /\ shut'[q] = shut[q]
         /\ (q \in open' <=> q \in open) /\ (q \in listening' <=> q \in listening)
  BY <1>0 DEF Gone, dropped, CallsTypeOK, TypeOK
<1>2. /\ main'[p] = "off" /\ pool'[p] = "none" /\ idle'[p] = {} /\ shut'[p] = {}
      /\ p \notin open' /\ p \notin listening'
  BY <1>0 DEF Gone, dropped, CallsTypeOK, TypeOK
<1>3. ASSUME NEW c \in Calls
      PROVE  /\ call'[c] \in Call
             /\ call[c].at = p => call'[c].phase = "over"
             /\ call[c].at # p => /\ call'[c].phase = call[c].phase
                                  /\ call'[c].at = call[c].at
                                  /\ call'[c].emb = call[c].emb
  <2>1. call[c] \in Call
    BY <1>0 DEF CallsTypeOK
  <2>2. CASE call[c].at = p
    BY <2>1, <2>2 DEF dropped, over, Call, Nobody
  <2>3. CASE call[c].at # p /\ call[c].by = p
    BY <2>1, <2>3 DEF dropped, Call, Nobody
  <2>4. CASE call[c].at # p /\ call[c].by # p
    BY <2>1, <2>4 DEF dropped
  <2> QED
    BY <2>2, <2>3, <2>4
<1>4. CallsTypeOK'
  <2>1. TypeOK'
    BY <1>0 DEF Gone, CallsTypeOK, TypeOK
  <2>2. call' \in [Calls -> Call]
    BY <1>3 DEF dropped
  <2> QED
    BY <1>0, <2>1, <2>2 DEF dropped, CallsTypeOK
<1>5. ASSUME NEW c \in Calls PROVE Home(c)'
  BY <1>1, <1>3 DEF CInv, Home, Active
<1>6. ASSUME NEW q \in Instances PROVE Loaded(q)'
  BY <1>1, <1>2 DEF CInv, Loaded
<1>7. ASSUME NEW q \in Instances PROVE Lends(q)'
  <2>1. CASE q = p
    <3>1. \A c \in Calls : ~(call'[c].phase = "using" /\ call'[c].at = p)
      BY <1>3
    <3>2. Lends(p)'
      BY <1>2, <3>1 DEF Lends
    <3> QED
      BY <2>1, <3>2
  <2>2. CASE q # p
    <3>1. \A c \in Calls : call[c].phase = "using" /\ call[c].at = q
              <=> call'[c].phase = "using" /\ call'[c].at = q
      BY <2>2, <1>3, <1>0 DEF CallsTypeOK, Call
    <3>2. \A c \in Calls : call[c].at = q => call'[c].emb = call[c].emb
      BY <2>2, <1>3
    <3>3. idle'[q] = idle[q] /\ shut'[q] = shut[q] /\ pool'[q] = pool[q] /\ Lends(q)
      BY <2>2, <1>1 DEF CInv
    <3> QED
      BY <3>1, <3>2, <3>3 DEF Lends
  <2> QED
    BY <2>1, <2>2
<1> QED
  BY <1>4, <1>5, <1>6, <1>7 DEF CInv

-----------------------------------------------------------------------------
(* One call moves on. *)

\* A call that borrows nothing, before and after the step.
LEMMA CallMoves ==
  ASSUME CInv, NEW c \in Calls, NEW x \in Call,
         call' = [call EXCEPT ![c] = x], UNCHANGED <<vars, poolVars>>,
         call[c].phase # "using", x.phase # "using",
         x.phase \in Active => x.at \in Instances /\ main[x.at] \in Master,
         x.phase = "get" => pool[x.at] # "none",
         x.phase = "store" => x.at \in open
  PROVE  CInv'
<1>0. CallsTypeOK
  BY DEF CInv
<1>1. \A d \in Calls : call'[d] = IF d = c THEN x ELSE call[d]
  BY <1>0 DEF CallsTypeOK
<1>2. CallsTypeOK'
  BY <1>0 DEF CallsTypeOK, TypeOK, vars, poolVars
<1>3. ASSUME NEW d \in Calls PROVE Home(d)'
  BY <1>1 DEF CInv, Home, vars, poolVars, Active
<1>4. ASSUME NEW p \in Instances PROVE Loaded(p)'
  BY DEF CInv, Loaded, vars, poolVars
<1>5. ASSUME NEW p \in Instances PROVE Lends(p)'
  BY <1>1 DEF CInv, Lends, vars, poolVars
<1> QED
  BY <1>2, <1>3, <1>4, <1>5 DEF CInv

LEMMA OverIsOver ==
  ASSUME NEW c \in Calls, call[c] \in Call, NEW a \in {"ok", "error"}
  PROVE  over(call[c], a) \in Call /\ over(call[c], a).phase = "over"
BY DEF over, Call, Nobody

\* A panic while the call waits for an embedder or has one: the embedder is lost
\* with the call, or the process is gone.
LEMMA PanicKeeps ==
  ASSUME CInv, NEW c \in Calls, panics(c), call[c].at \in Instances,
         call[c].phase = "get" \/ (call[c].phase = "using" /\ pool[call[c].at] # "open")
  PROVE  CInv'
<1>1. CASE crash(call[c].at)
  BY <1>1, CrashKeeps DEF crash
<1>2. CASE finish(c, "error") /\ UNCHANGED <<vars, poolVars>>
  <2>0. CallsTypeOK
    BY DEF CInv
  <2>1. over(call[c], "error") \in Call /\ over(call[c], "error").phase = "over"
    BY <2>0, OverIsOver DEF CallsTypeOK
  <2>2. \A d \in Calls : call'[d] = IF d = c THEN over(call[c], "error") ELSE call[d]
    BY <1>2, <2>0 DEF finish, CallsTypeOK
  <2>3. CallsTypeOK'
    <3>1. call' \in [Calls -> Call]
      BY <1>2, <2>0, <2>1, <2>2 DEF finish, CallsTypeOK
    <3> QED
      BY <1>2, <2>0, <3>1 DEF CallsTypeOK, TypeOK, vars, poolVars
  <2>4. ASSUME NEW d \in Calls PROVE Home(d)'
    BY <1>2, <2>1, <2>2 DEF CInv, Home, vars, poolVars, Active
  <2>5. ASSUME NEW p \in Instances PROVE Loaded(p)'
    BY <1>2 DEF CInv, Loaded, vars, poolVars
  <2>6. ASSUME NEW p \in Instances PROVE Lends(p)'
    <3>1. Lends(p) /\ UNCHANGED <<pool, idle, shut>>
      BY <1>2 DEF CInv, poolVars
    <3>2. \A d \in Calls : call'[d].phase = "using" => d # c /\ call'[d] = call[d]
      BY <2>1, <2>2
    <3>3. ASSUME NEW d \in Calls, pool[p] = "open", call[d].phase = "using", call[d].at = p
          PROVE  call'[d] = call[d]
      BY <2>2, <3>3
    <3>4. /\ \A b, d \in Calls :
                (/\ call'[b].phase = "using" /\ call'[b].at = p
                 /\ call'[d].phase = "using" /\ call'[d].at = p
                 /\ call'[b].emb = call'[d].emb) => b = d
          /\ \A d \in Calls : call'[d].phase = "using" /\ call'[d].at = p
                                  => call'[d].emb \notin idle'[p] \cup shut'[p]
      BY <3>1, <3>2 DEF Lends
    <3>5. ASSUME pool'[p] = "open", NEW e \in Embedders
          PROVE  e \in idle'[p] \/ \E d \in Calls : /\ call'[d].phase = "using"
                                                   /\ call'[d].at = p /\ call'[d].emb = e
      BY <3>1, <3>3, <3>5 DEF Lends
    <3> QED
      BY <3>4, <3>5 DEF Lends
  <2> QED
    BY <2>3, <2>4, <2>5, <2>6 DEF CInv
<1> QED
  BY <1>1, <1>2 DEF panics

\* The pool hands an embedder out, or its channel is closed and the process ends.
LEMMA GetKeeps ==
  ASSUME CInv, NEW c \in Calls, Get(c)
  PROVE  CInv'
<1> DEFINE p == call[c].at
<1>0. CallsTypeOK /\ Home(c) /\ call[c] \in Call
  BY DEF CInv, CallsTypeOK
<1>1. p \in Instances /\ main[p] \in Master /\ pool[p] # "none"
  BY <1>0 DEF Get, Home, Active
<1>2. CASE panics(c)
  BY <1>0, <1>1, <1>2, PanicKeeps DEF Get
<1>3. ASSUME NEW e \in idle[p],
             idle' = [idle EXCEPT ![p] = @ \ {e}],
             call' = [call EXCEPT ![c].phase = "using", ![c].emb = e],
             UNCHANGED <<vars, pool, shut>>
      PROVE  CInv'
  <2>0. e \in Embedders
    BY <1>0, <1>1, <1>3 DEF CallsTypeOK
  <2>1. \A d \in Calls \ {c} : call'[d] = call[d]
    BY <1>0, <1>3 DEF CallsTypeOK
  <2>2. /\ call'[c] \in Call /\ call'[c].phase = "using" /\ call'[c].emb = e
        /\ call'[c].at = p
    BY <1>0, <1>3, <2>0 DEF CallsTypeOK, Call
  <2>3. CallsTypeOK'
    <3>1. call' \in [Calls -> Call]
      BY <1>0, <1>3, <2>1, <2>2 DEF CallsTypeOK
    <3> QED
      BY <1>0, <1>1, <1>3, <3>1 DEF CallsTypeOK, TypeOK, vars
  <2>4. ASSUME NEW d \in Calls PROVE Home(d)'
    <3>1. Home(d) /\ UNCHANGED <<main, open, pool>>
      BY <1>3 DEF CInv, vars
    <3>2. CASE d = c
      BY <3>1, <3>2, <1>1, <2>0, <2>2 DEF Home
    <3>3. CASE d # c
      BY <3>1, <3>3, <2>1 DEF Home
    <3> QED
      BY <3>2, <3>3
  <2>5. \A q \in Instances : idle'[q] = IF q = p THEN idle[q] \ {e} ELSE idle[q]
    BY <1>0, <1>1, <1>3 DEF CallsTypeOK
  <2>6. ASSUME NEW q \in Instances PROVE Loaded(q)'
    BY <1>3, <2>5 DEF CInv, Loaded, vars
  <2>7. ASSUME NEW q \in Instances PROVE Lends(q)'
    <3>0. Lends(q) /\ Loaded(q) /\ pool'[q] = pool[q] /\ shut'[q] = shut[q] /\ call[c].phase = "get"
      BY <1>3 DEF CInv, Get
    <3>1. \A d \in Calls : call'[d].phase = "using" /\ call'[d].at = q =>
             \/ d # c /\ call[d].phase = "using" /\ call[d].at = q /\ call'[d].emb = call[d].emb
             \/ d = c /\ q = p /\ call'[d].emb = e
      BY <2>1, <2>2
    <3>2. \A d \in Calls : call[d].phase = "using" /\ call[d].at = q =>
             call'[d].phase = "using" /\ call'[d].at = q /\ call'[d].emb = call[d].emb
      BY <3>0, <2>1
    <3>3. CASE q # p
      <4>0. idle'[q] = idle[q]
        BY <2>5, <3>3
      <4>1. ASSUME NEW d \in Calls
            PROVE  /\ (call'[d].phase = "using" /\ call'[d].at = q)
                          <=> (call[d].phase = "using" /\ call[d].at = q)
                   /\ (call'[d].phase = "using" /\ call'[d].at = q) => call'[d].emb = call[d].emb
        BY <3>1, <3>2, <3>3
      <4> QED
        BY <3>0, <4>0, <4>1 DEF Lends
    <3>4. CASE q = p
      <4>1. e \in idle[q] /\ idle'[q] = idle[q] \ {e} /\ e \notin shut[q]
        BY <3>0, <3>4, <2>5 DEF Loaded
      <4>2. \A d \in Calls : call[d].phase = "using" /\ call[d].at = q => call[d].emb # e
        BY <3>0, <4>1 DEF Lends
      <4>3. call'[c].phase = "using" /\ call'[c].at = q /\ call'[c].emb = e
        BY <2>2, <3>4
      <4>4. ASSUME NEW b \in Calls, NEW d \in Calls,
                   call'[b].phase = "using", call'[b].at = q,
                   call'[d].phase = "using", call'[d].at = q, call'[b].emb = call'[d].emb
            PROVE  b = d
        BY <3>0, <3>1, <4>2, <4>4 DEF Lends
      <4>5. ASSUME NEW d \in Calls, call'[d].phase = "using", call'[d].at = q
            PROVE  call'[d].emb \notin idle'[q] \cup shut'[q]
        BY <3>0, <3>1, <4>1, <4>5 DEF Lends
      <4>6. ASSUME pool[q] = "open", NEW f \in Embedders
            PROVE  f \in idle'[q] \/ \E d \in Calls : /\ call'[d].phase = "using"
                                                     /\ call'[d].at = q /\ call'[d].emb = f
        BY <3>0, <3>2, <4>1, <4>3, <4>6 DEF Lends
      <4> QED
        BY <3>0, <4>4, <4>5, <4>6 DEF Lends
    <3> QED
      BY <3>3, <3>4
  <2> QED
    BY <2>3, <2>4, <2>6, <2>7 DEF CInv
<1> HIDE DEF p
<1> QED
  BY <1>2, <1>3 DEF Get, p

\* What was lent comes back while there is a pool to come back to.
LEMMA PutKeeps ==
  ASSUME CInv, NEW c \in Calls, Put(c)
  PROVE  CInv'
<1> DEFINE p == call[c].at
           e == call[c].emb
<1>0. CallsTypeOK /\ Home(c) /\ call[c] \in Call /\ call[c].phase = "using"
  BY DEF CInv, CallsTypeOK, Put
<1>1. p \in Instances /\ e \in Embedders
  BY <1>0 DEF Home, Active
<1>2. CASE pool[p] # "open"
  BY <1>0, <1>1, <1>2, PanicKeeps DEF Put
<1>3. CASE pool[p] = "open"
  <2>1. PICK a \in {"ok", "error"} : call' = [call EXCEPT ![c] = over(@, a)]
    BY <1>3 DEF Put, finish
  <2>2. idle' = [idle EXCEPT ![p] = @ \cup {e}] /\ UNCHANGED <<vars, pool, shut>>
    BY <1>3 DEF Put, returned
  <2>3. \A d \in Calls \ {c} : call'[d] = call[d]
    BY <1>0, <2>1 DEF CallsTypeOK
  <2>4. call'[c] \in Call /\ call'[c].phase = "over"
    BY <1>0, <2>1, OverIsOver DEF CallsTypeOK
  <2>5. \A q \in Instances : idle'[q] = IF q = p THEN idle[q] \cup {e} ELSE idle[q]
    BY <1>0, <1>1, <2>2 DEF CallsTypeOK
  <2>6. CallsTypeOK'
    <3>1. call' \in [Calls -> Call]
      BY <1>0, <2>1, <2>3, <2>4 DEF CallsTypeOK
    <3>2. idle' \in [Instances -> SUBSET Embedders]
      BY <1>0, <1>1, <2>2 DEF CallsTypeOK
    <3> QED
      BY <1>0, <2>2, <3>1, <3>2 DEF CallsTypeOK, TypeOK, vars
  <2>7. ASSUME NEW d \in Calls PROVE Home(d)'
    BY <2>2, <2>3, <2>4 DEF CInv, Home, vars, Active
  <2>8. ASSUME NEW q \in Instances PROVE Loaded(q)'
    BY <1>3, <2>2, <2>5 DEF CInv, Loaded, vars
  <2>9. ASSUME NEW q \in Instances PROVE Lends(q)'
    <3>0. Lends(q) /\ Loaded(q) /\ pool'[q] = pool[q] /\ shut'[q] = shut[q]
      BY <2>2 DEF CInv
    <3>1. \A d \in Calls : call'[d].phase = "using" /\ call'[d].at = q =>
             /\ d # c /\ call[d].phase = "using" /\ call[d].at = q
             /\ call'[d].emb = call[d].emb
      BY <2>3, <2>4
    <3>2. \A d \in Calls \ {c} : call[d].phase = "using" /\ call[d].at = q =>
             call'[d].phase = "using" /\ call'[d].at = q /\ call'[d].emb = call[d].emb
      BY <2>3
    <3>3. CASE q # p
      <4>0. idle'[q] = idle[q]
        BY <2>5, <3>3
      <4>1. ASSUME NEW d \in Calls
            PROVE  /\ (call'[d].phase = "using" /\ call'[d].at = q)
                          <=> (call[d].phase = "using" /\ call[d].at = q)
                   /\ (call'[d].phase = "using" /\ call'[d].at = q) => call'[d].emb = call[d].emb
        BY <3>1, <3>2, <3>3
      <4> QED
        BY <3>0, <4>0, <4>1 DEF Lends
    <3>4. CASE q = p
      <4>1. idle'[q] = idle[q] \cup {e} /\ shut[q] = {} /\ call[c].at = q /\ call[c].emb = e
        BY <3>0, <3>4, <1>3, <2>5 DEF Loaded
      <4>2. \A d \in Calls \ {c} : call[d].phase = "using" /\ call[d].at = q => call[d].emb # e
        BY <3>0, <4>1, <1>0 DEF Lends
      <4>3. ASSUME NEW d \in Calls, call'[d].phase = "using", call'[d].at = q
            PROVE  call'[d].emb \notin idle'[q] \cup shut'[q]
        BY <3>0, <3>1, <4>1, <4>2, <4>3 DEF Lends
      <4>4. ASSUME NEW f \in Embedders
            PROVE  f \in idle'[q] \/ \E d \in Calls : /\ call'[d].phase = "using"
                                                     /\ call'[d].at = q /\ call'[d].emb = f
        BY <3>0, <3>2, <3>4, <4>1, <1>3 DEF Lends
      <4> QED
        BY <3>0, <3>1, <4>3, <4>4 DEF Lends
    <3> QED
      BY <3>3, <3>4
  <2> QED
    BY <2>6, <2>7, <2>8, <2>9 DEF CInv
<1> QED
  BY <1>2, <1>3

LEMMA PoolKeeps ==
  ASSUME CInv, NEW p \in Instances, StopApp(p) \/ NewEmbedderPool(p) \/ drain(p)
  PROVE  CInv'
<1> USE DEF Master, Loading, Starting
<1>0. CallsTypeOK /\ \A q \in Instances : Loaded(q) /\ Lends(q)
  BY DEF CInv
<1>1. CASE StopApp(p)
  <2>0. UNCHANGED <<file, main, listening, open, idle, shut, call>>
    BY <1>1 DEF StopApp, Stop
  <2>1. \A q \in Instances : pool'[q] = pool[q] \/ (pool[q] = "open" /\ pool'[q] = "closed")
    BY <1>0, <1>1 DEF StopApp, CallsTypeOK
  <2>2. CallsTypeOK'
    BY <1>0, <1>1 DEF StopApp, Stop, stopAt, CallsTypeOK, TypeOK
  <2>3. ASSUME NEW d \in Calls PROVE Home(d)'
    BY <2>0, <2>1 DEF CInv, Home, Active
  <2>4. ASSUME NEW q \in Instances PROVE Loaded(q)'
    BY <1>0, <2>0, <2>1 DEF Loaded
  <2>5. ASSUME NEW q \in Instances PROVE Lends(q)'
    BY <1>0, <2>0, <2>1 DEF Lends
  <2> QED
    BY <2>2, <2>3, <2>4, <2>5 DEF CInv
<1>2. CASE NewEmbedderPool(p)
  <2>1. \A q \in Instances :
           /\ pool'[q] = IF q = p THEN "open" ELSE pool[q]
           /\ idle'[q] = IF q = p THEN Embedders ELSE idle[q]
           /\ shut'[q] = shut[q]
    BY <1>0, <1>2 DEF NewEmbedderPool, CallsTypeOK
  <2>2. CallsTypeOK'
    BY <1>0, <1>2 DEF NewEmbedderPool, CallsTypeOK, TypeOK, vars
  <2>3. ASSUME NEW d \in Calls PROVE Home(d)'
    BY <1>2, <2>1 DEF CInv, Home, NewEmbedderPool, vars, Active
  <2>4. ASSUME NEW q \in Instances PROVE Loaded(q)'
    BY <1>0, <1>2, <2>1 DEF Loaded, NewEmbedderPool, vars
  <2>5. ASSUME NEW c \in Calls PROVE ~(call[c].phase = "using" /\ call[c].at = p)
    BY <1>2 DEF CInv, Home, NewEmbedderPool, Active
  <2>6. ASSUME NEW q \in Instances PROVE Lends(q)'
    BY <1>0, <1>2, <2>1, <2>5 DEF Lends, NewEmbedderPool
  <2> QED
    BY <2>2, <2>3, <2>4, <2>6 DEF CInv
<1>3. CASE drain(p)
  <2>0. PICK e \in idle[p] : /\ idle' = [idle EXCEPT ![p] = @ \ {e}]
                             /\ shut' = [shut EXCEPT ![p] = @ \cup {e}]
    BY <1>3 DEF drain, closes
  <2>1. \A q \in Instances :
           /\ idle'[q] = IF q = p THEN idle[q] \ {e} ELSE idle[q]
           /\ shut'[q] = IF q = p THEN shut[q] \cup {e} ELSE shut[q]
    BY <1>0, <2>0 DEF CallsTypeOK
  <2>2. pool[p] = "closed" /\ UNCHANGED <<vars, pool, call>>
    BY <1>3 DEF drain
  <2>3. CallsTypeOK'
    BY <1>0, <2>0, <2>2 DEF CallsTypeOK, TypeOK, vars
  <2>4. ASSUME NEW d \in Calls PROVE Home(d)'
    BY <2>2 DEF CInv, Home, vars, Active
  <2>5. ASSUME NEW q \in Instances PROVE Loaded(q)'
    BY <1>0, <2>1, <2>2 DEF Loaded, vars
  <2>6. ASSUME NEW q \in Instances PROVE Lends(q)'
    BY <1>0, <2>0, <2>1, <2>2 DEF Lends
  <2> QED
    BY <2>3, <2>4, <2>5, <2>6 DEF CInv
<1> QED
  BY <1>1, <1>2, <1>3

LEMMA CallStepKeeps ==
  ASSUME CInv, NEW c \in Calls, NEW p \in Instances,
         callMaster(c, p) \/ cannotDial(c, p) \/ embedHere(c, p)
  PROVE  CInv'
<1>0. /\ CallsTypeOK /\ call[c] \in Call /\ call[c].phase = "new"
      /\ \A q \in Instances : Loaded(q)
  BY DEF CInv, CallsTypeOK, callMaster, cannotDial, embedHere
<1>1. CASE cannotDial(c, p)
  <2>1. call' = [call EXCEPT ![c] = over(call[c], "error")]
    BY <1>0, <1>1 DEF cannotDial, finish, CallsTypeOK
  <2>2. over(call[c], "error") \in Call /\ over(call[c], "error").phase = "over"
    BY <1>0, OverIsOver
  <2> QED
    BY <1>0, <1>1, <2>1, <2>2, CallMoves DEF cannotDial, Active
<1>2. ASSUME NEW m \in Instances, NEW phase \in {"get", "queued", "store"},
             NEW answer \in {"waiting", "ok"}, NEW s \in Instances,
             main[m] \in Master, phase = "get" => pool[m] # "none", phase = "store" => m \in open,
             call' = [call EXCEPT ![c].phase = phase, ![c].by = s, ![c].at = m,
                                  ![c].answer = answer],
             UNCHANGED <<vars, poolVars>>
      PROVE  CInv'
  <2> DEFINE x == [call[c] EXCEPT !.phase = phase, !.by = s, !.at = m, !.answer = answer]
  <2>1. x \in Call /\ x.phase = phase /\ x.at = m
    BY <1>0 DEF Call
  <2>2. call' = [call EXCEPT ![c] = x]
    BY <1>0, <1>2 DEF CallsTypeOK, Call
  <2> HIDE DEF x
  <2> QED
    BY <1>0, <1>2, <2>1, <2>2, CallMoves
<1>3. CASE embedHere(c, p)
  <2>1. main[p] \in Master /\ pool[p] # "none"
    BY <1>0, <1>3 DEF embedHere, Loaded, Master
  <2> QED
    BY <1>2, <1>3, <2>1 DEF embedHere
<1>4. CASE callMaster(c, p)
  <2> DEFINE m == file
  <2>1. m \in Instances /\ main[m] \in Master /\ m \in listening
    BY <1>0, <1>4 DEF callMaster, answers, CallsTypeOK, TypeOK, Loaded
  <2>2. main[m] \notin Loading => pool[m] # "none" /\ m \in open
    BY <1>0, <2>1 DEF Loaded, Master, Loading
  <2>3. CASE EmbedTooEarly(p, m) /\ dropped(m)
    BY <2>1, <2>3, CrashKeeps DEF EmbedTooEarly
  <2>4. ASSUME finish(c, "error"), UNCHANGED <<vars, poolVars>> PROVE CInv'
    <3>1. call' = [call EXCEPT ![c] = over(call[c], "error")]
      BY <1>0, <2>4 DEF finish, CallsTypeOK
    <3>2. over(call[c], "error") \in Call /\ over(call[c], "error").phase = "over"
      BY <1>0, OverIsOver
    <3> QED
      BY <1>0, <2>4, <3>1, <3>2, CallMoves DEF Active
  <2>5. ASSUME NEW phase \in {"get", "queued", "store"}, NEW answer \in {"waiting", "ok"},
               phase # "queued" => main[m] \notin Loading,
               call' = [call EXCEPT ![c].phase = phase, ![c].by = p, ![c].at = m,
                                    ![c].answer = answer],
               UNCHANGED <<vars, poolVars>>
        PROVE  CInv'
    BY <1>2, <2>1, <2>2, <2>5
  <2> QED
    BY <1>4, <2>3, <2>4, <2>5 DEF callMaster, hasStore
<1> QED
  BY <1>1, <1>3, <1>4

LEMMA ServingKeeps ==
  ASSUME CInv, NEW c \in Calls, Serving(c)
  PROVE  CInv'
<1>0. CallsTypeOK /\ call[c] \in Call /\ Home(c) /\ \A q \in Instances : Loaded(q)
  BY DEF CInv, CallsTypeOK
<1>1. ASSUME NEW answer \in {"ok", "error"}, finish(c, answer), UNCHANGED <<vars, poolVars>>,
             call[c].phase # "using"
      PROVE  CInv'
  <2>1. call' = [call EXCEPT ![c] = over(call[c], answer)]
    BY <1>0, <1>1 DEF finish, CallsTypeOK
  <2>2. over(call[c], answer) \in Call /\ over(call[c], answer).phase = "over"
    BY <1>0, OverIsOver
  <2> QED
    BY <1>0, <1>1, <2>1, <2>2, CallMoves DEF Active
<1>2. CASE Get(c)
  BY <1>2, GetKeeps
<1>3. CASE Put(c)
  BY <1>3, PutKeeps
<1>4. CASE cancelGet(c)
  BY <1>1, <1>4 DEF cancelGet
<1>5. CASE storeReturns(c)
  BY <1>1, <1>5 DEF storeReturns
<1>6. CASE processPath(c)
  <2> DEFINE x == [call[c] EXCEPT !.phase = "get"]
  <2>1. x \in Call /\ x.phase = "get" /\ x.at = call[c].at
    BY <1>0 DEF Call
  <2>2. call' = [call EXCEPT ![c] = x] /\ call[c].phase # "using" /\ UNCHANGED <<vars, poolVars>>
    BY <1>0, <1>6 DEF processPath, CallsTypeOK
  <2>3. /\ call[c].at \in Instances /\ main[call[c].at] \in Master
        /\ pool[call[c].at] # "none"
    BY <1>0, <1>6 DEF processPath, Home, Active, Loaded
  <2> HIDE DEF x
  <2> QED
    BY <2>1, <2>2, <2>3, CallMoves
<1> QED
  BY <1>2, <1>3, <1>4, <1>5, <1>6 DEF Serving

\* The master knows nothing of a caller's timeout: what is lent stays lent.
LEMMA TimeoutKeeps ==
  ASSUME CInv, NEW c \in Calls, timeout(c)
  PROVE  CInv'
<1>0. CallsTypeOK /\ call[c] \in Call
  BY DEF CInv, CallsTypeOK
<1>1. UNCHANGED <<vars, poolVars>>
  BY DEF timeout
<1>2. ASSUME NEW d \in Calls
      PROVE  /\ call'[d] \in Call
             /\ call'[d].phase = call[d].phase /\ call'[d].at = call[d].at
             /\ call'[d].emb = call[d].emb
  <2>1. CASE d = c
    BY <1>0, <2>1 DEF timeout, CallsTypeOK, Call
  <2>2. CASE d # c
    BY <1>0, <2>2 DEF timeout, CallsTypeOK
  <2> QED
    BY <2>1, <2>2
<1>3. CallsTypeOK'
  <2>1. call' \in [Calls -> Call]
    BY <1>0, <1>2 DEF timeout, CallsTypeOK
  <2> QED
    BY <1>0, <1>1, <2>1 DEF CallsTypeOK, TypeOK, vars, poolVars
<1>4. ASSUME NEW d \in Calls PROVE Home(d)'
  BY <1>1, <1>2 DEF CInv, Home, vars, poolVars
<1>5. ASSUME NEW p \in Instances PROVE Loaded(p)'
  BY <1>1 DEF CInv, Loaded, vars, poolVars
<1>6. ASSUME NEW p \in Instances PROVE Lends(p)'
  BY <1>1, <1>2 DEF CInv, Lends, vars, poolVars
<1> QED
  BY <1>3, <1>4, <1>5, <1>6 DEF CInv

LEMMA StepCInv ==
  ASSUME CInv, [CallsNext]_allVars
  PROVE  CInv'
<1>1. CASE UNCHANGED allVars
  BY <1>1 DEF allVars, vars, callVars, poolVars, CInv, CallsTypeOK, TypeOK, Home, Loaded, Lends
<1>2. ASSUME NEW p \in Instances, Alone(p) PROVE CInv'
  <2>1. UNCHANGED callVars
    BY <1>2 DEF Alone
  <2> QED
    BY <1>2, <2>1, AloneOnward, OnwardKeeps
<1>3. ASSUME NEW p \in Instances, Ends(p) PROVE CInv'
  <2>1. Gone(p) /\ dropped(p)
    BY <1>3 DEF Ends, Die, Listen
  <2> QED
    BY <2>1, CrashKeeps
<1> QED
  BY <1>1, <1>2, <1>3, PoolKeeps, CallStepKeeps, ServingKeeps, TimeoutKeeps DEF CallsNext

-----------------------------------------------------------------------------

LEMMA CInvSuffices == CInv => PoolWhole /\ NoUseAfterClose /\ StoreServedByOwner
<1> SUFFICES ASSUME CInv PROVE PoolWhole /\ NoUseAfterClose /\ StoreServedByOwner
  OBVIOUS
<1>0. CallsTypeOK /\ \A c \in Calls : Home(c)
  BY DEF CInv
<1>1. ASSUME NEW p \in Instances
      PROVE  /\ pool[p] = "open" => idle[p] \cup Lent(p) = Embedders
             /\ idle[p] \cap Lent(p) = {}
             /\ \A c, d \in At(p, "using") : call[c].emb = call[d].emb => c = d
             /\ Lent(p) \cap shut[p] = {}
  <2>1. Lends(p) /\ idle[p] \subseteq Embedders
    BY <1>0 DEF CInv, CallsTypeOK
  <2>2. Lent(p) \subseteq Embedders
    BY <1>0 DEF Lent, At, Home
  <2> QED
    BY <2>1, <2>2 DEF Lends, Lent, At
<1>2. ASSUME NEW p \in Instances PROVE At(p, "store") # {} => p \in open
  BY <1>0 DEF Home, At
<1> QED
  BY <1>1, <1>2 DEF PoolWhole, NoUseAfterClose, StoreServedByOwner

THEOREM CallsInvariance == CallsSpec => []CInv
<1> QED
  BY CallsInitInv, StepCInv, PTL DEF CallsSpec

\* EmbedderPool.Get and Put lose no embedder and lend none twice, whoever times
\* out, dies or is stopped, for any number of processes, calls and embedders.
THEOREM EmbeddersKept == CallsSpec => []PoolWhole
<1> QED
  BY CallsInvariance, CInvSuffices, PTL

\* EmbedderPool.Close closes no embedder that a call still computes with.
THEOREM EmbeddersClosedIdle == CallsSpec => []NoUseAfterClose
<1> QED
  BY CallsInvariance, CInvSuffices, PTL

\* The service looks for its store before it serves a store call: no slave's
\* call is served by a process that does not have it open, also when processes
\* start and stop in any order.
THEOREM StoreCallsOwned == CallsSpec => []StoreServedByOwner
<1> QED
  BY CallsInvariance, CInvSuffices, PTL

-----------------------------------------------------------------------------
(* The calls and the pool only restrict what the processes of Instances do. *)

LEMMA StepsOfInstances ==
  ASSUME CInv, [CallsNext]_allVars
  PROVE  [Next]_vars
<1> USE DEF Next
<1>1. CASE UNCHANGED allVars
  BY <1>1 DEF allVars
<1>2. ASSUME NEW p \in Instances, Alone(p) PROVE Next
  BY <1>2 DEF Alone, opens, unlinks
<1>3. ASSUME NEW p \in Instances, Ends(p) PROVE Next
  BY <1>3 DEF Ends
<1>4. ASSUME NEW p \in Instances, StopApp(p) \/ NewEmbedderPool(p) \/ drain(p)
      PROVE  [Next]_vars
  BY <1>4 DEF StopApp, NewEmbedderPool, drain
<1>5. ASSUME NEW c \in Calls, NEW p \in Instances,
             callMaster(c, p) \/ cannotDial(c, p) \/ embedHere(c, p)
      PROVE  [Next]_vars
  <2>1. file \in listening => file \in Instances
    BY DEF CInv, CallsTypeOK, TypeOK
  <2> QED
    BY <1>5, <2>1 DEF callMaster, cannotDial, embedHere, EmbedTooEarly
<1>6. ASSUME NEW c \in Calls, crash(call[c].at), call[c].phase \in {"get", "using"}
      PROVE  Next
  <2>1. call[c].at \in Instances /\ main[call[c].at] # "off"
    BY <1>6 DEF CInv, Home, Active, Master, Loading
  <2> QED
    BY <1>6, <2>1 DEF crash, Die
<1>7. ASSUME NEW c \in Calls, Serving(c) \/ timeout(c) PROVE [Next]_vars
  BY <1>6, <1>7 DEF Serving, timeout, Get, cancelGet, Put, panics, storeReturns, processPath
<1> QED
  BY <1>1, <1>2, <1>3, <1>4, <1>5, <1>7 DEF CallsNext

\* The composition implements Instances: a panic of the pool or of an early
\* Embed is a death, and whatever is said of Instances holds with the calls.
THEOREM CallsImplementInstances == CallsSpec => Spec
<1>1. CallsInit => Init
  BY DEF CallsInit
<1> QED
  BY <1>1, CallsInvariance, StepsOfInstances, PTL DEF CallsSpec, Spec

\* With the calls and the pool, whose panics end masters too, the same holds of the
\* processes whose starts and stops have not met.
THEOREM OneMasterServesAll ==
  CallsSpec /\ History => [](MasterIsAlone /\ StoreIsOwned /\ MasterIsFound /\ ListenSucceeds)
<1> QED
  BY CallsImplementInstances, Invariance, IInvSuffices, PTL
=============================================================================

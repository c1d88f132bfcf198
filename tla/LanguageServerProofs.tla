------------------------ MODULE LanguageServerProofs ------------------------
(***************************************************************************)
(* One server process at a time, initialize before anything else, answers  *)
(* to whom they are due and no caller left behind, for any number of       *)
(* clients, patch checks, servers and messages and whatever the            *)
(* surroundings do.                                                        *)
(***************************************************************************)
EXTENDS PatchSafety, TLAPS

Operations == {"open", "call", "notify"}
Places == Operations \cup {"verify", "ensure", "initializing", "initialized", "waiting",
                           "notified", "answered", "failed", "verified"}
Message == [id : Nat, by : Clients]
Delivery == [id : Nat, by : Clients \cup {"server", "closed", "nobody"}]

LspTypeOK ==
    /\ cmd \in Servers \cup {0} /\ isStopping \in BOOLEAN
    /\ idCounter \in Nat /\ pending \in SUBSET Message
    /\ started \in Nat /\ alive \in SUBSET Servers
    /\ inbox \in [Servers -> SUBSET Message] /\ stdout \in [Servers -> SUBSET Message]
    /\ first \in [Servers -> {"nothing", "initialize"}]
    /\ reader \in [Servers -> {"none", "new", "reading", "ended"}]
    /\ stream \in [Servers -> Servers \cup {0}]
    /\ op \in [Clients -> Operations] /\ pc \in [Clients -> Places]
    /\ id \in [Clients -> Nat] /\ chan \in [Clients -> Delivery]
    /\ crashed \in BOOLEAN

\* The manager's server is the only one, was initialized, and has a read loop
\* that will see its end; a read loop that runs reads some server.
ServerInv ==
    /\ alive \subseteq {cmd}
    /\ \A k \in alive : first[k] = "initialize"
    /\ cmd # 0 => reader[cmd] \in {"new", "reading"}
    /\ isStopping => cmd = 0
    /\ \A k \in Servers : ~crashed /\ reader[k] = "reading" => stream[k] # 0

InFlight(m) == m \in pending \/ \E k \in Servers : m \in inbox[k] \/ m \in stdout[k]

\* Requests are numbered once.
NumberedOnce ==
    /\ \A m \in Message : InFlight(m) => m.id # 0 /\ m.id <= idCounter
    /\ \A m, n \in Message : InFlight(m) /\ InFlight(n) /\ m.id = n.id => m = n

\* What a client that waits is owed, and one that does not is not.
Owed(c) ==
    /\ ~Waiting(c) => chan[c] = Empty /\ id[c] = 0
    /\ Waiting(c) /\ chan[c] = Empty => Request(c, id[c]) \in pending /\ cmd # 0
    /\ chan[c] \notin {Empty, Closed} => chan[c].id = id[c] /\ chan[c].by \in {c, "server"}

LspInv == LspTypeOK /\ ServerInv /\ NumberedOnce /\ \A c \in Clients : Owed(c)

-----------------------------------------------------------------------------

LEMMA InitInv == Init => LspInv
<1> SUFFICES ASSUME Init PROVE LspInv
  OBVIOUS
<1> USE PatchSafetyAssumption DEF Init, LspInit
<1>1. LspTypeOK
  BY DEF LspTypeOK, Operations, Places, Delivery, Empty
<1>2. ServerInv
  BY DEF ServerInv
<1>3. NumberedOnce
  BY DEF NumberedOnce, InFlight
<1>4. ASSUME NEW c \in Clients PROVE Owed(c)
  BY DEF Owed, Waiting
<1> QED
  BY <1>1, <1>2, <1>3, <1>4 DEF LspInv

\* A client goes on elsewhere than to wait, and forgets the call it waited for.
LEMMA ClientMoves ==
  ASSUME LspInv, NEW c \in Clients,
         NEW where \in Places \ {"initializing", "waiting", "verify"},
         pc' = [pc EXCEPT ![c] = where],
         op' \in [Clients -> Operations],
         UNCHANGED <<manager, servers, reader, stream, crashed>>,
         forget(c) \/ (~Waiting(c) /\ UNCHANGED <<id, chan>>)
  PROVE  LspInv'
<1>0. LspTypeOK /\ \A d \in Clients : Owed(d)
  BY DEF LspInv
<1> USE DEF manager, servers
<1>1. LspTypeOK'
  BY <1>0 DEF LspTypeOK, forget, Delivery, Empty
<1>2. ServerInv'
  BY DEF LspInv, ServerInv
<1>3. NumberedOnce'
  BY DEF LspInv, NumberedOnce, InFlight
<1>4. ASSUME NEW d \in Clients PROVE Owed(d)'
  <2>1. CASE d = c
    <3>1. pc'[c] = where /\ id'[c] = 0 /\ chan'[c] = Empty
      BY <1>0 DEF LspTypeOK, forget, Owed
    <3> QED
      BY <2>1, <3>1 DEF Owed, Waiting
  <2>2. CASE d # c
    <3>1. pc'[d] = pc[d] /\ id'[d] = id[d] /\ chan'[d] = chan[d]
      BY <1>0, <2>2 DEF LspTypeOK, forget
    <3> QED
      BY <1>0, <3>1 DEF Owed, Waiting
  <2> QED
    BY <2>1, <2>2
<1> QED
  BY <1>1, <1>2, <1>3, <1>4 DEF LspInv

LEMMA GiveUpPlace ==
  ASSUME LspTypeOK, NEW c \in Clients, giveUp(c)
  PROVE  \E where \in {"notified", "failed"} : pc' = [pc EXCEPT ![c] = where]
BY DEF giveUp, goto

\* Steps of clients that write nothing.
LEMMA QuietClient ==
  ASSUME LspInv, NEW c \in Clients,
         \/ alreadyStarted(c) \/ cannotStart(c) \/ initializeReturns(c)
         \/ callReturns(c) \/ cancel(c)
  PROVE  LspInv'
<1>0. LspTypeOK
  BY DEF LspInv
<1>1. op[c] \in Places \ {"initializing", "waiting", "verify"}
  BY <1>0 DEF LspTypeOK, Operations, Places
<1>2. {"initialized", "failed", "answered", "notified"}
          \subseteq Places \ {"initializing", "waiting", "verify"}
  BY DEF Places
<1> USE <1>0, <1>1, <1>2, GiveUpPlace, ClientMoves DEF readers, at, goto
<1>3. CASE alreadyStarted(c)
  BY <1>3 DEF alreadyStarted, Waiting, LspTypeOK
<1>4. CASE cannotStart(c)
  BY <1>4 DEF cannotStart, Waiting, LspTypeOK
<1>5. CASE initializeReturns(c)
  BY <1>5 DEF initializeReturns, LspTypeOK
<1>6. CASE callReturns(c)
  BY <1>6 DEF callReturns, LspTypeOK
<1>7. CASE cancel(c)
  BY <1>7 DEF cancel, LspTypeOK
<1> QED
  BY <1>3, <1>4, <1>5, <1>6, <1>7

\* A notification goes to a server that was initialized before, or to none.
LEMMA NotifyKeeps ==
  ASSUME LspInv, NEW c \in Clients, notifyInitialized(c) \/ Notify(c)
  PROVE  LspInv' /\ first' = first
<1>0. LspTypeOK /\ ServerInv /\ ~Waiting(c) /\ \A d \in Clients : Owed(d)
  BY DEF LspInv, notifyInitialized, Notify, at, Waiting
<1>1. first' = first
  BY <1>0 DEF notifyInitialized, Notify, hear, ServerInv, LspTypeOK
<1>2. PICK where \in Places \ {"initializing", "waiting", "verify"} :
          pc' = [pc EXCEPT ![c] = where]
  BY <1>0 DEF notifyInitialized, Notify, panics, goto, giveUp, Places, Operations, LspTypeOK
<1>3. /\ UNCHANGED <<manager, started, alive, inbox, stdout, reader, stream, op, id, chan>>
      /\ ~crashed /\ crashed' \in BOOLEAN
  BY <1>0 DEF notifyInitialized, Notify, panics, readers, at, LspTypeOK
<1> USE DEF manager
<1>4. LspTypeOK'
  BY <1>0, <1>1, <1>2, <1>3 DEF LspTypeOK
<1>5. ServerInv'
  BY <1>0, <1>1, <1>3 DEF ServerInv
<1>6. NumberedOnce'
  BY <1>3 DEF LspInv, NumberedOnce, InFlight
<1>7. ASSUME NEW d \in Clients PROVE Owed(d)'
  BY <1>0, <1>2, <1>3 DEF Owed, Waiting, LspTypeOK
<1> QED
  BY <1>1, <1>4, <1>5, <1>6, <1>7 DEF LspInv

-----------------------------------------------------------------------------
(* Requests. *)

\* A request that is written has a number of its own.
LEMMA RequestSent ==
  ASSUME LspInv, NEW c \in Clients, NEW k,
         idCounter' = nextId,
         pending' = pending \cup {Request(c, nextId)},
         inbox' \in {inbox, [inbox EXCEPT ![k] = @ \cup {Request(c, nextId)}]},
         UNCHANGED stdout
  PROVE  /\ pending' \in SUBSET Message /\ inbox' \in [Servers -> SUBSET Message]
         /\ NumberedOnce'
<1>0. LspTypeOK /\ NumberedOnce
  BY DEF LspInv
<1> DEFINE r == Request(c, nextId)
<1>1. r \in Message /\ r.id = idCounter + 1 /\ idCounter' = idCounter + 1
  BY <1>0 DEF LspTypeOK, Request, Message, nextId
<1>2. pending' \in SUBSET Message /\ inbox' \in [Servers -> SUBSET Message]
  BY <1>0, <1>1 DEF LspTypeOK
<1>3. ASSUME NEW m \in Message, InFlight(m)' PROVE m = r \/ InFlight(m)
  <2>1. CASE inbox' = inbox
    BY <1>3, <2>1 DEF InFlight
  <2>2. CASE inbox' = [inbox EXCEPT ![k] = @ \cup {r}]
    BY <1>0, <1>3, <2>2 DEF InFlight, LspTypeOK
  <2> QED
    BY <2>1, <2>2
<1> HIDE DEF r
<1>4. NumberedOnce'
  <2>1. ASSUME NEW m \in Message, InFlight(m)' PROVE m.id # 0 /\ m.id <= idCounter'
    BY <1>0, <1>1, <1>3, <2>1 DEF NumberedOnce, LspTypeOK, Message
  <2>2. ASSUME NEW m \in Message, NEW n \in Message, InFlight(m)', InFlight(n)', m.id = n.id
        PROVE  m = n
    <3>1. \A x \in Message : InFlight(x) => x.id # r.id
      BY <1>0, <1>1 DEF NumberedOnce, LspTypeOK, Message
    <3> QED
      BY <1>0, <1>3, <2>2, <3>1 DEF NumberedOnce
  <2> QED
    BY <2>1, <2>2 DEF NumberedOnce
<1> QED
  BY <1>2, <1>4

\* callLocked, from a client that does not wait, to the manager's server.
LEMMA CallLockedKeeps ==
  ASSUME LspInv, NEW c \in Clients, ~Waiting(c), NEW k \in Servers, k = cmd',
         NEW what \in {"initialize", "request"}, NEW where \in {"initializing", "waiting"},
         k \in alive' => what = "initialize" \/ first[k] = "initialize",
         alive' \subseteq {k}, ServerInv', idCounter' = nextId,
         callLocked(c, k, what, where),
         isStopping' \in BOOLEAN, started' \in Nat,
         reader' \in [Servers -> {"none", "new", "reading", "ended"}],
         \A d \in Clients : Waiting(d) /\ chan[d] = Empty => cmd' = cmd,
         UNCHANGED <<stdout, stream, op, crashed>>
  PROVE  LspInv'
<1>0. LspTypeOK /\ NumberedOnce /\ \A d \in Clients : Owed(d)
  BY DEF LspInv
<1> cmd' # 0
  BY LanguageServerAssumption DEF Servers
<1>1. idCounter' = idCounter + 1 /\ idCounter' \in Nat
  BY <1>0 DEF nextId, LspTypeOK
<1>2. CASE k \in alive'
  <2> DEFINE r == Request(c, nextId)
  <2>1. /\ pending' = pending \cup {r} /\ id' = [id EXCEPT ![c] = nextId]
        /\ inbox' = [inbox EXCEPT ![k] = @ \cup {r}]
        /\ pc' = [pc EXCEPT ![c] = where] /\ chan' = chan /\ hear(k, what)
    BY <1>2 DEF callLocked, goto
  <2>2. /\ pending' \in SUBSET Message /\ inbox' \in [Servers -> SUBSET Message]
        /\ NumberedOnce'
    BY <2>1, RequestSent
  <2>3. first' \in [Servers -> {"nothing", "initialize"}]
    BY <1>0, <1>2, <2>1 DEF hear, LspTypeOK
  <2>4. LspTypeOK'
    <3>1. pc' \in [Clients -> Places] /\ id' \in [Clients -> Nat]
      BY <1>0, <2>1 DEF LspTypeOK, Places, nextId
    <3> QED
      BY <1>0, <1>1, <2>1, <2>2, <2>3, <3>1 DEF LspTypeOK
  <2>5. ASSUME NEW d \in Clients PROVE Owed(d)'
    <3>1. CASE d = c
      <4>1. chan'[c] = Empty /\ id'[c] = nextId /\ r \in pending' /\ pc'[c] = where
        BY <1>0, <2>1 DEF Owed, LspTypeOK
      <4> QED
        BY <3>1, <4>1 DEF Owed, Waiting
    <3>2. CASE d # c
      <4>1. chan'[d] = chan[d] /\ id'[d] = id[d] /\ pc'[d] = pc[d]
        BY <1>0, <2>1, <3>2 DEF LspTypeOK
      <4> QED
        BY <1>0, <2>1, <4>1 DEF Owed, Waiting
    <3> QED
      BY <3>1, <3>2
  <2> QED
    BY <2>2, <2>4, <2>5 DEF LspInv
<1>3. CASE k \notin alive'
  <2>1. giveUp(c) /\ UNCHANGED <<pending, id, inbox, first, chan>>
    BY <1>3 DEF callLocked
  <2>2. PICK elsewhere \in {"notified", "failed"} : pc' = [pc EXCEPT ![c] = elsewhere]
    BY <1>0, <2>1, GiveUpPlace
  <2>3. LspTypeOK'
    BY <1>0, <1>1, <1>3, <2>1, <2>2 DEF LspTypeOK, Places
  <2>4. NumberedOnce'
    BY <1>0, <1>1, <2>1 DEF NumberedOnce, InFlight, LspTypeOK, Message
  <2>5. ASSUME NEW d \in Clients PROVE Owed(d)'
    BY <1>0, <2>1, <2>2 DEF Owed, Waiting, LspTypeOK
  <2> QED
    BY <2>3, <2>4, <2>5 DEF LspInv
<1> QED
  BY <1>2, <1>3

LEMMA StartKeeps ==
  ASSUME LspInv, NEW c \in Clients, startServer(c)
  PROVE  LspInv'
<1> DEFINE k == started + 1
<1>0. LspTypeOK /\ ServerInv /\ \A d \in Clients : Owed(d)
  BY DEF LspInv
<1>1. cmd = 0 /\ alive = {} /\ ~Waiting(c)
  BY <1>0 DEF startServer, at, Waiting, ServerInv, LspTypeOK, Servers
<1>2. k \in Servers /\ k \in Nat /\ k # 0
  BY <1>0, LanguageServerAssumption DEF startServer, Servers, LspTypeOK
<1>3. /\ started' = k /\ cmd' = k /\ isStopping' = FALSE /\ alive' \subseteq {k}
      /\ reader' = [reader EXCEPT ![k] = "new"]
      /\ callLocked(c, k, "initialize", "initializing") /\ idCounter' = nextId
      /\ UNCHANGED <<stdout, stream, handlers, op, crashed>>
  BY <1>1 DEF startServer, callLocked
<1> HIDE DEF k
<1>4. ServerInv'
  <2>1. k \in alive' => first'[k] = "initialize"
    BY <1>0, <1>2, <1>3 DEF callLocked, hear, LspTypeOK
  <2> QED
    BY <1>0, <1>2, <1>3, <2>1 DEF ServerInv, LspTypeOK
<1>5. \A d \in Clients : ~(Waiting(d) /\ chan[d] = Empty)
  BY <1>0, <1>1 DEF Owed
<1>6. reader' \in [Servers -> {"none", "new", "reading", "ended"}]
  BY <1>0, <1>3 DEF LspTypeOK
<1> QED
  BY <1>1, <1>2, <1>3, <1>4, <1>5, <1>6, CallLockedKeeps

LEMMA CallKeeps ==
  ASSUME LspInv, NEW c \in Clients, Call(c)
  PROVE  LspInv'
<1>0. /\ LspTypeOK /\ ServerInv /\ NumberedOnce /\ ~Waiting(c) /\ ~crashed
      /\ \A d \in Clients : Owed(d)
  BY DEF LspInv, Call, at, Waiting
<1>1. UNCHANGED <<cmd, isStopping, started, alive, stdout, reader, stream, op>>
  BY DEF Call, readers
<1>2. CASE cmd # 0
  <2>1. cmd \in Servers /\ callLocked(c, cmd, "request", "waiting") /\ crashed' = crashed
    BY <1>0, <1>2 DEF Call, LspTypeOK
  <2>2. first' = first
    BY <1>0, <1>1, <2>1 DEF callLocked, hear, ServerInv, LspTypeOK
  <2>3. ServerInv' /\ (cmd \in alive => first[cmd] = "initialize") /\ alive' \subseteq {cmd}
    BY <1>0, <1>1, <2>1, <2>2 DEF ServerInv
  <2>4. idCounter' = nextId
    BY <2>1 DEF callLocked
  <2> QED
    BY <1>0, <1>1, <2>1, <2>3, <2>4, CallLockedKeeps DEF LspTypeOK
<1>3. CASE cmd = 0
  <2>1. /\ pc' = [pc EXCEPT ![c] = "failed"] /\ crashed' \in BOOLEAN
        /\ idCounter' = nextId /\ pending' = pending \cup {Request(c, nextId)}
        /\ UNCHANGED <<inbox, first, id, chan>>
    BY <1>3 DEF Call, panics, goto
  <2>2. pending' \in SUBSET Message /\ NumberedOnce'
    BY <1>1, <2>1, RequestSent
  <2>3. LspTypeOK'
    BY <1>0, <1>1, <2>1, <2>2 DEF LspTypeOK, nextId, Places
  <2>4. ServerInv'
    BY <1>0, <1>1, <2>1 DEF ServerInv
  <2>5. ASSUME NEW d \in Clients PROVE Owed(d)'
    BY <1>0, <1>1, <2>1 DEF Owed, Waiting, LspTypeOK
  <2> QED
    BY <2>2, <2>3, <2>4, <2>5 DEF LspInv
<1> QED
  BY <1>2, <1>3

-----------------------------------------------------------------------------
(* The goroutines and the servers. *)

\* A step that changes no request, no client and no server.
LEMMA ReadLoopStartsKeeps ==
  ASSUME LspInv, NEW k \in Servers, readLoopStarts(k)
  PROVE  LspInv'
<1>0. LspTypeOK /\ ServerInv /\ ~crashed
  BY DEF LspInv, readLoopStarts
<1> USE DEF readLoopStarts, manager, servers
<1>1. LspTypeOK'
  BY <1>0 DEF LspTypeOK
<1>2. ServerInv'
  BY <1>0 DEF ServerInv, LspTypeOK
<1>3. NumberedOnce'
  BY DEF LspInv, NumberedOnce, InFlight
<1>4. ASSUME NEW c \in Clients PROVE Owed(c)'
  BY DEF LspInv, Owed, Waiting
<1> QED
  BY <1>1, <1>2, <1>3, <1>4 DEF LspInv

\* An answer goes to the client whose request has its number.
LEMMA DeliverKeeps ==
  ASSUME LspInv, NEW n \in Nat, NEW b \in Clients \cup {"server"}, n # 0,
         b \in Clients => InFlight([id |-> n, by |-> b]),
         deliver([id |-> n, by |-> b]),
         stdout' \in [Servers -> SUBSET Message],
         \A j \in Servers : stdout'[j] \subseteq stdout[j],
         UNCHANGED <<cmd, isStopping, idCounter, started, alive, inbox, first, reader, stream,
                     op, pc, id, crashed>>
  PROVE  LspInv'
<1> DEFINE m == [id |-> n, by |-> b]
<1>0. LspTypeOK /\ NumberedOnce /\ \A d \in Clients : Owed(d)
  BY DEF LspInv
<1>1. m \in Delivery /\ m.id = n /\ m.by = b /\ m # Empty /\ m # Closed
  BY DEF Delivery, Empty, Closed
<1>2. pending' = {r \in pending : r.id # n} /\ pending' \in SUBSET Message
  BY <1>0 DEF deliver, LspTypeOK
<1>3. \A d \in Clients : chan'[d] =
          IF id[d] = n /\ Request(d, n) \in pending THEN m ELSE chan[d]
  BY DEF deliver
<1>4. LspTypeOK'
  <2>1. chan' \in [Clients -> Delivery]
    BY <1>0, <1>1 DEF deliver, LspTypeOK
  <2> QED
    BY <1>0, <1>2, <2>1 DEF LspTypeOK
<1>5. ServerInv'
  BY DEF LspInv, ServerInv
<1>6. NumberedOnce'
  BY <1>0, <1>2 DEF NumberedOnce, InFlight
<1>7. ASSUME NEW d \in Clients PROVE Owed(d)'
  <2>1. Owed(d)
    BY <1>0
  <2>2. CASE id[d] = n /\ Request(d, n) \in pending
    <3>1. Waiting(d)
      BY <2>1, <2>2 DEF Owed
    <3>2. Request(d, n) \in Message /\ Request(d, n).id = n /\ Request(d, n).by = d
      BY <1>0, <2>2 DEF LspTypeOK, Request
    <3>3. b \in Clients => m \in Message
      BY DEF Message
    <3>4. b \in Clients => b = d
      BY <1>0, <2>2, <3>2, <3>3, <1>1 DEF NumberedOnce, InFlight
    <3>5. b \in {d, "server"}
      BY <3>4
    <3>6. chan'[d] = m
      BY <1>3, <2>2
    <3>7. Waiting(d)'
      BY <3>1 DEF Waiting
    <3> HIDE DEF m
    <3> QED
      BY <1>1, <2>2, <3>5, <3>6, <3>7 DEF Owed
  <2>3. CASE ~(id[d] = n /\ Request(d, n) \in pending)
    <3>1. chan'[d] = chan[d]
      BY <1>3, <2>3
    <3>2. Waiting(d) /\ chan[d] = Empty => Request(d, id[d]) \in pending'
      BY <1>2, <2>1, <2>3 DEF Owed, Request
    <3> QED
      BY <2>1, <3>1, <3>2 DEF Owed, Waiting
  <2> QED
    BY <2>2, <2>3
<1> QED
  BY <1>4, <1>5, <1>6, <1>7 DEF LspInv

LEMMA ReadLoopKeeps ==
  ASSUME LspInv, NEW k \in Servers, readLoop(k)
  PROVE  LspInv'
<1>0. LspTypeOK /\ NumberedOnce /\ ServerInv /\ reader[k] = "reading" /\ ~crashed
  BY DEF LspInv, readLoop, reading
<1>1. stream[k] \in Servers
  BY <1>0 DEF LspTypeOK, ServerInv
<1>2. PICK m \in stdout[stream[k]] :
         /\ stdout' = [stdout EXCEPT ![stream[k]] = @ \ {m}]
         /\ deliver(m) \/ UNCHANGED <<pending, chan>>
  BY DEF readLoop
<1>3. UNCHANGED <<cmd, isStopping, idCounter, started, alive, inbox, first, reader, stream,
                  op, pc, id, crashed>>
  BY DEF readLoop, readers
<1>4. /\ stdout' \in [Servers -> SUBSET Message]
      /\ \A j \in Servers : stdout'[j] \subseteq stdout[j]
  BY <1>0, <1>2 DEF LspTypeOK
<1>5. m \in Message /\ InFlight(m)
  BY <1>0, <1>1 DEF LspTypeOK, InFlight
<1>6. CASE deliver(m)
  <2>1. m = [id |-> m.id, by |-> m.by] /\ m.id \in Nat /\ m.id # 0 /\ m.by \in Clients
    BY <1>0, <1>5 DEF Message, NumberedOnce
  <2> QED
    BY <1>3, <1>4, <1>5, <1>6, <2>1, DeliverKeeps
<1>7. CASE UNCHANGED <<pending, chan>>
  <2>1. LspTypeOK'
    BY <1>0, <1>3, <1>4, <1>7 DEF LspTypeOK
  <2>2. ServerInv'
    BY <1>0, <1>3 DEF ServerInv
  <2>3. NumberedOnce'
    BY <1>0, <1>3, <1>4, <1>7 DEF NumberedOnce, InFlight
  <2>4. ASSUME NEW c \in Clients PROVE Owed(c)'
    BY <1>3, <1>7 DEF LspInv, Owed, Waiting
  <2> QED
    BY <2>1, <2>2, <2>3, <2>4 DEF LspInv
<1> QED
  BY <1>2, <1>6, <1>7

LEMMA ServerRequestKeeps ==
  ASSUME LspInv, NEW k \in Servers, readServerRequest(k)
  PROVE  LspInv'
<1>1. PICK r \in pending : deliver(Request("server", r.id))
  BY DEF readServerRequest
<1>2. r.id \in Nat /\ r.id # 0
  BY DEF LspInv, LspTypeOK, NumberedOnce, InFlight, Message
<1>3. UNCHANGED <<cmd, isStopping, idCounter, servers, reader, stream, op, pc, id, crashed>>
  BY DEF readServerRequest, readers
<1>4. "server" \notin Clients
  BY LanguageServerAssumption
<1>5. deliver([id |-> r.id, by |-> "server"]) /\ stdout' \in [Servers -> SUBSET Message]
  BY <1>1, <1>3 DEF Request, servers, LspInv, LspTypeOK
<1> QED
  BY <1>2, <1>3, <1>4, <1>5, DeliverKeeps DEF servers

\* The manager drops its server: every request that waits sees its channel closed.
LEMMA CleanupKeeps ==
  ASSUME LspInv, NEW stop \in BOOLEAN, cleanupLocked(stop),
         reader' \in [Servers -> {"none", "new", "reading", "ended"}],
         \A k \in Servers : reader'[k] = "reading" => reader[k] = "reading",
         UNCHANGED <<idCounter, started, inbox, first, stdout, stream, op, pc, id, crashed>>
  PROVE  LspInv'
<1>0. LspTypeOK /\ NumberedOnce /\ ServerInv /\ \A d \in Clients : Owed(d)
  BY DEF LspInv
<1>1. cmd' = 0 /\ alive' = {} /\ pending' = {} /\ isStopping' = stop
  BY <1>0 DEF cleanupLocked, ServerInv
<1>2. \A c \in Clients : chan'[c] = IF Request(c, id[c]) \in pending THEN Closed ELSE chan[c]
  BY DEF cleanupLocked
<1>3. LspTypeOK'
  <2>1. Closed \in Delivery
    BY DEF Closed, Delivery
  <2>2. chan' \in [Clients -> Delivery]
    BY <1>0, <2>1 DEF cleanupLocked, LspTypeOK
  <2> QED
    BY <1>0, <1>1, <2>2 DEF LspTypeOK
<1>4. ServerInv'
  BY <1>0, <1>1 DEF ServerInv
<1>5. NumberedOnce'
  BY <1>0, <1>1 DEF NumberedOnce, InFlight
<1>6. ASSUME NEW c \in Clients PROVE Owed(c)'
  <2>1. Closed # Empty
    BY DEF Closed, Empty
  <2>2. Request(c, id[c]) \in pending => id[c] # 0
    BY <1>0 DEF NumberedOnce, InFlight, Request, LspTypeOK
  <2>3. Owed(c)
    BY <1>0
  <2>4. CASE Request(c, id[c]) \in pending
    BY <1>2, <2>1, <2>2, <2>3, <2>4 DEF Owed, Waiting
  <2>5. CASE Request(c, id[c]) \notin pending
    BY <1>2, <2>3, <2>5 DEF Owed, Waiting
  <2> QED
    BY <2>4, <2>5
<1> QED
  BY <1>3, <1>4, <1>5, <1>6 DEF LspInv

LEMMA DisconnectKeeps ==
  ASSUME LspInv, NEW k \in Servers, handleDisconnect(k)
  PROVE  LspInv'
<1>0. LspTypeOK /\ ServerInv /\ reader' = [reader EXCEPT ![k] = "ended"]
  BY DEF LspInv, handleDisconnect
<1>1. /\ reader' \in [Servers -> {"none", "new", "reading", "ended"}]
      /\ \A j \in Servers : reader'[j] = "reading" => reader[j] = "reading"
  BY <1>0 DEF LspTypeOK
<1>2. UNCHANGED <<idCounter, started, inbox, first, stdout, stream, op, pc, id, crashed>>
  BY DEF handleDisconnect
<1>3. CASE ~isStopping
  BY <1>1, <1>2, <1>3, CleanupKeeps DEF handleDisconnect
<1>4. CASE isStopping
  <2>1. UNCHANGED <<cmd, isStopping, pending, alive, chan>> /\ cmd = 0
    BY <1>0, <1>4 DEF handleDisconnect, ServerInv
  <2>2. LspTypeOK'
    BY <1>0, <1>1, <1>2, <2>1 DEF LspTypeOK
  <2>3. ServerInv'
    BY <1>0, <1>1, <1>2, <2>1 DEF ServerInv
  <2>4. NumberedOnce'
    BY <1>2, <2>1 DEF LspInv, NumberedOnce, InFlight
  <2>5. ASSUME NEW c \in Clients PROVE Owed(c)'
    BY <1>2, <2>1 DEF LspInv, Owed, Waiting
  <2> QED
    BY <2>2, <2>3, <2>4, <2>5 DEF LspInv
<1> QED
  BY <1>3, <1>4

LEMMA ServerKeeps ==
  ASSUME LspInv, NEW k \in Servers, serverAnswers(k) \/ serverExits(k)
  PROVE  LspInv'
<1>0. LspTypeOK /\ NumberedOnce /\ ServerInv
  BY DEF LspInv
<1>1. UNCHANGED <<manager, started, first, readers, op, pc, id, chan, crashed>>
  BY DEF serverAnswers, serverExits
<1>2. /\ alive' \subseteq alive
      /\ inbox' \in [Servers -> SUBSET Message] /\ stdout' \in [Servers -> SUBSET Message]
      /\ \A m \in Message : InFlight(m)' => InFlight(m)
  <2>1. CASE serverExits(k)
    BY <1>0, <1>1, <2>1 DEF serverExits, LspTypeOK, InFlight, manager
  <2>2. CASE serverAnswers(k)
    <3>1. PICK r \in inbox[k] : /\ inbox' = [inbox EXCEPT ![k] = @ \ {r}]
                                /\ stdout' = [stdout EXCEPT ![k] = @ \cup {r}]
      BY <2>2 DEF serverAnswers
    <3>2. r \in Message /\ alive' = alive
      BY <1>0, <2>2 DEF LspTypeOK, serverAnswers
    <3>3. inbox' \in [Servers -> SUBSET Message] /\ stdout' \in [Servers -> SUBSET Message]
      BY <1>0, <3>1, <3>2 DEF LspTypeOK
    <3>4. \A j \in Servers : inbox'[j] \subseteq inbox[j]
                             /\ stdout'[j] \subseteq stdout[j] \cup inbox[j]
      BY <1>0, <3>1 DEF LspTypeOK
    <3> QED
      BY <1>1, <3>2, <3>3, <3>4 DEF InFlight, manager
  <2> QED
    BY <2>1, <2>2
<1> USE DEF manager, readers
<1>3. LspTypeOK'
  BY <1>0, <1>1, <1>2 DEF LspTypeOK
<1>4. ServerInv'
  BY <1>0, <1>1, <1>2 DEF ServerInv
<1>5. NumberedOnce'
  BY <1>0, <1>1, <1>2 DEF NumberedOnce
<1>6. ASSUME NEW c \in Clients PROVE Owed(c)'
  BY <1>1 DEF LspInv, Owed, Waiting
<1> QED
  BY <1>3, <1>4, <1>5, <1>6 DEF LspInv

LEMMA LspStep ==
  ASSUME LspInv, LspNext
  PROVE  LspInv'
<1>1. ASSUME monitorTTL PROVE LspInv'
  <2>1. cleanupLocked(TRUE) /\ UNCHANGED readers
    BY <1>1 DEF monitorTTL
  <2>2. UNCHANGED <<idCounter, started, inbox, first, stdout, stream, op, pc, id, crashed>>
    BY <1>1 DEF monitorTTL, readers
  <2> QED
    BY <2>1, <2>2, CleanupKeeps DEF readers, LspInv, LspTypeOK
<1>2. ASSUME NEW c \in Clients, ClientStep(c) \/ cancel(c) PROVE LspInv'
  BY <1>2, QuietClient, StartKeeps, NotifyKeeps, CallKeeps DEF ClientStep
<1>3. ASSUME NEW k \in Servers,
             ReaderStep(k) \/ readServerRequest(k) \/ serverAnswers(k) \/ serverExits(k)
      PROVE  LspInv'
  BY <1>3, ReadLoopStartsKeeps, ReadLoopKeeps, DisconnectKeeps, ServerRequestKeeps,
     ServerKeeps DEF ReaderStep
<1> QED
  BY <1>1, <1>2, <1>3 DEF LspNext

-----------------------------------------------------------------------------
(* The checks of patches. *)

LEMMA CheckKeeps ==
  ASSUME LspInv, NEW v \in Checks, CheckStep(v)
  PROVE  LspInv'
<1>0. LspTypeOK /\ v \in Clients /\ {"ensure", "verified", "failed"} \subseteq
          Places \ {"initializing", "waiting", "verify"}
  BY PatchSafetyAssumption DEF LspInv, Places
<1> USE DEF at, goto, readers, patchVars
<1>1. CASE VerifyPatchIntegrity(v) \/ openNext(v) \/ timeout(v)
  <2>1. ~Waiting(v) /\ op' \in [Clients -> Operations] /\ UNCHANGED <<id, chan>>
    BY <1>0, <1>1 DEF VerifyPatchIntegrity, openNext, timeout, Waiting, LspTypeOK, Operations
  <2>2. UNCHANGED <<manager, servers, reader, stream, crashed>>
    BY <1>1 DEF VerifyPatchIntegrity, openNext, timeout
  <2>3. PICK where \in {"ensure", "failed"} : pc' = [pc EXCEPT ![v] = where]
    BY <1>1 DEF VerifyPatchIntegrity, openNext, timeout
  <2> QED
    BY <1>0, <2>1, <2>2, <2>3, ClientMoves
<1>2. CASE didOpen(v)
  BY <1>0, <1>2, NotifyKeeps DEF didOpen
<1>3. CASE diagnose(v)
  <2>1. /\ ~Waiting(v) /\ op' = op /\ UNCHANGED <<id, chan>>
        /\ UNCHANGED <<manager, servers, reader, stream, crashed>>
        /\ pc' = [pc EXCEPT ![v] = "verified"]
    BY <1>3 DEF diagnose, Waiting
  <2> QED
    BY <1>0, <2>1, ClientMoves DEF LspTypeOK
<1> QED
  BY <1>1, <1>2, <1>3 DEF CheckStep

LEMMA StutterKeeps ==
  ASSUME LspInv, UNCHANGED lspVars
  PROVE  LspInv'
BY DEF lspVars, manager, servers, readers, LspInv, LspTypeOK, ServerInv, NumberedOnce, InFlight,
       Owed, Waiting

LEMMA StepInv ==
  ASSUME LspInv, [Next]_vars
  PROVE  LspInv'
<1>1. ASSUME NEW k \in Servers, NEW v \in Checks, publishDiagnostics(k, v) PROVE LspInv'
  BY <1>1, StutterKeeps DEF publishDiagnostics
<1>2. CASE UNCHANGED vars
  BY <1>2, StutterKeeps DEF vars
<1> QED
  BY <1>1, <1>2, LspStep, CheckKeeps DEF Next

THEOREM LanguageServerInvariance == Spec => []LspInv
<1> QED
  BY InitInv, StepInv, PTL DEF Spec

-----------------------------------------------------------------------------

LEMMA InvSuffices ==
  ASSUME LspInv
  PROVE  OneServer /\ InitializeFirst /\ OwnAnswer /\ NoStrandedCall
<1>1. OneServer
  BY DEF LspInv, ServerInv, OneServer
<1>2. InitializeFirst
  BY DEF LspInv, LspTypeOK, InitializeFirst
<1>3. OwnAnswer
  BY DEF LspInv, Owed, OwnAnswer
<1>4. NoStrandedCall
  BY DEF LspInv, ServerInv, Owed, NoStrandedCall
<1> QED
  BY <1>1, <1>2, <1>3, <1>4

\* startServer, cleanupLocked and handleDisconnect leave no server process
\* running beside the manager's own, however many clients restart it.
THEOREM SingleServer == Spec => []OneServer
<1> QED
  BY LanguageServerInvariance, InvSuffices, PTL

\* Every server hears initialize before anything else, although callLocked
\* gives the mutex up while the answer is awaited.
THEOREM Initialized == Spec => []InitializeFirst
<1> QED
  BY LanguageServerInvariance, InvSuffices, PTL

\* readLoop gives an answer to the request it is for: numbers are never used
\* twice, over restarts, cancelled requests and messages torn apart.
THEOREM AnswersMatched == Spec => []OwnAnswer
<1> QED
  BY LanguageServerInvariance, InvSuffices, PTL

\* A request that waits is known to the manager, whose server has a read loop
\* that has not ended: cleanupLocked closes the channels of all the others.
THEOREM NobodyStranded == Spec => []NoStrandedCall
<1> QED
  BY LanguageServerInvariance, InvSuffices, PTL
=============================================================================

--------------------------- MODULE LanguageServer ---------------------------
(***************************************************************************)
(* One lsp.Manager (internal/lsp/client.go): the processes it starts, its  *)
(* pending requests, the read loop of each process, the idle monitor, and  *)
(* the tools that use it.  The mutex is held for whole steps; callLocked   *)
(* gives it up while it waits, and that is where other clients come in.    *)
(*                                                                         *)
(* Servers are numbered in the order they are started; 0 is no server.     *)
(* A request is known by its number and its sender, and its answer repeats *)
(* both.  Results, errors in answers and message texts are left out.       *)
(***************************************************************************)
EXTENDS Naturals, FiniteSets

CONSTANTS
    Clients,     \* tool requests that use the manager, one operation each
    MaxServers,  \* bound on the servers started
    Env          \* what the surroundings may do, a subset of EnvKinds

\* "exit"   a server ends by itself      "idle"   monitorTTL ends it
\* "cancel" a request's context ends     "start"  no server can be started
\* "ask"    a server sends requests of its own
EnvKinds == {"exit", "idle", "cancel", "start", "ask"}

ASSUME LanguageServerAssumption ==
    /\ Clients \cap {"server", "closed", "nobody"} = {}
    /\ MaxServers \in Nat
    /\ Env \subseteq EnvKinds

VARIABLES
    cmd,        \* the server of m.cmd, m.stdin and m.stdout, or 0
    isStopping,
    pending,    \* m.pending: the requests that have a channel
    idCounter,
    started,    \* how many servers were started
    alive,      \* the server processes that run
    inbox,      \* per server: the requests it has not answered
    first,      \* per server: the first message it was sent
    stdout,     \* per server: the answers it wrote and nobody has read
    reader,     \* per server: the readLoop started with it
    stream,     \* per readLoop: the server whose stdout it reads
    handlers,   \* m.handlers: who registered for notifications
    op, pc, id, chan,   \* per client: operation, phase, request, channel
    crashed     \* a nil pointer was used and nothing recovered the panic

manager == <<cmd, isStopping, pending, idCounter>>
servers == <<started, alive, inbox, first, stdout>>
readers == <<reader, stream, handlers>>
lspVars == <<manager, servers, readers, op, pc, id, chan, crashed>>

Servers == 1..MaxServers

Request(c, n) == [id |-> n, by |-> c]
Closed == [id |-> 0, by |-> "closed"]
Empty  == [id |-> 0, by |-> "nobody"]

LspInit ==
    /\ cmd = 0 /\ isStopping = FALSE /\ pending = {} /\ idCounter = 0
    /\ started = 0 /\ alive = {}
    /\ inbox = [k \in Servers |-> {}]
    /\ first = [k \in Servers |-> "nothing"]
    /\ stdout = [k \in Servers |-> {}]
    /\ reader = [k \in Servers |-> "none"]
    /\ stream = [k \in Servers |-> 0]
    /\ handlers = {}
    /\ id = [c \in Clients |-> 0]
    /\ chan = [c \in Clients |-> Empty]
    /\ crashed = FALSE

-----------------------------------------------------------------------------
(* What the locked sections are made of.                                   *)

\* A crash stops every goroutine.
at(c, where) == ~crashed /\ pc[c] = where
reading(k) == ~crashed /\ reader[k] = "reading"

goto(c, where) == pc' = [pc EXCEPT ![c] = where]

\* A failed EnsureStarted or request ends the operation; the caller of Notify
\* ignores its error.
giveUp(c) == goto(c, IF op[c] = "notify" THEN "notified" ELSE "failed")

\* The first message of a server is remembered.
hear(k, what) == first' = [first EXCEPT ![k] = IF @ = "nothing" THEN what ELSE @]

\* A call on the nil stdin: net/http recovers the panic, the stdio server does not.
panics(c) == crashed' \in BOOLEAN /\ goto(c, "failed")

\* mutant: the requests of the old server wait on for the new one
cleanupKeepsPending(stop) ==
    /\ alive' = alive \ {cmd}
    /\ cmd' = 0
    /\ isStopping' = stop
    /\ UNCHANGED <<pending, chan>>

\* mutant: the process is forgotten, not killed
cleanupKillsNothing(stop) ==
    /\ alive' = alive
    /\ cmd' = 0
    /\ isStopping' = stop
    /\ pending' = {}
    /\ chan' = [c \in Clients |-> IF Request(c, id[c]) \in pending THEN Closed ELSE chan[c]]

\* The process is killed and every pending request sees its channel closed.
cleanupLocked(stop) ==
    /\ alive' = alive \ {cmd}
    /\ cmd' = 0
    /\ isStopping' = stop
    /\ pending' = {}
    /\ chan' = [c \in Clients |-> IF Request(c, id[c]) \in pending THEN Closed ELSE chan[c]]

\* mutant: a request is numbered by those that wait
nextIdOfPending == Cardinality(pending) + 1

nextId == idCounter + 1

\* callLocked up to its Unlock, for server k: the request has a channel before
\* it is written, and loses it when the server is gone.
callLocked(c, k, what, where) ==
    LET request == Request(c, nextId)
    IN  /\ idCounter' = nextId
        /\ IF k \in alive'
           THEN /\ pending' = pending \cup {request}
                /\ id' = [id EXCEPT ![c] = nextId]
                /\ inbox' = [inbox EXCEPT ![k] = @ \cup {request}]
                /\ hear(k, what)
                /\ goto(c, where)
           ELSE giveUp(c) /\ UNCHANGED <<pending, id, inbox, first>>
        /\ UNCHANGED chan

-----------------------------------------------------------------------------
(* EnsureStarted, as Call and Notify begin with it.                        *)

alreadyStarted(c) ==
    /\ at(c, "ensure") /\ cmd # 0
    /\ goto(c, op[c])
    /\ UNCHANGED <<manager, servers, readers, op, id, chan, crashed>>

\* Memory pressure, or a command that cannot be executed.
cannotStart(c) ==
    /\ at(c, "ensure") /\ cmd = 0
    /\ "start" \in Env
    /\ giveUp(c)
    /\ UNCHANGED <<manager, servers, readers, op, id, chan, crashed>>

\* mutant: the server is used without the handshake
startUninitialized(c) ==
    /\ at(c, "ensure") /\ cmd = 0
    /\ started < MaxServers
    /\ LET k == started + 1
       IN  /\ started' = k /\ cmd' = k /\ isStopping' = FALSE
           /\ alive' = alive \cup {k}
           /\ reader' = [reader EXCEPT ![k] = "new"]
           /\ goto(c, op[c])
    /\ UNCHANGED <<pending, idCounter, inbox, first, stdout, stream, handlers,
                   op, id, chan, crashed>>

\* The server may be gone before initialize is written; m.cmd stays set then.
startServer(c) ==
    /\ at(c, "ensure") /\ cmd = 0
    /\ started < MaxServers
    /\ LET k == started + 1
       IN  /\ started' = k /\ cmd' = k /\ isStopping' = FALSE
           /\ \/ alive' = alive \cup {k}
              \/ "exit" \in Env /\ alive' = alive
           /\ reader' = [reader EXCEPT ![k] = "new"]
           /\ callLocked(c, k, "initialize", "initializing")
    /\ UNCHANGED <<stdout, stream, handlers, op, crashed>>

\* The call is over: its channel is garbage.
forget(c) ==
    /\ id' = [id EXCEPT ![c] = 0]
    /\ chan' = [chan EXCEPT ![c] = Empty]

\* A closed channel and a message without a result are errors.
initializeReturns(c) ==
    /\ at(c, "initializing") /\ chan[c] # Empty
    /\ IF chan[c] = Closed \/ chan[c].by = "server" THEN giveUp(c) ELSE goto(c, "initialized")
    /\ forget(c)
    /\ UNCHANGED <<manager, servers, readers, op, crashed>>

\* With the mutex again, notifyLocked writes to the server there is now.
notifyInitialized(c) ==
    /\ at(c, "initialized")
    /\ IF cmd = 0 THEN panics(c) /\ UNCHANGED first
       ELSE /\ IF cmd \in alive THEN hear(cmd, "initialized") /\ goto(c, op[c])
                                ELSE UNCHANGED first /\ giveUp(c)
            /\ UNCHANGED crashed
    /\ UNCHANGED <<manager, started, alive, inbox, stdout, readers, op, id, chan>>

-----------------------------------------------------------------------------
(* Call and Notify, once EnsureStarted has given the mutex up.             *)

\* On the nil stdin the request's channel is left behind.
Call(c) ==
    /\ at(c, "call")
    /\ IF cmd = 0
       THEN /\ panics(c)
            /\ idCounter' = nextId
            /\ pending' = pending \cup {Request(c, nextId)}
            /\ UNCHANGED <<inbox, first, id, chan>>
       ELSE /\ alive' = alive
            /\ callLocked(c, cmd, "request", "waiting")
            /\ UNCHANGED crashed
    /\ UNCHANGED <<cmd, isStopping, started, alive, stdout, readers, op>>

callReturns(c) ==
    /\ at(c, "waiting") /\ chan[c] # Empty
    /\ goto(c, IF chan[c] = Closed \/ chan[c].by = "server" THEN "failed" ELSE "answered")
    /\ forget(c)
    /\ UNCHANGED <<manager, servers, readers, op, crashed>>

\* ctx.Done in callLocked: the request keeps its channel in pending.
cancel(c) ==
    /\ "cancel" \in Env
    /\ at(c, "initializing") \/ at(c, "waiting")
    /\ giveUp(c)
    /\ forget(c)
    /\ UNCHANGED <<manager, servers, readers, op, crashed>>

\* The step of a client that notifies: LspNext leaves it to the module that
\* knows what the notification tells the server.
Notify(c) ==
    /\ at(c, "notify")
    /\ IF cmd = 0 THEN panics(c) /\ UNCHANGED first
       ELSE /\ IF cmd \in alive THEN hear(cmd, "notice") ELSE UNCHANGED first
            /\ goto(c, "notified") /\ UNCHANGED crashed
    /\ UNCHANGED <<manager, started, alive, inbox, stdout, readers, op, id, chan>>

-----------------------------------------------------------------------------
(* The goroutines.                                                         *)

\* readLoop takes m.stdout when it first runs, without the mutex: it may find
\* the next server's, or none.
readLoopStarts(k) ==
    /\ ~crashed /\ reader[k] = "new"
    /\ reader' = [reader EXCEPT ![k] = "reading"]
    /\ stream' = [stream EXCEPT ![k] = cmd]
    /\ crashed' = (cmd = 0)
    /\ UNCHANGED <<manager, servers, handlers, op, pc, id, chan>>

Shared(k) == \E j \in Servers \ {k} : reader[j] = "reading" /\ stream[j] = stream[k]

\* A message with an id is taken for the answer to the request of that number.
deliver(m) ==
    /\ pending' = {r \in pending : r.id # m.id}
    /\ chan' = [c \in Clients |->
                    IF id[c] = m.id /\ Request(c, m.id) \in pending THEN m ELSE chan[c]]

\* Two loops on one stream tear its messages apart.
readLoop(k) ==
    /\ reading(k)
    /\ \E m \in stdout[stream[k]] :
          /\ stdout' = [stdout EXCEPT ![stream[k]] = @ \ {m}]
          /\ \/ deliver(m)
             \/ Shared(k) /\ UNCHANGED <<pending, chan>>
    /\ UNCHANGED <<cmd, isStopping, idCounter, started, alive, inbox, first, readers,
                   op, pc, id, crashed>>

\* A request of the server's own, such as client/registerCapability, has the
\* number of a request that waits.  Such messages, and notifications, may lie
\* in the stream for any time and are chosen when they are read.
readServerRequest(k) ==
    /\ "ask" \in Env
    /\ reading(k)
    /\ \E r \in pending : deliver(Request("server", r.id))
    /\ UNCHANGED <<cmd, isStopping, idCounter, servers, readers, op, pc, id, crashed>>

\* A notification is read and one of its handlers, each in a goroutine of its
\* own, comes to run.
notifies(k, h) == reading(k) /\ h \in handlers

\* The stream has ended: unless the manager is stopping, whatever server it has
\* now is taken for the one that ended.
handleDisconnect(k) ==
    /\ reading(k)
    /\ stream[k] \notin alive /\ stdout[stream[k]] = {}
    /\ reader' = [reader EXCEPT ![k] = "ended"]
    /\ IF isStopping THEN UNCHANGED <<cmd, isStopping, pending, alive, chan>>
                     ELSE cleanupLocked(FALSE)
    /\ UNCHANGED <<idCounter, started, inbox, first, stdout, stream, handlers,
                   op, pc, id, crashed>>

\* Ten minutes after the last use, no client is just about to write and every
\* read loop has long begun.
monitorTTL ==
    /\ "idle" \in Env
    /\ ~crashed /\ cmd # 0
    /\ \A c \in Clients : pc[c] \notin {"initialized", "call", "notify"}
    /\ \A k \in Servers : reader[k] # "new"
    /\ cleanupLocked(TRUE)
    /\ UNCHANGED <<idCounter, started, inbox, first, stdout, readers, op, pc, id, crashed>>

-----------------------------------------------------------------------------
(* The servers, as the protocol lets them behave.                          *)

serverAnswers(k) ==
    /\ k \in alive
    /\ \E r \in inbox[k] :
          /\ inbox' = [inbox EXCEPT ![k] = @ \ {r}]
          /\ stdout' = [stdout EXCEPT ![k] = @ \cup {r}]
    /\ UNCHANGED <<manager, started, alive, first, readers, op, pc, id, chan, crashed>>

serverExits(k) ==
    /\ "exit" \in Env
    /\ k \in alive
    /\ alive' = alive \ {k}
    /\ UNCHANGED <<manager, started, inbox, first, stdout, readers, op, pc, id, chan, crashed>>

-----------------------------------------------------------------------------

ClientStep(c) ==
    \/ alreadyStarted(c) \/ cannotStart(c) \/ startServer(c)
    \/ initializeReturns(c) \/ notifyInitialized(c)
    \/ Call(c) \/ callReturns(c)

ReaderStep(k) == readLoopStarts(k) \/ readLoop(k) \/ handleDisconnect(k)

LspNext ==
    \/ \E c \in Clients : ClientStep(c) \/ cancel(c)
    \/ \E k \in Servers : ReaderStep(k) \/ readServerRequest(k)
                         \/ serverAnswers(k) \/ serverExits(k)
    \/ monitorTTL

-----------------------------------------------------------------------------

Waiting(c) == pc[c] \in {"initializing", "waiting"}

\* startServer runs only while m.cmd is nil, and m.cmd becomes nil only where
\* the process is killed: every server process that runs is the one the
\* manager talks to, so restarts and late disconnects leave none behind.
OneServer == alive \subseteq {cmd}

\* EnsureStarted keeps the mutex until initialize is written, so whichever
\* clients start, restart and use the server, it hears initialize first.
InitializeFirst == \A k \in Servers : first[k] \in {"nothing", "initialize"}

\* An answer reaches the request it is for: one of an earlier server, or to a
\* request given up, is not taken for it.  (A request of the server's own
\* with the same number is: readLoop does not tell it apart.)
OwnAnswer ==
    \A c \in Clients : chan[c] \notin {Empty, Closed} =>
        chan[c].id = id[c] /\ chan[c].by \in {c, "server"}

\* A request that waits has its channel in pending, and the read loop of the
\* current server has not ended: an answer or a disconnect will reach it.
NoStrandedCall ==
    \A c \in Clients : Waiting(c) /\ chan[c] = Empty =>
        /\ Request(c, id[c]) \in pending
        /\ cmd # 0 /\ reader[cmd] \in {"new", "reading"}
=============================================================================

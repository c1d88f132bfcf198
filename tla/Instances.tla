----------------------------- MODULE Instances -----------------------------
(***************************************************************************)
(* The processes of one data directory (main.go, internal/daemon): each    *)
(* tries to become the master, which listens on the Unix socket and owns   *)
(* the models and the store, and is a slave of the one there is otherwise. *)
(* What they share is the socket's path in the file system, which every    *)
(* one of them may create and remove.                                      *)
(*                                                                         *)
(* A process dies at any point; the file it listened on stays.  That a     *)
(* signal stops a process which has no master server yet, that its Init    *)
(* fails, or that -index is done are deaths too: nothing is closed.        *)
(***************************************************************************)
CONSTANTS
    Instances,   \* the processes, by who starts them; one may start again
    NoFile       \* nothing is at the socket's path

ASSUME NoFileAssumption == NoFile \notin Instances

VARIABLES
    file,        \* the instance whose listener made the file at the path
    main,        \* instance -> how far its main goroutine has come
    stop,        \* instance -> how far its App.Stop has come
    listening,   \* the instances with an open listener
    open         \* the instances that have the store open

vars == <<file, main, stop, listening, open>>

Starting == {"dial", "remove", "listen"}      \* in StartMasterServer
Loading == {"load", "update"}                 \* Service.Embedder is nil
Master == Loading \cup {"ready"}

Init ==
    /\ file = NoFile
    /\ main = [p \in Instances |-> "off"]
    /\ stop = [p \in Instances |-> "no"]
    /\ listening = {} /\ open = {}

goto(p, pc) == main' = [main EXCEPT ![p] = pc]
stopAt(p, pc) == stop' = [stop EXCEPT ![p] = pc]

Start(p) ==
    /\ main[p] = "off"
    /\ goto(p, "dial")
    /\ UNCHANGED <<file, stop, listening, open>>

-----------------------------------------------------------------------------
(* StartMasterServer. *)

\* mutant: nobody is asked
nobody == FALSE

\* A connection to the path succeeds.
answers == file \in listening

Dial(p) ==
    /\ main[p] = "dial"
    /\ goto(p, IF answers THEN "slave" ELSE "remove")
    /\ UNCHANGED <<file, stop, listening, open>>

\* mutant: the stale file stays
keepFile == file

emptied == NoFile

RemoveStale(p) ==
    /\ main[p] = "remove"
    /\ file' = emptied
    /\ goto(p, "listen")
    /\ UNCHANGED <<stop, listening, open>>

Gone(p) ==
    /\ main' = [main EXCEPT ![p] = "off"]
    /\ stop' = [stop EXCEPT ![p] = "no"]
    /\ listening' = listening \ {p}
    /\ open' = open \ {p}
    /\ UNCHANGED file

\* When the address is in use initDaemon fails for good, not as a slave.
Listen(p) ==
    /\ main[p] = "listen"
    /\ IF file = NoFile
       THEN /\ file' = p
            /\ listening' = listening \cup {p}
            /\ goto(p, "load")
            /\ UNCHANGED <<stop, open>>
       ELSE Gone(p)

-----------------------------------------------------------------------------
(* initModelsAndEmbedder, and the calls of slaves. *)

\* mutant: getStore opens the store for whoever asks
anyone == Master \cup {"slave"}

mayOpen == Master

getStore(p) ==
    /\ main[p] \in mayOpen
    /\ open' = open \cup {p}
    /\ main' = IF main[p] = "load" THEN [main EXCEPT ![p] = "update"] ELSE main
    /\ UNCHANGED <<file, stop, listening>>

\* UpdateStore with it; without a store the service's calls return an error.
UpdateEmbedder(p) ==
    /\ main[p] = "update"
    /\ goto(p, "ready")
    /\ UNCHANGED <<file, stop, listening, open>>

\* A slave's Embed reaches the master before it has an embedder: the nil
\* interface panics in a goroutine of net/rpc and the process dies.  (Any
\* other call changes nothing here.)
EmbedTooEarly(s, m) ==
    /\ main[s] = "slave" /\ file = m /\ m \in listening
    /\ main[m] \in Loading
    /\ Gone(m)

-----------------------------------------------------------------------------
(* App.Stop, in the goroutine of the signal handler: main goes on. *)

\* mutant: a slave closes a master server too
everyone == Master \cup {"slave"}

hasMasterServer == Master

Stop(p) ==
    /\ main[p] \in Master \cup {"slave"} /\ stop[p] = "no"
    /\ stopAt(p, IF main[p] \in hasMasterServer THEN "unlink" ELSE "exit")
    /\ UNCHANGED <<file, main, listening, open>>

\* MasterServer.Close: Go's listener removes the file and then closes, and
\* Close removes what is at the path once more.
unlink(p) ==
    /\ stop[p] \in {"unlink", "removeAgain"}
    /\ file' = NoFile
    /\ stopAt(p, IF stop[p] = "unlink" THEN "close" ELSE "exit")
    /\ UNCHANGED <<main, listening, open>>

closeListener(p) ==
    /\ stop[p] = "close"
    /\ listening' = listening \ {p}
    /\ stopAt(p, "removeAgain")
    /\ UNCHANGED <<file, main, open>>

Die(p) == main[p] # "off" /\ Gone(p)

Next ==
    \E p \in Instances :
        \/ Start(p) \/ Dial(p) \/ RemoveStale(p) \/ Listen(p)
        \/ getStore(p) \/ UpdateEmbedder(p)
        \/ \E s \in Instances : EmbedTooEarly(s, p)
        \/ Stop(p) \/ unlink(p) \/ closeListener(p) \/ Die(p)

Spec == Init /\ [][Next]_vars

-----------------------------------------------------------------------------
(* Properties. *)

TypeOK ==
    /\ file \in Instances \cup {NoFile}
    /\ main \in [Instances -> {"off", "slave"} \cup Starting \cup Master]
    /\ stop \in [Instances -> {"no", "unlink", "close", "removeAgain", "exit"}]
    /\ listening \in SUBSET Instances /\ open \in SUBSET Instances

\* The three below are what is said of the code, and they do not hold: nothing
\* makes the starts and stops of processes wait for one another.  (OneMaster has
\* what does hold.)

\* StartMasterServer detects an existing master: no two processes listen.
AtMostOneMaster == \A p, q \in listening : p = q

\* What StartMasterServer removes is the file of a master that is gone.
OnlyStaleRemoved == \A p \in Instances : main[p] = "remove" => ~answers

\* Writing is for the master only: a process that has closed its listener has
\* given up the store before another one opens it.
StoreHandedOver == \A p \in open \ listening : open = {p}
=============================================================================

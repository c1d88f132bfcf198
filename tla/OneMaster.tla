----------------------------- MODULE OneMaster -----------------------------
(***************************************************************************)
(* When the processes of a data directory have one master.  Nothing in the *)
(* code makes starts and stops wait for one another; whether any of them   *)
(* met is not in the program's state: it is a history variable added here. *)
(***************************************************************************)
EXTENDS Instances

VARIABLE contested    \* starts and stops have met, and somebody who was there is left

\* The processes that are masters or will not ask again whether there is one.
Contenders == {p \in Instances : main[p] \in {"remove", "listen"} \cup Master}

\* p is past its dial and does not listen yet, or is being stopped.
Passing(p) == main[p] \in {"remove", "listen"} \/ (main[p] \in Master /\ stop[p] # "no")

\* In this step a process dials in vain while another one is passing.
Meet ==
    \E p, q \in Instances :
        /\ p # q /\ Passing(q)
        /\ main[p] = "dial" /\ main'[p] = "remove"

ContestedNext == contested' = (Meet \/ (contested /\ Contenders' # {}))

OneMasterInit == Init /\ contested = FALSE
OneMasterNext == Next /\ ContestedNext
OneMasterSpec == OneMasterInit /\ [][OneMasterNext]_<<vars, contested>>

\* Unless a start met another start or a stop, no two processes listen, wherever
\* processes die: StartMasterServer finds every master that lives, and what a dead
\* one left at the path it does not take for one.  When all who met are gone, that
\* is so again.
MasterIsAlone == ~contested => \A p, q \in listening : p = q

\* And then no two processes have the store open, also not while one of them is on
\* its way out and Stop and main run side by side.
StoreIsOwned == ~contested => \A p, q \in open : p = q

\* And then nobody else's start or stop takes away the socket of a master that
\* nobody has stopped: slaves can dial it.
MasterIsFound == ~contested => \A p \in listening : stop[p] = "no" => file = p

\* And the path is free when a process is about to listen on it, so that a start
\* ends as master or as slave and never fails.
ListenSucceeds ==
    ~contested => ((\E p \in Instances : main[p] = "listen") => file = NoFile)
=============================================================================

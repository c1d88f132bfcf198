---------------------------- MODULE WatchedTree ----------------------------
(***************************************************************************)
(* Which directories the file watcher watches (internal/watcher/           *)
(* watcher.go), while directories come and go and set_project_root         *)
(* (internal/mcp/handlers_context.go) moves it to another root.  Only the  *)
(* goroutine of Start touches the watches.  A watched directory reports    *)
(* the directories made in it, in order; what the debounce makes of the    *)
(* events of files is in IndexPipeline.                                    *)
(***************************************************************************)
EXTENDS Naturals, Sequences

CONSTANTS
    Dirs, Roots, Ignored,    \* directories; those that become a project's root
    Parent,                  \* directory -> the one it is in, or itself
    NoRoot,
    MaxSteps                 \* how often the tree or the root is changed

ASSUME WatchedTreeAssumption ==
    /\ Roots \subseteq Dirs /\ Ignored \subseteq Dirs
    /\ Parent \in [Dirs -> Dirs] /\ NoRoot \notin Dirs /\ MaxSteps \in Nat

VARIABLES
    dirs,           \* the directories there are
    watched,        \* those fsnotify watches
    telling,        \* the roots that were set and are not sent to the watcher yet
    resetChan,      \* watcherResetChan, with room for one
    events,         \* the creations fsnotify has to report
    watcher,        \* currentRoot, and what its walk has still to enter and to list
    steps

treeVars == <<dirs, watched, telling, resetChan, events, watcher, steps>>

\* Of a walk that has just begun.
walking(root, from) == [root |-> root, enter |-> from, list |-> {}]

Unwatched == watched = {} /\ telling = {} /\ resetChan = NoRoot /\ events = <<>> /\ steps = 0

\* Start resets the watcher to the root of the configuration.
TreeInit ==
    /\ dirs \in {D \in SUBSET Dirs : Roots \subseteq D /\ \A d \in D : Parent[d] \in D}
    /\ \E r \in Roots : watcher = walking(r, {r})
    /\ Unwatched

\* No watcher was started.
TreeIdle == dirs = Roots /\ watcher = walking(NoRoot, {}) /\ Unwatched

Children(d) == {c \in Dirs \ {d} : Parent[c] = d}

\* What a walk from r comes by: it enters no ignored directory.  That is what
\* is in every set of directories that has r and goes on down.
Below == [r \in Dirs |->
    {d \in Dirs : \A C \in SUBSET Dirs :
        {r} \ Ignored \subseteq C /\ (\A e \in C : Children(e) \ Ignored \subseteq C) => d \in C}]

Visible(root) == dirs \cap Below[root]

change == steps < MaxSteps /\ steps' = steps + 1

makeDir(d) ==
    /\ change
    /\ d \notin dirs /\ Parent[d] \in dirs
    /\ dirs' = dirs \cup {d}
    /\ events' = IF Parent[d] \in watched THEN Append(events, d) ELSE events
    /\ UNCHANGED <<watched, telling, resetChan, watcher>>

\* With a directory its watch goes.
removeDir(d) ==
    /\ change
    /\ d \in dirs \ Roots /\ Children(d) \cap dirs = {}
    /\ dirs' = dirs \ {d} /\ watched' = watched \ {d}
    /\ UNCHANGED <<telling, resetChan, events, watcher>>

\* The root of the configuration is changed, and then the watcher is told if
\* the channel has room.
handleSetProjectRoot(r) ==
    /\ change
    /\ telling' = telling \cup {r}
    /\ UNCHANGED <<dirs, watched, resetChan, events, watcher>>

signal(r) ==
    /\ r \in telling
    /\ telling' = telling \ {r}
    /\ resetChan' = IF resetChan = NoRoot THEN r ELSE resetChan
    /\ UNCHANGED <<dirs, watched, events, watcher, steps>>

-----------------------------------------------------------------------------
(* The goroutine of Start. *)

atSelect == watcher.root # NoRoot /\ watcher.enter = {} /\ watcher.list = {}

resetWatcher ==
    /\ atSelect /\ resetChan # NoRoot
    /\ watched' = watched \ Visible(watcher.root)
    /\ watcher' = walking(resetChan, {resetChan})
    /\ resetChan' = NoRoot
    /\ UNCHANGED <<dirs, telling, events, steps>>

\* A directory that was made is watched with all that is in it by now, if it
\* still is there and is not an ignored one.
dirCreated ==
    /\ atSelect /\ events # <<>>
    /\ events' = Tail(events)
    /\ watcher' = walking(watcher.root, {Head(events)} \cap (dirs \ Ignored))
    /\ UNCHANGED <<dirs, watched, telling, resetChan, steps>>

\* mutant: what is in a directory that was just made is not looked at
rootsOnly(d) == IF d \in Roots THEN Children(d) \cap dirs ELSE {}

listed(d) == Children(d) \cap dirs

\* watchRecursive: tracker.Add of a directory comes before WalkDir lists it.
enterDir(d) ==
    /\ d \in watcher.enter /\ watcher.list = {}
    /\ watcher' = [watcher EXCEPT !.enter = @ \ {d}, !.list = {d} \cap (dirs \ Ignored)]
    /\ watched' = watched \cup ({d} \cap (dirs \ Ignored))
    /\ UNCHANGED <<dirs, telling, resetChan, events, steps>>

listDir(d) ==
    /\ d \in watcher.list
    /\ watcher' = [watcher EXCEPT !.list = {}, !.enter = @ \cup listed(d)]
    /\ UNCHANGED <<dirs, watched, telling, resetChan, events, steps>>

TreeNext ==
    \/ \E d \in Dirs : makeDir(d)
    \/ \E d \in Dirs : removeDir(d)
    \/ \E r \in Roots : handleSetProjectRoot(r)
    \/ \E r \in Roots : signal(r)
    \/ resetWatcher
    \/ dirCreated
    \/ \E d \in Dirs : enterDir(d)
    \/ \E d \in Dirs : listDir(d)

TreeSpec == TreeInit /\ [][TreeNext]_treeVars

\* Nothing below the watcher's root escapes it, whatever was made or removed
\* while it walked and whichever roots it came from: once it has handled what
\* it was told it watches every directory that is not ignored.
EveryDirectoryWatched ==
    atSelect /\ events = <<>> /\ resetChan = NoRoot => Visible(watcher.root) \subseteq watched

-----------------------------------------------------------------------------
(* What EveryDirectoryWatched rests on. *)

TreeTypeOK ==
    /\ dirs \in SUBSET Dirs /\ watched \in SUBSET Dirs
    /\ telling \in SUBSET Roots /\ resetChan \in Roots \cup {NoRoot}
    /\ events \in Seq(Dirs) /\ steps \in 0 .. MaxSteps
    /\ watcher \in [root : Roots, enter : SUBSET Dirs, list : SUBSET Dirs]

\* Where the watcher still has to look: what its walk enters next, what it is
\* about to list, and what it was told of.
Due ==
    watcher.enter \cup {events[i] : i \in DOMAIN events}
        \cup UNION {Children(d) \ Ignored : d \in watcher.list}

\* What is not watched is below one of these.
TreeInv ==
    /\ Roots \subseteq dirs /\ \A d \in dirs : Parent[d] \in dirs
    /\ \A d, e \in watcher.list : d = e
    /\ \A d \in Visible(watcher.root) \ watched : \E e \in Due : d \in Below[e]
=============================================================================

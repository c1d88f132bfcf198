-------------------------- MODULE FilesystemGrep --------------------------
(***************************************************************************)
(* One call of handleFilesystemGrep (internal/mcp/handlers_search.go): a   *)
(* walker that sends the project's files, workers that scan them and send  *)
(* matches, a goroutine that closes doneChan when the workers are gone,    *)
(* and the handler that collects the matches until it returns.  A match is *)
(* a pair <<file, line>>; which lines match is chosen at the start (none   *)
(* of a file that cannot be read).                                         *)
(***************************************************************************)
EXTENDS Integers, FiniteSets

CONSTANTS
    Files,        \* the files the filters of the walk let through
    Dirs,         \* the directories of the tree that may be unreadable
    Workers,      \* the scanning goroutines (8 in the code)
    Lines,        \* BOUND: line numbers of a file
    PathsCap,     \* capacity of the paths channel (100 in the code)
    MaxMatches,   \* the cap on matches, matchChan's capacity too (100)
    Deadline      \* whether the 30 seconds can run out

ASSUME FilesAssumption == IsFiniteSet(Files) /\ Files \cap Dirs = {}
ASSUME WorkersAssumption == Workers # {}
ASSUME LinesAssumption == IsFiniteSet(Lines)
ASSUME CapAssumption == PathsCap \in Nat \ {0} /\ MaxMatches \in Nat \ {0}
ASSUME DeadlineAssumption == Deadline \in BOOLEAN

VARIABLES
    matching,     \* file -> its lines that match
    walk,         \* the walker: entries it has not come to, and where it is
    paths,        \* the files in the paths channel
    pathsClosed,
    worker,       \* worker -> where it is and the matches it has yet to send
    matchChan,    \* the matches in matchChan
    errChan,      \* whether errChan holds the walk's error
    doneChan,     \* whether doneChan is closed
    ctx,          \* "live", "cancelled" or "expired"
    handler       \* the collect loop: what it has and how it returned

vars == <<matching, walk, paths, pathsClosed, worker, matchChan, errChan,
          doneChan, ctx, handler>>

Entries == Files \cup Dirs
Matches == Files \X Lines
MatchesOf(F) == {m \in Matches : m[1] \in F /\ m[2] \in matching[m[1]]}
All == MatchesOf(Files)

Init ==
    /\ matching \in [Files -> SUBSET Lines]
    /\ walk = [pc |-> "walking", left |-> Entries]
    /\ paths = {} /\ pathsClosed = FALSE
    /\ worker = [w \in Workers |-> [pc |-> "next", todo |-> {}]]
    /\ matchChan = {} /\ errChan = FALSE /\ doneChan = FALSE
    /\ ctx = "live"
    /\ handler = [pc |-> "collect", results |-> {}, limitReached |-> FALSE]

Done == ctx # "live"

-----------------------------------------------------------------------------
(* The walker. *)

\* A file that passed the filters goes into the channel.
sendPath ==
    /\ walk.pc = "walking"
    /\ Cardinality(paths) < PathsCap
    /\ \E f \in walk.left \cap Files :
        /\ paths' = paths \cup {f}
        /\ walk' = [walk EXCEPT !.left = @ \ {f}]
    /\ UNCHANGED <<matching, pathsClosed, worker, matchChan, errChan, doneChan, ctx, handler>>

\* A directory that can be read, or one the walk leaves out (IsIgnoredDir).
enterDir ==
    /\ walk.pc = "walking"
    /\ \E d \in walk.left \cap Dirs : walk' = [walk EXCEPT !.left = @ \ {d}]
    /\ UNCHANGED <<matching, paths, pathsClosed, worker, matchChan, errChan, doneChan, ctx, handler>>

\* With the context done SkipDir leaves out what is left of a directory.
skipDir ==
    /\ walk.pc = "walking" /\ Done
    /\ \E F \in SUBSET walk.left : F # {} /\ walk' = [walk EXCEPT !.left = @ \ F]
    /\ UNCHANGED <<matching, paths, pathsClosed, worker, matchChan, errChan, doneChan, ctx, handler>>

\* The callback returns the error it got, and that ends the walk.
walkError ==
    /\ walk.pc = "walking"
    /\ walk.left \cap Dirs # {}
    /\ walk' = [walk EXCEPT !.pc = "failed"]
    /\ UNCHANGED <<matching, paths, pathsClosed, worker, matchChan, errChan, doneChan, ctx, handler>>

sendError ==
    /\ walk.pc = "failed" /\ ~errChan
    /\ errChan' = TRUE
    /\ walk' = [walk EXCEPT !.pc = "returned"]
    /\ UNCHANGED <<matching, paths, pathsClosed, worker, matchChan, doneChan, ctx, handler>>

\* The walk is over: close(paths).
closePaths ==
    /\ \/ walk.pc = "walking" /\ walk.left = {}
       \/ walk.pc = "returned"
    /\ walk' = [walk EXCEPT !.pc = "ended"]
    /\ pathsClosed' = TRUE
    /\ UNCHANGED <<matching, paths, worker, matchChan, errChan, doneChan, ctx, handler>>

-----------------------------------------------------------------------------
(* The workers. *)

\* mutant: a file gives its first match only
firstMatch(f) == {m \in MatchesOf({f}) : \A k \in matching[f] : m[2] <= k}

scanned(f) == MatchesOf({f})

\* A worker takes a file and, unless the context is done, scans it.
takePath(w) ==
    /\ worker[w].pc = "next"
    /\ \E f \in paths :
        /\ paths' = paths \ {f}
        /\ worker' = [worker EXCEPT ![w] =
                          IF Done THEN [pc |-> "gone", todo |-> {}]
                          ELSE [pc |-> "send", todo |-> scanned(f)]]
    /\ UNCHANGED <<matching, walk, pathsClosed, matchChan, errChan, doneChan, ctx, handler>>

\* The channel is closed and empty.
pathsEnded(w) ==
    /\ worker[w].pc = "next"
    /\ pathsClosed /\ paths = {}
    /\ worker' = [worker EXCEPT ![w].pc = "gone"]
    /\ UNCHANGED <<matching, walk, paths, pathsClosed, matchChan, errChan, doneChan, ctx, handler>>

\* A match is sent as soon as matchChan has room.
sendMatch(w) ==
    /\ worker[w].pc = "send"
    /\ Cardinality(matchChan) < MaxMatches
    /\ \E m \in worker[w].todo :
        /\ matchChan' = matchChan \cup {m}
        /\ worker' = [worker EXCEPT ![w].todo = @ \ {m}]
    /\ UNCHANGED <<matching, walk, paths, pathsClosed, errChan, doneChan, ctx, handler>>

fileDone(w) ==
    /\ worker[w].pc = "send" /\ worker[w].todo = {}
    /\ worker' = [worker EXCEPT ![w].pc = "next"]
    /\ UNCHANGED <<matching, walk, paths, pathsClosed, matchChan, errChan, doneChan, ctx, handler>>

\* mutant: workers do not look at the context while they send
deaf == FALSE

heard == Done

\* The select of a send takes the context's branch instead.
giveUp(w) ==
    /\ worker[w].pc = "send" /\ worker[w].todo # {} /\ heard
    /\ worker' = [worker EXCEPT ![w] = [pc |-> "gone", todo |-> {}]]
    /\ UNCHANGED <<matching, walk, paths, pathsClosed, matchChan, errChan, doneChan, ctx, handler>>

AllGone == \A w \in Workers : worker[w].pc = "gone"

closeDone ==
    /\ AllGone /\ ~doneChan
    /\ doneChan' = TRUE
    /\ UNCHANGED <<matching, walk, paths, pathsClosed, worker, matchChan, errChan, ctx, handler>>

-----------------------------------------------------------------------------
(* The handler's select loop.  Any branch that is ready may be taken. *)

\* Every return runs the deferred cancel().
returns(how) ==
    /\ handler' = [handler EXCEPT !.pc = how]
    /\ ctx' = IF Done THEN ctx ELSE "cancelled"

\* mutant: the limit is noticed one match late
overLimit(n) == n > MaxMatches

atLimit(n) == n >= MaxMatches

receiveMatch ==
    /\ handler.pc = "collect"
    /\ \E m \in matchChan :
        LET got == handler.results \cup {m} IN
        /\ matchChan' = matchChan \ {m}
        /\ IF atLimit(Cardinality(got))
           THEN /\ handler' = [pc |-> "answered", results |-> got, limitReached |-> TRUE]
                /\ ctx' = IF Done THEN ctx ELSE "cancelled"
           ELSE /\ handler' = [handler EXCEPT !.results = got]
                /\ UNCHANGED ctx
    /\ UNCHANGED <<matching, walk, paths, pathsClosed, worker, errChan, doneChan>>

receiveDone ==
    /\ handler.pc = "collect" /\ doneChan
    /\ returns("answered")
    /\ UNCHANGED <<matching, walk, paths, pathsClosed, worker, matchChan, errChan, doneChan>>

receiveError ==
    /\ handler.pc = "collect" /\ errChan
    /\ errChan' = FALSE
    /\ returns("error")
    /\ UNCHANGED <<matching, walk, paths, pathsClosed, worker, matchChan, doneChan>>

receiveCtxDone ==
    /\ handler.pc = "collect" /\ Done
    /\ returns(IF ctx = "expired" THEN "timeout" ELSE "answered")
    /\ UNCHANGED <<matching, walk, paths, pathsClosed, worker, matchChan, errChan, doneChan>>

\* The 30 seconds are over, or the client cancelled its request.
expire ==
    /\ Deadline /\ ctx = "live"
    /\ ctx' \in {"expired", "cancelled"}
    /\ UNCHANGED <<matching, walk, paths, pathsClosed, worker, matchChan, errChan, doneChan, handler>>

Walk == sendPath \/ enterDir \/ skipDir \/ walkError \/ sendError \/ closePaths
Work(w) == takePath(w) \/ pathsEnded(w) \/ sendMatch(w) \/ fileDone(w) \/ giveUp(w)
Collect == receiveMatch \/ receiveDone \/ receiveError \/ receiveCtxDone

Next == Walk \/ closeDone \/ Collect \/ expire \/ \E w \in Workers : Work(w)

Spec == Init /\ [][Next]_vars

\* Go runs every goroutine that can go on.
Fairness ==
    /\ WF_vars(Walk) /\ WF_vars(closeDone) /\ WF_vars(Collect)
    /\ \A w \in Workers : WF_vars(Work(w))

FairSpec == Spec /\ Fairness

-----------------------------------------------------------------------------
(* Properties. *)

TypeOK ==
    /\ matching \in [Files -> SUBSET Lines]
    /\ walk \in [pc : {"walking", "failed", "returned", "ended"}, left : SUBSET Entries]
    /\ paths \in SUBSET Files /\ pathsClosed \in BOOLEAN
    /\ worker \in [Workers -> [pc : {"next", "send", "gone"}, todo : SUBSET Matches]]
    /\ matchChan \in SUBSET Matches
    /\ errChan \in BOOLEAN /\ doneChan \in BOOLEAN
    /\ ctx \in {"live", "cancelled", "expired"}
    /\ handler \in [pc : {"collect", "answered", "error", "timeout"},
                    results : SUBSET Matches, limitReached : BOOLEAN]

WalkFailed == walk.pc \in {"failed", "returned"} \/ (walk.pc = "ended" /\ walk.left # {})

\* When doneChan is closed while the context lives and the walk did not fail,
\* every match has reached the handler or lies in matchChan: the walker and the
\* workers drop nothing.
NothingDropped ==
    doneChan /\ ctx = "live" /\ ~WalkFailed => handler.results \cup matchChan = All

\* The handler returns matches of the files only, never more than the limit, and
\* says that there may be more only at the limit.
SoundAnswer ==
    /\ handler.results \subseteq All
    /\ Cardinality(handler.results) <= MaxMatches
    /\ handler.limitReached <=> Cardinality(handler.results) = MaxMatches

\* The handler returns, and then every goroutine it started ends: none stays
\* blocked on a channel nobody reads.
NoLeak == <>(handler.pc # "collect" /\ walk.pc = "ended" /\ AllGone /\ doneChan)
=============================================================================

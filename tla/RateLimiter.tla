---------------------------- MODULE RateLimiter ----------------------------
(***************************************************************************)
(* The rate limit of the HTTP API: one token bucket per client, kept in a  *)
(* map that is read and extended by the goroutines of the requests         *)
(* (internal/security/ratelimit/tokenbucket.go, wrapped around the mux in  *)
(* internal/api/server.go).  Preflight requests are answered before it.    *)
(* The clock counts the intervals in which Rate tokens are added; Cleanup, *)
(* WaitN and Reset have no caller in the program.                          *)
(***************************************************************************)
EXTENDS Naturals, FiniteSets

CONSTANTS
    Requests, Keys,    \* the requests, and the clients they come from
    NoBucket,
    Rate, Burst,
    MaxTime            \* the clock stops there

ASSUME RateLimiterAssumption ==
    Rate \in Nat /\ Burst \in Nat \ {0} /\ MaxTime \in Nat /\ NoBucket \notin Requests

VARIABLES
    clock,
    buckets,    \* key -> the bucket in the map, named for the request that made it
    bucket,     \* bucket -> its tokens and when they were last updated
    request     \* request -> pc, key, the bucket it holds, when it was let through

limiterVars == <<clock, buckets, bucket, request>>

Full == [tokens |-> Burst, lastUpdate |-> 0]

idleRequest(k) == [pc |-> "new", key |-> k, holds |-> NoBucket, at |-> 0]

NoRequests ==
    /\ clock = 0
    /\ buckets = [k \in Keys |-> NoBucket]
    /\ bucket = [r \in Requests |-> Full]

LimiterInit == NoRequests /\ request \in [Requests -> {idleRequest(k) : k \in Keys}]

\* Requests that never come.
LimiterIdle == NoRequests /\ request = [r \in Requests |-> idleRequest(CHOOSE k \in Keys : TRUE)]

proceed(r, pc, b) == request' = [request EXCEPT ![r].pc = pc, ![r].holds = b]

\* Under the read lock.
lookUp(r) ==
    /\ request[r].pc = "new"
    /\ LET b == buckets[request[r].key]
       IN  proceed(r, IF b = NoBucket THEN "make" ELSE "allow", b)
    /\ UNCHANGED <<clock, buckets, bucket>>

\* mutant: the map is not read again under the write lock
notAgain(k) == NoBucket

again(k) == buckets[k]

\* NewTokenBucket, under the write lock.
makeBucket(r) ==
    /\ request[r].pc = "make"
    /\ LET k == request[r].key
       IN  IF again(k) # NoBucket
           THEN proceed(r, "allow", again(k)) /\ UNCHANGED <<buckets, bucket>>
           ELSE /\ buckets' = [buckets EXCEPT ![k] = r]
                /\ bucket' = [bucket EXCEPT ![r] = [tokens |-> Burst, lastUpdate |-> clock]]
                /\ proceed(r, "allow", r)
    /\ UNCHANGED clock

\* What b holds by now.
refilled(b) ==
    LET tokens == bucket[b].tokens + (clock - bucket[b].lastUpdate) * Rate
    IN  IF tokens > Burst THEN Burst ELSE tokens

\* AllowN(1), under the bucket's lock; then the request goes on or is answered
\* with 429.
Allow(r) ==
    /\ request[r].pc = "allow"
    /\ LET b == request[r].holds
           enough == refilled(b) >= 1
       IN  /\ bucket' = [bucket EXCEPT ![b] =
                             [tokens |-> IF enough THEN refilled(b) - 1 ELSE refilled(b),
                              lastUpdate |-> clock]]
           /\ request' = [request EXCEPT ![r].pc = IF enough THEN "served" ELSE "limited",
                                         ![r].at = clock]
    /\ UNCHANGED <<clock, buckets>>

Tick == clock < MaxTime /\ clock' = clock + 1 /\ UNCHANGED <<buckets, bucket, request>>

LimiterNext ==
    \/ \E r \in Requests : lookUp(r)
    \/ \E r \in Requests : makeBucket(r)
    \/ \E r \in Requests : Allow(r)
    \/ Tick

LimiterSpec == LimiterInit /\ [][LimiterNext]_limiterVars

\* The requests of k that were let through.
letThrough(k) == {r \in Requests : request[r].pc = "served" /\ request[r].key = k}

\* Of a client's requests that run side by side no more get through, in any
\* span of time, than the burst and what the rate adds in that span: also when
\* they are its first ones and each has found no bucket.  And none is turned
\* away before the client has had its burst.
RateKept ==
    \A k \in Keys :
        /\ \A a \in 0 .. MaxTime, b \in 0 .. MaxTime :
              a <= b => Cardinality({r \in letThrough(k) : request[r].at \in a .. b})
                           <= Burst + Rate * (b - a)
        /\ \A r \in Requests : request[r].pc = "limited" /\ request[r].key = k =>
              Cardinality(letThrough(k)) >= Burst

-----------------------------------------------------------------------------
(* What RateKept rests on. *)

BucketState == [tokens : 0 .. Burst, lastUpdate : 0 .. MaxTime]

RequestState == [pc : {"new", "make", "allow", "served", "limited"}, key : Keys,
                 holds : Requests \cup {NoBucket}, at : 0 .. MaxTime]

LimiterTypeOK ==
    /\ clock \in 0 .. MaxTime
    /\ buckets \in [Keys -> Requests \cup {NoBucket}]
    /\ bucket \in [Requests -> BucketState]
    /\ request \in [Requests -> RequestState]

\* A bucket is one client's, and all the client's requests come to that one.
OneBucketEach ==
    /\ \A k \in Keys : buckets[k] # NoBucket => request[buckets[k]].key = k
    /\ \A r \in Requests : request[r].pc \in {"allow", "served", "limited"} =>
          request[r].holds = buckets[request[r].key] /\ request[r].holds # NoBucket

Since(k, a) == {r \in letThrough(k) : a <= request[r].at}

\* Whatever a client was let through since a, and the tokens it has left, came
\* from the burst and the time since; and it has had its burst or has it still.
TokensCount(k) ==
    LET b == bucket[buckets[k]]
    IN  /\ IsFiniteSet(letThrough(k))
        /\ buckets[k] # NoBucket =>
              /\ b.lastUpdate <= clock
              /\ \A r \in letThrough(k) : request[r].at <= b.lastUpdate
              /\ Burst <= Cardinality(letThrough(k)) + b.tokens
              /\ \A a \in 0 .. b.lastUpdate :
                    Cardinality(Since(k, a)) + b.tokens <= Burst + Rate * (b.lastUpdate - a)

LimiterInv == OneBucketEach /\ (\A k \in Keys : TokensCount(k)) /\ RateKept
=============================================================================

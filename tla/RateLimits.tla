----------------------------- MODULE RateLimits -----------------------------
(***************************************************************************)
(* The limiter in front of the chat endpoint (koraku/core/rate_limit.py):  *)
(* a counter in Redis per fixed window, and a list of recent requests per  *)
(* process when Redis is not configured or does not answer.  The clock of  *)
(* the list never goes back, so that dropping times from its front drops   *)
(* the old ones, whatever their order: the list is the set of requests     *)
(* whose times are in it.                                                  *)
(*                                                                         *)
(* Time is counted in ticks of which RateWindow make up a window; the      *)
(* monotonic clock of the lists and the wall clock of the counters tick    *)
(* together.  A counter outlives its window by five seconds and is then    *)
(* not read again, so it is never removed here.                            *)
(***************************************************************************)
EXTENDS Integers, FiniteSets

CONSTANTS RateReqs,     \* requests
          RateFrom,     \* what is known of each: user, org, peer, forwarded
          Proxies,      \* peers in TRUSTED_PROXY_CIDRS
          RateLimit,    \* chat_rate_limit_per_minute; zero turns the limiter off
          RateWindow,   \* window_seconds
          RateWorkers,  \* server processes
          RateRedis,    \* whether REDIS_URL is set
          MaxRateNow,   \* bound of the clock
          Nobody        \* a missing user, organisation or address

ASSUME RateAssumption ==
    /\ RateFrom \in [RateReqs -> [user : STRING \cup {Nobody}, org : STRING \cup {Nobody},
                                  peer : STRING \cup {Nobody}, forwarded : STRING \cup {Nobody}]]
    /\ RateLimit \in Nat \ {0} /\ RateWindow \in Nat \ {0} /\ MaxRateNow \in Nat

VARIABLES hits,       \* _hits of each worker: key -> requests
          redisHits,  \* the counters: <<key, window>> -> count
          redisUse,   \* what get_client of each worker found
          rateAnswer, \* how each request was answered
          rateNow

rateVars == <<hits, redisHits, redisUse, rateAnswer, rateNow>>

\* An answer tells when it was given, where, and by which of the two limiters.
Answers == [admitted : BOOLEAN, by : {"memory", "redis"}, at : 0..MaxRateNow,
            worker : RateWorkers]
NotYet == [by |-> "none"]

RateTypeOK ==
    /\ rateAnswer \in [RateReqs -> Answers \cup {NotYet}]
    /\ redisUse \in [RateWorkers -> {"unchecked", "up", "down"}]
    /\ rateNow \in 0..MaxRateNow
    /\ \A w \in RateWorkers : \A k \in DOMAIN hits[w] : hits[w][k] \subseteq RateReqs
    /\ \A b \in DOMAIN redisHits : redisHits[b] \in Nat

RateInit ==
    /\ hits = [w \in RateWorkers |-> <<>>]
    /\ redisHits = <<>>
    /\ redisUse = [w \in RateWorkers |-> "unchecked"]
    /\ rateAnswer = [r \in RateReqs |-> NotYet]
    /\ rateNow = 0
-----------------------------------------------------------------------------
\* _client_ip: the forwarded address counts only when a trusted proxy sent it.
ClientIp(from) ==
    IF from.peer \in Proxies /\ from.forwarded # Nobody THEN from.forwarded
    ELSE from.peer

\* rate_limit_key: organisation and user, else the user, else the address.
RateKey(r) ==
    LET from == RateFrom[r]
    IN IF from.user = Nobody THEN <<"ip", ClientIp(from)>>
       ELSE IF from.org = Nobody THEN <<"user", from.user>>
       ELSE <<"org", from.org, from.user>>

Entry(f, k, default) == IF k \in DOMAIN f THEN f[k] ELSE default
Record(f, k, v) == [x \in DOMAIN f \cup {k} |-> IF x = k THEN v ELSE f[x]]

Say(r, w, admitted, by) ==
    rateAnswer' = [rateAnswer EXCEPT ![r] =
        [admitted |-> admitted, by |-> by, at |-> rateNow, worker |-> w]]

\* The requests of the last window, its oldest moment included.  Mutant: without it.
RecentOpen(asked) == {q \in asked : rateAnswer[q].at + RateWindow > rateNow}
Recent(asked) == {q \in asked : rateAnswer[q].at + RateWindow >= rateNow}

\* _enforce_in_memory: a refused request leaves no time behind.
EnforceInMemory(r, w) ==
    LET asked == Recent(Entry(hits[w], RateKey(r), {}))
        admit == Cardinality(asked) < RateLimit
    IN /\ Say(r, w, admit, "memory")
       /\ hits' = [hits EXCEPT ![w] =
              Record(@, RateKey(r), IF admit THEN asked \cup {r} ELSE asked)]

\* get_client: the connection is tried once in the life of a process.
Clients(w) ==
    IF ~RateRedis THEN {"down"}
    ELSE IF redisUse[w] = "unchecked" THEN {"up", "down"} ELSE {redisUse[w]}

\* increment_with_ttl: the counter of a principal in the window of now.
BoxOf(r) == <<RateKey(r), rateNow \div RateWindow>>
Increment(box) == Record(redisHits, box, Entry(redisHits, box, 0) + 1)

\* enforce_rate_limit.  A counter that was increased may fail to say so; the
\* list of the process then decides.
Enforce(r, w) ==
    /\ rateAnswer[r] = NotYet
    /\ \E client \in Clients(w), counted, told \in BOOLEAN :
         LET counters == IF counted THEN Increment(BoxOf(r)) ELSE redisHits
         IN /\ told => counted
            /\ counted => client = "up"
            /\ redisUse' = IF RateRedis THEN [redisUse EXCEPT ![w] = client] ELSE redisUse
            /\ redisHits' = counters
            /\ IF told THEN /\ Say(r, w, counters[BoxOf(r)] <= RateLimit, "redis")
                            /\ UNCHANGED hits
               ELSE EnforceInMemory(r, w)
    /\ UNCHANGED rateNow

RateTick ==
    /\ rateNow < MaxRateNow
    /\ rateNow' = rateNow + 1
    /\ UNCHANGED <<hits, redisHits, redisUse, rateAnswer>>

RateNext ==
    \/ \E r \in RateReqs, w \in RateWorkers : Enforce(r, w)
    \/ RateTick

RateSpec == RateInit /\ [][RateNext]_rateVars
-----------------------------------------------------------------------------
Admitted(by, k) == {r \in RateReqs : /\ rateAnswer[r].by = by /\ RateKey(r) = k
                                     /\ rateAnswer[r].admitted}
RateKeys == {RateKey(r) : r \in RateReqs}

\* Whatever Redis does in between, one process lets at most RateLimit requests
\* of a principal through its list in any stretch of a window's length, and
\* Redis at most RateLimit in each window of its own.
WindowHolds ==
    \A k \in RateKeys, t \in 0..MaxRateNow :
        /\ \A w \in RateWorkers :
             Cardinality({r \in Admitted("memory", k) :
                 /\ rateAnswer[r].worker = w
                 /\ rateAnswer[r].at \in t..(t + RateWindow)}) <= RateLimit
        /\ Cardinality({r \in Admitted("redis", k) :
               rateAnswer[r].at \div RateWindow = t}) <= RateLimit
=============================================================================

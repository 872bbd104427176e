---------------------------- MODULE ChatSessions ----------------------------
(***************************************************************************)
(* The session store of the server (koraku/core/session_store.py) with the *)
(* Redis helpers under it, the hydration of a session from the client's    *)
(* history, and the turns that keep a session object while the store moves *)
(* on.  Workers are server processes: each builds its own store at its     *)
(* first request, and a memory store is private to it.                     *)
(*                                                                         *)
(* A session object carries the name of the request that made it: created  *)
(* it, or read it from Redis.  A message is the request it belongs to.     *)
(* Owner stands for the pair (owner_sub, owner_org_id).  Time is counted   *)
(* in ticks up to MaxNow.                                                  *)
(***************************************************************************)
EXTENDS Naturals, Sequences, FiniteSets

CONSTANTS ChatReqs,     \* chat requests
          ChatIds,      \* session ids, well-formed
          ChatIdOf,     \* the id a request names, or NoChat
          ChatOwnerOf,  \* the owner it is authenticated as
          ChatHistory,  \* requests that bring a client history
          ChatWorkers,  \* server processes
          RedisUrl,     \* whether session_store_backend and REDIS_URL say Redis
          RedisFails,   \* whether a call to Redis may fail
          SessionTtl,   \* settings.session_ttl_hours, in ticks
          SessionMax,   \* settings.session_store_max
          MaxNow,       \* bound of the clock
          NoChat

ASSUME ChatAssumption ==
    /\ NoChat \notin ChatReqs \cup ChatIds
    /\ ChatIdOf \in [ChatReqs -> ChatIds \cup {NoChat}]
    /\ SessionTtl \in Nat /\ SessionMax \in Nat /\ MaxNow \in Nat

VARIABLES chatPc,     \* where each request is
          chatAt,     \* the worker that serves it
          chatObj,    \* the session object it holds, by maker
          sessions,   \* the session objects, by maker
          backend,    \* the store each worker built
          memStore,   \* MemorySessionStore.sessions of each worker
          redis,      \* what Redis holds under each id
          chatNow,    \* the clock
          chatCame,   \* when each request came (history variable)
          earlier     \* turns of the same chat that came, within the time to
                      \* live, and were over when a request came (history)

chatVars == <<chatPc, chatAt, chatObj, sessions, backend, memStore, redis,
              chatNow, chatCame, earlier>>

\* A session without a name gets a fresh uuid: the name of its request.
SessionIds == ChatIds \cup ChatReqs
Blank(owner) == [owner |-> owner, messages |-> <<>>, stamp |-> chatNow]
IdOf(r) == IF ChatIdOf[r] = NoChat THEN r ELSE ChatIdOf[r]

ChatTypeOK ==
    /\ chatPc \in [ChatReqs -> {"new", "open", "warm", "asked", "done"}]
    /\ chatObj \in [ChatReqs -> ChatReqs \cup {NoChat}]
    /\ DOMAIN sessions \subseteq ChatReqs
    /\ backend \in [ChatWorkers -> {"unset", "memory", "redis"}]
    /\ \A w \in ChatWorkers : \A k \in DOMAIN memStore[w] :
           k \in SessionIds /\ memStore[w][k] \in DOMAIN sessions
    /\ chatNow \in 0..MaxNow /\ chatCame \in [ChatReqs -> 0..MaxNow]

ChatInit ==
    /\ chatPc = [r \in ChatReqs |-> "new"]
    /\ chatAt = [r \in ChatReqs |-> NoChat]
    /\ chatObj = [r \in ChatReqs |-> NoChat]
    /\ sessions = <<>>
    /\ backend = [w \in ChatWorkers |-> "unset"]
    /\ memStore = [w \in ChatWorkers |-> <<>>]
    /\ redis = <<>>
    /\ chatNow = 0
    /\ chatCame = [r \in ChatReqs |-> 0]
    /\ earlier = [r \in ChatReqs |-> {}]
-----------------------------------------------------------------------------
Put(f, k, v) == [x \in DOMAIN f \cup {k} |-> IF x = k THEN v ELSE f[x]]
Drop(f, ks) == [x \in DOMAIN f \ ks |-> f[x]]

Stale(stamp) == chatNow - stamp > SessionTtl

\* build_session_store at the first use: memory when Redis cannot be reached.
Backends(w) ==
    IF backend[w] # "unset" THEN {backend[w]}
    ELSE IF RedisUrl THEN {"redis", "memory"} ELSE {"memory"}

\* prune: sessions idle for longer than the time to live, then the least
\* recently updated ones while there are more than SessionMax.
Expired(store) == {k \in DOMAIN store : Stale(sessions[store[k]].stamp)}
Crowd(store) ==
    {drop \in SUBSET DOMAIN store :
       /\ Cardinality(drop) = IF Cardinality(DOMAIN store) <= SessionMax THEN 0
                              ELSE Cardinality(DOMAIN store) - SessionMax
       /\ \A k \in drop, j \in DOMAIN store \ drop :
              sessions[store[k]].stamp <= sessions[store[j]].stamp}
\* Mutant: a prune that makes room for the session to come.
EagerPrune(store) ==
    LET fresh == Drop(store, Expired(store))
    IN  IF Cardinality(DOMAIN fresh) < SessionMax THEN {fresh}
        ELSE {Drop(fresh, {k}) : k \in DOMAIN fresh}
Prune(store) ==
    LET fresh == Drop(store, Expired(store))
    IN {Drop(fresh, drop) : drop \in Crowd(fresh)}

\* The owner a stored session must have; the mutant compares nothing.
AnyOwner(record, r) == TRUE
SameOwner(record, r) == record.owner = ChatOwnerOf[r]

\* History variable: turns this request should be able to build on.
Continued(r, w, b) ==
    {q \in ChatReqs : /\ q # r /\ chatPc[q] = "done" /\ IdOf(q) = IdOf(r)
                      /\ ChatOwnerOf[q] = ChatOwnerOf[r]
                      /\ ~Stale(chatCame[q])
                      /\ b = "memory" => chatAt[q] = w}

Begin(r, w, b, object) ==
    /\ chatPc[r] = "new"
    /\ chatPc' = [chatPc EXCEPT ![r] = "open"]
    /\ chatAt' = [chatAt EXCEPT ![r] = w]
    /\ chatObj' = [chatObj EXCEPT ![r] = object]
    /\ backend' = [backend EXCEPT ![w] = b]
    /\ chatCame' = [chatCame EXCEPT ![r] = chatNow]
    /\ earlier' = [earlier EXCEPT ![r] = Continued(r, w, b)]
    /\ UNCHANGED chatNow

\* get_or_create on a memory store: prune, then the stored session if it is
\* the owner's and fresh, else a new one under the same id.
OpenInMemory(r, w) ==
    /\ "memory" \in Backends(w)
    /\ \E store \in Prune(memStore[w]) :
       LET id == IdOf(r)
           keep == /\ id \in DOMAIN store
                   /\ SameOwner(sessions[store[id]], r)
                   /\ ~Stale(sessions[store[id]].stamp)
           object == IF keep THEN store[id] ELSE r
       IN /\ Begin(r, w, "memory", object)
          /\ memStore' = [memStore EXCEPT ![w] = Put(store, id, object)]
          /\ sessions' = IF keep THEN [sessions EXCEPT ![object].stamp = chatNow]
                         ELSE Put(sessions, r, Blank(ChatOwnerOf[r]))
          /\ UNCHANGED redis

\* A call to Redis may fail: a read then finds nothing, a write or a delete
\* leaves what was there, and both are only logged.
RedisAnswers == {TRUE, ~RedisFails}
RedisHas(id, answers) ==
    answers /\ id \in DOMAIN redis /\ chatNow - redis[id].stamp < SessionTtl
RedisSet(store, id, record, answers) == IF answers THEN Put(store, id, record) ELSE store
RedisDelete(store, id, answers) == IF answers THEN Drop(store, {id}) ELSE store

\* get_or_create on Redis, where the session is a copy of what was stored.
OpenInRedis(r, w) ==
    /\ "redis" \in Backends(w)
    /\ \E readable, deleted, saved \in RedisAnswers :
         LET id == IdOf(r)
             found == RedisHas(id, readable)
             keep == found /\ SameOwner(redis[id], r)
             record == IF keep THEN [redis[id] EXCEPT !.stamp = chatNow]
                       ELSE Blank(ChatOwnerOf[r])
             rest == IF found /\ ~keep THEN RedisDelete(redis, id, deleted) ELSE redis
         IN /\ Begin(r, w, "redis", r)
            /\ sessions' = Put(sessions, r, record)
            /\ redis' = RedisSet(rest, id, record, saved)
            /\ UNCHANGED memStore

\* hydrate_sdk_session_for_turn: the client's history fills an empty session.
HydrateSession(r) ==
    /\ chatPc[r] = "open"
    /\ chatPc' = [chatPc EXCEPT ![r] = "warm"]
    /\ sessions' = IF sessions[chatObj[r]].messages = <<>> /\ r \in ChatHistory
                   THEN [sessions EXCEPT ![chatObj[r]].messages = <<r>>,
                                         ![chatObj[r]].stamp = chatNow]
                   ELSE sessions
    /\ UNCHANGED <<chatAt, chatObj, backend, memStore, redis, chatNow, chatCame, earlier>>

\* The turn appends the user's message, later the reply, and touches the
\* object it holds.  Nothing writes the object back to the store.
AppendMessage(r) ==
    /\ chatPc[r] \in {"warm", "asked"}
    /\ chatPc' = [chatPc EXCEPT ![r] = IF chatPc[r] = "warm" THEN "asked" ELSE "done"]
    /\ sessions' = [sessions EXCEPT ![chatObj[r]].messages = Append(@, r),
                                    ![chatObj[r]].stamp = chatNow]
    /\ UNCHANGED <<chatAt, chatObj, backend, memStore, redis, chatNow, chatCame, earlier>>

ChatTick ==
    /\ chatNow < MaxNow
    /\ chatNow' = chatNow + 1
    /\ UNCHANGED <<chatPc, chatAt, chatObj, sessions, backend, memStore, redis,
                   chatCame, earlier>>

ChatNext ==
    \/ \E r \in ChatReqs : \/ \E w \in ChatWorkers : OpenInMemory(r, w) \/ OpenInRedis(r, w)
                           \/ HydrateSession(r)
                           \/ AppendMessage(r)
    \/ ChatTick

ChatSpec == ChatInit /\ [][ChatNext]_chatVars
-----------------------------------------------------------------------------
\* A request never finds a message of another owner, or of another chat, in
\* the session it was given, however owners take turns on one id while older
\* turns still write to objects the store let go.
OwnMessagesOnly ==
    \A r \in ChatReqs : chatPc[r] # "new" =>
        LET said == sessions[chatObj[r]].messages
        IN \A n \in 1..Len(said) : /\ ChatOwnerOf[said[n]] = ChatOwnerOf[r]
                                   /\ IdOf(said[n]) = IdOf(r)

\* A memory store forgets a chat that is in use only for another owner of its
\* id or when the worker saw more chats than it keeps.  Otherwise a request
\* finds the very session every earlier turn wrote to, even one that was
\* running while other requests pruned the store.
MemoryKeepsChat ==
    \A r \in ChatReqs : chatPc[r] # "new" /\ backend[chatAt[r]] = "memory" =>
        LET seen == {s \in ChatReqs : chatPc[s] # "new" /\ chatAt[s] = chatAt[r]}
        IN  \A q \in earlier[r] :
              \/ chatObj[q] = chatObj[r]
              \/ \E s \in seen : IdOf(s) = IdOf(r) /\ ChatOwnerOf[s] # ChatOwnerOf[r]
              \/ Cardinality({IdOf(s) : s \in seen}) > SessionMax

\* "Redis session store ... for multi-worker chat continuity": with every
\* worker on Redis, a request finds the turns that ended before it came.
ChatContinues ==
    (\A w \in ChatWorkers : backend[w] # "memory") =>
        \A r \in ChatReqs : \A q \in earlier[r] :
            \E n \in 1..Len(sessions[chatObj[r]].messages) :
                sessions[chatObj[r]].messages[n] = q
=============================================================================

---------------------------- MODULE LookupCaches ----------------------------
(***************************************************************************)
(* The caches in front of three slow services: what Supermemory learned    *)
(* about a user (koraku/core/ttl_cache.py behind                           *)
(* koraku/integrations/supermemory_client.py), the connections of a user   *)
(* and the catalog of toolkits in Composio                                 *)
(* (koraku/integrations/composio.py).  Lookups run in threads, and nothing *)
(* keeps two of them from loading the same key.                            *)
(*                                                                         *)
(* An answer is the version the service had when it was asked.             *)
(***************************************************************************)
EXTENDS Naturals, Sequences, FiniteSets

CONSTANTS Lookups,    \* calls of the three functions
          LookKeys,   \* their keys, each of one cache
          KeyOf,      \* the key of each call
          CacheOf,    \* the cache of each key
          CacheTtl,   \* time to live of each cache, in ticks
          CacheMax,   \* entries of the learned cache and of the connections
          MaxLookNow, \* bound of the clock
          MaxContent, \* bound: changes of what a service has for a key
          NoLookup

Caches == {"learned", "connections", "curated"}

ASSUME LookupAssumption ==
    /\ KeyOf \in [Lookups -> LookKeys] /\ CacheOf \in [LookKeys -> Caches]
    /\ CacheTtl \in [Caches -> Nat \ {0}] /\ CacheMax \in Nat \ {0}
    /\ MaxLookNow \in Nat /\ MaxContent \in Nat /\ NoLookup \notin Lookups

VARIABLES lookPc,     \* where each lookup is
          lookBegan,  \* when it looked into the cache
          lookGot,    \* the version it fetched or was served
          lookFrom,   \* the lookup whose load it was served (history variable)
          cached,     \* key -> [stamp, got, by]
          content,    \* version of what each service has
          lookNow,
          lookBefore, \* lookups answered before this one began (history variable)
          lookBeside  \* lookups that had fetched but not stored when this one
                      \* was answered (history variable)

lookVars == <<lookPc, lookBegan, lookGot, lookFrom, cached, content, lookNow,
              lookBefore, lookBeside>>

Answered == {"hit", "loaded"}

LookupTypeOK ==
    /\ lookPc \in [Lookups -> {"new", "loading", "fetched", "failed"} \cup Answered]
    /\ lookBegan \in [Lookups -> 0..MaxLookNow]
    /\ lookGot \in [Lookups -> 0..MaxContent]
    /\ lookFrom \in [Lookups -> Lookups \cup {NoLookup}]
    /\ \A k \in DOMAIN cached : k \in LookKeys /\
           cached[k] \in [stamp : 0..MaxLookNow, got : 0..MaxContent, by : Lookups]
    /\ content \in [LookKeys -> 0..MaxContent] /\ lookNow \in 0..MaxLookNow

LookupInit ==
    /\ lookPc = [q \in Lookups |-> "new"]
    /\ lookBegan = [q \in Lookups |-> 0]
    /\ lookGot = [q \in Lookups |-> 0]
    /\ lookFrom = [q \in Lookups |-> NoLookup]
    /\ cached = <<>>
    /\ content = [k \in LookKeys |-> 0]
    /\ lookNow = 0
    /\ lookBefore = [q \in Lookups |-> {}]
    /\ lookBeside = [q \in Lookups |-> {}]
-----------------------------------------------------------------------------
Of(cache) == {k \in DOMAIN cached : CacheOf[k] = cache}
Without(keys) == [k \in DOMAIN cached \ keys |-> cached[k]]
Fetched == {q \in Lookups : lookPc[q] = "fetched"}

FreshEntry(k) ==
    k \in DOMAIN cached /\ lookNow - cached[k].stamp < CacheTtl[CacheOf[k]]

\* TtlCache.get drops the entry it finds expired; the other caches keep it.
LookUp(q) ==
    LET k == KeyOf[q]
        fresh == FreshEntry(k)
    IN /\ lookPc[q] = "new"
       /\ lookPc' = [lookPc EXCEPT ![q] = IF fresh THEN "hit" ELSE "loading"]
       /\ lookBegan' = [lookBegan EXCEPT ![q] = lookNow]
       /\ lookGot' = IF fresh THEN [lookGot EXCEPT ![q] = cached[k].got] ELSE lookGot
       /\ lookFrom' = IF fresh THEN [lookFrom EXCEPT ![q] = cached[k].by] ELSE lookFrom
       /\ cached' = IF ~fresh /\ CacheOf[k] = "learned" THEN Without({k}) ELSE cached
       /\ lookBefore' = [lookBefore EXCEPT ![q] = {p \in Lookups : lookPc[p] \in Answered}]
       /\ lookBeside' = IF fresh THEN [lookBeside EXCEPT ![q] = Fetched] ELSE lookBeside
       /\ UNCHANGED <<content, lookNow>>

Fetch(q) ==
    /\ lookPc[q] = "loading"
    /\ lookPc' = [lookPc EXCEPT ![q] = "fetched"]
    /\ lookGot' = [lookGot EXCEPT ![q] = content[KeyOf[q]]]
    /\ UNCHANGED <<lookBegan, lookFrom, cached, content, lookNow, lookBefore, lookBeside>>

\* What makes room for a new entry: a full TtlCache drops its oldest entry,
\* full connections are all dropped, and the catalog has one entry.
Room(k) ==
    LET cache == CacheOf[k]
        full == Cardinality(Of(cache)) >= CacheMax
    IN IF cache = "curated" \/ ~full THEN {{}}
       ELSE IF cache = "connections" THEN {Of(cache)}
       ELSE {{old} : old \in {o \in Of(cache) :
                \A p \in Of(cache) : cached[o].stamp <= cached[p].stamp}}

\* The catalog is stamped with the time of the lookup, before its load.
Stamp(q) == IF CacheOf[KeyOf[q]] = "curated" THEN lookBegan[q] ELSE lookNow

\* The entry a load leaves.  Mutant: an entry that is there is only prolonged.
Prolonged(q) ==
    IF KeyOf[q] \in DOMAIN cached THEN [cached[KeyOf[q]] EXCEPT !.stamp = Stamp(q)]
    ELSE [stamp |-> Stamp(q), got |-> lookGot[q], by |-> q]
Loaded(q) == [stamp |-> Stamp(q), got |-> lookGot[q], by |-> q]

StoreEntry(q) ==
    /\ lookPc[q] = "fetched"
    /\ \E gone \in Room(KeyOf[q]) :
         cached' = [k \in (DOMAIN cached \ gone) \cup {KeyOf[q]} |->
                      IF k = KeyOf[q] THEN Loaded(q) ELSE cached[k]]
    /\ lookPc' = [lookPc EXCEPT ![q] = "loaded"]
    /\ lookFrom' = [lookFrom EXCEPT ![q] = q]
    /\ lookBeside' = [lookBeside EXCEPT ![q] = Fetched \ {q}]
    /\ UNCHANGED <<lookBegan, lookGot, content, lookNow, lookBefore>>

\* The service fails, or the dictionary changes under the search for the
\* oldest entry: nothing is stored; a memory lookup answers with nothing.
FailLoad(q) ==
    /\ lookPc[q] \in {"loading", "fetched"}
    /\ lookPc' = [lookPc EXCEPT ![q] = "failed"]
    /\ UNCHANGED <<lookBegan, lookGot, lookFrom, cached, content, lookNow, lookBefore, lookBeside>>

ContentChanges(k) ==
    /\ content[k] < MaxContent
    /\ content' = [content EXCEPT ![k] = @ + 1]
    /\ UNCHANGED <<lookPc, lookBegan, lookGot, lookFrom, cached, lookNow, lookBefore, lookBeside>>

LookTick ==
    /\ lookNow < MaxLookNow
    /\ lookNow' = lookNow + 1
    /\ UNCHANGED <<lookPc, lookBegan, lookGot, lookFrom, cached, content, lookBefore, lookBeside>>

LookupNext ==
    \/ \E q \in Lookups : LookUp(q) \/ Fetch(q) \/ StoreEntry(q) \/ FailLoad(q)
    \/ \E k \in LookKeys : ContentChanges(k)
    \/ LookTick

LookupSpec == LookupInit /\ [][LookupNext]_lookVars
-----------------------------------------------------------------------------
\* A caller is shown something older than an earlier caller of the same key
\* only when a slow load, begun before, was stored over the newer one: that
\* load was still on its way when the earlier caller was answered.
OlderAnswersExplained ==
    \A q \in Lookups : lookPc[q] \in Answered =>
        \A p \in lookBefore[q] :
            KeyOf[p] = KeyOf[q] /\ lookGot[p] > lookGot[q] => lookFrom[q] \in lookBeside[p]
=============================================================================

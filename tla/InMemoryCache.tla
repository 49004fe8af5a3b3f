--------------------------- MODULE InMemoryCache ---------------------------
(***************************************************************************)
(* InMemoryCacheService: the process's only cache, which nearly every question *)
(* to GitHub goes through.  Callers of wrap share a load that is in flight;    *)
(* others set and delete entries directly; a timer sweeps.                     *)
(*                                                                           *)
(* Every operation is synchronous, so it is one action; what interleaves is    *)
(* what happens between a load being started, its answer being decided at the  *)
(* source, its value being stored, and its callers hearing of it.  Time is     *)
(* ticks.  The cache is a Map, whose order is the order its entries were       *)
(* written in: a sequence, oldest first.                                       *)
(***************************************************************************)
EXTENDS Naturals, Sequences, FiniteSets

CONSTANTS
    Keys,
    Values,      \* what the source may hold
    Unknown,     \* what a load resolves to when the source would not answer
    Ttl,         \* how long each value is kept; none at all for zero
    Callers,     \* concurrent callers of wrap
    Worlds,      \* what is explored together: which keys and callers there are, which keys
                 \* somebody is told of without asking, and sets, and for how many ticks
    Prefixes,    \* the sets of keys deleted together
    MAX_ENTRIES,
    MaxLoad,     \* ticks a load may take
    NoLoad

Answers == Values \cup {Unknown}
Load == [key: Keys, pc: {"asking", "answered", "resolved", "rejected"}, value: Answers,
         began: Nat]

ASSUME UnknownAssumption == Unknown \notin Values
ASSUME TtlAssumption == Ttl \in [Answers -> Nat]
ASSUME SizeAssumption == MAX_ENTRIES \in Nat \ {0}
ASSUME WorldsAssumption ==
    Worlds \subseteq [keys: SUBSET Keys, outsiders: SUBSET Keys, callers: SUBSET Callers, ticks: Nat]
ASSUME PrefixesAssumption == Prefixes \subseteq SUBSET Keys
ASSUME NoLoadAssumption == NoLoad \notin Callers \cup Load
ASSUME MaxLoadAssumption == MaxLoad \in Nat

VARIABLES
    world,
    now,
    entries,   \* [key, value, expiresAt, writtenAt], in Map order
    inFlight,  \* the load each key's callers are sent to, named for the caller who began it
    loads,     \* what each caller's load has come to, or NoLoad
    waitsFor,  \* the load each caller waits for, or NoLoad
    served,    \* the answer the last step gave, if it gave one: [key, value]
    source,    \* what the source holds
    lastTrue   \* when each value was last an answer the source would have given

vars == <<world, now, entries, inFlight, loads, waitsFor, served, source, lastTrue>>

----------------------------------------------------------------------------
keysOf(s) == {s[i].key : i \in DOMAIN s}

\* The elements of s at places I, in their order.  By rank, since the provers have SelectSeq
\* as a name only.
nth(I, n) == CHOOSE i \in I : Cardinality({j \in I : j < i}) = n - 1
selected(s, I) == [n \in 1 .. Cardinality(I) |-> s[nth(I, n)]]

without(s, K) == selected(s, {i \in DOMAIN s : s[i].key \notin K})
entryOf(s, k) == s[CHOOSE i \in DOMAIN s : s[i].key = k]

\* Mutant of live: an entry is still served in the tick it expires.
live_Late(entry) == entry.expiresAt >= now

live(entry) == entry.expiresAt > now

\* What a lookup finds: an entry that has expired is not one, and is taken out on the way.
hit(k) == k \in keysOf(entries) /\ live(entryOf(entries, k))
afterRead(k) == IF hit(k) THEN entries ELSE without(entries, {k})

swept(s) == selected(s, {i \in DOMAIN s : live(s[i])})

\* Mutants of evict: nothing is swept first; and what goes is what was written last before this.
evict_Unswept(s) == SubSeq(s, Len(s) - MAX_ENTRIES + 1, Len(s))
evict_Newest(s) ==
    IF Len(swept(s)) <= MAX_ENTRIES THEN swept(s)
    ELSE Append(SubSeq(swept(s), 1, MAX_ENTRIES - 1), swept(s)[Len(swept(s))])

\* Stale first, then oldest written.
evict(s) ==
    LET kept == swept(s)
    IN  IF Len(kept) <= MAX_ENTRIES THEN kept
        ELSE SubSeq(kept, Len(kept) - MAX_ENTRIES + 1, Len(kept))

\* Mutant of set: room is made for the next entry and never for this one.
set_EvictsFirst(k, v) ==
    LET rest == without(entries, {k})
        room == IF Len(rest) > MAX_ENTRIES THEN evict(rest) ELSE rest
    IN  IF Ttl[v] = 0 THEN rest
        ELSE Append(room, [key |-> k, value |-> v, expiresAt |-> now + Ttl[v], writtenAt |-> now])

\* Mutant of set: a key that is there is not deleted first, so its entry stays where it was in the Map;
\* and stays as it was, where the new value is not to be cached.
set_InPlace(k, v) ==
    LET entry == [key |-> k, value |-> v, expiresAt |-> now + Ttl[v], writtenAt |-> now]
        added == IF k \in keysOf(entries)
                 THEN [i \in DOMAIN entries |-> IF entries[i].key = k THEN entry ELSE entries[i]]
                 ELSE Append(entries, entry)
    IN  IF Ttl[v] = 0 THEN entries
        ELSE IF Len(added) > MAX_ENTRIES THEN evict(added) ELSE added

\* The entries once k is set to v: written anew at the end, and no more of them than allowed.
set(k, v) ==
    LET rest  == without(entries, {k})
        added == Append(rest, [key |-> k, value |-> v, expiresAt |-> now + Ttl[v],
                               writtenAt |-> now])
    IN  IF Ttl[v] = 0 THEN rest
        ELSE IF Len(added) > MAX_ENTRIES THEN evict(added) ELSE added

----------------------------------------------------------------------------
Init ==
    /\ world \in Worlds
    /\ now = 0
    /\ entries = <<>>
    /\ inFlight = [k \in Keys |-> NoLoad]
    /\ loads = [c \in Callers |-> NoLoad]
    /\ waitsFor = [c \in Callers |-> NoLoad]
    /\ served = {}
    /\ source \in [Keys -> Values]
    /\ lastTrue = [k \in Keys |-> [v \in Answers |-> 0]]

Idle(c) == waitsFor[c] = NoLoad /\ loads[c] = NoLoad

\* wrap, where the entry is there.
wrapHit(c, k) ==
    /\ Idle(c)
    /\ hit(k)
    /\ served' = {[key |-> k, value |-> entryOf(entries, k).value]}
    /\ UNCHANGED <<world, now, entries, inFlight, loads, waitsFor, source, lastTrue>>

\* wrap, where somebody is loading it already.
wrapCoalesced(c, k) ==
    /\ Idle(c)
    /\ ~hit(k) /\ inFlight[k] # NoLoad
    /\ entries' = afterRead(k)
    /\ waitsFor' = [waitsFor EXCEPT ![c] = inFlight[k]]
    /\ served' = {}
    /\ UNCHANGED <<world, now, inFlight, loads, source, lastTrue>>

\* Mutant of wrapMiss: get, and then load and set.
wrapMiss_GetThenSet(c, k) ==
    /\ Idle(c)
    /\ ~hit(k)
    /\ entries' = afterRead(k)
    /\ loads' = [loads EXCEPT ![c] = [key |-> k, pc |-> "asking", value |-> Unknown,
                                      began |-> now]]
    /\ inFlight' = [inFlight EXCEPT ![k] = c]
    /\ waitsFor' = [waitsFor EXCEPT ![c] = c]
    /\ served' = {}
    /\ UNCHANGED <<world, now, source, lastTrue>>

\* wrap, where nobody is: the caller's own load begins.
wrapMiss(c, k) ==
    /\ Idle(c)
    /\ ~hit(k) /\ inFlight[k] = NoLoad
    /\ entries' = afterRead(k)
    /\ loads' = [loads EXCEPT ![c] = [key |-> k, pc |-> "asking", value |-> Unknown,
                                      began |-> now]]
    /\ inFlight' = [inFlight EXCEPT ![k] = c]
    /\ waitsFor' = [waitsFor EXCEPT ![c] = c]
    /\ served' = {}
    /\ UNCHANGED <<world, now, source, lastTrue>>

At(c, pc) == loads[c] # NoLoad /\ loads[c].pc = pc

cameTo(load, pc, value) == [key |-> load.key, pc |-> pc, value |-> value, began |-> load.began]

\* The source decides the answer while it is on its way: what it holds, that it will not say,
\* or nothing but an error.
Answered(c) ==
    /\ At(c, "asking")
    /\ LET k == loads[c].key IN
       \/ \E v \in {source[k], Unknown} :
             /\ loads' = [loads EXCEPT ![c] = cameTo(@, "answered", v)]
             /\ lastTrue' = [lastTrue EXCEPT ![k][v] = now]
       \/ /\ loads' = [loads EXCEPT ![c] = cameTo(@, "rejected", Unknown)]
          /\ UNCHANGED lastTrue
    /\ served' = {}
    /\ UNCHANGED <<world, now, entries, inFlight, waitsFor, source>>

\* The load resolves and its value is set, whatever has been set or deleted since it began.
resolved(c) ==
    /\ At(c, "answered")
    /\ entries' = set(loads[c].key, loads[c].value)
    /\ loads' = [loads EXCEPT ![c] = cameTo(@, "resolved", loads[c].value)]
    /\ served' = {}
    /\ UNCHANGED <<world, now, inFlight, waitsFor, source, lastTrue>>

\* Everybody who waited for load c hears of it; of a rejected one, only that it failed.
hear(c) ==
    /\ waitsFor' = [d \in Callers |-> IF waitsFor[d] = c THEN NoLoad ELSE waitsFor[d]]
    /\ served' = IF loads[c].pc = "rejected" THEN {}
                 ELSE {[key |-> loads[c].key, value |-> loads[c].value]}
    /\ loads' = [loads EXCEPT ![c] = NoLoad]

\* Mutant of finally: only a load that succeeded is forgotten.
finally_Then(c) ==
    /\ At(c, "resolved") \/ At(c, "rejected")
    /\ inFlight' = IF At(c, "resolved") THEN [inFlight EXCEPT ![loads[c].key] = NoLoad]
                   ELSE inFlight
    /\ hear(c)
    /\ UNCHANGED <<world, now, entries, source, lastTrue>>

\* However it ended, the load is no longer in flight, and its callers are answered.
finally(c) ==
    /\ At(c, "resolved") \/ At(c, "rejected")
    /\ inFlight' = [inFlight EXCEPT ![loads[c].key] = NoLoad]
    /\ hear(c)
    /\ UNCHANGED <<world, now, entries, source, lastTrue>>

\* Somebody was told what the source holds, and files it without asking.
setOutright(k) ==
    /\ k \in world.outsiders
    /\ entries' = set(k, source[k])
    /\ served' = {}
    /\ UNCHANGED <<world, now, inFlight, loads, waitsFor, source, lastTrue>>

\* delete, and deleteByPrefix with every key under the prefix.  A load in flight is untouched.
deleteByPrefix(K) ==
    /\ entries' = without(entries, K)
    /\ served' = {}
    /\ UNCHANGED <<world, now, inFlight, loads, waitsFor, source, lastTrue>>

sweep ==
    /\ entries' = swept(entries)
    /\ served' = {}
    /\ UNCHANGED <<world, now, inFlight, loads, waitsFor, source, lastTrue>>

SourceChanges(k, v) ==
    /\ v # source[k]
    /\ source' = [source EXCEPT ![k] = v]
    /\ lastTrue' = [lastTrue EXCEPT ![k][source[k]] = now]
    /\ served' = {}
    /\ UNCHANGED <<world, now, entries, inFlight, loads, waitsFor>>

\* Time passes, but for no load longer than MaxLoad.
Tick ==
    /\ now < world.ticks
    /\ \A c \in Callers : loads[c] # NoLoad => now - loads[c].began < MaxLoad
    /\ now' = now + 1
    /\ served' = {}
    /\ UNCHANGED <<world, entries, inFlight, loads, waitsFor, source, lastTrue>>

LoadStep(c) == Answered(c) \/ resolved(c) \/ finally(c)

Next ==
    \/ \E c \in world.callers, k \in world.keys : wrapHit(c, k) \/ wrapCoalesced(c, k) \/ wrapMiss(c, k)
    \/ \E c \in Callers : LoadStep(c)
    \/ \E k \in world.outsiders : setOutright(k)
    \/ \E K \in Prefixes : deleteByPrefix(K)
    \/ sweep
    \/ \E k \in world.keys, v \in Values : SourceChanges(k, v)
    \/ Tick

Spec == Init /\ [][Next]_vars

\* fetch answers or gives up, and a settled promise's callbacks run.
FairSpec == Spec /\ \A c \in Callers : WF_vars(LoadStep(c))

----------------------------------------------------------------------------
\* Every variable has its type; no key has two entries, and the cache is never over its limit.
TypeOK ==
    /\ now \in 0 .. world.ticks
    /\ \A i \in DOMAIN entries :
          /\ entries[i].key \in Keys /\ entries[i].value \in Answers
          /\ \A j \in DOMAIN entries : entries[j].key = entries[i].key => j = i
    /\ Len(entries) <= MAX_ENTRIES
    /\ inFlight \in [Keys -> Callers \cup {NoLoad}]
    /\ \A c \in Callers : loads[c] = NoLoad \/ loads[c] \in Load
    /\ waitsFor \in [Callers -> Callers \cup {NoLoad}]
    /\ source \in [Keys -> Values]

\* Two loads of one key are never under way at a time: all who ask meanwhile share the one,
\* "the whole reason this exists rather than get-then-set".
SingleFlight ==
    \A c, d \in Callers :
        loads[c] # NoLoad /\ loads[d] # NoLoad /\ loads[c].key = loads[d].key => c = d

\* Nobody is answered with what stopped being so longer ago than its time to live and one load
\* together, whatever was set, deleted, evicted or loaded in between.
Fresh ==
    \A answer \in served :
        answer.value # source[answer.key] =>
            /\ now - lastTrue[answer.key][answer.value] <= Ttl[answer.value] + MaxLoad
            /\ Ttl[answer.value] > 0 =>
                  now - lastTrue[answer.key][answer.value] < Ttl[answer.value] + MaxLoad

\* The cache stays within its limit with one entry a key, one load a key is under way, and what is served
\* is never too old (wrap, set, the sweep).
Sound == TypeOK /\ SingleFlight /\ Fresh

\* What making room for k takes out.
MakesRoomFor(k) ==
    LET Gone == {i \in DOMAIN entries : entries[i].key \notin keysOf(entries') \cup {k}}
    IN  setOutright(k) /\ Ttl[source[k]] > 0 =>
            /\ k \in keysOf(entries')
            /\ \A i \in Gone : live(entries[i]) =>
                  \A j \in DOMAIN entries' :
                      entries'[j].writtenAt >= entries[i].writtenAt /\ entries'[j].expiresAt > now

\* What making room takes out: nothing that is live while anything expired is left, nothing
\* younger than anything that stays, and never what the room was made for (set, evict).
EvictsStalestFirst == [][\A k \in Keys : MakesRoomFor(k)]_vars

\* Whoever waits is answered, by a value or an error, even where the load they joined failed.
EveryoneHears == \A c \in Callers : (waitsFor[c] # NoLoad) ~> (waitsFor[c] = NoLoad)

============================================================================

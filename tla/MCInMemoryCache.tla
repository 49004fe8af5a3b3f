-------------------------- MODULE MCInMemoryCache --------------------------
(* Answers kept for two ticks, for one, or not at all.                        *)
EXTENDS InMemoryCache

CONSTANTS a, b, c, x, y, c1, c2

\* y is kept for a shorter time than x; what could not be found out is not kept, as
\* GithubRepositoryAccessDataService has it.
AccessTtl == [v \in {x, y, Unknown} |-> CASE v = x -> 2 [] v = y -> 1 [] OTHER -> 0]
World(keys, outsiders, callers, ticks) ==
    [keys |-> keys, outsiders |-> outsiders, callers |-> callers, ticks |-> ticks]
\* Two callers of one key; and three keys that are only set, in a cache with room for two.
MCWorlds == {World({a}, {}, {c1, c2}, 6), World({a, b, c}, {a, b, c}, {}, 2)}
============================================================================

------------------------------ MODULE Neighbors ------------------------------
(***************************************************************************)
(* The list of neighbour instances (app/web/neighbors.go): a cache in      *)
(* front of a fetch made outside neighborsMu, so that several requests may *)
(* fetch at once and finish in any order.  A list is named by the time it  *)
(* was read at its source.                                                 *)
(* A definition introduced by "Slip" is a plausible mistake in the one     *)
(* after it, used by no behaviour.                                         *)
(***************************************************************************)
EXTENDS Integers

CONSTANTS
    CacheTTL,      \* the five minutes a list is served from the cache
    FetchTimeout,  \* the ten seconds a fetch may last
    NoList         \* no list: nothing cached, nothing read, or a JSON null

VARIABLES
    now,           \* the clock
    cache          \* Server.neighborsCache with neighborsCacheTime

InitNeighbors == cache = [list |-> NoList, at |-> 0]

\* Slip: a list is good as long as somebody asks for it in time: the time of
\* the cache is not that of the fetch.
HitEver == cache.list # NoList

Hit == cache.list # NoList /\ now - cache.at < CacheTTL

\* A finished fetch is stored whatever another one stored meanwhile.
Store(list) == cache' = [list |-> list, at |-> now]

\* A list on a page is at most as old as the cache and the fetch allow.
Recent(list, shownAt) == list # NoList => shownAt - list < CacheTTL + FetchTimeout

TypeOKNeighbors == cache.list \in {NoList} \cup (0 .. now) /\ cache.at \in 0 .. now
=============================================================================

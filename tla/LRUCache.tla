------------------------------ MODULE LRUCache ------------------------------
(***************************************************************************)
(* chord::LRUCache (chord.lru.cache.h): a doubly linked list of entries,   *)
(* the one used last in front, and a map from keys to iterators into the   *)
(* list.  An iterator is the list node it points to (a Slot): a node that  *)
(* was erased may be allocated again for another entry, so an iterator     *)
(* that outlives its node leads to a foreign entry.                        *)
(*                                                                         *)
(* Every operation runs under the mutex from beginning to end: it is one   *)
(* step.  size() and empty() take no lock and change nothing.              *)
(***************************************************************************)
EXTENDS Naturals, Sequences

CONSTANTS
    Key, Value, None,
    Slot,          \* addresses of list nodes
    Capacity

ASSUME LRUCacheAssumption ==
    /\ Capacity \in Nat \ {0}
    /\ None \notin Value \cup Slot

VARIABLES
    list,          \* _list: nodes, most recently used first
    entry,         \* entry[s], the pair in node s
    map,           \* _map: map[k], the node of k, or None
    result         \* what the last call returned; None if nothing, or it threw

cache == <<list, entry, map, result>>

Entry == [key : Key, value : Value]

Nodes == {list[i] : i \in DOMAIN list}

CacheInit ==
    /\ list = << >>
    /\ entry \in [Slot -> {None}]
    /\ map = [k \in Key |-> None]
    /\ result = None

-----------------------------------------------------------------------------
(* The operations on list and map, for a call that finds them as l and m.  *)
exists(m, k) == m[k] # None

Without(l, s) ==
    LET i == CHOOSE i \in DOMAIN l : l[i] = s
    IN  [j \in 1 .. (Len(l) - 1) |-> IF j < i THEN l[j] ELSE l[j + 1]]

(* Mutant: the node goes, the iterator stays.                              *)
ErasedFromList(l, m, k) ==
    IF m[k] = None THEN <<l, m>> ELSE <<Without(l, m[k]), m>>

Erased(l, m, k) ==
    IF m[k] = None
    THEN <<l, m>>
    ELSE <<Without(l, m[k]), [m EXCEPT ![k] = None]>>

(* Mutant: found, not moved to the front.                                  *)
TouchedInPlace(l, m, k) == l

Touched(l, m, k) ==
    IF m[k] = None THEN l ELSE << m[k] >> \o Without(l, m[k])

(* The loop of _put ends after one round: the list was no longer than      *)
(* Capacity before (Consistent).  The key erased is the last entry's.      *)
Evicted(l, m, e) ==
    IF Len(l) > Capacity THEN Erased(l, m, e[l[Len(l)]].key) ELSE <<l, m>>

Puts(k, v, s) ==
    LET gone == Erased(list, map, k)
        filled == [entry EXCEPT ![s] = [key |-> k, value |-> v]]
        left == Evicted(<< s >> \o gone[1], [gone[2] EXCEPT ![k] = s], filled)
    IN  /\ list' = left[1]
        /\ map' = left[2]
        /\ entry' = filled

Fresh == Slot \ Nodes

-----------------------------------------------------------------------------
(* The operations.                                                         *)
put(k, v) ==
    /\ \E s \in Fresh : Puts(k, v, s)
    /\ result' = None

get(k) ==
    /\ list' = Touched(list, map, k)
    /\ result' = IF exists(map, k) THEN entry[map[k]].value ELSE None
    /\ UNCHANGED <<entry, map>>

touch(k) ==
    /\ list' = Touched(list, map, k)
    /\ result' = None
    /\ UNCHANGED <<entry, map>>

(* The mapping function is called only if the key is not there, and the    *)
(* entry is then looked up like any other.                                 *)
compute_if_absent(k, v) ==
    IF exists(map, k)
    THEN get(k)
    ELSE /\ \E s \in Fresh : Puts(k, v, s)
         /\ result' = IF exists(map', k) THEN entry'[map'[k]].value ELSE None

erase(k) ==
    /\ list' = Erased(list, map, k)[1]
    /\ map' = Erased(list, map, k)[2]
    /\ result' = None
    /\ UNCHANGED entry

clear ==
    /\ list' = << >>
    /\ map' = [k \in Key |-> None]
    /\ result' = None
    /\ UNCHANGED entry
=============================================================================

------------------------------- MODULE Cache --------------------------------
(***************************************************************************)
(* What a cache that gives up the entry used least recently promises:      *)
(* a value per key for at most Capacity keys, and the order of their last  *)
(* use.  A key is given up only for a new one, when the cache is full, and *)
(* it is then the one all others were used after.                          *)
(***************************************************************************)
EXTENDS Naturals, FiniteSets

CONSTANTS Key, None, Capacity

VARIABLES
    value,         \* value[k], or None
    older,         \* the pairs <<k, l>> of keys, k last used before l
    answer         \* what the last operation returned, or None

vars == <<value, older, answer>>

Present == {k \in Key : value[k] # None}

Init ==
    /\ value = [k \in Key |-> None]
    /\ older = {}
    /\ answer = None

Among(keys) == {p \in older : p[1] \in keys /\ p[2] \in keys}

UsedNow(k, keys) == Among(keys \ {k}) \cup {<<l, k>> : l \in keys \ {k}}

Use(k) ==
    /\ k \in Present
    /\ older' = UsedNow(k, Present)
    /\ answer' \in {None, value[k]}
    /\ UNCHANGED value

GivenUp(k) ==
    IF k \in Present \/ Cardinality(Present) < Capacity
    THEN {}
    ELSE {l \in Present : \A m \in Present \ {l} : <<l, m>> \in older}

Store(k) ==
    LET kept == Present \ GivenUp(k)
    IN  /\ value'[k] # None
        /\ value' = [l \in Key |-> IF l = k THEN value'[k]
                                   ELSE IF l \in kept THEN value[l] ELSE None]
        /\ older' = UsedNow(k, kept)
        /\ answer' \in {None, value'[k]}

Drop(keys) ==
    /\ value' = [k \in Key |-> IF k \in keys THEN None ELSE value[k]]
    /\ older' = Among(Present \ keys)
    /\ answer' = None

Next == (\E k \in Key : Use(k) \/ Store(k) \/ Drop({k})) \/ Drop(Key)

Spec == Init /\ [][Next]_vars
=============================================================================

----------------------------- MODULE OrderedMap -----------------------------
(***************************************************************************)
(* github.com/secnot/orderedmap, as the peers' code uses it: a map that    *)
(* remembers the order of its keys.  A new key goes to the end, and        *)
(* setting a key again leaves it where it is.                              *)
(***************************************************************************)
EXTENDS Sequences, SequencesExt, TLC

EmptyMap == [order |-> <<>>, value |-> <<>>]

Keys(map) == DOMAIN map.value

Set(map, key, value) ==
    [order |-> IF key \in Keys(map) THEN map.order ELSE Append(map.order, key),
     value |-> [k \in Keys(map) \cup {key} |-> IF k = key THEN value ELSE map.value[k]]]

\* The list of the keys loses the element of one key.
Without(order, key) ==
    IF key \in ToSet(order)
    THEN RemoveAt(order, CHOOSE n \in DOMAIN order : order[n] = key)
    ELSE order

Delete(map, key) ==
    [order |-> Without(map.order, key), value |-> Restrict(map.value, Keys(map) \ {key})]

MoveLast(map, key) == [order |-> Append(Without(map.order, key), key), value |-> map.value]

\* The positions, in the order of an iteration, of the keys whose value passes.
Passing(map, Test(_)) == {n \in DOMAIN map.order : Test(map.value[map.order[n]])}

IsMap(map, Key, Value) ==
    /\ map.order \in Seq(Key)
    /\ ToSet(map.order) = Keys(map)
    /\ IsInjective(map.order)
    /\ \A key \in Keys(map) : map.value[key] \in Value

=============================================================================

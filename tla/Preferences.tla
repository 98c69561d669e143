---------------------------- MODULE Preferences -----------------------------
(***************************************************************************)
(* The NVS library as main.cpp uses it: every key has a value or its       *)
(* default, one call writes or removes one key, and a call that fails      *)
(* leaves its key alone.  A handler's calls are a sequence of writes; what *)
(* a power loss or a failing call leaves of them is Applied to the indices *)
(* of the writes that took effect.                                         *)
(***************************************************************************)
EXTENDS Naturals, Sequences

Write(key, value) == [key |-> key, value |-> value]
When(condition, writes) == IF condition THEN writes ELSE <<>>

\* The store after the writes with the given indices; no handler writes a key twice.
Applied(store, writes, indices) ==
    [key \in DOMAIN store |->
        IF \E i \in indices : writes[i].key = key
        THEN writes[CHOOSE i \in indices : writes[i].key = key].value
        ELSE store[key]]

Written(store, writes) == Applied(store, writes, DOMAIN writes)

\* One call fails, the others do not; the calls for the safe keys never fail.
OneFailed(store, writes, safe) ==
    {Applied(store, writes, DOMAIN writes \ {i}) :
         i \in {j \in DOMAIN writes : writes[j].key \notin safe}}

\* Power is lost before the last call is done.
CutShort(store, writes) ==
    {Applied(store, writes, 1 .. n) : n \in 0 .. Len(writes) - 1}
=============================================================================

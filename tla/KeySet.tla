-------------------------------- MODULE KeySet --------------------------------
(***************************************************************************)
(* What an index of unique keys promises: a set, from which every call     *)
(* takes its effect and its answer in one step, however many steps the     *)
(* call needs before.                                                      *)
(***************************************************************************)
EXTENDS Integers

CONSTANT Key

VARIABLES
    keys, \* the keys in the index
    ret   \* the last call, its key and its answer

Answer(call, key, count) == [call |-> call, key |-> key, count |-> count]

Init == keys \subseteq Key /\ ret = Answer("bulk_load", 0, 0)

\* A call under way has no answer and no effect yet.
Begin == ret' = Answer("pending", 0, 0) /\ UNCHANGED keys

\* One key is inserted unless it is there.
Insert(key) ==
    /\ keys' = keys \cup {key}
    /\ ret' = Answer("insert", key, IF key \in keys THEN 0 ELSE 1)

Erase(key) ==
    /\ keys' = keys \ {key}
    /\ ret' = Answer("erase", key, IF key \in keys THEN 1 ELSE 0)

Next == Begin \/ \E key \in Key : Insert(key) \/ Erase(key)

Spec == Init /\ [][Next]_<<keys, ret>>
=============================================================================

------------------------------- MODULE Journal -------------------------------
(***************************************************************************)
(* The pure part of cache._JournaledDict (src/genesispy/cache.py): what    *)
(* one write does to the dict and to its active journals, and what         *)
(* rollback_journal restores.                                              *)
(*                                                                         *)
(* A Python dict is a function whose DOMAIN is the set of its keys.  A     *)
(* journal is such a dict too: it maps every key touched in its scope to   *)
(* the value the key had before the first touch, or to Missing.            *)
(***************************************************************************)
EXTENDS Naturals, Sequences

CONSTANT Missing    \* the sentinel _MISSING: "the key was absent"

\* dict.get(key, _MISSING)
Lookup(d, k) == IF k \in DOMAIN d THEN d[k] ELSE Missing

\* dict.__setitem__ and dict.__delitem__, with no journaling
Put(d, k, v) == [x \in DOMAIN d \cup {k} |-> IF x = k THEN v ELSE d[x]]
Drop(d, k)   == [x \in DOMAIN d \ {k} |-> d[x]]

\* A slip: every touch overwrites the value remembered.
LastTouch(j, k, prev) == Put(j, k, prev)

\* One journal after a touch of k whose value was prev: the first touch wins.
FirstTouch(j, k, prev) == IF k \in DOMAIN j THEN j ELSE Put(j, k, prev)

\* A slip: only the innermost journal is told.
RecordedInnermost(js, d, k) ==
    IF js = <<>> THEN js ELSE [js EXCEPT ![Len(js)] = FirstTouch(@, k, Lookup(d, k))]

\* _JournaledDict._record: every active journal notes the value k has now.
Recorded(js, d, k) ==
    [i \in DOMAIN js |-> FirstTouch(js[i], k, Lookup(d, k))]

\* The same for a run of writes of one value to several keys.
PutAll(d, K, v) == [x \in DOMAIN d \cup K |-> IF x \in K THEN v ELSE d[x]]
RecordedAll(js, d, K) ==
    [i \in DOMAIN js |->
        [k \in DOMAIN js[i] \cup K |->
            IF k \in DOMAIN js[i] THEN js[i][k] ELSE Lookup(d, k)]]

\* A slip: keys that were absent get the sentinel as their value.
UndoneKeepsAbsent(d, j) ==
    [k \in DOMAIN d \cup DOMAIN j |-> IF k \in DOMAIN j THEN j[k] ELSE d[k]]

\* rollback_journal, for one of the two dicts: journaled keys go back to the
\* value they had when the scope was entered, the other keys stay.
Undone(d, j) ==
    LET absent == {k \in DOMAIN j : j[k] = Missing}
    IN  [k \in (DOMAIN d \cup DOMAIN j) \ absent |->
            IF k \in DOMAIN j THEN j[k] ELSE d[k]]
=============================================================================

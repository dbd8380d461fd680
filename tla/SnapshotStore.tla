----------------------------- MODULE SnapshotStore -----------------------------
(***************************************************************************)
(* What a caller of cache.journaled() may rely on, with no journal in      *)
(* sight: entering a scope remembers the whole store, rolling back brings  *)
(* exactly that store back, leaving a scope forgets what it remembered.    *)
(* Scopes nest.  JournaledCache implements this with first-touch journals. *)
(***************************************************************************)
EXTENDS Naturals, Sequences

CONSTANTS Keys, Vals

VARIABLES store,    \* the dict: a function from the present keys to values
          saved     \* one copy of the dict per open scope, outermost first

vars == <<store, saved>>

Stores == UNION {[S -> Vals] : S \in SUBSET Keys}

Init == /\ store = [k \in {} |-> k]
        /\ saved = <<>>

\* Any change of a single key, including none.
Touch(k) ==
    /\ store' \in Stores
    /\ \A x \in Keys \ {k} :
          /\ x \in DOMAIN store' <=> x \in DOMAIN store
          /\ x \in DOMAIN store => store'[x] = store[x]
    /\ UNCHANGED saved

Enter == /\ saved' = Append(saved, store)
         /\ UNCHANGED store

Restore == /\ saved # <<>>
           /\ store' = saved[Len(saved)]
           /\ UNCHANGED saved

Leave == /\ saved # <<>>
         /\ saved' = SubSeq(saved, 1, Len(saved) - 1)
         /\ UNCHANGED store

Next == \/ \E k \in Keys : Touch(k)
        \/ Enter
        \/ Restore
        \/ Leave

Spec == Init /\ [][Next]_vars
=============================================================================

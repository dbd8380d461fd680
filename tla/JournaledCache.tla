---------------------------- MODULE JournaledCache ----------------------------
(***************************************************************************)
(* The journaled process-wide caches of src/genesispy/cache.py.            *)
(*                                                                         *)
(* MODULE_CACHE and OUTFILE_CONTENT_CACHE are both a _JournaledDict;       *)
(* journaled() opens a journal on both, rollback_journal undoes both and   *)
(* the end of the with block closes both.  Nothing couples the keys of     *)
(* one to the keys of the other, so the pair behaves as one dict over the  *)
(* disjoint union of the two key spaces, which is the dict modelled here.  *)
(*                                                                         *)
(* A scope may end without a rollback: unique_inst leaves the block        *)
(* normally when it keeps the child, and through an exception when the     *)
(* body raises.                                                            *)
(***************************************************************************)
EXTENDS Journal

CONSTANTS Keys, Vals,
          MaxDepth  \* bound on the number of nested journaled() blocks

ASSUME MissingAssumption == Missing \notin Vals
ASSUME DepthAssumption == MaxDepth \in Nat

VARIABLES dict,     \* the contents
          journals  \* _journals: one journal per open block, outermost first

vars == <<dict, journals>>

Dicts    == UNION {[S -> Vals] : S \in SUBSET Keys}
Journals == UNION {[S -> Vals \cup {Missing}] : S \in SUBSET Keys}

Init == /\ dict = [k \in {} |-> k]
        /\ journals = <<>>

\* __setitem__
SetItem(k, v) ==
    /\ journals' = Recorded(journals, dict, k)
    /\ dict' = Put(dict, k, v)

\* __delitem__.  An absent key is journaled before dict.__delitem__ raises
\* KeyError, so the journals change although the dict does not.
DelItem(k) ==
    /\ journals' = Recorded(journals, dict, k)
    /\ dict' = Drop(dict, k)

\* Entry to a `with journaled()` block.
Open ==
    /\ Len(journals) < MaxDepth
    /\ journals' = Append(journals, [k \in {} |-> k])
    /\ UNCHANGED dict

\* rollback_journal(*journal), called inside the block that yielded the
\* journal: blocks are closed last-in first-out, so it is the innermost one.
\* It writes with dict.pop and dict.__setitem__, which no journal records.
Rollback ==
    /\ journals # <<>>
    /\ dict' = Undone(dict, journals[Len(journals)])
    /\ UNCHANGED journals

\* Exit of the block, normal or by an exception: the finally clause.
Close ==
    /\ journals # <<>>
    /\ journals' = SubSeq(journals, 1, Len(journals) - 1)
    /\ UNCHANGED dict

Next == \/ \E k \in Keys, v \in Vals : SetItem(k, v)
        \/ \E k \in Keys : DelItem(k)
        \/ Open
        \/ Rollback
        \/ Close

Spec == Init /\ [][Next]_vars

-----------------------------------------------------------------------------
(* Properties *)

\* The dict holds values only, never the sentinel; a journal holds both.
TypeOK == /\ dict \in Dicts
          /\ journals \in Seq(Journals)
          /\ Len(journals) <= MaxDepth

\* rollback_journal bypasses recording ("dict.__setitem__(MODULE_CACHE, ...)"):
\* that is harmless only because a key an inner block touched is already in
\* the journal of every enclosing block.
JournalsNest ==
    \A i, j \in DOMAIN journals :
        i <= j => DOMAIN journals[j] \subseteq DOMAIN journals[i]

\* The store each open block would return to if it rolled back now.
Snapshots == [i \in DOMAIN journals |-> Undone(dict, journals[i])]

Abstract == INSTANCE SnapshotStore WITH store <- dict, saved <- Snapshots

\* The journals stand for full copies of the dict taken at the entry of each
\* block: "undo only the writes recorded inside the block", at any nesting,
\* whatever inner blocks wrote, deleted or rolled back.
ImplementsSnapshots == Abstract!Spec
=============================================================================

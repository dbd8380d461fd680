------------------------- MODULE JournaledCacheProofs -------------------------
(***************************************************************************)
(* For any keys, values and nesting depth: the journals of cache.py stand  *)
(* for full snapshots.  The inductive invariant is TypeOK /\ JournalsNest; *)
(* the lemmas say what one write, one delete and one rollback do to        *)
(* Undone(dict, j), the store that journal j would bring back.             *)
(***************************************************************************)
EXTENDS JournaledCache, SequenceTheorems, TLAPS

(***************************************************************************)
(* Dicts and journals as functions.                                        *)
(***************************************************************************)

LEMMA DictElim ==
    ASSUME NEW V, NEW d \in UNION {[S -> V] : S \in SUBSET Keys}
    PROVE  /\ DOMAIN d \subseteq Keys
           /\ d = [x \in DOMAIN d |-> d[x]]
           /\ \A x \in DOMAIN d : d[x] \in V
<1>1. PICK S \in SUBSET Keys : d \in [S -> V]
  OBVIOUS
<1> QED
  BY <1>1

LEMMA DictIntro ==
    ASSUME NEW V, NEW S \in SUBSET Keys, NEW d \in [S -> V]
    PROVE  d \in UNION {[T -> V] : T \in SUBSET Keys}
OBVIOUS

\* Writing and deleting one key of a dict leave a dict over Keys.
LEMMA PutType ==
    ASSUME NEW V, NEW d \in UNION {[S -> V] : S \in SUBSET Keys},
           NEW k \in Keys, NEW v \in V
    PROVE  Put(d, k, v) \in UNION {[S -> V] : S \in SUBSET Keys}
<1>1. Put(d, k, v) \in [DOMAIN d \cup {k} -> V]
  BY DictElim DEF Put
<1>2. DOMAIN d \cup {k} \in SUBSET Keys
  BY DictElim
<1> QED
  BY <1>1, <1>2, DictIntro

LEMMA DropType ==
    ASSUME NEW V, NEW d \in UNION {[S -> V] : S \in SUBSET Keys}, NEW k \in Keys
    PROVE  Drop(d, k) \in UNION {[S -> V] : S \in SUBSET Keys}
<1>1. Drop(d, k) \in [DOMAIN d \ {k} -> V]
  BY DictElim DEF Drop
<1>2. DOMAIN d \ {k} \in SUBSET Keys
  BY DictElim
<1> QED
  BY <1>1, <1>2, DictIntro

\* rollback_journal puts values back, never the sentinel.
LEMMA UndoneType ==
    ASSUME NEW d \in Dicts, NEW j \in Journals
    PROVE  Undone(d, j) \in Dicts
<1> DEFINE absent == {k \in DOMAIN j : j[k] = Missing}
           S == (DOMAIN d \cup DOMAIN j) \ absent
<1>1. /\ DOMAIN d \subseteq Keys
      /\ \A x \in DOMAIN d : d[x] \in Vals
  BY DictElim DEF Dicts
<1>2. /\ DOMAIN j \subseteq Keys
      /\ \A x \in DOMAIN j : j[x] \in Vals \cup {Missing}
  BY DictElim DEF Journals
<1>3. Undone(d, j) \in [S -> Vals]
  BY <1>1, <1>2 DEF Undone
<1>4. S \in SUBSET Keys
  BY <1>1, <1>2
<1> QED
  BY <1>3, <1>4, DictIntro DEF Dicts

(***************************************************************************)
(* The first touch of a key keeps what a journal would bring back.         *)
(***************************************************************************)

LEMMA FirstTouchType ==
    ASSUME NEW d \in Dicts, NEW j \in Journals, NEW k \in Keys
    PROVE  /\ FirstTouch(j, k, Lookup(d, k)) \in Journals
           /\ DOMAIN FirstTouch(j, k, Lookup(d, k)) = DOMAIN j \cup {k}
<1>1. Lookup(d, k) \in Vals \cup {Missing}
  BY DictElim DEF Dicts, Lookup
<1>2. Put(j, k, Lookup(d, k)) \in Journals
  BY <1>1, PutType DEF Journals
<1> QED
  BY <1>2 DEF FirstTouch, Put

LEMMA UndoneSet ==
    ASSUME NEW d \in Dicts, NEW j \in Journals, NEW k \in Keys, NEW v \in Vals
    PROVE  Undone(Put(d, k, v), FirstTouch(j, k, Lookup(d, k))) = Undone(d, j)
<1>1. \A x \in DOMAIN d : d[x] \in Vals
  BY DictElim DEF Dicts
<1>2. CASE k \in DOMAIN j
  BY <1>2 DEF Undone, Put, FirstTouch
<1>3. CASE k \notin DOMAIN j /\ k \in DOMAIN d
  BY <1>1, <1>3, MissingAssumption DEF Undone, Put, FirstTouch, Lookup
<1>4. CASE k \notin DOMAIN j /\ k \notin DOMAIN d
  BY <1>4 DEF Undone, Put, FirstTouch, Lookup
<1> QED
  BY <1>2, <1>3, <1>4

LEMMA UndoneDel ==
    ASSUME NEW d \in Dicts, NEW j \in Journals, NEW k \in Keys
    PROVE  Undone(Drop(d, k), FirstTouch(j, k, Lookup(d, k))) = Undone(d, j)
<1>1. \A x \in DOMAIN d : d[x] \in Vals
  BY DictElim DEF Dicts
<1>2. CASE k \in DOMAIN j
  BY <1>2 DEF Undone, Drop, FirstTouch
<1>3. CASE k \notin DOMAIN j /\ k \in DOMAIN d
  BY <1>1, <1>3, MissingAssumption DEF Undone, Put, Drop, FirstTouch, Lookup
<1>4. CASE k \notin DOMAIN j /\ k \notin DOMAIN d
  BY <1>4 DEF Undone, Put, Drop, FirstTouch, Lookup
<1> QED
  BY <1>2, <1>3, <1>4

\* Rolling an inner block back does not change what an outer block would
\* bring back, provided the outer journal knows every key of the inner one.
LEMMA UndoneUndone ==
    ASSUME NEW d \in Dicts, NEW inner \in Journals, NEW outer \in Journals,
           DOMAIN inner \subseteq DOMAIN outer
    PROVE  Undone(Undone(d, inner), outer) = Undone(d, outer)
BY DEF Undone

LEMMA UndoneEmpty ==
    ASSUME NEW d \in Dicts
    PROVE  Undone(d, [k \in {} |-> k]) = d
BY DictElim DEF Undone, Dicts

(***************************************************************************)
(* Type correctness.                                                       *)
(***************************************************************************)

\* What recording a touch does to the whole stack of journals.
LEMMA RecordedStack ==
    ASSUME NEW js \in Seq(Journals), NEW d \in Dicts, NEW k \in Keys
    PROVE  /\ Recorded(js, d, k) \in Seq(Journals)
           /\ Len(Recorded(js, d, k)) = Len(js)
           /\ DOMAIN Recorded(js, d, k) = DOMAIN js
           /\ \A i \in DOMAIN js :
                 DOMAIN Recorded(js, d, k)[i] = DOMAIN js[i] \cup {k}
<1>1. \A i \in DOMAIN js : js[i] \in Journals
  OBVIOUS
<1>2. \A i \in DOMAIN js :
         /\ FirstTouch(js[i], k, Lookup(d, k)) \in Journals
         /\ DOMAIN FirstTouch(js[i], k, Lookup(d, k)) = DOMAIN js[i] \cup {k}
  BY <1>1, FirstTouchType
<1> DEFINE r == Recorded(js, d, k)
<1>3. DOMAIN js = 1 .. Len(js) /\ Len(js) \in Nat
  OBVIOUS
<1>4. r = [i \in 1 .. Len(js) |-> FirstTouch(js[i], k, Lookup(d, k))]
  BY <1>3 DEF Recorded
<1> HIDE DEF r
<1>5. r \in [1 .. Len(js) -> Journals]
  BY <1>2, <1>3, <1>4
<1>6. r \in Seq(Journals) /\ Len(r) = Len(js)
  BY <1>3, <1>5
<1>7. \A i \in DOMAIN js : DOMAIN r[i] = DOMAIN js[i] \cup {k}
  BY <1>2, <1>3, <1>4
<1> QED
  BY <1>3, <1>5, <1>6, <1>7 DEF r

LEMMA EmptyIsJournal == [k \in {} |-> k] \in Journals /\ [k \in {} |-> k] \in Dicts
<1>1. [k \in {} |-> k] \in [{} -> Vals] /\ [k \in {} |-> k] \in [{} -> Vals \cup {Missing}]
  OBVIOUS
<1> QED
  BY <1>1 DEF Journals, Dicts

LEMMA TypeInit == Init => TypeOK
BY EmptyIsJournal, DepthAssumption DEF Init, TypeOK

LEMMA TypeStep == TypeOK /\ [Next]_vars => TypeOK'
<1> SUFFICES ASSUME TypeOK, [Next]_vars
             PROVE  TypeOK'
  OBVIOUS
<1> USE DEF TypeOK
<1>1. ASSUME NEW k \in Keys, NEW v \in Vals, SetItem(k, v)
      PROVE  TypeOK'
  BY <1>1, RecordedStack, PutType DEF SetItem, Dicts
<1>2. ASSUME NEW k \in Keys, DelItem(k)
      PROVE  TypeOK'
  BY <1>2, RecordedStack, DropType DEF DelItem, Dicts
<1>3. CASE Open
  BY <1>3, EmptyIsJournal, DepthAssumption DEF Open
<1>4. CASE Rollback
  <2>1. journals[Len(journals)] \in Journals
    BY <1>4 DEF Rollback
  <2> QED
    BY <1>4, <2>1, UndoneType DEF Rollback
<1>5. CASE Close
  BY <1>5, DepthAssumption DEF Close
<1>6. CASE UNCHANGED vars
  BY <1>6 DEF vars
<1> QED
  BY <1>1, <1>2, <1>3, <1>4, <1>5, <1>6 DEF Next

\* The dict never holds the sentinel, the journals stay within their bound.
THEOREM TypeCorrect == Spec => []TypeOK
BY TypeInit, TypeStep, PTL DEF Spec

(***************************************************************************)
(* An inner journal never knows a key its enclosing journals do not.       *)
(***************************************************************************)

LEMMA NestStep == TypeOK /\ JournalsNest /\ [Next]_vars => JournalsNest'
<1> SUFFICES ASSUME TypeOK, JournalsNest, [Next]_vars
             PROVE  JournalsNest'
  OBVIOUS
<1> USE DEF TypeOK, JournalsNest
<1>1. ASSUME NEW k \in Keys, NEW v \in Vals, SetItem(k, v)
      PROVE  JournalsNest'
  BY <1>1, RecordedStack DEF SetItem
<1>2. ASSUME NEW k \in Keys, DelItem(k)
      PROVE  JournalsNest'
  BY <1>2, RecordedStack DEF DelItem
<1>3. CASE Open
  BY <1>3 DEF Open
<1>4. CASE Rollback
  BY <1>4 DEF Rollback
<1>5. CASE Close
  BY <1>5 DEF Close
<1>6. CASE UNCHANGED vars
  BY <1>6 DEF vars
<1> QED
  BY <1>1, <1>2, <1>3, <1>4, <1>5, <1>6 DEF Next

\* Rolling an inner block back, unrecorded, is harmless to the outer ones.
THEOREM NestingCorrect == Spec => []JournalsNest
<1>1. Init => JournalsNest
  BY DEF Init, JournalsNest
<1> QED
  BY <1>1, NestStep, TypeCorrect, PTL DEF Spec

(***************************************************************************)
(* Refinement.                                                             *)
(***************************************************************************)

LEMMA SnapshotsInit == Init => Abstract!Init
BY DEF Init, Abstract!Init, Snapshots

\* Neither a write nor a delete moves a snapshot.
LEMMA TouchKeepsSnapshots ==
    ASSUME TypeOK, NEW k \in Keys, NEW d2,
           \A j \in Journals :
               Undone(d2, FirstTouch(j, k, Lookup(dict, k))) = Undone(dict, j),
           dict' = d2, journals' = Recorded(journals, dict, k)
    PROVE  Snapshots' = Snapshots
<1>1. \A i \in DOMAIN journals : journals[i] \in Journals
  BY DEF TypeOK
<1>2. DOMAIN journals' = DOMAIN journals
  BY DEF Recorded
<1>3. \A i \in DOMAIN journals : Undone(dict', journals'[i]) = Undone(dict, journals[i])
  BY <1>1 DEF Recorded
<1> QED
  BY <1>2, <1>3 DEF Snapshots

LEMMA SnapshotsStep ==
    TypeOK /\ JournalsNest /\ [Next]_vars => [Abstract!Next]_Abstract!vars
<1> SUFFICES ASSUME TypeOK, JournalsNest, [Next]_vars
             PROVE  Abstract!Next \/ UNCHANGED Abstract!vars
  BY DEF Abstract!vars
<1> USE DEF Abstract!Next
<1>0. /\ \A i \in DOMAIN journals : journals[i] \in Journals
      /\ DOMAIN journals = 1 .. Len(journals)
      /\ Len(journals) \in Nat
      /\ Len(Snapshots) = Len(journals)
      /\ DOMAIN Snapshots = DOMAIN journals
      /\ Dicts = Abstract!Stores
  BY DEF TypeOK, Snapshots, Dicts, Abstract!Stores
<1>1. ASSUME NEW k \in Keys, NEW v \in Vals, SetItem(k, v)
      PROVE  Abstract!Touch(k)
  <2>1. Snapshots' = Snapshots
    BY <1>1, UndoneSet, TouchKeepsSnapshots DEF SetItem, TypeOK
  <2>2. dict' \in Dicts
    BY <1>1, PutType DEF TypeOK, SetItem, Dicts
  <2> QED
    BY <1>0, <1>1, <2>1, <2>2 DEF SetItem, Put, Abstract!Touch
<1>2. ASSUME NEW k \in Keys, DelItem(k)
      PROVE  Abstract!Touch(k)
  <2>1. Snapshots' = Snapshots
    BY <1>2, UndoneDel, TouchKeepsSnapshots DEF DelItem, TypeOK
  <2>2. dict' \in Dicts
    BY <1>2, DropType DEF TypeOK, DelItem, Dicts
  <2> QED
    BY <1>0, <1>2, <2>1, <2>2 DEF DelItem, Drop, Abstract!Touch
<1>3. CASE Open
  <2> DEFINE n == Len(journals)
  <2>1. /\ DOMAIN journals' = 1 .. n + 1
        /\ journals'[n + 1] = [k \in {} |-> k]
        /\ \A i \in 1 .. n : journals'[i] = journals[i]
    BY <1>0, <1>3 DEF Open
  <2>2. Undone(dict', journals'[n + 1]) = dict
    BY <1>3, <2>1, UndoneEmpty DEF Open, TypeOK
  <2>3. Snapshots' = Append(Snapshots, dict)
    BY <1>0, <1>3, <2>1, <2>2 DEF Open, Snapshots
  <2> QED
    BY <1>3, <2>3 DEF Open, Abstract!Enter
<1>4. CASE Rollback
  <2> DEFINE n == Len(journals)
  <2>1. n \in DOMAIN journals /\ journals[n] \in Journals
    BY <1>0, <1>4 DEF Rollback
  <2>2. dict' = Undone(dict, journals[n]) /\ journals' = journals
    BY <1>4 DEF Rollback
  <2>3. \A i \in DOMAIN journals :
           Undone(dict', journals'[i]) = Undone(dict, journals[i])
    BY <1>0, <2>1, <2>2, UndoneUndone DEF TypeOK, JournalsNest
  <2>4. Snapshots' = Snapshots
    BY <2>2, <2>3 DEF Snapshots
  <2>5. Snapshots[Len(Snapshots)] = dict' /\ Snapshots # <<>>
    BY <1>0, <2>1, <2>2 DEF Snapshots
  <2> QED
    BY <2>4, <2>5 DEF Abstract!Restore
<1>5. CASE Close
  <2> DEFINE n == Len(journals)
  <2>1. /\ DOMAIN journals' = 1 .. n - 1
        /\ \A i \in 1 .. n - 1 : journals'[i] = journals[i]
        /\ dict' = dict
        /\ n >= 1
    BY <1>0, <1>5 DEF Close
  <2>2. Snapshots' = SubSeq(Snapshots, 1, n - 1)
    BY <1>0, <2>1 DEF Snapshots
  <2>3. Snapshots # <<>>
    BY <1>0, <2>1
  <2> QED
    BY <1>0, <2>1, <2>2, <2>3 DEF Abstract!Leave
<1>6. CASE UNCHANGED vars
  BY <1>6 DEF vars, Snapshots, Abstract!vars
<1> QED
  BY <1>1, <1>2, <1>3, <1>4, <1>5, <1>6 DEF Next

\* First-touch journals implement full snapshots, for any keys and nesting.
THEOREM SnapshotsCorrect == Spec => ImplementsSnapshots
<1>1. Spec => [](TypeOK /\ JournalsNest)
  BY TypeCorrect, NestingCorrect, PTL
<1> QED
  BY <1>1, SnapshotsInit, SnapshotsStep, PTL DEF Spec, ImplementsSnapshots, Abstract!Spec
=============================================================================

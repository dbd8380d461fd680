-------------------------- MODULE ElaborationProofs --------------------------
(***************************************************************************)
(* For any classes, bodies and overrides: what the scope of a body opens   *)
(* is closed with it, parameters are sealed, and what a step does to       *)
(* instances.                                                              *)
(*                                                                         *)
(* ScopesClose.  Every step stays within a body, enters one or leaves one; *)
(* the three lemmas WithinKeeps, IntoKeeps and OutOfKeeps say              *)
(* that each of these keeps one journal per scope and the active module    *)
(* right, and the lemmas after them which action is of which kind.  The    *)
(* strengthening is Formed: only the first frame is the top's, and each    *)
(* frame remembers the module of the one below it as active.               *)
(*                                                                         *)
(* ParamsSealed.  force_param reaches any instance a body can name, by     *)
(* steps from its own or from the top, and is stopped by the open flag of  *)
(* that one alone, which bodies, returns, exceptions and post-elaboration  *)
(* hits set and restore; so the strengthening SealInv says whose           *)
(* parameters may be open (OneOpen), that the bodies under execution are   *)
(* parents of one another (Linked), and that every way to an instance (the *)
(* caches, their journals, the registry, the sub-instances) leads to one   *)
(* there is (Shaped, Refs).  What a step does with the instances there are *)
(* is Evolves.                                                             *)
(*                                                                         *)
(* Moves.  Next has some thirty disjuncts; to the instances, the stack and *)
(* the dedup keys they do one of nine things.  The invariants of           *)
(* HierarchyProofs are carried from one of these to the next.              *)
(***************************************************************************)
EXTENDS ElaborationSafety, SequenceTheorems, FiniteSetTheorems, TLAPS

\* Finite sequences of anything.
IsSeq(s) == \E S : s \in Seq(S)

LEMMA SeqIs ==
    ASSUME NEW s, IsSeq(s)
    PROVE  Len(s) \in Nat /\ DOMAIN s = 1 .. Len(s)
BY DEF IsSeq

LEMMA AppendIs ==
    ASSUME NEW s, IsSeq(s), NEW e
    PROVE  /\ IsSeq(Append(s, e))
           /\ Len(Append(s, e)) = Len(s) + 1
           /\ \A i \in 1 .. Len(s) : Append(s, e)[i] = s[i]
           /\ Append(s, e)[Len(s) + 1] = e
<1>1. PICK S : s \in Seq(S)
  BY DEF IsSeq
<1>2. s \in Seq(S \cup {e})
  BY <1>1, SeqMonotonic
<1>3. e \in S \cup {e}
  OBVIOUS
<1>4. Append(s, e) \in Seq(S \cup {e})
  BY <1>2, <1>3, AppendProperties
<1> QED
  BY <1>2, <1>3, <1>4, AppendProperties DEF IsSeq

LEMMA FrontIs ==
    ASSUME NEW s, IsSeq(s), s # <<>>
    PROVE  /\ IsSeq(Front(s))
           /\ Len(s) \in Nat \ {0}
           /\ Len(Front(s)) = Len(s) - 1
           /\ \A i \in 1 .. Len(s) - 1 : Front(s)[i] = s[i]
<1>1. PICK S : s \in Seq(S)
  BY DEF IsSeq
<1>2. Len(s) \in Nat \ {0}
  BY <1>1, EmptySeq
<1>3. PICK n \in Nat : n = Len(s) - 1
  BY <1>2
<1>4. PICK t : t = SubSeq(s, 1, n)
  OBVIOUS
<1>5. t \in Seq(S) /\ DOMAIN t = 1 .. n /\ \A i \in 1 .. n : t[i] = s[i]
  BY <1>1, <1>2, <1>3, <1>4
<1>6. Len(t) = n
  BY <1>5, LenProperties
<1> QED
  BY <1>2, <1>3, <1>4, <1>5, <1>6 DEF IsSeq, Front

LEMMA MapIs ==
    ASSUME NEW n \in Nat, NEW f, f = [i \in 1 .. n |-> f[i]]
    PROVE  IsSeq(f) /\ Len(f) = n
<1>1. PICK T : f \in [1 .. n -> T]
  <2>1. f \in [1 .. n -> {f[i] : i \in 1 .. n}]
    OBVIOUS
  <2> QED
    BY <2>1
<1>2. f \in Seq(T)
  BY <1>1
<1>3. Len(f) = n
  BY <1>1, <1>2, LenProperties
<1> QED
  BY <1>2, <1>3 DEF IsSeq

\* Recording a write opens no journal and closes none.
LEMMA RecordedIs ==
    ASSUME NEW js, IsSeq(js), NEW d, NEW k
    PROVE  /\ IsSeq(Recorded(js, d, k)) /\ Len(Recorded(js, d, k)) = Len(js)
           /\ IsSeq(RecordedAll(js, d, k)) /\ Len(RecordedAll(js, d, k)) = Len(js)
<1>1. Len(js) \in Nat /\ DOMAIN js = 1 .. Len(js)
  BY SeqIs
<1>2. \A f, n : n \in Nat /\ f = [i \in 1 .. n |-> f[i]] => IsSeq(f) /\ Len(f) = n
  BY MapIs
<1>3. Recorded(js, d, k) = [i \in 1 .. Len(js) |-> Recorded(js, d, k)[i]]
  BY <1>1 DEF Recorded
<1>4. RecordedAll(js, d, k) = [i \in 1 .. Len(js) |-> RecordedAll(js, d, k)[i]]
  BY <1>1 DEF RecordedAll
<1> QED
  BY <1>1, <1>2, <1>3, <1>4, Zenon

-----------------------------------------------------------------------------
(* Stacks. *)

FrameFields == {"inst", "pc", "kind", "sig", "popen", "prev"}

\* Only the first frame is the top's, and each remembers as the active module
\* the one whose body called it.
Formed(s) ==
    /\ IsSeq(s)
    /\ \A i \in 1 .. Len(s) :
          /\ DOMAIN s[i] = FrameFields
          /\ s[i].kind = "top" <=> i = 1
          /\ s[i].prev = IF i = 1 THEN 0 ELSE s[i - 1].inst

\* Two stacks that differ only in how far the bodies are.
Alike(s, t) ==
    /\ IsSeq(t) /\ Len(t) = Len(s)
    /\ \A i \in 1 .. Len(s) :
          /\ DOMAIN t[i] = FrameFields
          /\ t[i].kind = s[i].kind /\ t[i].inst = s[i].inst /\ t[i].prev = s[i].prev

ActiveOf(s) == IF Len(s) = 0 THEN 0 ELSE s[Len(s)].inst
Scopes(s)   == {i \in 1 .. Len(s) : Journaled(s[i])}
ScopeOf(f)  == IF Journaled(f) THEN 1 ELSE 0

\* What ScopesClose says of a stack and the journals.
Closes(s, mj, oj, a) ==
    /\ IsSeq(mj) /\ Len(mj) = Cardinality(Scopes(s))
    /\ IsSeq(oj) /\ Len(oj) = Cardinality(Scopes(s))
    /\ a = ActiveOf(s)

LEMMA AlikeSame ==
    ASSUME NEW s, Formed(s), NEW t, Alike(s, t)
    PROVE  Formed(t) /\ Scopes(t) = Scopes(s) /\ ActiveOf(t) = ActiveOf(s)
<1>1. Len(s) \in Nat
  BY SeqIs DEF Formed
<1> QED
  BY <1>1 DEF Formed, Alike, Scopes, ActiveOf, Journaled

LEMMA AdvanceAlike ==
    ASSUME NEW s, Formed(s), s # <<>>
    PROVE  Alike(s, Advance(s))
<1>1. Len(s) \in Nat \ {0}
  BY FrontIs DEF Formed
<1> DEFINE f == [s[Len(s)] EXCEPT !.pc = @ + 1]
<1>2. DOMAIN f = FrameFields /\ f.kind = s[Len(s)].kind /\ f.inst = s[Len(s)].inst
      /\ f.prev = s[Len(s)].prev
  BY <1>1 DEF Formed, FrameFields
<1>3. Advance(s) = [s EXCEPT ![Len(s)] = f]
  BY DEF Advance
<1> HIDE DEF f
<1>4. /\ IsSeq(Advance(s)) /\ Len(Advance(s)) = Len(s)
      /\ \A j \in 1 .. Len(s) : Advance(s)[j] = IF j = Len(s) THEN f ELSE s[j]
  <2>1. IsSeq(s)
    BY DEF Formed
  <2>2. Len(s) \in Nat /\ DOMAIN s = 1 .. Len(s)
    BY <2>1, SeqIs
  <2>3. PICK t : t = Advance(s)
    OBVIOUS
  <2>4. /\ t = [j \in 1 .. Len(s) |-> t[j]]
        /\ \A j \in 1 .. Len(s) : t[j] = IF j = Len(s) THEN f ELSE s[j]
    BY <1>1, <1>3, <2>2, <2>3
  <2>5. IsSeq(t) /\ Len(t) = Len(s)
    BY <2>2, <2>4, MapIs
  <2> QED
    BY <2>3, <2>4, <2>5
<1> QED
  BY <1>2, <1>4 DEF Alike, Formed

LEMMA ScopesFinite ==
    ASSUME NEW s, IsSeq(s)
    PROVE  IsFiniteSet(Scopes(s)) /\ Cardinality(Scopes(s)) \in Nat
<1>1. Len(s) \in Nat
  BY SeqIs
<1>2. IsFiniteSet(1 .. Len(s)) /\ Scopes(s) \in SUBSET (1 .. Len(s))
  BY <1>1, FS_Interval DEF Scopes
<1> QED
  BY <1>2, FS_Subset, FS_CardinalityType

\* A body entered on top of a stack.
LEMMA Enters ==
    ASSUME NEW s, Formed(s), NEW f, DOMAIN f = FrameFields, f.kind # "top", Len(s) > 0,
           f.prev = ActiveOf(s)
    PROVE  /\ Formed(Append(s, f))
           /\ Cardinality(Scopes(Append(s, f))) = Cardinality(Scopes(s)) + ScopeOf(f)
           /\ ActiveOf(Append(s, f)) = f.inst
<1> DEFINE t == Append(s, f)
           n == Len(s)
<1>1. n \in Nat /\ IsSeq(s)
  BY SeqIs DEF Formed
<1>2. IsSeq(t) /\ Len(t) = n + 1 /\ t[n + 1] = f /\ \A i \in 1 .. n : t[i] = s[i]
  BY <1>1, AppendIs
<1> HIDE DEF t
<1>3. Formed(t)
  BY <1>1, <1>2 DEF Formed, ActiveOf
<1>4. Scopes(t) = IF Journaled(f) THEN Scopes(s) \cup {n + 1} ELSE Scopes(s)
  BY <1>1, <1>2 DEF Scopes, Journaled
<1>5. n + 1 \notin Scopes(s)
  BY <1>1 DEF Scopes
<1>6. Cardinality(Scopes(t)) = Cardinality(Scopes(s)) + ScopeOf(f)
  <2>1. IsFiniteSet(Scopes(s)) /\ Cardinality(Scopes(s)) \in Nat
    BY <1>1, ScopesFinite
  <2>2. Cardinality(Scopes(s) \cup {n + 1}) = Cardinality(Scopes(s)) + 1
    BY <1>5, <2>1, FS_AddElement
  <2> QED
    BY <1>4, <2>1, <2>2 DEF ScopeOf
<1>7. ActiveOf(t) = f.inst
  BY <1>1, <1>2 DEF ActiveOf
<1> QED
  BY <1>3, <1>6, <1>7 DEF t

\* The innermost body left.
LEMMA Leaves ==
    ASSUME NEW s, Formed(s), s # <<>>
    PROVE  /\ Formed(Front(s))
           /\ Cardinality(Scopes(s)) = Cardinality(Scopes(Front(s))) + ScopeOf(Last(s))
           /\ ActiveOf(Front(s)) = Last(s).prev
<1> DEFINE t == Front(s)
           n == Len(s)
<1>1. /\ IsSeq(t) /\ n \in Nat \ {0} /\ Len(t) = n - 1
      /\ \A i \in 1 .. n - 1 : t[i] = s[i]
  BY FrontIs DEF Formed
<1> HIDE DEF t
<1>2. Formed(t)
  BY <1>1 DEF Formed
<1>3. Scopes(s) = IF Journaled(Last(s)) THEN Scopes(t) \cup {n} ELSE Scopes(t)
  BY <1>1 DEF Scopes, Journaled, Last
<1>4. n \notin Scopes(t)
  BY <1>1 DEF Scopes
<1>5. Cardinality(Scopes(s)) = Cardinality(Scopes(t)) + ScopeOf(Last(s))
  <2>1. IsFiniteSet(Scopes(t)) /\ Cardinality(Scopes(t)) \in Nat
    BY <1>1, ScopesFinite
  <2>2. Cardinality(Scopes(t) \cup {n}) = Cardinality(Scopes(t)) + 1
    BY <1>4, <2>1, FS_AddElement
  <2> QED
    BY <1>3, <2>1, <2>2 DEF ScopeOf
<1>6. ActiveOf(t) = Last(s).prev
  BY <1>1 DEF ActiveOf, Formed, Last
<1> QED
  BY <1>2, <1>5, <1>6 DEF t

-----------------------------------------------------------------------------
(* Three kinds of steps: within a body, into one and out of one.            *)

ScopeInv == Formed(stack) /\ Closes(stack, modJ, outJ, active)

\* n journals more (or fewer) in both caches.
JournalsBy(n) == /\ IsSeq(modJ') /\ Len(modJ') = Len(modJ) + n
                 /\ IsSeq(outJ') /\ Len(outJ') = Len(outJ) + n

LEMMA ScopesPrimed ==
    ASSUME cfg' = cfg, Formed(stack'), IsSeq(modJ'), IsSeq(outJ'),
           Len(modJ') = Cardinality(Scopes(stack')), Len(outJ') = Cardinality(Scopes(stack')),
           active' = ActiveOf(stack')
    PROVE  ScopeInv'
<1>1. Scopes(stack)' = Scopes(stack')
  BY DEF Scopes, Journaled
<1>2. Formed(stack)' /\ ActiveOf(stack)' = ActiveOf(stack')
  BY DEF Formed, ActiveOf, IsSeq
<1> QED
  BY <1>1, <1>2 DEF ScopeInv, Closes, IsSeq

LEMMA WithinKeeps ==
    ASSUME ScopeInv, cfg' = cfg, Alike(stack, stack'), active' = active, JournalsBy(0)
    PROVE  ScopeInv'
<1>1. Formed(stack') /\ Scopes(stack') = Scopes(stack) /\ ActiveOf(stack') = ActiveOf(stack)
  BY AlikeSame DEF ScopeInv
<1>2. Cardinality(Scopes(stack)) \in Nat
  BY ScopesFinite DEF ScopeInv, Formed
<1> QED
  BY <1>1, <1>2, ScopesPrimed DEF ScopeInv, Closes, JournalsBy

LEMMA IntoKeeps ==
    ASSUME ScopeInv, cfg' = cfg, stack # <<>>, NEW f, DOMAIN f = FrameFields, f.kind # "top",
           f.prev = active, stack' = Append(stack, f), active' = f.inst, JournalsBy(ScopeOf(f))
    PROVE  ScopeInv'
<1>1. Len(stack) > 0 /\ f.prev = ActiveOf(stack)
  BY FrontIs DEF ScopeInv, Closes, Formed
<1>2. /\ Formed(stack')
      /\ Cardinality(Scopes(stack')) = Cardinality(Scopes(stack)) + ScopeOf(f)
      /\ ActiveOf(stack') = f.inst
  BY <1>1, Enters DEF ScopeInv
<1> QED
  BY <1>2, ScopesPrimed DEF ScopeInv, Closes, JournalsBy

LEMMA OutOfKeeps ==
    ASSUME ScopeInv, cfg' = cfg, stack # <<>>, Alike(Front(stack), stack'),
           active' = Frame.prev, JournalsBy(0 - ScopeOf(Frame))
    PROVE  ScopeInv'
<1>1. /\ Formed(Front(stack))
      /\ Cardinality(Scopes(stack)) = Cardinality(Scopes(Front(stack))) + ScopeOf(Frame)
      /\ ActiveOf(Front(stack)) = Frame.prev
  BY Leaves DEF ScopeInv, Frame
<1>2. Formed(stack') /\ Scopes(stack') = Scopes(Front(stack))
      /\ ActiveOf(stack') = ActiveOf(Front(stack))
  BY <1>1, AlikeSame
<1>3. Cardinality(Scopes(Front(stack))) \in Nat /\ ScopeOf(Frame) \in Nat
  BY <1>1, ScopesFinite DEF Formed, ScopeOf
<1> QED
  BY <1>1, <1>2, <1>3, ScopesPrimed DEF ScopeInv, Closes, JournalsBy

LEMMA AlikeRefl ==
    ASSUME NEW s, Formed(s)
    PROVE  Alike(s, s)
BY DEF Alike, Formed

\* A body that is not the top's has a caller to return to.
LEMMA CallerAlike ==
    ASSUME ScopeInv, stack # <<>>, Frame.kind # "top"
    PROVE  Alike(Front(stack), Advance(Front(stack)))
<1>1. Len(stack) \in Nat \ {0} /\ Len(stack) # 1
  <2>1. Len(stack) \in Nat \ {0}
    BY FrontIs DEF ScopeInv, Formed
  <2> QED
    BY <2>1 DEF ScopeInv, Formed, Frame, Last
<1>2. Front(stack) # <<>>
  <2>1. Len(Front(stack)) = Len(stack) - 1
    BY FrontIs DEF ScopeInv, Formed
  <2>2. Len(<<>>) = 0
    OBVIOUS
  <2> QED
    BY <1>1, <2>1, <2>2
<1> QED
  BY <1>2, Leaves, AdvanceAlike DEF ScopeInv

\* The top's has none, and no journal.
LEMMA TopAlike ==
    ASSUME ScopeInv, stack # <<>>, Frame.kind = "top" \/ Len(stack) = 1
    PROVE  Alike(Front(stack), <<>>) /\ ScopeOf(Frame) = 0
<1>1. IsSeq(stack)
  BY DEF ScopeInv, Formed
<1>2. Len(stack) \in Nat \ {0} /\ Len(Front(stack)) = Len(stack) - 1
  BY <1>1, FrontIs
<1>3. Len(stack) = 1 /\ Frame.kind = "top"
  BY <1>2 DEF ScopeInv, Formed, Frame, Last
<1>4. IsSeq(<<>>) /\ Len(<<>>) = 0
  BY EmptySeq DEF IsSeq
<1> QED
  BY <1>2, <1>3, <1>4 DEF Alike, ScopeOf, Journaled

LEMMA SameJournals ==
    ASSUME ScopeInv, UNCHANGED <<modJ, outJ>>
    PROVE  JournalsBy(0)
BY SeqIs DEF ScopeInv, Closes, JournalsBy

\* Steps that record writes in the journals there are.
Rewritten(mj, oj) ==
    /\ IsSeq(mj) /\ Len(mj) = Len(modJ)
    /\ IsSeq(oj) /\ Len(oj) = Len(outJ)

LEMMA WrittenIs ==
    ASSUME ScopeInv
    PROVE  /\ IsSeq(WrittenJ) /\ Len(WrittenJ) = Len(outJ)
           /\ Len(outJ) \in Nat /\ Len(modJ) \in Nat
           /\ \A d, k : Rewritten(RecordedAll(modJ, d, k), RecordedAll(outJ, d, k))
           /\ \A d, k : Rewritten(Recorded(modJ, d, k), Recorded(outJ, d, k))
<1>1. IsSeq(modJ) /\ IsSeq(outJ)
  BY DEF ScopeInv, Closes
<1>2. Len(modJ) \in Nat /\ Len(outJ) \in Nat
  BY <1>1, SeqIs
<1>3. \A d, k : Rewritten(RecordedAll(modJ, d, k), RecordedAll(outJ, d, k))
  BY <1>1, RecordedIs, Zenon DEF Rewritten
<1>4. \A d, k : Rewritten(Recorded(modJ, d, k), Recorded(outJ, d, k))
  BY <1>1, RecordedIs, Zenon DEF Rewritten
<1>5. IsSeq(WrittenJ) /\ Len(WrittenJ) = Len(outJ)
  BY <1>1, RecordedIs, Zenon DEF WrittenJ
<1> QED
  BY <1>2, <1>3, <1>4, <1>5, Zenon

-----------------------------------------------------------------------------
(* The actions, by what they do to the scopes.  InStep is what all steps    *)
(* of a body have in common.                                                *)

InStep == ScopeInv /\ cfg' = cfg /\ stack # <<>>

\* Operations that enter no body and leave none.
LEMMA StillKeeps ==
    ASSUME InStep, UNCHANGED <<active, modJ, outJ>>, stack' = stack \/ stack' = Advance(stack)
    PROVE  ScopeInv'
<1>1. Alike(stack, stack')
  BY AlikeRefl, AdvanceAlike DEF InStep, ScopeInv
<1> QED
  BY <1>1, SameJournals, WithinKeeps DEF InStep

LEMMA RaisesKeeps ==
    ASSUME InStep, Raises
    PROVE  ScopeInv'
BY StillKeeps DEF Raises, caches

LEMMA AliasKeeps ==
    ASSUME InStep, NEW src, NEW op, Alias(src, op)
    PROVE  ScopeInv'
BY StillKeeps DEF Alias, caches

LEMMA BeginKeeps ==
    ASSUME ScopeInv, Begin
    PROVE  ScopeInv'
<1>1. /\ stack # <<>> /\ cfg' = cfg /\ active' = active /\ modJ' = modJ
      /\ outJ' = Recorded(outJ, outfiles, Me.uname) /\ stack' = Advance(stack)
  BY Zenon DEF Begin
<1>2. Alike(stack, stack')
  BY <1>1, AdvanceAlike DEF ScopeInv
<1>3. IsSeq(outJ') /\ Len(outJ') = Len(outJ)
  BY <1>1, WrittenIs DEF Rewritten
<1>4. JournalsBy(0)
  BY <1>1, <1>3, SeqIs, WrittenIs DEF JournalsBy, ScopeInv, Closes
<1> QED
  BY <1>1, <1>2, <1>4, WithinKeeps

LEMMA SynonymKeeps ==
    ASSUME InStep, NEW op, Synonym(op)
    PROVE  ScopeInv'
<1>1. /\ stack' = Advance(stack) /\ active' = active
      /\ modJ' = modJ \/ modJ' = Recorded(modJ, modules, NameKey(op.name))
      /\ outJ' = outJ \/ outJ' = Recorded(outJ, outfiles, op.name)
  BY Zenon DEF Synonym, caches
<1>2. IsSeq(modJ) /\ IsSeq(outJ) /\ Len(modJ) \in Nat /\ Len(outJ) \in Nat
  BY SeqIs DEF InStep, ScopeInv, Closes
<1>3. JournalsBy(0)
  BY <1>1, <1>2, RecordedIs DEF JournalsBy
<1> QED
  BY <1>1, <1>3, AdvanceAlike, WithinKeeps DEF InStep, ScopeInv

LEMMA ElaborateKeeps ==
    ASSUME InStep, NEW op, NEW kind, kind # "top", NEW name, Elaborate(op, kind, name),
           IF kind = "unique" /\ ~cfg.nocache THEN OpenJournals ELSE KeepJournals
    PROVE  ScopeInv'
<1> DEFINE f == [inst |-> Len(insts) + 1, pc |-> 0, kind |-> kind, sig |-> Sig(op),
                 popen |-> Me.open, prev |-> active]
<1>1. stack' = Append(stack, f) /\ active' = Len(insts) + 1
  BY Zenon DEF Elaborate
<1>2. /\ DOMAIN f = FrameFields /\ f.kind = kind /\ f.prev = active
      /\ f.inst = Len(insts) + 1
  BY DEF FrameFields
<1>3. Journaled(f) <=> kind = "unique" /\ ~cfg.nocache
  BY <1>2 DEF Journaled
<1> HIDE DEF f
<1>4. IsSeq(modJ) /\ IsSeq(outJ) /\ Len(modJ) \in Nat /\ Len(outJ) \in Nat
  BY SeqIs DEF InStep, ScopeInv, Closes
<1>5. JournalsBy(ScopeOf(f))
  <2>1. CASE Journaled(f)
    <3>1. modJ' = Append(modJ, Empty) /\ outJ' = Append(outJ, Empty)
      BY <1>3, <2>1 DEF OpenJournals
    <3> QED
      BY <1>4, <2>1, <3>1, AppendIs DEF JournalsBy, ScopeOf
  <2>2. CASE ~Journaled(f)
    BY <1>3, <1>4, <2>2 DEF JournalsBy, ScopeOf, KeepJournals
  <2> QED
    BY <2>1, <2>2
<1> QED
  BY <1>1, <1>2, <1>5, IntoKeeps DEF InStep

\* Returns to the caller, whose journals are those of the callee less its own.
LEMMA ReturnKeeps ==
    ASSUME InStep, Frame.kind # "top", RestoreContext,
           stack' = Advance(Front(stack)) \/ stack' = Front(stack),
           JournalsBy(0 - ScopeOf(Frame))
    PROVE  ScopeInv'
<1>1. Alike(Front(stack), stack')
  BY CallerAlike, Leaves, AlikeRefl DEF InStep, ScopeInv
<1> QED
  BY <1>1, OutOfKeeps DEF InStep, RestoreContext

\* Out of the top body.
LEMMA EndKeeps ==
    ASSUME InStep, Frame.kind = "top" \/ Len(stack) = 1, RestoreContext, stack' = <<>>,
           JournalsBy(0)
    PROVE  ScopeInv'
<1>1. Alike(Front(stack), stack') /\ ScopeOf(Frame) = 0
  BY TopAlike DEF InStep
<1> QED
  BY <1>1, OutOfKeeps DEF InStep, RestoreContext

\* Journals after the final flush.
LEMMA FlushedIs ==
    ASSUME InStep, outJ' = WrittenJ,
           modJ' = modJ \/ \E d, k : modJ' = RecordedAll(modJ, d, k)
    PROVE  JournalsBy(0)
BY WrittenIs DEF InStep, JournalsBy, Rewritten, ScopeInv, Closes

\* The same, with the journals of the scope closed.
LEMMA ClosedIs ==
    ASSUME InStep, Journaled(Frame), NEW oj, IsSeq(oj), Len(oj) = Len(outJ), outJ' = Front(oj),
           modJ' = Front(modJ) \/ \E d, k : modJ' = RecordedAll(Front(modJ), d, k)
    PROVE  JournalsBy(0 - ScopeOf(Frame))
<1>1. ScopeOf(Frame) = 1
  BY DEF ScopeOf
<1>2. Cardinality(Scopes(Front(stack))) \in Nat
  BY Leaves, ScopesFinite DEF InStep, ScopeInv, Formed
<1>3. /\ IsSeq(modJ) /\ Len(modJ) \in Nat \ {0}
      /\ IsSeq(outJ) /\ Len(outJ) \in Nat \ {0}
  BY <1>1, <1>2, Leaves DEF InStep, ScopeInv, Closes, Frame
<1>4. Len(<<>>) = 0
  OBVIOUS
<1>5. IsSeq(Front(oj)) /\ Len(Front(oj)) = Len(outJ) - 1
  BY <1>3, <1>4, FrontIs
<1>6. IsSeq(Front(modJ)) /\ Len(Front(modJ)) = Len(modJ) - 1
  BY <1>3, <1>4, FrontIs
<1>7. IsSeq(modJ') /\ Len(modJ') = Len(modJ) - 1
  BY <1>6, RecordedIs
<1> QED
  BY <1>1, <1>3, <1>5, <1>7 DEF JournalsBy

\* Every operation of a body, and every return from one.
LEMMA StepKeeps ==
    ASSUME InStep, NEW op, Step(op)
    PROVE  ScopeInv'
<1>1. CASE \/ UnunqConflict(op) \/ CloneRefused(op) \/ NameTaken(op)
           \/ ForceRefused(op) \/ TemplateError(op)
  BY <1>1, RaisesKeeps DEF UnunqConflict, CloneRefused, NameTaken, ForceRefused, TemplateError
<1>2. CASE UniqueHit(op) \/ ParamHit(op) \/ UnunqAlias(op) \/ CloneInst(op)
  BY <1>2, AliasKeeps DEF UniqueHit, ParamHit, UnunqAlias, CloneInst
<1>3. CASE UniqueMiss(op)
  <2>1. /\ Elaborate(op, "unique", <<op.cls, "unq", derivs[<<op.cls, "unq">>] + 1>>)
        /\ IF cfg.nocache THEN KeepJournals ELSE OpenJournals
    BY <1>3, Zenon DEF UniqueMiss
  <2> QED
    BY <2>1, ElaborateKeeps
<1>4. CASE ParamMiss(op)
  <2>1. (\E name : Elaborate(op, "param", name)) /\ KeepJournals
    BY <1>4, Zenon DEF ParamMiss
  <2> QED
    BY <2>1, ElaborateKeeps
<1>5. CASE UnunqFirst(op)
  <2>1. (\E name : Elaborate(op, "ununq", name)) /\ KeepJournals
    BY <1>5, Zenon DEF UnunqFirst
  <2> QED
    BY <2>1, ElaborateKeeps
<1>6. CASE UnunqAgain(op)
  <2>1. (\E name : Elaborate(op, "again", name)) /\ KeepJournals
    BY <1>6, Zenon DEF UnunqAgain
  <2> QED
    BY <2>1, ElaborateKeeps
<1>7. CASE Synonym(op)
  BY <1>7, SynonymKeeps
<1>8. CASE ForceParam(op)
  BY <1>8, StillKeeps DEF ForceParam, caches
<1>9. CASE FinishTop(op)
  <2>1. Frame.kind = "top" /\ RestoreContext /\ stack' = <<>> /\ outJ' = WrittenJ /\ modJ' = modJ
    BY <1>9, Zenon DEF FinishTop, Finish
  <2>2. JournalsBy(0)
    BY <2>1, FlushedIs
  <2> QED
    BY <2>1, <2>2, EndKeeps
<1>10. CASE UniqueKept(op)
  <2>1. Frame.kind = "unique" /\ RestoreContext /\ stack' = Advance(Front(stack))
    BY <1>10, Zenon DEF UniqueKept, Finish
  <2>2. CASE cfg.nocache
    <3>1. outJ' = WrittenJ /\ \E d, k : modJ' = RecordedAll(modJ, d, k)
      BY <1>10, <2>2, Zenon DEF UniqueKept, Register
    <3>2. ScopeOf(Frame) = 0
      BY <2>2 DEF ScopeOf, Journaled
    <3> QED
      BY <2>1, <3>1, <3>2, FlushedIs, ReturnKeeps
  <2>3. CASE ~cfg.nocache
    <3>1. outJ' = Front(WrittenJ) /\ \E d, k : modJ' = RecordedAll(Front(modJ), d, k)
      BY <1>10, <2>3, Zenon DEF UniqueKept, Register
    <3>2. Journaled(Frame)
      BY <2>1, <2>3 DEF Journaled
    <3>3. IsSeq(WrittenJ) /\ Len(WrittenJ) = Len(outJ)
      BY WrittenIs DEF InStep
    <3>4. JournalsBy(0 - ScopeOf(Frame))
      BY <3>1, <3>2, <3>3, ClosedIs
    <3> QED
      BY <2>1, <3>4, ReturnKeeps
  <2> QED
    BY <2>2, <2>3
<1>11. CASE UniqueDup(op)
  <2>1. /\ Frame.kind = "unique" /\ RestoreContext /\ stack' = Advance(Front(stack))
        /\ modJ' = Front(modJ) /\ outJ' = Front(WrittenJ) /\ ~cfg.nocache
    BY <1>11, Zenon DEF UniqueDup, Finish, HasTwin
  <2>2. Journaled(Frame)
    BY <2>1 DEF Journaled
  <2>3. IsSeq(WrittenJ) /\ Len(WrittenJ) = Len(outJ)
    BY WrittenIs DEF InStep
  <2>4. JournalsBy(0 - ScopeOf(Frame))
    BY <2>1, <2>2, <2>3, ClosedIs
  <2> QED
    BY <2>1, <2>4, ReturnKeeps
<1>12. CASE ParamKept(op) \/ UnunqKept(op) \/ AgainDiffers(op)
  <2>1. /\ Frame.kind \in {"param", "ununq", "again"} /\ RestoreContext /\ outJ' = WrittenJ
        /\ stack' = Advance(Front(stack)) \/ stack' = Front(stack)
        /\ modJ' = modJ \/ \E d, k : modJ' = RecordedAll(modJ, d, k)
    BY <1>12, Zenon DEF ParamKept, UnunqKept, AgainDiffers, Finish, Register
  <2>2. ScopeOf(Frame) = 0
    BY <2>1 DEF ScopeOf, Journaled
  <2> QED
    BY <2>1, <2>2, FlushedIs, ReturnKeeps
<1>13. CASE AgainSame(op)
  <2>1. /\ Frame.kind = "again" /\ RestoreContext /\ modJ' = modJ
        /\ stack' = Advance(Front(stack))
        /\ outJ' = Recorded(WrittenJ, Written, Temporary)
    BY <1>13, Zenon DEF AgainSame, Finish
  <2>2. IsSeq(WrittenJ) /\ Len(WrittenJ) = Len(outJ) /\ Len(outJ) \in Nat /\ Len(modJ) \in Nat
    BY WrittenIs DEF InStep
  <2>3. IsSeq(outJ') /\ Len(outJ') = Len(outJ)
    BY <2>1, <2>2, RecordedIs
  <2>4. ScopeOf(Frame) = 0 /\ JournalsBy(0)
    BY <2>1, <2>2, <2>3 DEF ScopeOf, Journaled, JournalsBy, InStep, ScopeInv, Closes
  <2> QED
    BY <2>1, <2>4, ReturnKeeps
<1> QED
  BY <1>1, <1>2, <1>3, <1>4, <1>5, <1>6, <1>7, <1>8, <1>9, <1>10, <1>11, <1>12, <1>13,
     Zenon DEF Step

\* An exception on its way out closes the scope it leaves.
LEMMA UnwindKeeps ==
    ASSUME ScopeInv, Unwind
    PROVE  ScopeInv'
<1>1. /\ cfg' = cfg /\ Len(stack) > 1 /\ CloseScope /\ RestoreContext
      /\ stack' = Front(stack)
  BY Zenon DEF Unwind
<1>2. Len(<<>>) = 0
  OBVIOUS
<1>3. InStep /\ Frame.kind # "top"
  BY <1>1, <1>2 DEF InStep, ScopeInv, Formed, Frame, Last
<1>4. CASE Journaled(Frame)
  <2>1. modJ' = Front(modJ) /\ outJ' = Front(outJ)
    BY <1>1, <1>4, Zenon DEF CloseScope
  <2>2. JournalsBy(0 - ScopeOf(Frame))
    BY <1>3, <1>4, <2>1, ClosedIs DEF ScopeInv, Closes
  <2> QED
    BY <1>1, <1>3, <2>2, ReturnKeeps
<1>5. CASE ~Journaled(Frame)
  <2>1. ScopeOf(Frame) = 0 /\ JournalsBy(0)
    BY <1>1, <1>5, SameJournals DEF CloseScope, KeepJournals, ScopeOf
  <2> QED
    BY <1>1, <1>3, <2>1, ReturnKeeps
<1> QED
  BY <1>4, <1>5

LEMMA FailKeeps ==
    ASSUME ScopeInv, Fail
    PROVE  ScopeInv'
<1>1. /\ cfg' = cfg /\ Len(stack) = 1 /\ RestoreContext /\ stack' = <<>>
      /\ UNCHANGED <<modJ, outJ>>
  BY Zenon DEF Fail, caches
<1>2. Len(<<>>) = 0
  OBVIOUS
<1>3. InStep
  BY <1>1, <1>2 DEF InStep
<1> QED
  BY <1>1, <1>3, SameJournals, EndKeeps

LEMMA ScopeNext ==
    ASSUME ClassAssumption, ScopeInv, [Next]_vars
    PROVE  ScopeInv'
<1>1. CASE Begin
  BY <1>1, BeginKeeps
<1>2. CASE TooDeep
  <2>1. Len(<<>>) = 0 /\ Len(stack) \in Nat
    BY SeqIs DEF ScopeInv, Formed
  <2>2. InStep
    BY <1>2, <2>1 DEF TooDeep, InStep, ClassAssumption
  <2> QED
    BY <1>2, <2>2, RaisesKeeps DEF TooDeep
<1>3. ASSUME NEW op, InBody, Perform(op), Step(op)
      PROVE  ScopeInv'
  <2>1. InStep
    BY <1>3 DEF InStep, InBody, Perform
  <2> QED
    BY <1>3, <2>1, StepKeeps
<1>4. CASE Catch
  <2>1. /\ stack' = Advance(stack) /\ cfg' = cfg /\ UNCHANGED <<active, modJ, outJ>>
    BY <1>4, Zenon DEF Catch, caches
  <2>2. CASE stack # <<>>
    BY <2>1, <2>2, StillKeeps DEF InStep
  <2>3. CASE stack = <<>>
    <3>1. Advance(stack) = stack
      BY <2>3 DEF Advance
    <3> QED
      BY <2>1, <3>1, AlikeRefl, SameJournals, WithinKeeps DEF ScopeInv
  <2> QED
    BY <2>2, <2>3
<1>5. CASE Unwind
  BY <1>5, UnwindKeeps
<1>6. CASE Fail
  BY <1>6, FailKeeps
<1>7. CASE UNCHANGED vars
  BY <1>7, AlikeRefl, SameJournals, WithinKeeps DEF vars, ScopeInv
<1> QED
  BY <1>1, <1>2, <1>3, <1>4, <1>5, <1>6, <1>7, Zenon DEF Next

LEMMA ScopeInit ==
    ASSUME Init
    PROVE  ScopeInv
<1> DEFINE f == [inst |-> 1, pc |-> 0, kind |-> "top", sig |-> {}, popen |-> FALSE, prev |-> 0]
<1>1. stack = <<f>> /\ active = 1 /\ modJ = <<>> /\ outJ = <<>>
  BY Zenon DEF Init
<1>2. DOMAIN f = FrameFields /\ f.kind = "top" /\ f.prev = 0 /\ f.inst = 1
  BY DEF FrameFields
<1> HIDE DEF f
<1>3. IsSeq(stack) /\ Len(stack) = 1 /\ stack[1] = f
  <2>1. stack \in Seq({f})
    BY <1>1
  <2> QED
    BY <1>1, <2>1 DEF IsSeq
<1>4. Formed(stack) /\ ActiveOf(stack) = 1
  BY <1>2, <1>3 DEF Formed, ActiveOf
<1>5. Scopes(stack) = {}
  BY <1>2, <1>3 DEF Scopes, Journaled
<1>6. IsSeq(<<>>) /\ Len(<<>>) = 0
  BY EmptySeq DEF IsSeq
<1> QED
  BY <1>1, <1>4, <1>5, <1>6, FS_EmptySet DEF ScopeInv, Closes

\* What a body's scope opens is closed with it: whatever the templates do, for
\* any number of exceptions and catches, the caches have one journal per
\* unique_inst under way and the active module is the one whose body runs.
THEOREM ScopesCloseAlways == Spec => []ScopesClose
<1>1. Init => ScopeInv
  BY ScopeInit
<1>2. ScopeInv /\ [Next]_vars => ScopeInv'
  BY ClassAssumption, ScopeNext
<1>3. ScopeInv => ScopesClose
  <2> SUFFICES ASSUME ScopeInv PROVE ScopesClose
    OBVIOUS
  <2>1. Len(stack) \in Nat /\ DOMAIN stack = 1 .. Len(stack)
    BY SeqIs DEF ScopeInv, Formed
  <2>2. InScope = Scopes(stack)
    BY <2>1 DEF InScope, Scopes
  <2>3. active = IF stack = <<>> THEN 0 ELSE Self
    <3>1. stack = <<>> <=> Len(stack) = 0
      BY FrontIs DEF ScopeInv, Formed
    <3> QED
      BY <3>1 DEF ScopeInv, Closes, ActiveOf, Self, Frame, Last
  <2> QED
    BY <2>2, <2>3 DEF ScopesClose, ScopeInv, Closes
<1> QED
  BY <1>1, <1>2, <1>3, PTL DEF Spec

-----------------------------------------------------------------------------
(* Parameters are sealed. *)

InstFields == {"cls", "parent", "iname", "path", "kw", "eff", "uname", "by", "start", "val",
               "forced", "open", "subs", "kids", "syns", "cloneOf", "ofile", "done"}

\* Instances have their fields, and their sub-instances exist.
Shaped(is) ==
    /\ IsSeq(is)
    /\ \A i \in 1 .. Len(is) :
          /\ DOMAIN is[i] = InstFields
          /\ \A x \in DOMAIN is[i].subs : is[i].subs[x] \in 1 .. Len(is)

\* The bodies under execution are those of existing instances, each the parent
\* of the next.
Linked(is, s) ==
    \A k \in 1 .. Len(s) :
        /\ s[k].inst \in 1 .. Len(is)
        /\ k > 1 => is[s[k].inst].parent = s[k - 1].inst

\* While there is one, only the innermost body has open parameters: those of
\* the top stay open when an exception leaves it.
OneOpen(is, s) ==
    Len(s) > 0 => \A i \in 1 .. Len(is) : is[i].open = TRUE => i = s[Len(s)].inst

\* The caches, their journals and the registry of bare names lead to existing
\* instances.
RefDict(d, n) == \A k \in DOMAIN d : d[k] \in 1 .. n
RefJournals(js, n) ==
    \A i \in 1 .. Len(js) : \A k \in DOMAIN js[i] : js[i][k] \in (1 .. n) \cup {Missing}
RefNames(un, n) == \A c \in DOMAIN un : un[c].inst \in 1 .. n
Refs(n) == RefDict(modules, n) /\ RefJournals(modJ, n) /\ RefNames(ununiq, n)

SealInv == /\ Shaped(insts) /\ Linked(insts, stack) /\ OneOpen(insts, stack)
           /\ Refs(Len(insts))

\* What every step does with the instances there are.
Evolves(is) ==
    /\ Shaped(is) /\ Len(is) >= Len(insts)
    /\ \A i \in 1 .. Len(insts) :
          /\ is[i].parent = insts[i].parent
          /\ is[i].val # insts[i].val => stack # <<>> /\ i = Self

-----------------------------------------------------------------------------
(* Updates of instances. *)

Into(d, S) == \A x \in DOMAIN d : d[x] \in S

LEMMA IntoPutDrop ==
    ASSUME NEW d, NEW S, Into(d, S)
    PROVE  /\ \A k : Into(Drop(d, k), S)
           /\ \A k, v : v \in S => Into(Put(d, k, v), S)
BY DEF Into, Drop, Put

\* A step that changes fields of instances, given instance by instance.
LEMMA UpdateIs ==
    ASSUME SealInv, NEW is, DOMAIN is = DOMAIN insts, is = [i \in DOMAIN is |-> is[i]],
           \A i \in 1 .. Len(insts) :
              /\ DOMAIN is[i] = InstFields
              /\ is[i].parent = insts[i].parent
              /\ \A x \in DOMAIN is[i].subs : is[i].subs[x] \in 1 .. Len(insts)
              /\ is[i].val # insts[i].val => stack # <<>> /\ i = Self
    PROVE  Evolves(is) /\ Len(is) = Len(insts)
<1>1. Len(insts) \in Nat /\ DOMAIN insts = 1 .. Len(insts)
  BY SeqIs DEF SealInv, Shaped
<1>2. IsSeq(is) /\ Len(is) = Len(insts)
  BY <1>1, MapIs
<1> QED
  BY <1>1, <1>2 DEF Evolves, Shaped

\* The innermost body, its instance and its parent's.
LEMMA SelfIs ==
    ASSUME ScopeInv, SealInv, stack # <<>>
    PROVE  /\ Len(stack) \in Nat \ {0}
           /\ Self = stack[Len(stack)].inst
           /\ Self \in 1 .. Len(insts)
           /\ Len(insts) \in Nat \ {0}
           /\ DOMAIN insts = 1 .. Len(insts)
           /\ \A i \in 1 .. Len(insts) : insts[i].open = TRUE => i = Self
           /\ DOMAIN Me = InstFields
<1>1. Len(stack) \in Nat \ {0} /\ Self = stack[Len(stack)].inst
  BY FrontIs DEF ScopeInv, Formed, Self, Frame, Last
<1>2. Len(insts) \in Nat /\ DOMAIN insts = 1 .. Len(insts)
  BY SeqIs DEF SealInv, Shaped
<1>3. Self \in 1 .. Len(insts)
  BY <1>1 DEF SealInv, Linked
<1> QED
  BY <1>1, <1>2, <1>3 DEF SealInv, OneOpen, Shaped, Me

LEMMA ParentIs ==
    ASSUME ScopeInv, SealInv, stack # <<>>, Frame.kind # "top" \/ Len(stack) > 1
    PROVE  /\ Len(stack) > 1
           /\ Me.parent = stack[Len(stack) - 1].inst
           /\ Me.parent \in 1 .. Len(insts)
<1>1. Len(stack) \in Nat \ {0} /\ Self = stack[Len(stack)].inst
  BY SelfIs
<1>2. Len(stack) > 1
  BY <1>1 DEF ScopeInv, Formed, Frame, Last
<1> QED
  BY <1>1, <1>2 DEF SealInv, Linked, Me

-----------------------------------------------------------------------------
(* Updates, one lemma for each form. *)

\* No instance comes and none opens or closes.
Kept(is) ==
    /\ Evolves(is) /\ Len(is) = Len(insts)
    /\ \A i \in 1 .. Len(insts) : is[i].open = insts[i].open

LEMMA BeginEvolves ==
    ASSUME ScopeInv, SealInv, Begin
    PROVE  Kept(insts')
<1>1. stack # <<>> /\ \E v, f, o : insts' = [insts EXCEPT ![Self].start = v, ![Self].val = v,
                         ![Self].forced = f, ![Self].ofile = o]
  BY Zenon DEF Begin
<1>2. PICK v, f, o : insts' = [insts EXCEPT ![Self].start = v, ![Self].val = v,
                         ![Self].forced = f, ![Self].ofile = o]
  BY <1>1
<1>3. DOMAIN insts = 1 .. Len(insts) /\ Self \in 1 .. Len(insts)
  BY <1>1, SelfIs
<1> DEFINE r == [Me EXCEPT !.start = v, !.val = v, !.forced = f, !.ofile = o]
<1>4. DOMAIN r = InstFields /\ r.parent = Me.parent /\ r.subs = Me.subs /\ r.open = Me.open
  BY <1>1, SelfIs DEF InstFields
<1>5. insts' = [insts EXCEPT ![Self] = r]
  BY <1>2, <1>3 DEF Me
<1> HIDE DEF r
<1>6. /\ DOMAIN insts' = DOMAIN insts /\ insts' = [i \in DOMAIN insts' |-> insts'[i]]
      /\ \A i \in 1 .. Len(insts) : insts'[i] = IF i = Self THEN r ELSE insts[i]
  BY <1>3, <1>5
<1>7. \A i \in 1 .. Len(insts) :
              /\ DOMAIN insts'[i] = InstFields
              /\ insts'[i].parent = insts[i].parent
              /\ insts'[i].subs = insts[i].subs
              /\ insts'[i].open = insts[i].open
              /\ i # Self => insts'[i].val = insts[i].val
  BY <1>4, <1>6 DEF SealInv, Shaped, Me
<1>8. \A i \in 1 .. Len(insts) : \A x \in DOMAIN insts[i].subs : insts[i].subs[x] \in 1 .. Len(insts)
  BY DEF SealInv, Shaped
<1>9. Evolves(insts') /\ Len(insts') = Len(insts)
  BY <1>1, <1>6, <1>7, <1>8, UpdateIs
<1> QED
  BY <1>7, <1>9 DEF Kept

\* The fields a return, an unwinding or an end changes are none the invariant
\* speaks of but open, and that only of the body left and of its parent.
Closed(is, p) ==
    /\ Evolves(is) /\ Len(is) = Len(insts)
    /\ \A i \in 1 .. Len(insts) : is[i].val = insts[i].val
    /\ \A i \in 1 .. Len(insts) : is[i].open = TRUE => i = p

LEMMA ReturnedCloses ==
    ASSUME ScopeInv, SealInv, stack # <<>>, NEW name
    PROVE  Closed(Returned(name), Me.parent)
<1> DEFINE p == Me.parent
           po == Frame.popen
           kid == <<Me.iname, name>>
<1>1. PICK is : is = Returned(name)
  OBVIOUS
<1>2. is = [insts EXCEPT ![Self].done = TRUE, ![Self].open = FALSE,
                  ![Self].uname = name, ![Self].ofile = name,
                  ![p].open = po,
                  ![p].kids = Append(@, kid)]
  BY <1>1 DEF Returned
<1> HIDE DEF p, po, kid
<1>3. /\ DOMAIN insts = 1 .. Len(insts) /\ Self \in 1 .. Len(insts)
      /\ \A i \in 1 .. Len(insts) : insts[i].open = TRUE => i = Self
  BY SelfIs
<1>4. /\ \A i \in 1 .. Len(insts) : DOMAIN insts[i] = InstFields
      /\ \A i \in 1 .. Len(insts) : \A x \in DOMAIN insts[i].subs : insts[i].subs[x] \in 1 .. Len(insts)
  BY DEF SealInv, Shaped
<1>5. DOMAIN is = DOMAIN insts /\ is = [i \in DOMAIN is |-> is[i]]
  BY <1>2
<1>6. \A i \in 1 .. Len(insts) :
              /\ DOMAIN is[i] = InstFields
              /\ is[i].parent = insts[i].parent
              /\ is[i].subs = insts[i].subs
              /\ is[i].val = insts[i].val
              /\ i # p => is[i].open = IF i = Self THEN FALSE ELSE insts[i].open
  BY <1>2, <1>3, <1>4 DEF InstFields
<1>7. Evolves(is) /\ Len(is) = Len(insts)
  BY <1>4, <1>5, <1>6, UpdateIs
<1> QED
  BY <1>1, <1>3, <1>6, <1>7 DEF Closed, p

LEMMA EndCloses ==
    ASSUME ScopeInv, SealInv, stack # <<>>
    PROVE  Closed([insts EXCEPT ![Self].done = TRUE, ![Self].open = FALSE], 0)
<1>0. PICK is : is = [insts EXCEPT ![Self].done = TRUE, ![Self].open = FALSE]
  OBVIOUS
<1>1. /\ DOMAIN insts = 1 .. Len(insts) /\ Self \in 1 .. Len(insts)
      /\ \A i \in 1 .. Len(insts) : insts[i].open = TRUE => i = Self
  BY SelfIs
<1>2. /\ \A i \in 1 .. Len(insts) : DOMAIN insts[i] = InstFields
      /\ \A i \in 1 .. Len(insts) : \A x \in DOMAIN insts[i].subs : insts[i].subs[x] \in 1 .. Len(insts)
  BY DEF SealInv, Shaped
<1>3. DOMAIN is = DOMAIN insts /\ is = [i \in DOMAIN is |-> is[i]]
  BY <1>0
<1>4. \A i \in 1 .. Len(insts) :
              /\ DOMAIN is[i] = InstFields
              /\ is[i].parent = insts[i].parent
              /\ is[i].subs = insts[i].subs
              /\ is[i].val = insts[i].val
              /\ is[i].open = IF i = Self THEN FALSE ELSE insts[i].open
  BY <1>0, <1>1, <1>2 DEF InstFields
<1>5. Evolves(is) /\ Len(is) = Len(insts)
  BY <1>2, <1>3, <1>4, UpdateIs
<1>7. Closed(is, 0)
  BY <1>1, <1>4, <1>5 DEF Closed
<1> QED
  BY <1>0, <1>7

LEMMA DiffersCloses ==
    ASSUME ScopeInv, SealInv, stack # <<>>, NEW p, NEW po
    PROVE  Closed([insts EXCEPT ![Self].done = TRUE, ![Self].open = FALSE, ![p].open = po], p)
<1>0. PICK is : is = [insts EXCEPT ![Self].done = TRUE, ![Self].open = FALSE, ![p].open = po]
  OBVIOUS
<1>1. /\ DOMAIN insts = 1 .. Len(insts) /\ Self \in 1 .. Len(insts)
      /\ \A i \in 1 .. Len(insts) : insts[i].open = TRUE => i = Self
  BY SelfIs
<1>2. /\ \A i \in 1 .. Len(insts) : DOMAIN insts[i] = InstFields
      /\ \A i \in 1 .. Len(insts) : \A x \in DOMAIN insts[i].subs : insts[i].subs[x] \in 1 .. Len(insts)
  BY DEF SealInv, Shaped
<1>3. DOMAIN is = DOMAIN insts /\ is = [i \in DOMAIN is |-> is[i]]
  BY <1>0
<1>4. \A i \in 1 .. Len(insts) :
              /\ DOMAIN is[i] = InstFields
              /\ is[i].parent = insts[i].parent
              /\ is[i].subs = insts[i].subs
              /\ is[i].val = insts[i].val
              /\ i # p => is[i].open = IF i = Self THEN FALSE ELSE insts[i].open
  BY <1>0, <1>1, <1>2 DEF InstFields
<1>5. Evolves(is) /\ Len(is) = Len(insts)
  BY <1>2, <1>3, <1>4, UpdateIs
<1>7. Closed(is, p)
  BY <1>1, <1>4, <1>5 DEF Closed
<1> QED
  BY <1>0, <1>7

LEMMA UnwindCloses ==
    ASSUME ScopeInv, SealInv, stack # <<>>, NEW p, NEW po, NEW x
    PROVE  Closed([insts EXCEPT ![Self].open = FALSE, ![p].open = po, ![p].subs = Drop(@, x)], p)
<1>0. PICK is : is = [insts EXCEPT ![Self].open = FALSE, ![p].open = po, ![p].subs = Drop(@, x)]
  OBVIOUS
<1>1. /\ DOMAIN insts = 1 .. Len(insts) /\ Self \in 1 .. Len(insts)
      /\ \A i \in 1 .. Len(insts) : insts[i].open = TRUE => i = Self
  BY SelfIs
<1>2. /\ \A i \in 1 .. Len(insts) : DOMAIN insts[i] = InstFields
      /\ \A i \in 1 .. Len(insts) : \A y \in DOMAIN insts[i].subs : insts[i].subs[y] \in 1 .. Len(insts)
  BY DEF SealInv, Shaped
<1>3. DOMAIN is = DOMAIN insts /\ is = [i \in DOMAIN is |-> is[i]]
  BY <1>0
<1>4. \A i \in 1 .. Len(insts) :
              /\ DOMAIN is[i] = InstFields
              /\ is[i].parent = insts[i].parent
              /\ is[i].subs = IF i = p THEN Drop(insts[i].subs, x) ELSE insts[i].subs
              /\ is[i].val = insts[i].val
              /\ i # p => is[i].open = IF i = Self THEN FALSE ELSE insts[i].open
  BY <1>0, <1>1, <1>2 DEF InstFields
<1>5. \A i \in 1 .. Len(insts) : \A y \in DOMAIN is[i].subs : is[i].subs[y] \in 1 .. Len(insts)
  <2> SUFFICES ASSUME NEW i \in 1 .. Len(insts)
               PROVE  Into(is[i].subs, 1 .. Len(insts))
    BY DEF Into
  <2>1. Into(insts[i].subs, 1 .. Len(insts))
    BY <1>2 DEF Into
  <2>2. Into(Drop(insts[i].subs, x), 1 .. Len(insts))
    BY <2>1, IntoPutDrop
  <2> QED
    BY <1>4, <2>1, <2>2
<1>6. Evolves(is) /\ Len(is) = Len(insts)
  BY <1>3, <1>4, <1>5, UpdateIs
<1>7. Closed(is, p)
  BY <1>1, <1>4, <1>6 DEF Closed
<1> QED
  BY <1>0, <1>7

LEMMA SynonymEvolves ==
    ASSUME ScopeInv, SealInv, stack # <<>>, NEW y
    PROVE  Kept([insts EXCEPT ![Self].syns = @ \cup {y}])
<1>0. PICK is : is = [insts EXCEPT ![Self].syns = @ \cup {y}]
  OBVIOUS
<1>1. DOMAIN insts = 1 .. Len(insts) /\ Self \in 1 .. Len(insts)
  BY SelfIs
<1>2. /\ \A i \in 1 .. Len(insts) : DOMAIN insts[i] = InstFields
      /\ \A i \in 1 .. Len(insts) : \A x \in DOMAIN insts[i].subs : insts[i].subs[x] \in 1 .. Len(insts)
  BY DEF SealInv, Shaped
<1>3. DOMAIN is = DOMAIN insts /\ is = [i \in DOMAIN is |-> is[i]]
  BY <1>0
<1>4. \A i \in 1 .. Len(insts) :
              /\ DOMAIN is[i] = InstFields
              /\ is[i].parent = insts[i].parent
              /\ is[i].subs = insts[i].subs
              /\ is[i].val = insts[i].val
              /\ is[i].open = insts[i].open
  BY <1>0, <1>1, <1>2 DEF InstFields
<1>5. Evolves(is) /\ Len(is) = Len(insts)
  BY <1>2, <1>3, <1>4, UpdateIs
<1>6. Kept(is)
  BY <1>4, <1>5 DEF Kept
<1> QED
  BY <1>0, <1>6

\* force_param reaches other instances, but finds open only the caller's.
LEMMA ForceEvolves ==
    ASSUME ScopeInv, SealInv, stack # <<>>, NEW t, NEW v, insts[t].open = TRUE
    PROVE  Kept([insts EXCEPT ![t].val = v, ![t].forced = TRUE])
<1>0. PICK is : is = [insts EXCEPT ![t].val = v, ![t].forced = TRUE]
  OBVIOUS
<1>1. /\ DOMAIN insts = 1 .. Len(insts) /\ Self \in 1 .. Len(insts)
      /\ \A i \in 1 .. Len(insts) : insts[i].open = TRUE => i = Self
  BY SelfIs
<1>2. /\ \A i \in 1 .. Len(insts) : DOMAIN insts[i] = InstFields
      /\ \A i \in 1 .. Len(insts) : \A x \in DOMAIN insts[i].subs : insts[i].subs[x] \in 1 .. Len(insts)
  BY DEF SealInv, Shaped
<1>3. DOMAIN is = DOMAIN insts /\ is = [i \in DOMAIN is |-> is[i]]
  BY <1>0
<1>4. \A i \in 1 .. Len(insts) :
              /\ DOMAIN is[i] = InstFields
              /\ is[i].parent = insts[i].parent
              /\ is[i].subs = insts[i].subs
              /\ i # t => is[i].val = insts[i].val
              /\ is[i].open = insts[i].open
  BY <1>0, <1>1, <1>2 DEF InstFields
<1>5. Evolves(is) /\ Len(is) = Len(insts)
  BY <1>1, <1>2, <1>3, <1>4, UpdateIs
<1>6. Kept(is)
  BY <1>4, <1>5 DEF Kept
<1> QED
  BY <1>0, <1>6

-----------------------------------------------------------------------------
(* Instances made. *)

\* The instances there were, when one more is made.
Grown(is) ==
    /\ DOMAIN is = DOMAIN insts /\ is = [i \in DOMAIN is |-> is[i]]
    /\ \A i \in 1 .. Len(insts) :
          /\ DOMAIN is[i] = InstFields
          /\ is[i].parent = insts[i].parent
          /\ is[i].val = insts[i].val
          /\ \A x \in DOMAIN is[i].subs : is[i].subs[x] \in 1 .. Len(insts) + 1

IsNew(r) == DOMAIN r = InstFields /\ DOMAIN r.subs = {}

LEMMA GrowIs ==
    ASSUME SealInv, NEW is, Grown(is), NEW r, IsNew(r)
    PROVE  /\ Evolves(Append(is, r)) /\ Len(Append(is, r)) = Len(insts) + 1
           /\ Append(is, r)[Len(insts) + 1] = r
           /\ \A i \in 1 .. Len(insts) : Append(is, r)[i] = is[i]
<1>0. PICK js : js = Append(is, r)
  OBVIOUS
<1>1. Len(insts) \in Nat /\ DOMAIN insts = 1 .. Len(insts)
  BY SeqIs DEF SealInv, Shaped
<1>2. IsSeq(is) /\ Len(is) = Len(insts)
  BY <1>1, MapIs DEF Grown
<1>3. /\ IsSeq(js) /\ Len(js) = Len(insts) + 1 /\ js[Len(insts) + 1] = r
      /\ \A i \in 1 .. Len(insts) : js[i] = is[i]
  BY <1>0, <1>2, AppendIs
<1>4. Evolves(js)
  BY <1>1, <1>3 DEF Evolves, Shaped, Grown, IsNew
<1> QED
  BY <1>0, <1>3, <1>4

\* A clone hangs under its parent with closed parameters and no sub-instances.
IsClone(r) == IsNew(r) /\ r.open = FALSE

LEMMA AliasEvolves ==
    ASSUME ScopeInv, SealInv, stack # <<>>, NEW src \in 1 .. Len(insts), NEW op, NEW is,
           is = Clone(src, op)
    PROVE  /\ Evolves(is) /\ Len(is) = Len(insts) + 1
           /\ \A i \in 1 .. Len(is) : is[i].open = TRUE => i \in 1 .. Len(insts) /\ insts[i].open = TRUE
<1> DEFINE path == ChildPath(op)
           n == Len(insts) + 1
           kid == <<op.iname, insts[src].uname>>
           old == [insts EXCEPT ![Self].subs = Put(@, op.iname, n), ![Self].kids = Append(@, kid)]
           r == [insts[src] EXCEPT
                    !.parent = Self, !.iname = op.iname, !.path = path,
                    !.kw = op.kw, !.open = FALSE, !.subs = Empty, !.kids = <<>>,
                    !.cloneOf = src, !.by = op.op]
<1>1. is = Append(old, r)
  BY Zenon DEF Clone
<1>2. DOMAIN insts = 1 .. Len(insts) /\ Self \in 1 .. Len(insts) /\ Len(insts) \in Nat
  BY SelfIs
<1>3. /\ \A i \in 1 .. Len(insts) : DOMAIN insts[i] = InstFields
      /\ \A i \in 1 .. Len(insts) : \A x \in DOMAIN insts[i].subs : insts[i].subs[x] \in 1 .. Len(insts)
  BY DEF SealInv, Shaped
<1> HIDE DEF path, kid
<1>4. IsClone(r)
  BY <1>3 DEF IsClone, IsNew, InstFields, Empty
<1>5. DOMAIN old = DOMAIN insts /\ old = [i \in DOMAIN old |-> old[i]]
  OBVIOUS
<1>6. \A i \in 1 .. Len(insts) :
              /\ DOMAIN old[i] = InstFields
              /\ old[i].parent = insts[i].parent
              /\ old[i].subs = IF i = Self THEN Put(insts[i].subs, op.iname, n) ELSE insts[i].subs
              /\ old[i].val = insts[i].val
              /\ old[i].open = insts[i].open
  BY <1>2, <1>3 DEF InstFields
<1> HIDE DEF old, r
<1>7. \A i \in 1 .. Len(insts) : \A x \in DOMAIN old[i].subs : old[i].subs[x] \in 1 .. Len(insts) + 1
  <2> SUFFICES ASSUME NEW i \in 1 .. Len(insts)
               PROVE  Into(old[i].subs, 1 .. Len(insts) + 1)
    BY DEF Into
  <2>1. Into(insts[i].subs, 1 .. Len(insts) + 1)
    BY <1>2, <1>3 DEF Into
  <2>2. Into(Put(insts[i].subs, op.iname, n), 1 .. Len(insts) + 1)
    BY <1>2, <2>1, IntoPutDrop
  <2> QED
    BY <1>6, <2>1, <2>2
<1>8. /\ Evolves(is) /\ Len(is) = Len(insts) + 1 /\ is[Len(insts) + 1] = r
      /\ \A i \in 1 .. Len(insts) : is[i] = old[i]
  <2>1. IsNew(r)
    BY <1>4 DEF IsClone
  <2>2. Grown(old)
    BY <1>5, <1>6, <1>7 DEF Grown
  <2> QED
    BY <1>1, <2>1, <2>2, GrowIs
<1> QED
  BY <1>2, <1>4, <1>6, <1>8 DEF IsClone

\* A child hangs under the caller, whose parameters close.
LEMMA ElaborateEvolves ==
    ASSUME ScopeInv, SealInv, stack # <<>>, NEW op, NEW kind, NEW uname, Elaborate(op, kind, uname)
    PROVE  /\ Evolves(insts') /\ Len(insts') = Len(insts) + 1
           /\ insts'[Len(insts) + 1].parent = Self
           /\ \A i \in 1 .. Len(insts') : insts'[i].open = TRUE => i = Len(insts) + 1
<1> DEFINE path == ChildPath(op)
           eff == Eff(op)
           n == Len(insts) + 1
           old == [insts EXCEPT ![Self].subs = Put(@, op.iname, n), ![Self].open = OpenUnderChild]
           r == NewInst(op.cls, Self, op.iname, path, op.kw, eff, uname, op.op)
<1>1. insts' = Append(old, r)
  BY Zenon DEF Elaborate
<1>2. /\ DOMAIN insts = 1 .. Len(insts) /\ Self \in 1 .. Len(insts) /\ Len(insts) \in Nat
      /\ \A i \in 1 .. Len(insts) : insts[i].open = TRUE => i = Self
  BY SelfIs
<1>3. /\ \A i \in 1 .. Len(insts) : DOMAIN insts[i] = InstFields
      /\ \A i \in 1 .. Len(insts) : \A x \in DOMAIN insts[i].subs : insts[i].subs[x] \in 1 .. Len(insts)
  BY DEF SealInv, Shaped
<1> HIDE DEF path, eff
<1>4. IsNew(r) /\ r.parent = Self
  BY DEF NewInst, IsNew, InstFields, Empty
<1>5. DOMAIN old = DOMAIN insts /\ old = [i \in DOMAIN old |-> old[i]]
  OBVIOUS
<1>6. \A i \in 1 .. Len(insts) :
              /\ DOMAIN old[i] = InstFields
              /\ old[i].parent = insts[i].parent
              /\ old[i].subs = IF i = Self THEN Put(insts[i].subs, op.iname, n) ELSE insts[i].subs
              /\ old[i].val = insts[i].val
              /\ old[i].open = IF i = Self THEN FALSE ELSE insts[i].open
  BY <1>2, <1>3 DEF InstFields, OpenUnderChild
<1> HIDE DEF old, r
<1>7. \A i \in 1 .. Len(insts) : \A x \in DOMAIN old[i].subs : old[i].subs[x] \in 1 .. Len(insts) + 1
  <2> SUFFICES ASSUME NEW i \in 1 .. Len(insts)
               PROVE  Into(old[i].subs, 1 .. Len(insts) + 1)
    BY DEF Into
  <2>1. Into(insts[i].subs, 1 .. Len(insts) + 1)
    BY <1>2, <1>3 DEF Into
  <2>2. Into(Put(insts[i].subs, op.iname, n), 1 .. Len(insts) + 1)
    BY <1>2, <2>1, IntoPutDrop
  <2> QED
    BY <1>6, <2>1, <2>2
<1>8. /\ Evolves(insts') /\ Len(insts') = Len(insts) + 1 /\ insts'[Len(insts) + 1] = r
      /\ \A i \in 1 .. Len(insts) : insts'[i] = old[i]
  <2>1. Grown(old)
    BY <1>5, <1>6, <1>7 DEF Grown
  <2> QED
    BY <1>1, <1>4, <2>1, GrowIs
<1>9. ASSUME NEW i \in 1 .. Len(insts'), insts'[i].open = TRUE
      PROVE  i = Len(insts) + 1
  <2>1. CASE i \in 1 .. Len(insts)
    <3>1. old[i].open = TRUE
      BY <1>8, <1>9, <2>1
    <3> QED
      BY <1>2, <1>6, <2>1, <3>1
  <2> QED
    BY <1>2, <1>8, <2>1
<1> QED
  BY <1>4, <1>8, <1>9

\* An earlier module takes the place of the body left.
LEMMA DupEvolves ==
    ASSUME ScopeInv, SealInv, NEW op, UniqueDup(op), stack # <<>>
    PROVE  /\ Evolves(insts') /\ Len(insts') = Len(insts) + 1
           /\ \A i \in 1 .. Len(insts') : insts'[i].open = TRUE => i = Me.parent
<1> DEFINE p == Me.parent
           po == Frame.popen
           x == Me.iname
           n == Len(insts) + 1
           src == modules[Post]
           r == [insts[src] EXCEPT
                   !.parent = Me.parent, !.iname = Me.iname, !.path = Me.path,
                   !.kw = Me.kw, !.open = FALSE, !.subs = Empty,
                   !.kids = <<>>, !.cloneOf = src, !.by = Me.by]
           kid == <<Me.iname, r.uname>>
           old == [insts EXCEPT ![Self].done = TRUE, ![Self].open = FALSE, ![p].open = po,
                     ![p].subs = Put(@, x, n), ![p].kids = Append(@, kid)]
<1>1. insts' = Append(old, r) /\ Post \in DOMAIN modules
  BY Zenon DEF UniqueDup, HasTwin
<1>2. /\ DOMAIN insts = 1 .. Len(insts) /\ Self \in 1 .. Len(insts) /\ Len(insts) \in Nat
      /\ \A i \in 1 .. Len(insts) : insts[i].open = TRUE => i = Self
  BY SelfIs
<1>3. /\ \A i \in 1 .. Len(insts) : DOMAIN insts[i] = InstFields
      /\ \A i \in 1 .. Len(insts) : \A y \in DOMAIN insts[i].subs : insts[i].subs[y] \in 1 .. Len(insts)
  BY DEF SealInv, Shaped
<1>4. src \in 1 .. Len(insts)
  BY <1>1 DEF SealInv, Refs, RefDict
<1> HIDE DEF p, po, x, src
<1>5. IsClone(r)
  BY <1>3, <1>4 DEF IsClone, IsNew, InstFields, Empty
<1> HIDE DEF kid
<1>6. DOMAIN old = DOMAIN insts /\ old = [i \in DOMAIN old |-> old[i]]
  OBVIOUS
<1>7. \A i \in 1 .. Len(insts) :
              /\ DOMAIN old[i] = InstFields
              /\ old[i].parent = insts[i].parent
              /\ old[i].subs = IF i = p THEN Put(insts[i].subs, x, n) ELSE insts[i].subs
              /\ old[i].val = insts[i].val
              /\ i # p => old[i].open = IF i = Self THEN FALSE ELSE insts[i].open
  BY <1>2, <1>3 DEF InstFields
<1> HIDE DEF old, r
<1>8. \A i \in 1 .. Len(insts) : \A y \in DOMAIN old[i].subs : old[i].subs[y] \in 1 .. Len(insts) + 1
  <2> SUFFICES ASSUME NEW i \in 1 .. Len(insts)
               PROVE  Into(old[i].subs, 1 .. Len(insts) + 1)
    BY DEF Into
  <2>1. Into(insts[i].subs, 1 .. Len(insts) + 1)
    BY <1>2, <1>3 DEF Into
  <2>2. Into(Put(insts[i].subs, x, n), 1 .. Len(insts) + 1)
    BY <1>2, <2>1, IntoPutDrop
  <2> QED
    BY <1>7, <2>1, <2>2
<1>9. /\ Evolves(insts') /\ Len(insts') = Len(insts) + 1 /\ insts'[Len(insts) + 1] = r
      /\ \A i \in 1 .. Len(insts) : insts'[i] = old[i]
  <2>1. Grown(old) /\ IsNew(r)
    BY <1>5, <1>6, <1>7, <1>8 DEF Grown, IsClone
  <2> QED
    BY <1>1, <2>1, GrowIs
<1>10. ASSUME NEW i \in 1 .. Len(insts'), insts'[i].open = TRUE
       PROVE  i = p
  <2>1. CASE i \in 1 .. Len(insts)
    <3>1. old[i].open = TRUE
      BY <1>9, <1>10, <2>1
    <3> QED
      BY <1>2, <1>7, <2>1, <3>1
  <2>2. CASE i = Len(insts) + 1
    BY <1>5, <1>9, <1>10, <2>2 DEF IsClone
  <2> QED
    BY <1>2, <1>9, <2>1, <2>2
<1> QED
  BY <1>9, <1>10 DEF p

-----------------------------------------------------------------------------
(* References. *)

Refer(m, js, un, n) == RefDict(m, n) /\ RefJournals(js, n) /\ RefNames(un, n)

LEMMA ReferGrow ==
    ASSUME NEW m, NEW js, NEW un, NEW n \in Nat, NEW k \in Nat, k >= n, Refer(m, js, un, n)
    PROVE  Refer(m, js, un, k)
BY DEF Refer, RefDict, RefJournals, RefNames

LEMMA RecordedRefers ==
    ASSUME NEW d, NEW js, NEW n, IsSeq(js), RefDict(d, n), RefJournals(js, n), NEW k
    PROVE  RefJournals(Recorded(js, d, k), n) /\ RefJournals(RecordedAll(js, d, k), n)
<1>1. DOMAIN js = 1 .. Len(js)
  BY SeqIs
<1>2. /\ Len(Recorded(js, d, k)) = Len(js) /\ Len(RecordedAll(js, d, k)) = Len(js)
  BY RecordedIs
<1>4. \A x : Lookup(d, x) \in (1 .. n) \cup {Missing}
  BY DEF Lookup, RefDict
<1>5. ASSUME NEW i \in 1 .. Len(js)
      PROVE  /\ Into(Recorded(js, d, k)[i], (1 .. n) \cup {Missing})
             /\ Into(RecordedAll(js, d, k)[i], (1 .. n) \cup {Missing})
  <2>1. Into(js[i], (1 .. n) \cup {Missing})
    BY DEF RefJournals, Into
  <2>2. Into(Recorded(js, d, k)[i], (1 .. n) \cup {Missing})
    BY <1>1, <1>4, <2>1, IntoPutDrop DEF Recorded, FirstTouch
  <2>3. Into(RecordedAll(js, d, k)[i], (1 .. n) \cup {Missing})
    BY <1>1, <1>4, <2>1 DEF RecordedAll, Into
  <2> QED
    BY <2>2, <2>3
<1> QED
  BY <1>2, <1>5 DEF RefJournals, Into

LEMMA PutRefers ==
    ASSUME NEW d, NEW n, RefDict(d, n), NEW v \in 1 .. n, NEW k
    PROVE  RefDict(Put(d, k, v), n) /\ RefDict(PutAll(d, k, v), n)
BY DEF RefDict, Put, PutAll

LEMMA UndoneRefers ==
    ASSUME NEW d, NEW n, RefDict(d, n), NEW js, IsSeq(js), js # <<>>, RefJournals(js, n)
    PROVE  RefDict(Undone(d, Last(js)), n) /\ RefJournals(Front(js), n)
<1>1. /\ Len(js) \in Nat \ {0} /\ Len(Front(js)) = Len(js) - 1
      /\ \A i \in 1 .. Len(js) - 1 : Front(js)[i] = js[i]
  BY FrontIs
<1>2. \A k \in DOMAIN Last(js) : Last(js)[k] \in (1 .. n) \cup {Missing}
  BY <1>1 DEF RefJournals, Last
<1>3. RefDict(Undone(d, Last(js)), n)
  BY <1>2 DEF Undone, RefDict
<1>4. RefJournals(Front(js), n)
  BY <1>1 DEF RefJournals
<1> QED
  BY <1>3, <1>4

-----------------------------------------------------------------------------
(* The three kinds of steps again. *)

LEMMA SealPrimed ==
    ASSUME Shaped(insts'), Linked(insts', stack'), OneOpen(insts', stack'),
           Refer(modules', modJ', ununiq', Len(insts'))
    PROVE  SealInv'
<1>1. Shaped(insts)'
  BY DEF Shaped, IsSeq
<1>2. Linked(insts, stack)' /\ OneOpen(insts, stack)'
  BY DEF Linked, OneOpen
<1>3. Refs(Len(insts))'
  BY DEF Refer, Refs, RefDict, RefJournals, RefNames
<1> QED
  BY <1>1, <1>2, <1>3 DEF SealInv

\* References to the instances there were lead to the instances there are.
LEMMA ReferLater ==
    ASSUME ScopeInv, SealInv, Evolves(insts'), Refer(modules', modJ', ununiq', Len(insts))
    PROVE  Refer(modules', modJ', ununiq', Len(insts'))
<1>1. Len(insts) \in Nat /\ Len(insts') \in Nat /\ Len(insts') >= Len(insts)
  BY SeqIs DEF SealInv, Shaped, Evolves
<1> QED
  BY <1>1, ReferGrow

LEMMA SealWithin ==
    ASSUME ScopeInv, SealInv, Alike(stack, stack'), Evolves(insts'),
           \A i \in 1 .. Len(insts') : insts'[i].open = TRUE =>
                                          i \in 1 .. Len(insts) /\ insts[i].open = TRUE,
           Refer(modules', modJ', ununiq', Len(insts))
    PROVE  SealInv'
<1>1. PICK is, s : is = insts' /\ s = stack'
  OBVIOUS
<1>2. /\ Len(stack) \in Nat /\ Len(insts) \in Nat /\ Len(is) \in Nat /\ Len(is) >= Len(insts)
      /\ Shaped(is) /\ \A i \in 1 .. Len(insts) : is[i].parent = insts[i].parent
  BY <1>1, SeqIs DEF ScopeInv, Formed, SealInv, Shaped, Evolves
<1>3. Len(s) = Len(stack) /\ \A k \in 1 .. Len(s) : s[k].inst = stack[k].inst
  BY <1>1 DEF Alike
<1>4. Linked(insts, stack) /\ OneOpen(insts, stack)
  BY DEF SealInv
<1>5. Linked(is, s)
  <2> SUFFICES ASSUME NEW k \in 1 .. Len(s)
               PROVE  s[k].inst \in 1 .. Len(is) /\ (k > 1 => is[s[k].inst].parent = s[k - 1].inst)
    BY DEF Linked
  <2>1. s[k].inst = stack[k].inst /\ (k > 1 => s[k - 1].inst = stack[k - 1].inst)
    BY <1>2, <1>3
  <2>2. /\ stack[k].inst \in 1 .. Len(insts)
        /\ k > 1 => insts[stack[k].inst].parent = stack[k - 1].inst
    BY <1>2, <1>3, <1>4 DEF Linked
  <2> QED
    BY <1>2, <2>1, <2>2
<1>6. OneOpen(is, s)
  BY <1>1, <1>2, <1>3, <1>4 DEF OneOpen
<1> QED
  BY <1>1, <1>2, <1>5, <1>6, SealPrimed, ReferLater

LEMMA SealInto ==
    ASSUME ScopeInv, SealInv, stack # <<>>, NEW f, f.inst = Len(insts) + 1,
           stack' = Append(stack, f), Evolves(insts'), Len(insts') = Len(insts) + 1,
           insts'[Len(insts) + 1].parent = Self,
           \A i \in 1 .. Len(insts') : insts'[i].open = TRUE => i = Len(insts) + 1,
           Refer(modules', modJ', ununiq', Len(insts))
    PROVE  SealInv'
<1>1. PICK is, s : is = insts' /\ s = stack'
  OBVIOUS
<1>2. /\ Len(stack) \in Nat \ {0} /\ Len(insts) \in Nat /\ Len(is) = Len(insts) + 1
      /\ Self = stack[Len(stack)].inst
      /\ Shaped(is) /\ \A i \in 1 .. Len(insts) : is[i].parent = insts[i].parent
  BY <1>1, SelfIs DEF Evolves
<1>3. /\ Len(s) = Len(stack) + 1 /\ s[Len(stack) + 1] = f
      /\ \A k \in 1 .. Len(stack) : s[k] = stack[k]
  BY <1>1, AppendIs DEF ScopeInv, Formed
<1>4. Linked(insts, stack)
  BY DEF SealInv
<1>5. Linked(is, s)
  <2> SUFFICES ASSUME NEW k \in 1 .. Len(s)
               PROVE  s[k].inst \in 1 .. Len(is) /\ (k > 1 => is[s[k].inst].parent = s[k - 1].inst)
    BY DEF Linked
  <2>1. CASE k = Len(stack) + 1
    <3>1. s[k].inst = Len(insts) + 1 /\ s[k - 1] = stack[Len(stack)]
      BY <1>2, <1>3, <2>1
    <3>2. is[Len(insts) + 1].parent = Self
      BY <1>1
    <3>3. s[k].inst \in 1 .. Len(is) /\ is[s[k].inst].parent = s[k - 1].inst
      BY <1>2, <3>1, <3>2
    <3> QED
      BY <3>3
  <2>2. CASE k \in 1 .. Len(stack)
    <3>1. s[k] = stack[k] /\ (k > 1 => s[k - 1] = stack[k - 1])
      <4>1. k \in Nat /\ (k > 1 => k - 1 \in 1 .. Len(stack))
        BY <1>2, <2>2
      <4> QED
        BY <1>3, <2>2, <4>1
    <3>2. /\ stack[k].inst \in 1 .. Len(insts)
          /\ k > 1 => insts[stack[k].inst].parent = stack[k - 1].inst
      BY <1>4, <2>2 DEF Linked
    <3> QED
      BY <1>2, <3>1, <3>2
  <2> QED
    BY <1>2, <1>3, <2>1, <2>2
<1>6. OneOpen(is, s)
  BY <1>1, <1>2, <1>3 DEF OneOpen
<1> QED
  BY <1>1, <1>2, <1>5, <1>6, SealPrimed, ReferLater

LEMMA SealOutOf ==
    ASSUME ScopeInv, SealInv, stack # <<>>, Alike(Front(stack), stack'), Evolves(insts'),
           \A i \in 1 .. Len(insts') : insts'[i].open = TRUE =>
                                          (Len(stack) > 1 => i = stack[Len(stack) - 1].inst),
           Refer(modules', modJ', ununiq', Len(insts))
    PROVE  SealInv'
<1>1. PICK is, s : is = insts' /\ s = stack'
  OBVIOUS
<1>2. /\ Len(stack) \in Nat \ {0} /\ Len(insts) \in Nat /\ Len(is) \in Nat /\ Len(is) >= Len(insts)
      /\ Shaped(is) /\ \A i \in 1 .. Len(insts) : is[i].parent = insts[i].parent
  <2>1. Len(stack) \in Nat \ {0} /\ Len(insts) \in Nat
    BY SelfIs
  <2>2. Evolves(is)
    BY <1>1
  <2>3. Len(is) \in Nat
    BY <2>2, SeqIs DEF Evolves, Shaped
  <2> QED
    BY <2>1, <2>2, <2>3 DEF Evolves
<1>3. Len(s) = Len(stack) - 1 /\ \A k \in 1 .. Len(s) : s[k].inst = stack[k].inst
  <2>1. /\ Len(Front(stack)) = Len(stack) - 1
        /\ \A k \in 1 .. Len(stack) - 1 : Front(stack)[k] = stack[k]
    BY FrontIs DEF ScopeInv, Formed
  <2>2. /\ Len(s) = Len(Front(stack))
        /\ \A k \in 1 .. Len(Front(stack)) : s[k].inst = Front(stack)[k].inst
    BY <1>1 DEF Alike
  <2> QED
    BY <2>1, <2>2
<1>4. Linked(insts, stack)
  BY DEF SealInv
<1>5. Linked(is, s)
  <2> SUFFICES ASSUME NEW k \in 1 .. Len(s)
               PROVE  s[k].inst \in 1 .. Len(is) /\ (k > 1 => is[s[k].inst].parent = s[k - 1].inst)
    BY DEF Linked
  <2>1. s[k].inst = stack[k].inst /\ (k > 1 => s[k - 1].inst = stack[k - 1].inst)
    BY <1>2, <1>3
  <2>2. /\ stack[k].inst \in 1 .. Len(insts)
        /\ k > 1 => insts[stack[k].inst].parent = stack[k - 1].inst
    BY <1>2, <1>3, <1>4 DEF Linked
  <2> QED
    BY <1>2, <2>1, <2>2
<1>6. OneOpen(is, s)
  BY <1>1, <1>2, <1>3 DEF OneOpen
<1> QED
  BY <1>1, <1>2, <1>5, <1>6, SealPrimed, ReferLater

-----------------------------------------------------------------------------
(* The actions. *)

SealStep == SealInv' /\ Evolves(insts')
Referred == Refer(modules', modJ', ununiq', Len(insts))

LEMMA SameReferred ==
    ASSUME SealInv, UNCHANGED <<modules, modJ, ununiq>>
    PROVE  Referred
BY DEF SealInv, Refs, Referred, Refer

LEMMA SameKept ==
    ASSUME SealInv
    PROVE  Kept(insts)
<1>1. Len(insts) \in Nat
  BY SeqIs DEF SealInv, Shaped
<1> QED
  BY <1>1 DEF Kept, Evolves, SealInv

LEMMA StillSeals ==
    ASSUME ScopeInv, SealInv, Kept(insts'), Referred,
           stack' = stack \/ (stack # <<>> /\ stack' = Advance(stack))
    PROVE  SealStep
<1>1. Alike(stack, stack')
  BY AlikeRefl, AdvanceAlike DEF ScopeInv
<1> QED
  BY <1>1, SealWithin DEF Kept, Referred, SealStep

LEMMA RaisesSeals ==
    ASSUME ScopeInv, SealInv, Raises
    PROVE  SealStep
<1>1. insts' = insts /\ stack' = stack /\ UNCHANGED <<modules, modJ, ununiq>>
  BY DEF Raises, caches
<1> QED
  BY <1>1, SameKept, SameReferred, StillSeals

LEMMA AliasSeals ==
    ASSUME InStep, SealInv, NEW op, NEW src \in 1 .. Len(insts), Alias(src, op)
    PROVE  SealStep
<1>1. /\ insts' = Clone(src, op) /\ stack' = Advance(stack)
      /\ UNCHANGED <<modules, modJ, ununiq>>
  BY Zenon DEF Alias, caches
<1>2. ScopeInv /\ stack # <<>>
  BY DEF InStep
<1>3. Evolves(insts') /\ \A i \in 1 .. Len(insts') : insts'[i].open = TRUE =>
                               i \in 1 .. Len(insts) /\ insts[i].open = TRUE
  BY <1>1, <1>2, AliasEvolves
<1>4. Alike(stack, stack')
  BY <1>1, <1>2, AdvanceAlike DEF ScopeInv
<1> QED
  BY <1>1, <1>2, <1>3, <1>4, SameReferred, SealWithin DEF Referred, SealStep

LEMMA ElaborateSeals ==
    ASSUME InStep, SealInv, NEW op, NEW kind, NEW uname, Elaborate(op, kind, uname),
           OpenJournals \/ KeepJournals
    PROVE  SealStep
<1> DEFINE f == [inst |-> Len(insts) + 1, pc |-> 0, kind |-> kind, sig |-> Sig(op),
                 popen |-> Me.open, prev |-> active]
<1>1. stack' = Append(stack, f) /\ UNCHANGED <<modules, ununiq>>
  BY Zenon DEF Elaborate
<1>2. f.inst = Len(insts) + 1
  OBVIOUS
<1> HIDE DEF f
<1>3. ScopeInv /\ stack # <<>>
  BY DEF InStep
<1>4. RefJournals(modJ', Len(insts))
  <2>1. RefJournals(modJ, Len(insts))
    BY DEF SealInv, Refs
  <2>2. CASE modJ' = modJ
    BY <2>1, <2>2
  <2>3. CASE modJ' = Append(modJ, Empty)
    <3>1. /\ Len(modJ') = Len(modJ) + 1 /\ modJ'[Len(modJ) + 1] = Empty /\ Len(modJ) \in Nat
          /\ \A i \in 1 .. Len(modJ) : modJ'[i] = modJ[i]
      BY <1>3, <2>3, AppendIs, SeqIs DEF ScopeInv, Closes
    <3> QED
      BY <2>1, <3>1 DEF RefJournals, Empty
  <2> QED
    BY <2>2, <2>3 DEF OpenJournals, KeepJournals
<1>5. Refer(modules', modJ', ununiq', Len(insts))
  BY <1>1, <1>4 DEF Refer, SealInv, Refs
<1>6. /\ Evolves(insts') /\ Len(insts') = Len(insts) + 1
      /\ insts'[Len(insts) + 1].parent = Self
      /\ \A i \in 1 .. Len(insts') : insts'[i].open = TRUE => i = Len(insts) + 1
  BY <1>3, ElaborateEvolves
<1> QED
  BY <1>1, <1>2, <1>3, <1>5, <1>6, SealInto DEF SealStep

\* Back in the caller, whose parameters may open again.
LEMMA ReturnSeals ==
    ASSUME InStep, SealInv, Frame.kind # "top", Evolves(insts'),
           \A i \in 1 .. Len(insts') : insts'[i].open = TRUE => i = Me.parent,
           stack' = Advance(Front(stack)) \/ stack' = Front(stack), Referred
    PROVE  SealStep
<1>1. ScopeInv /\ stack # <<>>
  BY DEF InStep
<1>2. Len(stack) > 1 /\ Me.parent = stack[Len(stack) - 1].inst
  BY <1>1, ParentIs
<1>3. Alike(Front(stack), stack')
  BY <1>1, CallerAlike, Leaves, AlikeRefl DEF ScopeInv
<1>4. \A i \in 1 .. Len(insts') : insts'[i].open = TRUE =>
                                     (Len(stack) > 1 => i = stack[Len(stack) - 1].inst)
  BY <1>2
<1> QED
  BY <1>1, <1>3, <1>4, SealOutOf DEF Referred, SealStep

LEMMA ClosedReturns ==
    ASSUME InStep, SealInv, Frame.kind # "top", Closed(insts', Me.parent),
           stack' = Advance(Front(stack)) \/ stack' = Front(stack), Referred
    PROVE  SealStep
BY ReturnSeals DEF Closed

\* Out of the top body, whatever stays open.
LEMMA OverSeals ==
    ASSUME ScopeInv, SealInv, stack # <<>>, Frame.kind = "top" \/ Len(stack) = 1,
           Evolves(insts'), stack' = <<>>, Referred
    PROVE  SealStep
<1>1. Alike(Front(stack), stack')
  BY TopAlike
<1>2. ~(Len(stack) > 1)
  BY SelfIs DEF ScopeInv, Formed, Frame, Last
<1> QED
  BY <1>1, <1>2, SealOutOf DEF Referred, SealStep

\* The caches when a child is kept.
LEMMA RegisterRefers ==
    ASSUME InStep, SealInv, NEW js, IsSeq(js), RefJournals(js, Len(insts)), NEW keys,
           Register(js, keys)
    PROVE  RefDict(modules', Len(insts)) /\ RefJournals(modJ', Len(insts))
<1>1. /\ modJ' = RecordedAll(js, modules, keys)
      /\ modules' = PutAll(modules, keys, Self)
  BY DEF Register
<1>2. RefDict(modules, Len(insts)) /\ Self \in 1 .. Len(insts)
  BY SelfIs DEF InStep, SealInv, Refs
<1> QED
  BY <1>1, <1>2, RecordedRefers, PutRefers

LEMMA JournalsRefer ==
    ASSUME InStep, SealInv
    PROVE  /\ IsSeq(modJ) /\ RefJournals(modJ, Len(insts)) /\ RefDict(modules, Len(insts))
           /\ Journaled(Frame) =>
                 /\ IsSeq(Front(modJ)) /\ RefJournals(Front(modJ), Len(insts))
                 /\ RefDict(Undone(modules, Last(modJ)), Len(insts))
<1>1. IsSeq(modJ) /\ RefJournals(modJ, Len(insts)) /\ RefDict(modules, Len(insts))
  BY DEF InStep, ScopeInv, Closes, SealInv, Refs
<1>2. ASSUME Journaled(Frame)
      PROVE  modJ # <<>>
  <2>1. Cardinality(Scopes(Front(stack))) \in Nat
    BY Leaves, ScopesFinite DEF InStep, ScopeInv, Formed
  <2>2. Len(modJ) = Cardinality(Scopes(Front(stack))) + 1
    BY <1>2, <2>1, Leaves DEF InStep, ScopeInv, Closes, Frame, ScopeOf
  <2>3. Len(<<>>) = 0
    OBVIOUS
  <2> QED
    BY <2>1, <2>2, <2>3
<1> QED
  BY <1>1, <1>2, UndoneRefers, FrontIs

LEMMA NamesRefer ==
    ASSUME SealInv
    PROVE  RefNames(ununiq, Len(insts))
BY DEF SealInv, Refs

\* Every operation of a body, and every return from one.
LEMMA StepSeals ==
    ASSUME InStep, SealInv, NEW op, Step(op)
    PROVE  SealStep
<1>0. ScopeInv /\ stack # <<>>
  BY DEF InStep
<1>1. CASE \/ UnunqConflict(op) \/ CloneRefused(op) \/ NameTaken(op)
           \/ ForceRefused(op) \/ TemplateError(op)
  BY <1>0, <1>1, RaisesSeals DEF UnunqConflict, CloneRefused, NameTaken, ForceRefused, TemplateError
<1>2. CASE UniqueHit(op) \/ ParamHit(op)
  <2>1. PICK k \in DOMAIN modules : Alias(modules[k], op)
    BY <1>2, Zenon DEF UniqueHit, ParamHit
  <2>2. modules[k] \in 1 .. Len(insts)
    BY DEF SealInv, Refs, RefDict
  <2> QED
    BY <2>1, <2>2, AliasSeals
<1>3. CASE UnunqAlias(op)
  <2>1. op.cls \in DOMAIN ununiq /\ Alias(ununiq[op.cls].inst, op)
    BY <1>3, Zenon DEF UnunqAlias, Later
  <2>2. ununiq[op.cls].inst \in 1 .. Len(insts)
    BY <2>1, NamesRefer DEF RefNames
  <2> QED
    BY <2>1, <2>2, AliasSeals
<1>4. CASE CloneInst(op)
  <2>1. PICK src \in Instances(op.src) : Alias(src, op)
    BY <1>4, Zenon DEF CloneInst
  <2>2. src \in 1 .. Len(insts)
    <3>1. src \in DOMAIN insts
      BY <2>1, Zenon DEF Instances
    <3> QED
      BY <1>0, <3>1 DEF ScopeInv
  <2> QED
    BY <2>1, <2>2, AliasSeals
<1>5. CASE UniqueMiss(op)
  <2>1. /\ Elaborate(op, "unique", <<op.cls, "unq", derivs[<<op.cls, "unq">>] + 1>>)
        /\ OpenJournals \/ KeepJournals
    BY <1>5, Zenon DEF UniqueMiss
  <2> QED
    BY <2>1, ElaborateSeals
<1>6. CASE ParamMiss(op) \/ UnunqFirst(op) \/ UnunqAgain(op)
  <2>1. (\E kind, name : Elaborate(op, kind, name)) /\ KeepJournals
    BY <1>6, Zenon DEF ParamMiss, UnunqFirst, UnunqAgain
  <2> QED
    BY <2>1, ElaborateSeals
<1>7. CASE Synonym(op)
  <2>1. /\ stack' = Advance(stack) /\ ununiq' = ununiq
        /\ \/ UNCHANGED <<insts, modules, modJ>>
           \/ /\ insts' = [insts EXCEPT ![Self].syns = @ \cup {op.name}]
              /\ modJ' = Recorded(modJ, modules, NameKey(op.name))
              /\ modules' = Put(modules, NameKey(op.name), Self)
    BY <1>7, Zenon DEF Synonym, caches
  <2>2. CASE UNCHANGED <<insts, modules, modJ>>
    BY <1>0, <2>1, <2>2, SameKept, SameReferred, StillSeals
  <2>3. CASE /\ insts' = [insts EXCEPT ![Self].syns = @ \cup {op.name}]
             /\ modJ' = Recorded(modJ, modules, NameKey(op.name))
             /\ modules' = Put(modules, NameKey(op.name), Self)
    <3>1. Kept(insts')
      BY <1>0, <2>3, SynonymEvolves
    <3>2. Self \in 1 .. Len(insts)
      BY <1>0, SelfIs
    <3>3. Referred
      BY <2>1, <2>3, <3>2, JournalsRefer, NamesRefer, RecordedRefers, PutRefers
         DEF Referred, Refer
    <3> QED
      BY <1>0, <2>1, <3>1, <3>3, StillSeals
  <2> QED
    BY <2>1, <2>2, <2>3
<1>8. CASE ForceParam(op)
  <2>1. PICK t : /\ insts[t].open
                 /\ insts' = [insts EXCEPT ![t].val = op.val, ![t].forced = TRUE]
    BY <1>8, Zenon DEF ForceParam
  <2>2. stack' = Advance(stack) /\ UNCHANGED <<modules, modJ, ununiq>>
    BY <1>8, Zenon DEF ForceParam, caches
  <2>3. insts[t].open = TRUE
    BY <2>1
  <2>4. Kept(insts')
    BY <1>0, <2>1, <2>3, ForceEvolves
  <2> QED
    BY <1>0, <2>2, <2>4, SameReferred, StillSeals
<1>9. CASE FinishTop(op)
  <2>1. /\ Frame.kind = "top" /\ stack' = <<>> /\ UNCHANGED <<modules, modJ, ununiq>>
        /\ insts' = [insts EXCEPT ![Self].done = TRUE, ![Self].open = FALSE]
    BY <1>9, Zenon DEF FinishTop, Finish
  <2>2. Evolves(insts')
    BY <1>0, <2>1, EndCloses DEF Closed
  <2> QED
    BY <1>0, <2>1, <2>2, SameReferred, OverSeals
<1>10. CASE UniqueKept(op) \/ ParamKept(op) \/ UnunqKept(op)
  <2>1. /\ Frame.kind # "top" /\ stack' = Advance(Front(stack))
        /\ insts' = Returned(Me.uname)
        /\ \E js, keys : Register(js, keys) /\ (js = modJ \/ (js = Front(modJ) /\ ~cfg.nocache
                                                                /\ Frame.kind = "unique"))
        /\ \/ ununiq' = ununiq
           \/ ununiq' = Put(ununiq, Me.cls, [inst |-> Self, eff |-> Me.eff, sig |-> Frame.sig])
    BY <1>10, Zenon DEF UniqueKept, ParamKept, UnunqKept, Finish
  <2>2. RefDict(modules', Len(insts)) /\ RefJournals(modJ', Len(insts))
    BY <2>1, JournalsRefer, RegisterRefers DEF Journaled
  <2>3. RefNames(ununiq', Len(insts))
    <3>1. Self \in 1 .. Len(insts)
      BY <1>0, SelfIs
    <3> QED
      BY <2>1, <3>1, NamesRefer DEF RefNames, Put
  <2>4. Closed(insts', Me.parent)
    BY <1>0, <2>1, ReturnedCloses
  <2> QED
    BY <2>1, <2>2, <2>3, <2>4, ClosedReturns DEF Referred, Refer
<1>11. CASE UniqueDup(op)
  <2>1. /\ Frame.kind = "unique" /\ ~cfg.nocache /\ stack' = Advance(Front(stack))
        /\ modules' = Undone(modules, Last(modJ)) /\ modJ' = Front(modJ) /\ ununiq' = ununiq
    BY <1>11, Zenon DEF UniqueDup, Finish, HasTwin
  <2>2. Referred
    BY <2>1, JournalsRefer, NamesRefer DEF Referred, Refer, Journaled
  <2> QED
    BY <1>0, <1>11, <2>1, <2>2, DupEvolves, ReturnSeals
<1>12. CASE AgainSame(op)
  <2>1. /\ Frame.kind = "again" /\ stack' = Advance(Front(stack))
        /\ insts' = Returned(<<Me.cls>>) /\ UNCHANGED <<modules, modJ, ununiq>>
    BY <1>12, Zenon DEF AgainSame, Finish
  <2> QED
    BY <1>0, <2>1, SameReferred, ReturnedCloses, ClosedReturns
<1>13. CASE AgainDiffers(op)
  <2>1. /\ Frame.kind = "again" /\ stack' = Front(stack)
        /\ insts' = [insts EXCEPT ![Self].done = TRUE, ![Self].open = FALSE,
                                  ![Me.parent].open = Frame.popen]
        /\ UNCHANGED <<modules, modJ, ununiq>>
    BY <1>13, Zenon DEF AgainDiffers, Finish
  <2> QED
    BY <1>0, <2>1, SameReferred, DiffersCloses, ClosedReturns
<1> QED
  BY <1>1, <1>2, <1>3, <1>4, <1>5, <1>6, <1>7, <1>8, <1>9, <1>10, <1>11, <1>12, <1>13,
     Zenon DEF Step

LEMMA UnwindSeals ==
    ASSUME ScopeInv, SealInv, Unwind
    PROVE  SealStep
<1>1. /\ cfg' = cfg /\ Len(stack) > 1 /\ CloseScope /\ stack' = Front(stack)
      /\ UNCHANGED ununiq
      /\ insts' = [insts EXCEPT ![Self].open = FALSE,
                                ![Me.parent].open = Frame.popen,
                                ![Me.parent].subs = Drop(@, Me.iname)]
  BY Zenon DEF Unwind
<1>2. Len(<<>>) = 0
  OBVIOUS
<1>3. InStep /\ stack # <<>> /\ Frame.kind # "top"
  BY <1>1, <1>2 DEF InStep, ScopeInv, Formed, Frame, Last
<1>4. Referred
  BY <1>1, <1>3, JournalsRefer, NamesRefer
     DEF Referred, Refer, CloseScope, KeepJournals
<1>5. Closed(insts', Me.parent)
  BY <1>1, <1>3, UnwindCloses
<1> QED
  BY <1>1, <1>3, <1>4, <1>5, ClosedReturns

LEMMA FailSeals ==
    ASSUME ScopeInv, SealInv, Fail
    PROVE  SealStep
<1>1. /\ stack' = <<>> /\ Len(stack) = 1 /\ UNCHANGED <<insts, modules, modJ, ununiq>>
  BY Zenon DEF Fail, caches
<1>2. Len(<<>>) = 0
  OBVIOUS
<1>3. stack # <<>>
  BY <1>1, <1>2
<1>4. Evolves(insts')
  BY <1>1, SameKept DEF Kept
<1> QED
  BY <1>1, <1>3, <1>4, SameReferred, OverSeals

LEMMA SealNext ==
    ASSUME ClassAssumption, ScopeInv, SealInv, [Next]_vars
    PROVE  SealStep
<1>1. CASE Begin
  <2>1. /\ stack # <<>> /\ stack' = Advance(stack) /\ UNCHANGED <<modules, modJ, ununiq>>
    BY <1>1, Zenon DEF Begin
  <2> QED
    BY <1>1, <2>1, BeginEvolves, SameReferred, StillSeals
<1>2. CASE TooDeep
  BY <1>2, RaisesSeals DEF TooDeep
<1>3. ASSUME NEW op, InBody, Perform(op), Step(op)
      PROVE  SealStep
  <2>1. InStep
    BY <1>3 DEF InStep, InBody, Perform
  <2> QED
    BY <1>3, <2>1, StepSeals
<1>4. CASE Catch
  <2>1. /\ stack' = Advance(stack) /\ UNCHANGED <<insts, modules, modJ, ununiq>>
    BY <1>4, Zenon DEF Catch, caches
  <2>2. stack = <<>> => Advance(stack) = stack
    BY DEF Advance
  <2> QED
    BY <2>1, <2>2, SameKept, SameReferred, StillSeals
<1>5. CASE Unwind
  BY <1>5, UnwindSeals
<1>6. CASE Fail
  BY <1>6, FailSeals
<1>7. CASE UNCHANGED vars
  <2>1. stack' = stack /\ UNCHANGED <<insts, modules, modJ, ununiq>>
    BY <1>7 DEF vars
  <2> QED
    BY <2>1, SameKept, SameReferred, StillSeals
<1> QED
  BY <1>1, <1>2, <1>3, <1>4, <1>5, <1>6, <1>7, Zenon DEF Next

LEMMA SealInit ==
    ASSUME Init
    PROVE  SealInv
<1> DEFINE r == NewInst(TopClass, 0, TopClass, <<TopClass>>, None, None, <<TopClass>>, "top")
           f == [inst |-> 1, pc |-> 0, kind |-> "top", sig |-> {}, popen |-> FALSE, prev |-> 0]
<1>1. /\ insts = <<r>> /\ stack = <<f>> /\ modJ = <<>> /\ ununiq = Empty
      /\ modules = Put(Empty, NameKey(<<TopClass>>), 1)
  BY Zenon DEF Init
<1>2. IsNew(r) /\ f.inst = 1
  BY DEF IsNew, NewInst, InstFields, Empty
<1> HIDE DEF r, f
<1>3. /\ IsSeq(insts) /\ Len(insts) = 1 /\ insts[1] = r
      /\ Len(stack) = 1 /\ stack[1] = f
  <2>1. insts \in Seq({r}) /\ stack \in Seq({f})
    BY <1>1
  <2> QED
    BY <1>1, <2>1 DEF IsSeq
<1>4. Shaped(insts)
  BY <1>2, <1>3 DEF Shaped, IsNew
<1>5. Linked(insts, stack) /\ OneOpen(insts, stack)
  BY <1>2, <1>3 DEF Linked, OneOpen
<1>6. Refs(Len(insts))
  BY <1>1, <1>3 DEF Refs, RefDict, RefJournals, RefNames, Put, Empty
<1> QED
  BY <1>4, <1>5, <1>6 DEF SealInv

\* Parameters are sealed, whatever the templates do: only the body under
\* execution changes its instance's parameter; force_param on any other instance
\* finds it closed, also after exceptions were caught.
THEOREM ParamsSealedAlways == Spec => ParamsSealed
<1> DEFINE IInv == ScopeInv /\ SealInv
<1>1. Init => IInv
  BY ScopeInit, SealInit
<1>2. IInv /\ [Next]_vars => IInv'
  BY ClassAssumption, ScopeNext, SealNext DEF SealStep
<1>3. IInv /\ [Next]_vars =>
         [\A i \in DOMAIN insts : insts'[i].val # insts[i].val => stack # <<>> /\ i = Self]_vars
  <2> SUFFICES ASSUME ScopeInv, SealInv, [Next]_vars
               PROVE  \A i \in DOMAIN insts : insts'[i].val # insts[i].val =>
                                                 stack # <<>> /\ i = Self
    OBVIOUS
  <2>1. Evolves(insts')
    BY ClassAssumption, SealNext DEF SealStep
  <2>2. DOMAIN insts = 1 .. Len(insts)
    BY SeqIs DEF SealInv, Shaped
  <2> QED
    BY <2>1, <2>2 DEF Evolves
<1> QED
  BY <1>1, <1>2, <1>3, PTL DEF Spec, ParamsSealed

-----------------------------------------------------------------------------
(* What a step does to instances. *)


\* What an instance is from its making on, and how far it has got.
Ident(a, b) ==
    /\ a.cls = b.cls /\ a.parent = b.parent /\ a.iname = b.iname /\ a.path = b.path
    /\ a.kw = b.kw /\ a.eff = b.eff /\ a.by = b.by /\ a.cloneOf = b.cloneOf
Ran(a, b) == a.start = b.start /\ a.val = b.val /\ a.forced = b.forced
Same(a, b) == Ran(a, b) /\ a.done = b.done /\ a.uname = b.uname

\* The instances there were, when only Self gets any further.
Old(is) ==
    /\ Shaped(is) /\ Len(is) >= Len(insts)
    /\ \A i \in 1 .. Len(insts) : Ident(is[i], insts[i])
    /\ \A i \in 1 .. Len(insts) : i # Self => Same(is[i], insts[i])
AllSame(is) == \A i \in 1 .. Len(insts) : Same(is[i], insts[i])

SubsKept(is) == \A i \in 1 .. Len(insts) : is[i].subs = insts[i].subs
SubsPut(is, p, x, m) ==
    \A i \in 1 .. Len(insts) :
        is[i].subs = IF i = p THEN Put(insts[i].subs, x, m) ELSE insts[i].subs
SubsDrop(is, p, x) ==
    \A i \in 1 .. Len(insts) :
        is[i].subs = IF i = p THEN Drop(insts[i].subs, x) ELSE insts[i].subs

\* A clone of src.
Copies(r, src) ==
    /\ r.cls = insts[src].cls /\ r.eff = insts[src].eff /\ Ran(r, insts[src])
    /\ r.done = insts[src].done /\ r.uname = insts[src].uname
    /\ r.cloneOf = src /\ DOMAIN r.subs = {}
Placed(r, parent, iname, path, kw, by) ==
    r.parent = parent /\ r.iname = iname /\ r.path = path /\ r.kw = kw /\ r.by = by

\* The first m frames, the last of them perhaps one operation further.
Frames(s, m) ==
    /\ IsSeq(s) /\ Len(s) = m
    /\ \A k \in 1 .. m :
          /\ s[k].inst = stack[k].inst /\ s[k].kind = stack[k].kind /\ s[k].sig = stack[k].sig
          /\ \/ s[k].pc = stack[k].pc
             \/ /\ k = m /\ s[k].pc = stack[k].pc + 1
                /\ m = Len(stack) => stack[k].pc > 0

\* The dedup keys in the cache, or put back there by a rollback.
Binds(m, js, k, v) ==
    /\ IsDedupKey(k)
    /\ \/ k \in DOMAIN m /\ v = m[k]
       \/ \E i \in 1 .. Len(js) : k \in DOMAIN js[i] /\ v = js[i][k] /\ v # Missing
BindsNew(K) ==
    \A k, v : Binds(modules', modJ', k, v) => Binds(modules, modJ, k, v) \/ (k \in K /\ v = Self)
KeepsKeys == BindsNew({}) /\ ununiq' = ununiq

-----------------------------------------------------------------------------
(* The nine moves, of instances is and frames s. *)

Rests(is, s) ==
    /\ Old(is) /\ AllSame(is) /\ SubsKept(is) /\ Len(is) = Len(insts)
    /\ Frames(s, Len(stack)) /\ KeepsKeys

Starts(is, s) ==
    /\ Old(is) /\ SubsKept(is) /\ Len(is) = Len(insts)
    /\ stack # <<>> /\ Frame.pc = 0
    /\ is[Self].start = ParamValue(Me.cls, Me.path, Me.eff)
    /\ is[Self].val = is[Self].start /\ is[Self].forced = (ForcedAt[Me.cls] # None)
    /\ is[Self].done = Me.done /\ is[Self].uname = Me.uname
    /\ s = Advance(stack) /\ KeepsKeys

Forces(is, s) ==
    /\ Old(is) /\ SubsKept(is) /\ Len(is) = Len(insts)
    /\ stack # <<>> /\ Frame.pc > 0
    /\ is[Self].start = Me.start /\ is[Self].forced = TRUE /\ ~Me.forced
    /\ is[Self].done = Me.done /\ is[Self].uname = Me.uname
    /\ Frames(s, Len(stack)) /\ KeepsKeys

\* What an operation found: a key, a bare name, or another instance.
FoundKey(src, op) ==
    \E k \in DOMAIN modules : /\ IsDedupKey(k) /\ k[1] # "post" /\ modules[k] = src
                              /\ k[2] = op.cls /\ k[3] = Eff(op) /\ k[4] = Sig(op)
FoundName(src, op) ==
    /\ op.cls \in DOMAIN ununiq /\ ununiq[op.cls].inst = src
    /\ ununiq[op.cls].eff = Eff(op) /\ ununiq[op.cls].sig = Sig(op)
FoundOther(src, op) ==
    op.op = "clone" /\ \A a \in Ancestors : insts[a].uname # insts[src].uname

Aliases(is, s, src, op) ==
    /\ Old(is) /\ AllSame(is) /\ Len(is) = Len(insts) + 1
    /\ stack # <<>> /\ Frame.pc > 0 /\ src \in 1 .. Len(insts)
    /\ op.iname \notin DOMAIN Me.subs /\ SubsPut(is, Self, op.iname, Len(insts) + 1)
    /\ Copies(is[Len(insts) + 1], src)
    /\ Placed(is[Len(insts) + 1], Self, op.iname, ChildPath(op), op.kw, op.op)
    /\ FoundKey(src, op) \/ FoundName(src, op) \/ FoundOther(src, op)
    /\ Frames(s, Len(stack)) /\ KeepsKeys

Calls(is, s, op) ==
    /\ Old(is) /\ AllSame(is) /\ Len(is) = Len(insts) + 1
    /\ stack # <<>> /\ Frame.pc > 0
    /\ op.iname \notin DOMAIN Me.subs /\ SubsPut(is, Self, op.iname, Len(insts) + 1)
    /\ is[Len(insts) + 1].cls = op.cls /\ is[Len(insts) + 1].eff = Eff(op)
    /\ is[Len(insts) + 1].cloneOf = 0 /\ is[Len(insts) + 1].done = FALSE
    /\ is[Len(insts) + 1].forced = FALSE /\ DOMAIN is[Len(insts) + 1].subs = {}
    /\ Placed(is[Len(insts) + 1], Self, op.iname, ChildPath(op), op.kw, op.op)
    /\ op.op \in {"unique", "param", "ununq"}
    /\ IsSeq(s) /\ Len(s) = Len(stack) + 1 /\ \A k \in 1 .. Len(stack) : s[k] = stack[k]
    /\ s[Len(s)].inst = Len(insts) + 1 /\ s[Len(s)].pc = 0 /\ s[Len(s)].sig = Sig(op)
    /\ s[Len(s)].kind # "top" /\ (s[Len(s)].kind = "unique" <=> op.op = "unique") /\ KeepsKeys

\* The keys a finished child may be stored under.
Earned(k) ==
    /\ k[2] = Me.cls /\ k[4] = Frame.sig
    /\ k[1] = "post" => k[3] = Me.val
    /\ k[1] # "post" => k[3] = Me.eff
Finishes(is) ==
    /\ Old(is) /\ stack # <<>> /\ Frame.pc > 0
    /\ is[Self].start = Me.start /\ is[Self].val = Me.val /\ is[Self].forced = Me.forced
    /\ is[Self].done = TRUE

Returns(is, s) ==
    /\ Finishes(is) /\ SubsKept(is) /\ Len(is) = Len(insts) /\ Len(stack) > 1
    /\ Frames(s, Len(stack) - 1)
    /\ \E K : (\A k \in K : IsDedupKey(k) => Earned(k)) /\ BindsNew(K)
    /\ \/ ununiq' = ununiq
       \/ ununiq' = Put(ununiq, Me.cls, [inst |-> Self, eff |-> Me.eff, sig |-> Frame.sig])

Replaces(is, s) ==
    /\ Finishes(is) /\ Len(is) = Len(insts) + 1 /\ Len(stack) > 1
    /\ is[Self].uname = Me.uname
    /\ Post \in DOMAIN modules /\ modules[Post] \in 1 .. Len(insts) /\ Frame.kind = "unique"
    /\ SubsPut(is, Me.parent, Me.iname, Len(insts) + 1)
    /\ Copies(is[Len(insts) + 1], modules[Post])
    /\ Placed(is[Len(insts) + 1], Me.parent, Me.iname, Me.path, Me.kw, Me.by)
    /\ Frames(s, Len(stack) - 1) /\ KeepsKeys

Stops(is, s) ==
    /\ Finishes(is) /\ SubsKept(is) /\ Len(is) = Len(insts) /\ is[Self].uname = Me.uname
    /\ Frames(s, Len(stack) - 1) /\ KeepsKeys

\* An exception leaves a body, which stays unfinished.
Gives(is, s) ==
    /\ Old(is) /\ AllSame(is) /\ Len(is) = Len(insts) /\ stack # <<>>
    /\ \/ SubsKept(is) /\ Len(stack) = 1
       \/ SubsDrop(is, Me.parent, Me.iname) /\ Len(stack) > 1
    /\ Frames(s, Len(stack) - 1) /\ KeepsKeys

Moves(is, s) ==
    \/ Rests(is, s)   \/ Starts(is, s)  \/ Forces(is, s)
    \/ \E src, op : Aliases(is, s, src, op)
    \/ \E op : Calls(is, s, op)
    \/ Returns(is, s) \/ Replaces(is, s) \/ Stops(is, s) \/ Gives(is, s)

-----------------------------------------------------------------------------
(* Stacks. *)

LEMMA StackIs ==
    ASSUME ScopeInv, stack # <<>>
    PROVE  /\ IsSeq(stack) /\ Len(stack) \in Nat \ {0} /\ DOMAIN stack = 1 .. Len(stack)
           /\ Frame = stack[Len(stack)]
           /\ \A k \in 1 .. Len(stack) : DOMAIN stack[k] = FrameFields
BY FrontIs, SeqIs DEF ScopeInv, Formed, Frame, Last

\* Any stack one call further.
LEMMA AdvancedIs ==
    ASSUME NEW s, Formed(s), s # <<>>
    PROVE  /\ IsSeq(Advance(s)) /\ Len(Advance(s)) = Len(s)
           /\ \A k \in 1 .. Len(s) :
                 /\ Advance(s)[k].inst = s[k].inst /\ Advance(s)[k].kind = s[k].kind
                 /\ Advance(s)[k].sig = s[k].sig
                 /\ Advance(s)[k].pc = IF k = Len(s) THEN s[k].pc + 1 ELSE s[k].pc
<1>1. Len(s) \in Nat \ {0} /\ DOMAIN s = 1 .. Len(s)
  BY FrontIs, SeqIs DEF Formed
<1> DEFINE f == [s[Len(s)] EXCEPT !.pc = @ + 1]
<1>2. f.inst = s[Len(s)].inst /\ f.kind = s[Len(s)].kind /\ f.sig = s[Len(s)].sig
      /\ f.pc = s[Len(s)].pc + 1
  BY <1>1 DEF Formed, FrameFields
<1>3. PICK t : t = Advance(s)
  OBVIOUS
<1>4. t = [s EXCEPT ![Len(s)] = f]
  BY <1>3 DEF Advance
<1> HIDE DEF f
<1>5. /\ t = [j \in 1 .. Len(s) |-> t[j]]
      /\ \A j \in 1 .. Len(s) : t[j] = IF j = Len(s) THEN f ELSE s[j]
  BY <1>1, <1>4
<1>6. IsSeq(t) /\ Len(t) = Len(s)
  BY <1>1, <1>5, MapIs
<1> QED
  BY <1>2, <1>3, <1>5, <1>6

LEMMA StillFrames ==
    ASSUME ScopeInv
    PROVE  Frames(stack, Len(stack))
BY DEF ScopeInv, Formed, Frames

LEMMA OnFrames ==
    ASSUME ScopeInv, stack # <<>>, Frame.pc > 0
    PROVE  Frames(Advance(stack), Len(stack))
<1>1. Formed(stack) /\ Frame = stack[Len(stack)]
  BY StackIs DEF ScopeInv
<1> QED
  BY <1>1, AdvancedIs DEF Frames

LEMMA BackFrames ==
    ASSUME ScopeInv, stack # <<>>
    PROVE  /\ Frames(Front(stack), Len(stack) - 1)
           /\ Len(stack) > 1 => Frames(Advance(Front(stack)), Len(stack) - 1)
<1>1. /\ Formed(Front(stack)) /\ IsSeq(Front(stack)) /\ Len(stack) \in Nat \ {0}
      /\ Len(Front(stack)) = Len(stack) - 1
      /\ \A k \in 1 .. Len(stack) - 1 : Front(stack)[k] = stack[k]
  BY Leaves, FrontIs DEF ScopeInv, Formed
<1>2. Frames(Front(stack), Len(stack) - 1)
  BY <1>1 DEF Frames
<1>3. ASSUME Len(stack) > 1
      PROVE  Frames(Advance(Front(stack)), Len(stack) - 1)
  <2>1. Len(<<>>) = 0
    OBVIOUS
  <2>2. Front(stack) # <<>>
    BY <1>1, <1>3, <2>1
  <2> QED
    BY <1>1, <2>2, AdvancedIs DEF Frames
<1> QED
  BY <1>2, <1>3

LEMMA OverFrames ==
    ASSUME ScopeInv, stack # <<>>, Frame.kind = "top" \/ Len(stack) = 1
    PROVE  Frames(<<>>, Len(stack) - 1) /\ Len(stack) = 1
<1>1. Len(stack) = 1
  <2>1. Len(stack) \in Nat \ {0} /\ Frame = stack[Len(stack)]
    BY StackIs
  <2>2. Len(stack) \in 1 .. Len(stack)
    BY <2>1
  <2> QED
    BY <2>1, <2>2 DEF ScopeInv, Formed
<1>2. IsSeq(<<>>) /\ Len(<<>>) = 0
  BY EmptySeq DEF IsSeq
<1> QED
  BY <1>1, <1>2 DEF Frames

-----------------------------------------------------------------------------
(* Keys. *)

LEMMA SameKeys ==
    ASSUME UNCHANGED <<modules, modJ, ununiq>>
    PROVE  KeepsKeys
BY DEF KeepsKeys, BindsNew, Binds

LEMMA OpenedBinds ==
    ASSUME ScopeInv, UNCHANGED <<modules, ununiq>>, OpenJournals \/ KeepJournals
    PROVE  KeepsKeys
<1>1. CASE modJ' = modJ
  BY <1>1, SameKeys
<1>2. CASE modJ' = Append(modJ, Empty)
  <2>1. /\ Len(modJ') = Len(modJ) + 1 /\ modJ'[Len(modJ) + 1] = Empty /\ Len(modJ) \in Nat
        /\ \A i \in 1 .. Len(modJ) : modJ'[i] = modJ[i]
    BY <1>2, AppendIs, SeqIs DEF ScopeInv, Closes
  <2> QED
    BY <2>1 DEF KeepsKeys, BindsNew, Binds, Empty
<1> QED
  BY <1>1, <1>2 DEF OpenJournals, KeepJournals

\* Journals noting a write of v to the keys K.
LEMMA NotedBinds ==
    ASSUME NEW d, NEW js, IsSeq(js), NEW K, NEW k, NEW v,
           Binds(PutAll(d, K, Self), RecordedAll(js, d, K), k, v)
    PROVE  Binds(d, js, k, v) \/ (k \in K /\ v = Self)
<1>1. Len(js) \in Nat /\ DOMAIN js = 1 .. Len(js) /\ Len(RecordedAll(js, d, K)) = Len(js)
  BY SeqIs, RecordedIs
<1>2. CASE k \in DOMAIN PutAll(d, K, Self) /\ v = PutAll(d, K, Self)[k]
  BY <1>2 DEF PutAll, Binds
<1>3. ASSUME NEW i \in 1 .. Len(js), k \in DOMAIN RecordedAll(js, d, K)[i],
             v = RecordedAll(js, d, K)[i][k], v # Missing
      PROVE  Binds(d, js, k, v)
  <2>1. CASE k \in DOMAIN js[i]
    <3>1. v = js[i][k]
      BY <1>1, <1>3, <2>1 DEF RecordedAll
    <3> QED
      BY <1>3, <2>1, <3>1 DEF Binds
  <2>2. CASE k \notin DOMAIN js[i]
    <3>1. v = Lookup(d, k)
      BY <1>1, <1>3, <2>2 DEF RecordedAll
    <3> QED
      BY <1>3, <3>1 DEF Binds, Lookup
  <2> QED
    BY <2>1, <2>2
<1> QED
  BY <1>1, <1>2, <1>3 DEF Binds

\* A name is no dedup key.
LEMMA NamedBinds ==
    ASSUME ScopeInv, NEW y, ununiq' = ununiq,
           modJ' = Recorded(modJ, modules, NameKey(y)), modules' = Put(modules, NameKey(y), Self)
    PROVE  KeepsKeys
<1>1. Len(modJ) \in Nat /\ DOMAIN modJ = 1 .. Len(modJ) /\ Len(modJ') = Len(modJ)
  BY SeqIs, RecordedIs DEF ScopeInv, Closes
<1>2. \A k : IsDedupKey(k) => k # NameKey(y)
  BY DEF IsDedupKey, NameKey
<1> SUFFICES ASSUME NEW k, NEW v, Binds(modules', modJ', k, v)
             PROVE  Binds(modules, modJ, k, v)
  BY DEF KeepsKeys, BindsNew
<1>3. k # NameKey(y) /\ IsDedupKey(k)
  BY <1>2 DEF Binds
<1>4. CASE k \in DOMAIN modules' /\ v = modules'[k]
  BY <1>3, <1>4 DEF Binds, Put
<1>5. ASSUME NEW i \in 1 .. Len(modJ'), k \in DOMAIN modJ'[i], v = modJ'[i][k], v # Missing
      PROVE  Binds(modules, modJ, k, v)
  <2>1. modJ'[i] = FirstTouch(modJ[i], NameKey(y), Lookup(modules, NameKey(y)))
    BY <1>1 DEF Recorded
  <2>2. k \in DOMAIN modJ[i] /\ v = modJ[i][k]
    BY <1>3, <1>5, <2>1 DEF FirstTouch, Put
  <2> QED
    BY <1>1, <1>3, <1>5, <2>2 DEF Binds
<1> QED
  BY <1>4, <1>5 DEF Binds

LEMMA FrontBinds ==
    ASSUME NEW js, IsSeq(js), js # <<>>, NEW d, NEW k, NEW v
    PROVE  /\ Binds(d, Front(js), k, v) => Binds(d, js, k, v)
           /\ Binds(Undone(d, Last(js)), Front(js), k, v) => Binds(d, js, k, v)
<1>1. /\ Len(js) \in Nat \ {0} /\ Len(Front(js)) = Len(js) - 1
      /\ \A i \in 1 .. Len(js) - 1 : Front(js)[i] = js[i]
  BY FrontIs
<1>2. ASSUME Binds(d, Front(js), k, v)
      PROVE  Binds(d, js, k, v)
  BY <1>1, <1>2 DEF Binds
<1>3. ASSUME Binds(Undone(d, Last(js)), Front(js), k, v)
      PROVE  Binds(d, js, k, v)
  <2>1. CASE k \in DOMAIN Undone(d, Last(js)) /\ v = Undone(d, Last(js))[k]
    <3>1. \/ k \in DOMAIN Last(js) /\ Last(js)[k] # Missing /\ v = Last(js)[k]
          \/ k \in DOMAIN d /\ v = d[k]
      BY <2>1 DEF Undone
    <3> QED
      BY <1>1, <1>3, <3>1 DEF Binds, Last
  <2>2. CASE \E i \in 1 .. Len(Front(js)) : k \in DOMAIN Front(js)[i] /\ v = Front(js)[i][k]
                                            /\ v # Missing
    BY <1>1, <1>3, <2>2 DEF Binds
  <2> QED
    BY <1>3, <2>1, <2>2 DEF Binds
<1> QED
  BY <1>2, <1>3

\* A scope under way has a journal.
LEMMA ScopeJournals ==
    ASSUME ScopeInv, stack # <<>>, Journaled(Frame)
    PROVE  IsSeq(modJ) /\ modJ # <<>>
<1>1. Cardinality(Scopes(Front(stack))) \in Nat
  BY Leaves, ScopesFinite DEF ScopeInv, Formed
<1>2. Len(modJ) = Cardinality(Scopes(Front(stack))) + 1
  BY <1>1, Leaves DEF ScopeInv, Closes, Frame, ScopeOf
<1>3. Len(<<>>) = 0
  OBVIOUS
<1> QED
  BY <1>1, <1>2, <1>3 DEF ScopeInv, Closes

-----------------------------------------------------------------------------
(* Instances. *)

LEMMA InstsAre ==
    ASSUME SealInv
    PROVE  /\ Len(insts) \in Nat /\ DOMAIN insts = 1 .. Len(insts)
           /\ \A i \in 1 .. Len(insts) : DOMAIN insts[i] = InstFields
BY SeqIs DEF SealInv, Shaped

\* Fields of Self alone.
LEMMA SelfChanges ==
    ASSUME ScopeInv, SealInv, stack # <<>>, NEW is, Shaped(is), NEW r,
           is = [insts EXCEPT ![Self] = r], Ident(r, Me), r.subs = Me.subs
    PROVE  /\ Old(is) /\ SubsKept(is) /\ Len(is) = Len(insts) /\ is[Self] = r
           /\ Same(r, Me) => AllSame(is)
<1>1. Len(insts) \in Nat /\ DOMAIN insts = 1 .. Len(insts) /\ Self \in 1 .. Len(insts)
  BY SelfIs
<1>2. \A i \in 1 .. Len(insts) : is[i] = IF i = Self THEN r ELSE insts[i]
  BY <1>1
<1>3. Len(is) = Len(insts)
  BY <1>1, SeqIs DEF Shaped
<1>4. \A i \in 1 .. Len(insts) : Ident(insts[i], insts[i]) /\ Same(insts[i], insts[i])
  BY DEF Ident, Same, Ran
<1> QED
  BY <1>1, <1>2, <1>3, <1>4 DEF Old, SubsKept, AllSame, Me

LEMMA BeginStarts ==
    ASSUME ScopeInv, SealInv, Shaped(insts'), Begin
    PROVE  Starts(insts', stack')
<1> DEFINE v == ParamValue(Me.cls, Me.path, Me.eff)
           f == (ForcedAt[Me.cls] # None)
           o == Me.uname
           r == [Me EXCEPT !.start = v, !.val = v, !.forced = f, !.ofile = o]
<1>1. /\ stack # <<>> /\ Frame.pc = 0 /\ stack' = Advance(stack)
      /\ UNCHANGED <<modules, modJ, ununiq>>
      /\ insts' = [insts EXCEPT ![Self].start = v, ![Self].val = v,
                                ![Self].forced = f, ![Self].ofile = o]
  BY Zenon DEF Begin
<1>2. DOMAIN insts = 1 .. Len(insts) /\ Self \in 1 .. Len(insts) /\ DOMAIN Me = InstFields
  BY <1>1, SelfIs
<1> HIDE DEF v, f, o
<1>3. insts' = [insts EXCEPT ![Self] = r]
  BY <1>1, <1>2 DEF Me
<1>4. /\ Ident(r, Me) /\ r.subs = Me.subs /\ r.start = v /\ r.val = v /\ r.forced = f
      /\ r.done = Me.done /\ r.uname = Me.uname
  BY <1>2 DEF InstFields, Ident
<1> HIDE DEF r
<1>5. Old(insts') /\ SubsKept(insts') /\ Len(insts') = Len(insts) /\ insts'[Self] = r
  BY <1>1, <1>3, <1>4, SelfChanges
<1> QED
  BY <1>1, <1>4, <1>5, SameKeys DEF Starts, v, f

LEMMA ForceForces ==
    ASSUME InStep, SealInv, Shaped(insts'), Frame.pc > 0, NEW op, ForceParam(op)
    PROVE  Forces(insts', stack')
<1>0. ScopeInv /\ stack # <<>> /\ Frame.pc > 0
  BY DEF InStep
<1>1. PICK t : /\ insts[t].open /\ ~insts[t].forced /\ t \in Instances(op.target)
               /\ insts' = [insts EXCEPT ![t].val = op.val, ![t].forced = TRUE]
  BY Zenon DEF ForceParam
<1>2. stack' = Advance(stack) /\ UNCHANGED <<modules, modJ, ununiq>>
  BY Zenon DEF ForceParam, caches
<1>3. /\ DOMAIN insts = 1 .. Len(insts) /\ Self \in 1 .. Len(insts) /\ DOMAIN Me = InstFields
      /\ \A i \in 1 .. Len(insts) : insts[i].open = TRUE => i = Self
  BY <1>0, SelfIs
<1>4. t = Self
  <2>1. t \in DOMAIN insts
    BY <1>1, Zenon DEF Instances
  <2> QED
    BY <1>1, <1>3, <2>1
<1> DEFINE v == op.val
           r == [Me EXCEPT !.val = v, !.forced = TRUE]
<1>5. insts' = [insts EXCEPT ![Self] = r]
  BY <1>1, <1>3, <1>4 DEF Me
<1>6. /\ Ident(r, Me) /\ r.subs = Me.subs /\ r.start = Me.start /\ r.forced = TRUE
      /\ r.done = Me.done /\ r.uname = Me.uname
  BY <1>3 DEF InstFields, Ident
<1> HIDE DEF v, r
<1>7. Old(insts') /\ SubsKept(insts') /\ Len(insts') = Len(insts) /\ insts'[Self] = r
  BY <1>0, <1>5, <1>6, SelfChanges
<1> QED
  BY <1>0, <1>1, <1>2, <1>4, <1>6, <1>7, SameKeys, OnFrames DEF Forces, Me

\* Pointwise facts make an Old.
LEMMA OldIs ==
    ASSUME SealInv, NEW is, Shaped(is), DOMAIN is = DOMAIN insts,
           \A i \in 1 .. Len(insts) : Ident(is[i], insts[i]),
           \A i \in 1 .. Len(insts) : i # Self => Same(is[i], insts[i])
    PROVE  Old(is) /\ Len(is) = Len(insts)
<1>1. Len(insts) \in Nat /\ Len(is) = Len(insts)
  BY InstsAre, SeqIs DEF Shaped
<1> QED
  BY <1>1 DEF Old

LEMMA ReturnedFinishes ==
    ASSUME ScopeInv, SealInv, stack # <<>>, Frame.pc > 0, NEW name, NEW is, Shaped(is),
           is = Returned(name)
    PROVE  /\ Finishes(is) /\ SubsKept(is) /\ Len(is) = Len(insts)
<1> DEFINE p == Me.parent
           po == Frame.popen
           kid == <<Me.iname, name>>
<1>1. is = [insts EXCEPT ![Self].done = TRUE, ![Self].open = FALSE,
                  ![Self].uname = name, ![Self].ofile = name,
                  ![p].open = po,
                  ![p].kids = Append(@, kid)]
  BY DEF Returned
<1> HIDE DEF p, po, kid
<1>2. /\ DOMAIN insts = 1 .. Len(insts) /\ Self \in 1 .. Len(insts)
      /\ \A i \in 1 .. Len(insts) : DOMAIN insts[i] = InstFields
  BY SelfIs, InstsAre
<1>3. ASSUME NEW i \in 1 .. Len(insts)
      PROVE   /\ Ident(is[i], insts[i])
              /\ is[i].subs = insts[i].subs
              /\ Ran(is[i], insts[i])
              /\ is[i].done = IF i = Self THEN TRUE ELSE insts[i].done
              /\ i # Self => is[i].uname = insts[i].uname
  <2>1. Ident(is[i], insts[i])
    BY <1>1, <1>2 DEF InstFields, Ident
  <2>2. is[i].subs = insts[i].subs /\ Ran(is[i], insts[i])
    BY <1>1, <1>2 DEF InstFields, Ran
  <2>3. i = Self => is[i].done = TRUE
    BY <1>1, <1>2 DEF InstFields
  <2>4. i # Self => is[i].done = insts[i].done /\ is[i].uname = insts[i].uname
    <3>1. CASE i # p
      BY <1>1, <1>2, <3>1
    <3>2. CASE i = p
      BY <1>1, <1>2, <3>2 DEF InstFields
    <3> QED
      BY <3>1, <3>2
  <2> QED
    BY <2>1, <2>2, <2>3, <2>4
<1>4. DOMAIN is = DOMAIN insts
  BY <1>1
<1>5. Old(is) /\ Len(is) = Len(insts)
  BY <1>3, <1>4, OldIs DEF Same
<1> QED
  BY <1>2, <1>3, <1>5 DEF Finishes, SubsKept, Ran, Me

LEMMA EndFinishes ==
    ASSUME ScopeInv, SealInv, stack # <<>>, Frame.pc > 0, NEW is, Shaped(is), NEW p, NEW po,
           \/ is = [insts EXCEPT ![Self].done = TRUE, ![Self].open = FALSE]
           \/ is = [insts EXCEPT ![Self].done = TRUE, ![Self].open = FALSE, ![p].open = po]
    PROVE  /\ Finishes(is) /\ SubsKept(is) /\ Len(is) = Len(insts) /\ is[Self].uname = Me.uname
<1>2. /\ DOMAIN insts = 1 .. Len(insts) /\ Self \in 1 .. Len(insts)
      /\ \A i \in 1 .. Len(insts) : DOMAIN insts[i] = InstFields
  BY SelfIs, InstsAre
<1>3. \A i \in 1 .. Len(insts) :
              /\ Ident(is[i], insts[i])
              /\ is[i].subs = insts[i].subs
              /\ Ran(is[i], insts[i])
              /\ is[i].done = IF i = Self THEN TRUE ELSE insts[i].done
              /\ is[i].uname = insts[i].uname
  <2>1. CASE is = [insts EXCEPT ![Self].done = TRUE, ![Self].open = FALSE]
    BY <1>2, <2>1 DEF InstFields, Ident, Ran
  <2>2. CASE is = [insts EXCEPT ![Self].done = TRUE, ![Self].open = FALSE, ![p].open = po]
    BY <1>2, <2>2 DEF InstFields, Ident, Ran
  <2> QED
    BY <2>1, <2>2
<1>4. DOMAIN is = DOMAIN insts
  OBVIOUS
<1>5. Old(is) /\ Len(is) = Len(insts)
  BY <1>3, <1>4, OldIs DEF Same
<1> QED
  BY <1>2, <1>3, <1>5 DEF Finishes, SubsKept, Ran, Me

LEMMA UnwindGives ==
    ASSUME ScopeInv, SealInv, Shaped(insts'), Unwind
    PROVE  Gives(insts', stack')
<1> DEFINE p == Me.parent
           po == Frame.popen
           x == Me.iname
<1>1. PICK is : is = insts'
  OBVIOUS
<1>2. /\ Len(stack) > 1 /\ CloseScope /\ stack' = Front(stack) /\ UNCHANGED <<cfg, ununiq>>
      /\ is = [insts EXCEPT ![Self].open = FALSE, ![p].open = po, ![p].subs = Drop(@, x)]
  BY <1>1, Zenon DEF Unwind
<1>3. stack # <<>>
  <2>1. Len(<<>>) = 0
    OBVIOUS
  <2> QED
    BY <1>2, <2>1
<1> HIDE DEF p, po, x
<1>4. /\ DOMAIN insts = 1 .. Len(insts) /\ Self \in 1 .. Len(insts)
      /\ \A i \in 1 .. Len(insts) : DOMAIN insts[i] = InstFields
  BY <1>3, SelfIs, InstsAre
<1>5. \A i \in 1 .. Len(insts) :
              /\ Ident(is[i], insts[i])
              /\ is[i].subs = IF i = p THEN Drop(insts[i].subs, x) ELSE insts[i].subs
              /\ Same(is[i], insts[i])
  BY <1>2, <1>4 DEF InstFields, Ident, Same, Ran
<1>6. DOMAIN is = DOMAIN insts
  BY <1>2
<1>7. Old(is) /\ Len(is) = Len(insts) /\ AllSame(is) /\ SubsDrop(is, p, x)
  BY <1>1, <1>5, <1>6, OldIs DEF AllSame, SubsDrop
<1>8. KeepsKeys
  <2>1. CASE modJ' = modJ
    BY <1>2, <2>1, SameKeys DEF CloseScope
  <2>2. CASE Journaled(Frame) /\ modJ' = Front(modJ)
    <3>1. IsSeq(modJ) /\ modJ # <<>>
      BY <1>3, <2>2, ScopeJournals
    <3>2. modules' = modules
      BY <1>2 DEF CloseScope
    <3> QED
      BY <1>2, <2>2, <3>1, <3>2, FrontBinds DEF KeepsKeys, BindsNew
  <2> QED
    BY <1>2, <2>1, <2>2 DEF CloseScope, KeepJournals
<1> QED
  BY <1>1, <1>2, <1>3, <1>7, <1>8, BackFrames DEF Gives, p, x

LEMMA FailGives ==
    ASSUME ScopeInv, SealInv, Fail
    PROVE  Gives(insts', stack')
<1>1. /\ stack' = <<>> /\ Len(stack) = 1 /\ UNCHANGED <<insts, modules, modJ, ununiq>>
  BY Zenon DEF Fail, caches
<1>2. Len(<<>>) = 0
  OBVIOUS
<1>3. stack # <<>>
  BY <1>1, <1>2
<1>4. Old(insts) /\ AllSame(insts) /\ SubsKept(insts)
  BY InstsAre DEF Old, AllSame, SubsKept, Same, Ran, Ident, SealInv
<1> QED
  BY <1>1, <1>3, <1>4, SameKeys, OverFrames DEF Gives

-----------------------------------------------------------------------------
(* Instances made. *)

\* One more instance after those there were.
LEMMA GrownOld ==
    ASSUME SealInv, NEW is, NEW old, NEW r, is = Append(old, r), Shaped(is),
           DOMAIN old = DOMAIN insts, old = [i \in DOMAIN old |-> old[i]],
           \A i \in 1 .. Len(insts) : Ident(old[i], insts[i]),
           \A i \in 1 .. Len(insts) : i # Self => Same(old[i], insts[i])
    PROVE  /\ Old(is) /\ Len(is) = Len(insts) + 1 /\ is[Len(insts) + 1] = r
           /\ \A i \in 1 .. Len(insts) : is[i] = old[i]
<1>1. Len(insts) \in Nat /\ DOMAIN insts = 1 .. Len(insts)
  BY InstsAre
<1>2. IsSeq(old) /\ Len(old) = Len(insts)
  BY <1>1, MapIs
<1>3. /\ Len(is) = Len(insts) + 1 /\ is[Len(insts) + 1] = r
      /\ \A i \in 1 .. Len(insts) : is[i] = old[i]
  BY <1>2, AppendIs
<1> QED
  BY <1>1, <1>3 DEF Old

LEMMA AliasAliases ==
    ASSUME InStep, SealInv, Shaped(insts'), Frame.pc > 0, NEW op, Fresh(op),
           NEW src \in 1 .. Len(insts), Alias(src, op),
           FoundKey(src, op) \/ FoundName(src, op) \/ FoundOther(src, op)
    PROVE  Aliases(insts', stack', src, op)
<1> DEFINE path == ChildPath(op)
           n == Len(insts) + 1
           kid == <<op.iname, insts[src].uname>>
           old == [insts EXCEPT ![Self].subs = Put(@, op.iname, n), ![Self].kids = Append(@, kid)]
           r == [insts[src] EXCEPT
                    !.parent = Self, !.iname = op.iname, !.path = path,
                    !.kw = op.kw, !.open = FALSE, !.subs = Empty, !.kids = <<>>,
                    !.cloneOf = src, !.by = op.op]
<1>0. ScopeInv /\ stack # <<>>
  BY DEF InStep
<1>1. insts' = Append(old, r)
  BY Zenon DEF Clone, Alias
<1>2. /\ stack' = Advance(stack) /\ UNCHANGED <<modules, modJ, ununiq>>
  BY Zenon DEF Alias, caches
<1>3. /\ DOMAIN insts = 1 .. Len(insts) /\ Self \in 1 .. Len(insts) /\ Len(insts) \in Nat
      /\ \A i \in 1 .. Len(insts) : DOMAIN insts[i] = InstFields
  BY <1>0, SelfIs, InstsAre
<1> HIDE DEF path, kid
<1>4. Copies(r, src) /\ Placed(r, Self, op.iname, path, op.kw, op.op)
  BY <1>3 DEF Copies, Ran, Placed, InstFields, Empty
<1>5. DOMAIN old = DOMAIN insts /\ old = [i \in DOMAIN old |-> old[i]]
  OBVIOUS
<1>6. ASSUME NEW i \in 1 .. Len(insts)
      PROVE   /\ Ident(old[i], insts[i]) /\ Same(old[i], insts[i])
              /\ old[i].subs = IF i = Self THEN Put(insts[i].subs, op.iname, n) ELSE insts[i].subs
  <2>1. CASE i = Self
    BY <1>3, <2>1 DEF InstFields, Ident, Same, Ran
  <2>2. CASE i # Self
    BY <1>3, <2>2 DEF InstFields, Ident, Same, Ran
  <2> QED
    BY <2>1, <2>2
<1> HIDE DEF old, r
<1>7. /\ Old(insts') /\ Len(insts') = Len(insts) + 1 /\ insts'[Len(insts) + 1] = r
      /\ \A i \in 1 .. Len(insts) : insts'[i] = old[i]
  BY <1>1, <1>5, <1>6, GrownOld
<1>8. AllSame(insts') /\ SubsPut(insts', Self, op.iname, n)
  BY <1>6, <1>7 DEF AllSame, SubsPut
<1> QED
  BY <1>0, <1>2, <1>4, <1>7, <1>8, SameKeys, OnFrames DEF Aliases, path, n, Fresh

LEMMA ElaborateCalls ==
    ASSUME InStep, SealInv, Shaped(insts'), Frame.pc > 0, NEW op, Fresh(op), NEW kind, NEW uname,
           op.op \in {"unique", "param", "ununq"}, kind # "top", kind = "unique" <=> op.op = "unique",
           Elaborate(op, kind, uname), (OpenJournals \/ KeepJournals)
    PROVE  Calls(insts', stack', op)
<1> DEFINE path == ChildPath(op)
           eff == Eff(op)
           n == Len(insts) + 1
           old == [insts EXCEPT ![Self].subs = Put(@, op.iname, n), ![Self].open = OpenUnderChild]
           r == NewInst(op.cls, Self, op.iname, path, op.kw, eff, uname, op.op)
           f == [inst |-> n, pc |-> 0, kind |-> kind, sig |-> Sig(op),
                 popen |-> Me.open, prev |-> active]
<1>0. ScopeInv /\ stack # <<>>
  BY DEF InStep
<1>1. insts' = Append(old, r)
  BY Zenon DEF Elaborate
<1>2. stack' = Append(stack, f) /\ UNCHANGED <<modules, ununiq>>
  BY Zenon DEF Elaborate
<1>3. /\ DOMAIN insts = 1 .. Len(insts) /\ Self \in 1 .. Len(insts) /\ Len(insts) \in Nat
      /\ \A i \in 1 .. Len(insts) : DOMAIN insts[i] = InstFields
  BY <1>0, SelfIs, InstsAre
<1> HIDE DEF path, eff
<1>4. /\ r.cls = op.cls /\ r.eff = eff /\ r.cloneOf = 0 /\ r.done = FALSE
      /\ r.forced = FALSE /\ DOMAIN r.subs = {} /\ Placed(r, Self, op.iname, path, op.kw, op.op)
  BY DEF NewInst, Placed, Empty
<1>5. DOMAIN old = DOMAIN insts /\ old = [i \in DOMAIN old |-> old[i]]
  OBVIOUS
<1>6. ASSUME NEW i \in 1 .. Len(insts)
      PROVE   /\ Ident(old[i], insts[i]) /\ Same(old[i], insts[i])
              /\ old[i].subs = IF i = Self THEN Put(insts[i].subs, op.iname, n) ELSE insts[i].subs
  <2>1. CASE i = Self
    BY <1>3, <2>1 DEF InstFields, Ident, Same, Ran
  <2>2. CASE i # Self
    BY <1>3, <2>2 DEF InstFields, Ident, Same, Ran
  <2> QED
    BY <2>1, <2>2
<1> HIDE DEF old, r
<1>7. /\ Old(insts') /\ Len(insts') = Len(insts) + 1 /\ insts'[Len(insts) + 1] = r
      /\ \A i \in 1 .. Len(insts) : insts'[i] = old[i]
  BY <1>1, <1>5, <1>6, GrownOld
<1>8. AllSame(insts') /\ SubsPut(insts', Self, op.iname, n)
  BY <1>6, <1>7 DEF AllSame, SubsPut
<1>9. f.inst = n /\ f.pc = 0 /\ f.sig = Sig(op) /\ f.kind # "top" /\ (f.kind = "unique" <=> op.op = "unique")
  OBVIOUS
<1> HIDE DEF f
<1>10. /\ IsSeq(stack') /\ Len(stack') = Len(stack) + 1 /\ stack'[Len(stack')] = f
       /\ \A k \in 1 .. Len(stack) : stack'[k] = stack[k]
  BY <1>0, <1>2, StackIs, AppendIs
<1>11. KeepsKeys
  BY <1>0, <1>2, OpenedBinds
<1> QED
  BY <1>0, <1>4, <1>7, <1>8, <1>9, <1>10, <1>11 DEF Calls, path, eff, n, Fresh

LEMMA DupReplaces ==
    ASSUME InStep, SealInv, Shaped(insts'), Frame.pc > 0, NEW op, UniqueDup(op)
    PROVE  Replaces(insts', stack')
<1> DEFINE p == Me.parent
           po == Frame.popen
           x == Me.iname
           n == Len(insts) + 1
           src == modules[Post]
           r == [insts[src] EXCEPT
                   !.parent = Me.parent, !.iname = Me.iname, !.path = Me.path,
                   !.kw = Me.kw, !.open = FALSE, !.subs = Empty,
                   !.kids = <<>>, !.cloneOf = src, !.by = Me.by]
           kid == <<Me.iname, r.uname>>
           old == [insts EXCEPT ![Self].done = TRUE, ![Self].open = FALSE, ![p].open = po,
                     ![p].subs = Put(@, x, n), ![p].kids = Append(@, kid)]
<1>0. ScopeInv /\ stack # <<>>
  BY DEF InStep
<1>1. /\ insts' = Append(old, r) /\ Post \in DOMAIN modules /\ Frame.kind = "unique"
      /\ ~cfg.nocache /\ stack' = Advance(Front(stack))
      /\ modules' = Undone(modules, Last(modJ)) /\ modJ' = Front(modJ) /\ ununiq' = ununiq
  BY Zenon DEF UniqueDup, HasTwin, Finish
<1>2. /\ DOMAIN insts = 1 .. Len(insts) /\ Self \in 1 .. Len(insts) /\ Len(insts) \in Nat
      /\ \A i \in 1 .. Len(insts) : DOMAIN insts[i] = InstFields
  BY <1>0, SelfIs, InstsAre
<1>3. src \in 1 .. Len(insts)
  BY <1>1 DEF SealInv, Refs, RefDict
<1>4. Len(stack) > 1
  BY <1>0, <1>1, ParentIs
<1> HIDE DEF p, po, x, src
<1>5. Copies(r, src) /\ Placed(r, Me.parent, Me.iname, Me.path, Me.kw, Me.by)
  BY <1>2, <1>3 DEF Copies, Ran, Placed, InstFields, Empty
<1> HIDE DEF kid
<1>6. DOMAIN old = DOMAIN insts /\ old = [i \in DOMAIN old |-> old[i]]
  OBVIOUS
<1>7. ASSUME NEW i \in 1 .. Len(insts)
      PROVE  /\ Ident(old[i], insts[i]) /\ Ran(old[i], insts[i])
             /\ i # Self => old[i].done = insts[i].done
             /\ i = Self => old[i].done = TRUE
             /\ old[i].uname = insts[i].uname
             /\ old[i].subs = IF i = p THEN Put(insts[i].subs, x, n) ELSE insts[i].subs
  <2>1. CASE i = p
    BY <1>2, <2>1 DEF InstFields, Ident, Ran
  <2>2. CASE i # p
    BY <1>2, <2>2 DEF InstFields, Ident, Ran
  <2> QED
    BY <2>1, <2>2
<1> HIDE DEF old, r
<1>8. /\ Old(insts') /\ Len(insts') = Len(insts) + 1 /\ insts'[Len(insts) + 1] = r
      /\ \A i \in 1 .. Len(insts) : insts'[i] = old[i]
  BY <1>1, <1>6, <1>7, GrownOld DEF Same
<1>9. /\ Finishes(insts') /\ insts'[Self].uname = Me.uname /\ SubsPut(insts', p, x, n)
  BY <1>0, <1>2, <1>7, <1>8 DEF Finishes, SubsPut, Ran, Me
<1>10. KeepsKeys
  BY <1>0, <1>1, ScopeJournals, FrontBinds DEF KeepsKeys, BindsNew, Journaled
<1>11. Frames(stack', Len(stack) - 1)
  BY <1>0, <1>1, <1>4, BackFrames
<1> QED
  BY <1>1, <1>3, <1>4, <1>5, <1>8, <1>9, <1>10, <1>11 DEF Replaces, p, x, src, n

-----------------------------------------------------------------------------
(* The actions. *)

LEMMA SameRests ==
    ASSUME ScopeInv, SealInv, insts' = insts, UNCHANGED <<modules, modJ, ununiq>>,
           stack' = stack \/ (stack # <<>> /\ Frame.pc > 0 /\ stack' = Advance(stack))
    PROVE  Rests(insts', stack')
<1>1. Old(insts) /\ AllSame(insts) /\ SubsKept(insts)
  BY InstsAre DEF Old, AllSame, SubsKept, Same, Ran, Ident, SealInv
<1> QED
  BY <1>1, SameKeys, StillFrames, OnFrames DEF Rests

LEMMA SynonymRests ==
    ASSUME InStep, SealInv, Shaped(insts'), Frame.pc > 0, NEW op, Synonym(op)
    PROVE  Rests(insts', stack')
<1>0. ScopeInv /\ stack # <<>>
  BY DEF InStep
<1> DEFINE y == op.name
           r == [Me EXCEPT !.syns = @ \cup {y}]
<1>1. /\ stack' = Advance(stack) /\ ununiq' = ununiq
      /\ \/ UNCHANGED <<insts, modules, modJ>>
         \/ /\ insts' = [insts EXCEPT ![Self].syns = @ \cup {y}]
            /\ modJ' = Recorded(modJ, modules, NameKey(y))
            /\ modules' = Put(modules, NameKey(y), Self)
  BY Zenon DEF Synonym, caches
<1>2. CASE UNCHANGED <<insts, modules, modJ>>
  BY <1>0, <1>1, <1>2, SameRests
<1>3. CASE /\ insts' = [insts EXCEPT ![Self].syns = @ \cup {y}]
           /\ modJ' = Recorded(modJ, modules, NameKey(y))
           /\ modules' = Put(modules, NameKey(y), Self)
  <2>1. DOMAIN insts = 1 .. Len(insts) /\ Self \in 1 .. Len(insts) /\ DOMAIN Me = InstFields
    BY <1>0, SelfIs
  <2>2. insts' = [insts EXCEPT ![Self] = r]
    BY <1>3, <2>1 DEF Me
  <2>3. Ident(r, Me) /\ r.subs = Me.subs /\ Same(r, Me)
    BY <2>1 DEF InstFields, Ident, Same, Ran
  <2> HIDE DEF r
  <2>4. Old(insts') /\ SubsKept(insts') /\ Len(insts') = Len(insts) /\ AllSame(insts')
    BY <1>0, <2>2, <2>3, SelfChanges
  <2>5. KeepsKeys
    BY <1>0, <1>1, <1>3, NamedBinds
  <2> QED
    BY <1>0, <1>1, <2>4, <2>5, OnFrames DEF Rests
<1> QED
  BY <1>1, <1>2, <1>3

LEMMA RegisterBinds ==
    ASSUME InStep, NEW js, NEW keys, Register(js, keys),
           js = modJ \/ (Journaled(Frame) /\ js = Front(modJ))
    PROVE  BindsNew(keys)
<1>0. ScopeInv /\ stack # <<>>
  BY DEF InStep
<1>1. modJ' = RecordedAll(js, modules, keys) /\ modules' = PutAll(modules, keys, Self)
  BY DEF Register
<1>2. IsSeq(js) /\ \A k, v : Binds(modules, js, k, v) => Binds(modules, modJ, k, v)
  BY <1>0, ScopeJournals, FrontBinds, FrontIs DEF ScopeInv, Closes
<1> QED
  BY <1>1, <1>2, NotedBinds DEF BindsNew

LEMMA KeptReturns ==
    ASSUME InStep, SealInv, Shaped(insts'), Frame.pc > 0, NEW op,
           UniqueKept(op) \/ ParamKept(op) \/ UnunqKept(op)
    PROVE  Returns(insts', stack')
<1>0. ScopeInv /\ stack # <<>>
  BY DEF InStep
<1>1. /\ Frame.kind # "top" /\ stack' = Advance(Front(stack)) /\ insts' = Returned(Me.uname)
      /\ \/ ununiq' = ununiq
         \/ ununiq' = Put(ununiq, Me.cls, [inst |-> Self, eff |-> Me.eff, sig |-> Frame.sig])
  BY Zenon DEF UniqueKept, ParamKept, UnunqKept, Finish
<1>2. PICK js, keys : /\ Register(js, keys)
                      /\ js = modJ \/ (Journaled(Frame) /\ js = Front(modJ))
                      /\ keys \subseteq {PreKey(Me.cls, Me.eff, Frame.sig), Post, NameKey(Me.uname),
                                         ParamKey(Me.cls, Me.eff, Frame.sig)}
  <2>1. CASE UniqueKept(op) /\ cfg.nocache
    <3>1. Register(modJ, {NameKey(Me.uname)})
      BY <2>1, Zenon DEF UniqueKept
    <3> QED
      BY <3>1
  <2>2. CASE UniqueKept(op) /\ ~cfg.nocache
    <3>1. /\ Register(Front(modJ), {PreKey(Me.cls, Me.eff, Frame.sig), Post, NameKey(Me.uname)})
          /\ Journaled(Frame)
      BY <2>2, Zenon DEF UniqueKept, Finish, Journaled
    <3> QED
      BY <3>1
  <2>3. CASE ParamKept(op)
    <3>1. Register(modJ, {NameKey(Me.uname)} \cup
                      IF cfg.nocache THEN {} ELSE {ParamKey(Me.cls, Me.eff, Frame.sig)})
      BY <2>3, Zenon DEF ParamKept
    <3> QED
      BY <3>1
  <2>4. CASE UnunqKept(op)
    <3>1. Register(modJ, {NameKey(Me.uname)})
      BY <2>4, Zenon DEF UnunqKept
    <3> QED
      BY <3>1
  <2> QED
    BY <2>1, <2>2, <2>3, <2>4
<1>3. \A k \in keys : IsDedupKey(k) => Earned(k)
  BY <1>2 DEF IsDedupKey, Earned, PreKey, PostKey, ParamKey, NameKey, Post
<1>4. BindsNew(keys)
  BY <1>2, RegisterBinds
<1>5. Finishes(insts') /\ SubsKept(insts') /\ Len(insts') = Len(insts)
  BY <1>0, <1>1, ReturnedFinishes
<1>6. Len(stack) > 1 /\ Frames(stack', Len(stack) - 1)
  BY <1>0, <1>1, ParentIs, BackFrames
<1> QED
  BY <1>1, <1>3, <1>4, <1>5, <1>6 DEF Returns

LEMMA AgainReturns ==
    ASSUME InStep, SealInv, Shaped(insts'), Frame.pc > 0, NEW op, AgainSame(op)
    PROVE  Returns(insts', stack')
<1>0. ScopeInv /\ stack # <<>>
  BY DEF InStep
<1>1. /\ Frame.kind # "top" /\ stack' = Advance(Front(stack)) /\ insts' = Returned(<<Me.cls>>)
      /\ UNCHANGED <<modules, modJ, ununiq>>
  BY Zenon DEF AgainSame, Finish
<1>2. Finishes(insts') /\ SubsKept(insts') /\ Len(insts') = Len(insts)
  BY <1>0, <1>1, ReturnedFinishes
<1>3. Len(stack) > 1 /\ Frames(stack', Len(stack) - 1)
  BY <1>0, <1>1, ParentIs, BackFrames
<1>4. BindsNew({}) /\ ununiq' = ununiq
  BY <1>1, SameKeys DEF KeepsKeys
<1>5. \A k \in {} : IsDedupKey(k) => Earned(k)
  OBVIOUS
<1> QED
  BY <1>2, <1>3, <1>4, <1>5 DEF Returns

LEMMA EndStops ==
    ASSUME InStep, SealInv, Shaped(insts'), Frame.pc > 0, NEW op, FinishTop(op) \/ AgainDiffers(op)
    PROVE  Stops(insts', stack')
<1>0. ScopeInv /\ stack # <<>>
  BY DEF InStep
<1>1. /\ UNCHANGED <<modules, modJ, ununiq>>
      /\ \/ /\ Frame.kind = "top" /\ stack' = <<>>
            /\ insts' = [insts EXCEPT ![Self].done = TRUE, ![Self].open = FALSE]
         \/ /\ stack' = Front(stack)
            /\ insts' = [insts EXCEPT ![Self].done = TRUE, ![Self].open = FALSE,
                                      ![Me.parent].open = Frame.popen]
  BY Zenon DEF FinishTop, AgainDiffers, Finish
<1>2. /\ Finishes(insts') /\ SubsKept(insts') /\ Len(insts') = Len(insts)
      /\ insts'[Self].uname = Me.uname
  BY <1>0, <1>1, EndFinishes
<1>3. Frames(stack', Len(stack) - 1)
  BY <1>0, <1>1, OverFrames, BackFrames
<1> QED
  BY <1>1, <1>2, <1>3, SameKeys DEF Stops

LEMMA HitAliases ==
    ASSUME InStep, SealInv, Shaped(insts'), Frame.pc > 0, NEW op,
           UniqueHit(op) \/ ParamHit(op) \/ UnunqAlias(op) \/ CloneInst(op)
    PROVE  \E src : Aliases(insts', stack', src, op)
<1>1. CASE UniqueHit(op) \/ ParamHit(op)
  <2>1. PICK k \in DOMAIN modules : /\ Alias(modules[k], op) /\ Fresh(op)
                                    /\ k \in {PreKey(op.cls, Eff(op), Sig(op)),
                                              ParamKey(op.cls, Eff(op), Sig(op))}
    <3>1. CASE UniqueHit(op)
      BY <3>1, Zenon DEF UniqueHit
    <3>2. CASE ParamHit(op)
      BY <3>2, Zenon DEF ParamHit
    <3> QED
      BY <1>1, <3>1, <3>2
  <2>2. modules[k] \in 1 .. Len(insts)
    BY DEF SealInv, Refs, RefDict
  <2>3. FoundKey(modules[k], op)
    BY <2>1 DEF FoundKey, IsDedupKey, PreKey, ParamKey
  <2> QED
    BY <2>1, <2>2, <2>3, AliasAliases
<1>2. CASE UnunqAlias(op)
  <2>1. /\ op.cls \in DOMAIN ununiq /\ Alias(ununiq[op.cls].inst, op) /\ Fresh(op)
        /\ ununiq[op.cls].sig = Sig(op) /\ ununiq[op.cls].eff = Eff(op)
    BY <1>2, Zenon DEF UnunqAlias, Later
  <2>2. ununiq[op.cls].inst \in 1 .. Len(insts)
    BY <2>1, NamesRefer DEF RefNames
  <2>3. FoundName(ununiq[op.cls].inst, op)
    BY <2>1 DEF FoundName
  <2> QED
    BY <2>1, <2>2, <2>3, AliasAliases
<1>3. CASE CloneInst(op)
  <2>1. PICK src \in Instances(op.src) :
           /\ Alias(src, op) /\ Fresh(op) /\ op.op = "clone"
           /\ \A a \in Ancestors : insts[a].uname # insts[src].uname
    BY <1>3, Zenon DEF CloneInst
  <2>2. src \in 1 .. Len(insts)
    <3>1. src \in DOMAIN insts
      BY <2>1, Zenon DEF Instances
    <3> QED
      BY <3>1, InstsAre
  <2>3. FoundOther(src, op)
    BY <2>1 DEF FoundOther
  <2> QED
    BY <2>1, <2>2, <2>3, AliasAliases
<1> QED
  BY <1>1, <1>2, <1>3

LEMMA MissCalls ==
    ASSUME InStep, SealInv, Shaped(insts'), Frame.pc > 0, NEW op,
           UniqueMiss(op) \/ ParamMiss(op) \/ UnunqFirst(op) \/ UnunqAgain(op)
    PROVE  Calls(insts', stack', op)
<1>1. /\ Fresh(op) /\ op.op \in {"unique", "param", "ununq"} /\ (OpenJournals \/ KeepJournals)
      /\ \E kind, name : /\ kind # "top" /\ (kind = "unique" <=> op.op = "unique")
                          /\ Elaborate(op, kind, name)
  <2>1. CASE UniqueMiss(op)
    <3>1. /\ Fresh(op) /\ op.op = "unique" /\ (OpenJournals \/ KeepJournals)
          /\ Elaborate(op, "unique", <<op.cls, "unq", derivs[<<op.cls, "unq">>] + 1>>)
      BY <2>1, Zenon DEF UniqueMiss
    <3>2. "unique" # "top" /\ ("unique" = "unique" <=> op.op = "unique")
      BY <3>1
    <3> QED
      BY <3>1, <3>2, Zenon
  <2>2. CASE ParamMiss(op)
    <3>1. /\ Fresh(op) /\ op.op = "param" /\ KeepJournals
          /\ \E name : Elaborate(op, "param", name)
      BY <2>2, Zenon DEF ParamMiss
    <3>2. "param" # "top" /\ ("param" = "unique" <=> op.op = "unique")
      BY <3>1
    <3> QED
      BY <3>1, <3>2, Zenon
  <2>3. CASE UnunqFirst(op)
    <3>1. /\ Fresh(op) /\ op.op = "ununq" /\ KeepJournals
          /\ Elaborate(op, "ununq", <<op.cls>>)
      BY <2>3, Zenon DEF UnunqFirst
    <3>2. "ununq" # "top" /\ ("ununq" = "unique" <=> op.op = "unique")
      BY <3>1
    <3> QED
      BY <3>1, <3>2, Zenon
  <2>4. CASE UnunqAgain(op)
    <3>1. /\ Fresh(op) /\ op.op = "ununq" /\ KeepJournals
          /\ Elaborate(op, "again", <<op.cls, "tmp", derivs[<<op.cls, "tmp">>] + 1>>)
      BY <2>4, Zenon DEF UnunqAgain, Later
    <3>2. "again" # "top" /\ ("again" = "unique" <=> op.op = "unique")
      BY <3>1
    <3> QED
      BY <3>1, <3>2, Zenon
  <2> QED
    BY <2>1, <2>2, <2>3, <2>4
<1>2. PICK kind, name : /\ kind # "top" /\ (kind = "unique" <=> op.op = "unique")
                        /\ Elaborate(op, kind, name)
  BY <1>1
<1> QED
  BY <1>1, <1>2, ElaborateCalls

LEMMA StepMoves ==
    ASSUME InStep, SealInv, Shaped(insts'), Frame.pc > 0, NEW op, Step(op)
    PROVE  Moves(insts', stack')
<1>0. ScopeInv /\ stack # <<>>
  BY DEF InStep
<1>1. CASE \/ UnunqConflict(op) \/ CloneRefused(op) \/ NameTaken(op)
           \/ ForceRefused(op) \/ TemplateError(op)
  <2>1. Raises
    BY <1>1, Zenon DEF UnunqConflict, CloneRefused, NameTaken, ForceRefused, TemplateError
  <2> QED
    BY <1>0, <2>1, SameRests DEF Raises, caches, Moves
<1>2. CASE UniqueHit(op) \/ ParamHit(op) \/ UnunqAlias(op) \/ CloneInst(op)
  BY <1>2, HitAliases DEF Moves
<1>3. CASE UniqueMiss(op) \/ ParamMiss(op) \/ UnunqFirst(op) \/ UnunqAgain(op)
  BY <1>3, MissCalls DEF Moves
<1>4. CASE Synonym(op)
  BY <1>4, SynonymRests DEF Moves
<1>5. CASE ForceParam(op)
  BY <1>5, ForceForces DEF Moves
<1>6. CASE FinishTop(op) \/ AgainDiffers(op)
  BY <1>6, EndStops DEF Moves
<1>7. CASE UniqueKept(op) \/ ParamKept(op) \/ UnunqKept(op)
  BY <1>7, KeptReturns DEF Moves
<1>8. CASE UniqueDup(op)
  BY <1>8, DupReplaces DEF Moves
<1>9. CASE AgainSame(op)
  BY <1>9, AgainReturns DEF Moves
<1> QED
  BY <1>1, <1>2, <1>3, <1>4, <1>5, <1>6, <1>7, <1>8, <1>9, Zenon DEF Step

\* Every step moves, and the settings stay.
LEMMA NextMoves ==
    ASSUME ClassAssumption, ScopeInv, SealInv, [Next]_vars
    PROVE  Moves(insts', stack') /\ cfg' = cfg
<1>0. Shaped(insts')
  BY SealNext DEF SealStep, Evolves
<1>1. CASE Begin
  BY <1>0, <1>1, BeginStarts, Zenon DEF Moves, Begin
<1>2. CASE TooDeep
  BY <1>2, SameRests DEF TooDeep, Raises, caches, Moves
<1>3. ASSUME NEW op, InBody, Perform(op), Step(op)
      PROVE  Moves(insts', stack') /\ cfg' = cfg
  <2>1. InStep /\ Frame.pc > 0 /\ cfg' = cfg
    BY <1>3 DEF InStep, InBody, Perform
  <2> QED
    BY <1>0, <1>3, <2>1, StepMoves
<1>4. CASE Catch
  <2>1. /\ stack' = Advance(stack) /\ UNCHANGED <<cfg, insts, modules, modJ, ununiq>>
        /\ Frame.pc > 0
    BY <1>4, Zenon DEF Catch, Guarded, caches
  <2>2. stack = <<>> => Advance(stack) = stack
    BY DEF Advance
  <2> QED
    BY <2>1, <2>2, SameRests DEF Moves
<1>5. CASE Unwind
  BY <1>0, <1>5, UnwindGives, Zenon DEF Moves, Unwind
<1>6. CASE Fail
  BY <1>6, FailGives, Zenon DEF Moves, Fail
<1>7. CASE UNCHANGED vars
  <2>1. stack' = stack /\ UNCHANGED <<cfg, insts, modules, modJ, ununiq>>
    BY <1>7 DEF vars
  <2> QED
    BY <2>1, SameRests DEF Moves
<1> QED
  BY <1>1, <1>2, <1>3, <1>4, <1>5, <1>6, <1>7, Zenon DEF Next
=============================================================================

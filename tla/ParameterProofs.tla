--------------------------- MODULE ParameterProofs ---------------------------
(***************************************************************************)
(* For any parameters, sources and number of calls: a value stays within   *)
(* its range unless a call about it raised, a forced value stays, one that *)
(* nothing in the program forced is that of the highest rung of the ladder *)
(* that names it, and the account of what was used is true.                *)
(*                                                                         *)
(* What a body's call may do to the store is said once, in StoreStep; one  *)
(* lemma shows that each call is such a step, one that such a step keeps   *)
(* the invariant.  For the ladder, SourceStep says so once more of where   *)
(* the value comes from: SourceInv keeps its source with every value, and  *)
(* relates what was read to what was given.                                *)
(***************************************************************************)
EXTENDS ParameterSafety, WellFoundedInduction, NaturalsInduction, TLAPS

\* The fields of an entry, whatever their values.
IsEntry(e) ==
    DOMAIN e = {"val", "default", "state", "prio", "declared", "seenDecl", "seenForced", "range"}

\* An entry knows whether it was forced.
Sound(e) == IsEntry(e) /\ (e.state = "FORCED" <=> e.seenForced)

Shape == /\ cur \in Insts
         /\ DOMAIN params = Insts
         /\ params = [i \in Insts |-> params[i]]
         /\ \A i \in Insts : \A n \in DOMAIN params[i] : Sound(params[i][n])

\* Until the child is made its store is empty, so that making it replaces
\* nothing.
NoChildYet == kw = None => cur = "top" /\ DOMAIN params["a"] = {}

IInv == Shape /\ NoChildYet /\ RangeHolds

\* What the new entry e of n owes to the one it replaces.
Pins(n, e) == Known(n) /\ Store[n].state = "FORCED" =>
                  e.state = "FORCED" /\ e.val = Store[n].val

StoreStep(n) ==
    /\ tainted \subseteq tainted'
    /\ UNCHANGED <<cur, kw>>
    /\ \/ UNCHANGED params
       \/ \E e : /\ Put(n, e) /\ Sound(e) /\ Pins(n, e)
                 /\ InRange(e) \/ <<cur, n>> \in tainted'

PinnedStep == \A i \in Insts : \A n \in DOMAIN params[i] :
    params[i][n].state = "FORCED" =>
        /\ params'[i][n].val = params[i][n].val
        /\ params'[i][n].state = "FORCED"

-----------------------------------------------------------------------------
(* Entries. *)

LEMMA FreshSound ==
    ASSUME NEW v, NEW b
    PROVE  Sound(NewEntry(v, b)) /\ InRange(NewEntry(v, b)) /\ NewEntry(v, b).state = "DEFINED"
BY DEF Sound, IsEntry, NewEntry, InRange

\* Declaring an entry, or giving it a range, leaves its value and its state.
LEMMA DeclareKeeps ==
    ASSUME NEW e, Sound(e), NEW d
    PROVE  LET f == [e EXCEPT !.declared = TRUE, !.default = d, !.seenDecl = TRUE]
           IN  Sound(f) /\ f.val = e.val /\ f.state = e.state /\ f.range = e.range
BY DEF Sound, IsEntry

LEMMA RangeKeeps ==
    ASSUME NEW e, Sound(e), NEW r
    PROVE  LET f == [e EXCEPT !.range = r]
           IN  Sound(f) /\ f.val = e.val /\ f.state = e.state /\ f.seenForced = e.seenForced
BY DEF Sound, IsEntry

LEMMA PinSound ==
    ASSUME NEW e, Sound(e), NEW v
    PROVE  Sound(Pinned(e, v)) /\ Pinned(e, v).state = "FORCED"
BY DEF Sound, IsEntry, Pinned

LEMMA OverrideSound ==
    ASSUME NEW e, Sound(e), NEW v
    PROVE  /\ Sound(Overridden(e, v))
           /\ e.state = "FORCED" => Overridden(e, v) = e
           /\ Overridden(e, v).range = e.range
BY DEF Sound, IsEntry, Overridden

LEMMA LookedSound ==
    ASSUME NEW n, NEW e, Sound(e), ~Settled(e)
    PROVE  Sound(Looked(n, e))
<1> DEFINE v == Highest(Candidates(<<cur, n>>)).val
           p == Highest(Candidates(<<cur, n>>)).prio
           w == DefaultOf(cur, n)
<1>1. Sound([e EXCEPT !.val = v, !.prio = p, !.state = "OVERRIDDEN"])
  <2> HIDE DEF v, p
  <2> QED  BY DEF Sound, IsEntry, Settled
<1>2. Sound([e EXCEPT !.val = w, !.prio = 7, !.state = "OVERRIDDEN"])
  <2> HIDE DEF w
  <2> QED  BY DEF Sound, IsEntry, Settled
<1> QED
  BY <1>1, <1>2, Zenon DEF Looked

-----------------------------------------------------------------------------
(* The store. *)

LEMMA PutIs ==
    ASSUME Shape, NEW n, NEW e, Put(n, e)
    PROVE  /\ DOMAIN params' = Insts
           /\ params' = [i \in Insts |-> params'[i]]
           /\ \A i \in Insts \ {cur} : params'[i] = params[i]
           /\ DOMAIN params'[cur] = DOMAIN params[cur] \cup {n}
           /\ params'[cur][n] = e
           /\ \A m \in DOMAIN params[cur] \ {n} : params'[cur][m] = params[cur][m]
<1> DEFINE f == With(params[cur], n, e)
<1>1. /\ DOMAIN f = DOMAIN params[cur] \cup {n}
      /\ f[n] = e
      /\ \A m \in DOMAIN params[cur] \ {n} : f[m] = params[cur][m]
  BY DEF With
<1>2. params' = [params EXCEPT ![cur] = f]
  BY DEF Put
<1> HIDE DEF f
<1> QED
  BY <1>1, <1>2 DEF Shape

\* A step of a body's call keeps the invariant, and every forced value.
LEMMA StoreStepKeeps ==
    ASSUME IInv, NEW n, StoreStep(n)
    PROVE  IInv' /\ PinnedStep
<1>1. CASE UNCHANGED params
  <2>1. Shape' /\ NoChildYet' /\ PinnedStep
    BY <1>1 DEF IInv, Shape, NoChildYet, StoreStep, PinnedStep, Sound, IsEntry
  <2>2. RangeHolds'
    BY <1>1 DEF IInv, RangeHolds, StoreStep, InRange
  <2> QED
    BY <2>1, <2>2 DEF IInv
<1>2. ASSUME NEW e, Put(n, e), Sound(e), Pins(n, e),
             InRange(e) \/ <<cur, n>> \in tainted'
      PROVE  IInv' /\ PinnedStep
  <2>1. /\ DOMAIN params' = Insts
        /\ params' = [i \in Insts |-> params'[i]]
        /\ \A i \in Insts \ {cur} : params'[i] = params[i]
        /\ DOMAIN params'[cur] = DOMAIN params[cur] \cup {n}
        /\ params'[cur][n] = e
        /\ \A m \in DOMAIN params[cur] \ {n} : params'[cur][m] = params[cur][m]
    BY <1>2, PutIs DEF IInv
  <2>2. cur' = cur /\ kw' = kw /\ tainted \subseteq tainted' /\ cur \in Insts
    BY DEF StoreStep, IInv, Shape
  <2>3. \A i \in Insts : \A m \in DOMAIN params'[i] :
            \/ i = cur /\ m = n /\ params'[i][m] = e
            \/ m \in DOMAIN params[i] /\ params'[i][m] = params[i][m]
    BY <2>1
  <2>4. Shape'
    <3>1. \A i \in Insts : \A m \in DOMAIN params[i] : Sound(params[i][m])
      BY DEF IInv, Shape
    <3>2. \A i \in Insts : \A m \in DOMAIN params'[i] : Sound(params'[i][m])
      BY <1>2, <2>3, <3>1, Zenon
    <3> QED
      BY <2>1, <2>2, <3>2 DEF Shape, Sound, IsEntry
  <2>5. NoChildYet'
    BY <2>1, <2>2 DEF IInv, NoChildYet, Insts
  <2>6. RangeHolds'
    <3>1. \A i \in Insts : \A m \in DOMAIN params[i] :
              InRange(params[i][m]) \/ <<i, m>> \in tainted
      BY DEF IInv, RangeHolds
    <3>2. \A i \in Insts : \A m \in DOMAIN params'[i] :
              InRange(params'[i][m]) \/ <<i, m>> \in tainted'
      BY <1>2, <2>2, <2>3, <3>1, Zenon
    <3> QED
      BY <3>2 DEF RangeHolds, InRange
  <2>7. PinnedStep
    <3> SUFFICES ASSUME NEW i \in Insts, NEW m \in DOMAIN params[i],
                        params[i][m].state = "FORCED"
                 PROVE  params'[i][m].val = params[i][m].val /\ params'[i][m].state = "FORCED"
      BY DEF PinnedStep
    <3>1. CASE i = cur /\ m = n
      BY <1>2, <2>1, <3>1 DEF Pins, Known, Store
    <3>2. CASE ~(i = cur /\ m = n)
      BY <2>1, <3>2
    <3> QED
      BY <3>1, <3>2
  <2> QED
    BY <2>4, <2>5, <2>6, <2>7 DEF IInv
<1> QED
  BY <1>1, <1>2, Zenon DEF StoreStep

-----------------------------------------------------------------------------
(* The calls of a body, one lemma each: every one is a StoreStep.  A call  *)
(* that raises before it stores anything leaves params alone.              *)

LEMMA RefuseSteps ==
    ASSUME NEW n, Raise(n), UNCHANGED <<params, cur, kw>>
    PROVE  StoreStep(n)
BY DEF Raise, StoreStep

LEMMA PutCheckedSteps ==
    ASSUME NEW n, NEW e, Sound(e), Pins(n, e), PutChecked(n, e), UNCHANGED <<cur, kw>>
    PROVE  StoreStep(n)
<1>1. Put(n, e)
  BY DEF PutChecked
<1>2. tainted \subseteq tainted' /\ (InRange(e) \/ <<cur, n>> \in tainted')
  BY DEF PutChecked, Raise
<1> QED
  BY <1>1, <1>2, Zenon DEF StoreStep

\* The entry a call starts from.
LEMMA OldSound ==
    ASSUME IInv, NEW n, NEW v, NEW b, NEW e, e = IF Known(n) THEN Store[n] ELSE NewEntry(v, b)
    PROVE  Sound(e) /\ Pins(n, e) /\ (InRange(e) \/ <<cur, n>> \in tainted)
<1>1. CASE Known(n)
  <2>1. Sound(Store[n]) /\ (InRange(Store[n]) \/ <<cur, n>> \in tainted)
    BY <1>1 DEF IInv, Shape, RangeHolds, Known, Store
  <2> QED
    BY <1>1, <2>1 DEF Pins
<1>2. CASE ~Known(n)
  BY <1>2, FreshSound DEF Pins
<1> QED
  BY <1>1, <1>2

LEMMA DeclaredSound ==
    ASSUME IInv, NEW n, NEW d
    PROVE  /\ Sound(Declared(n, d)) /\ Pins(n, Declared(n, d))
           /\ InRange(Declared(n, d)) \/ <<cur, n>> \in tainted
<1> DEFINE e == IF Known(n) THEN Store[n] ELSE NewEntry(d, TRUE)
           f == [e EXCEPT !.declared = TRUE, !.default = d, !.seenDecl = TRUE]
<1>1. Sound(e) /\ Pins(n, e) /\ (InRange(e) \/ <<cur, n>> \in tainted)
  BY OldSound
<1>2. Declared(n, d) = f
  BY DEF Declared
<1> HIDE DEF e
<1>3. Sound(f) /\ f.val = e.val /\ f.state = e.state /\ f.range = e.range
  BY <1>1, DeclareKeeps
<1> HIDE DEF f
<1> QED
  BY <1>1, <1>2, <1>3 DEF Pins, InRange

LEMMA DefineParamSteps ==
    ASSUME IInv, NEW n, NEW d, DefineParam(n, d)
    PROVE  StoreStep(n)
<1>1. UNCHANGED <<cur, kw>>
  BY DEF DefineParam, Call
<1>2. CASE MayDeclare(n)
  <2>1. Put(n, Declared(n, d)) /\ tainted' = tainted
    BY <1>2 DEF DefineParam
  <2>2. /\ Sound(Declared(n, d)) /\ Pins(n, Declared(n, d))
        /\ InRange(Declared(n, d)) \/ <<cur, n>> \in tainted'
    BY <2>1, DeclaredSound
  <2> QED
    BY <1>1, <2>1, <2>2, Zenon DEF StoreStep
<1>3. CASE ~MayDeclare(n)
  BY <1>1, <1>3, RefuseSteps DEF DefineParam, Refuse
<1> QED
  BY <1>2, <1>3

LEMMA ParameterSteps ==
    ASSUME IInv, NEW n, NEW d, NEW r, Parameter(n, d, r)
    PROVE  StoreStep(n)
<1> DEFINE e == Declared(n, d)
           ranged == [e EXCEPT !.range = IF r = None THEN @ ELSE r]
           settled == IF Settled(ranged) THEN ranged ELSE Looked(n, ranged)
           clash == r = Malformed \/ (r # None /\ e.range # None)
<1>1. UNCHANGED <<cur, kw>>
  BY DEF Parameter, Call
<1>2. Sound(e) /\ Pins(n, e)
  BY DeclaredSound
<1>3. CASE ~MayDeclare(n)
  BY <1>1, <1>3, RefuseSteps DEF Parameter, Refuse
<1>4. CASE MayDeclare(n) /\ clash
  <2>1. Put(n, e) /\ Raise(n)
    BY <1>4 DEF Parameter
  <2>2. tainted \subseteq tainted' /\ <<cur, n>> \in tainted'
    BY <2>1 DEF Raise
  <2> HIDE DEF e
  <2> QED
    BY <1>1, <1>2, <2>1, <2>2, Zenon DEF StoreStep
<1>5. CASE MayDeclare(n) /\ ~clash
  <2>1. PutChecked(n, settled)
    BY <1>5 DEF Parameter, PutResolved
  <2> HIDE DEF e
  <2>2. Sound(ranged) /\ ranged.val = e.val /\ ranged.state = e.state
    BY <1>2, RangeKeeps
  <2> HIDE DEF ranged
  <2>3. Sound(settled)
    BY <2>2, LookedSound
  <2>4. Pins(n, settled)
    BY <1>2, <2>2 DEF Pins, Settled
  <2> HIDE DEF settled
  <2> QED
    BY <1>1, <2>1, <2>3, <2>4, PutCheckedSteps
<1> QED
  BY <1>3, <1>4, <1>5

LEMMA ForceParamSteps ==
    ASSUME IInv, NEW n, NEW v, ForceParam(n, v)
    PROVE  StoreStep(n)
<1> DEFINE e == IF Known(n) THEN Store[n] ELSE NewEntry(v, TRUE)
<1>1. UNCHANGED <<cur, kw>>
  BY DEF ForceParam, Call
<1>2. CASE Known(n) /\ Store[n].seenForced
  BY <1>1, <1>2, RefuseSteps DEF ForceParam, Refuse
<1>3. CASE ~(Known(n) /\ Store[n].seenForced)
  <2>1. PutChecked(n, Pinned(e, v))
    BY <1>3 DEF ForceParam
  <2>2. Sound(e)
    BY OldSound
  <2>3. Pins(n, Pinned(e, v))
    BY <1>3, <2>2 DEF Pins, Sound
  <2> HIDE DEF e
  <2> QED
    BY <1>1, <2>1, <2>2, <2>3, PinSound, PutCheckedSteps
<1> QED
  BY <1>2, <1>3

LEMMA ParameterForcedSteps ==
    ASSUME IInv, NEW n, NEW v, NEW r, ParameterForced(n, v, r)
    PROVE  StoreStep(n)
<1> DEFINE e == IF Known(n) THEN Store[n] ELSE NewEntry(v, TRUE)
           ranged == [e EXCEPT !.range = IF r = None THEN @ ELSE r]
           clash == r = Malformed \/ (r # None /\ (~Known(n) \/ Store[n].range # None))
<1>1. UNCHANGED <<cur, kw>>
  BY DEF ParameterForced, Call
<1>2. Sound(e) /\ Pins(n, e) /\ (InRange(e) \/ <<cur, n>> \in tainted)
  BY OldSound
<1>3. CASE clash
  BY <1>1, <1>3, RefuseSteps DEF ParameterForced, Refuse
<1>4. CASE ~clash
  <2>1. IF e.seenForced THEN Put(n, ranged) /\ Raise(n) ELSE PutChecked(n, Pinned(ranged, v))
    BY <1>4 DEF ParameterForced
  <2>2. Known(n) /\ Store[n].state = "FORCED" => e.seenForced
    BY <1>2 DEF Sound
  <2> HIDE DEF e
  <2>3. /\ Sound(ranged) /\ ranged.val = e.val /\ ranged.state = e.state
        /\ ranged.seenForced = e.seenForced
    BY <1>2, RangeKeeps
  <2> HIDE DEF ranged
  <2>4. CASE e.seenForced
    <3>1. Pins(n, ranged)
      BY <1>2, <2>3 DEF Pins
    <3>2. Put(n, ranged) /\ tainted \subseteq tainted' /\ <<cur, n>> \in tainted'
      BY <2>1, <2>4 DEF Raise
    <3> QED
      BY <1>1, <2>3, <3>1, <3>2, Zenon DEF StoreStep
  <2>5. CASE ~e.seenForced
    <3>1. Pins(n, Pinned(ranged, v))
      BY <2>2, <2>5 DEF Pins
    <3> QED
      BY <1>1, <2>1, <2>3, <2>5, <3>1, PinSound, PutCheckedSteps
  <2> QED
    BY <2>4, <2>5
<1> QED
  BY <1>3, <1>4

LEMMA ParamRangeSteps ==
    ASSUME IInv, NEW n, NEW r, ParamRange(n, r)
    PROVE  StoreStep(n)
<1> DEFINE e == Store[n]
           ranged == [e EXCEPT !.range = r]
<1>1. UNCHANGED <<cur, kw>>
  BY DEF ParamRange, Call
<1>2. CASE ~Known(n) \/ Store[n].range # None \/ r = Malformed
  BY <1>1, <1>2, RefuseSteps DEF ParamRange, Refuse
<1>3. CASE ~(~Known(n) \/ Store[n].range # None \/ r = Malformed)
  <2>1. PutChecked(n, ranged)
    BY <1>3 DEF ParamRange
  <2>2. Sound(e) /\ Pins(n, e)
    BY <1>3, OldSound
  <2> HIDE DEF e
  <2>3. Sound(ranged) /\ ranged.val = e.val /\ ranged.state = e.state
    BY <2>2, RangeKeeps
  <2> HIDE DEF ranged
  <2>4. Pins(n, ranged)
    BY <2>2, <2>3 DEF Pins
  <2> QED
    BY <1>1, <2>1, <2>3, <2>4, PutCheckedSteps
<1> QED
  BY <1>2, <1>3

LEMMA OverrideParamSteps ==
    ASSUME IInv, NEW n, NEW v, OverrideParam(n, v)
    PROVE  StoreStep(n)
<1> DEFINE e == IF Known(n) THEN Store[n] ELSE NewEntry(v, FALSE)
           f == Overridden(e, v)
<1>1. UNCHANGED <<cur, kw>>
  BY DEF OverrideParam, Call
<1>2. Sound(e) /\ Pins(n, e)
  BY OldSound
<1>3. IF f.state = "FORCED" THEN UNCHANGED <<params, status, tainted>> ELSE PutChecked(n, f)
  BY DEF OverrideParam
<1> HIDE DEF e
<1>4. Sound(f) /\ (e.state = "FORCED" => f = e)
  BY <1>2, OverrideSound
<1> HIDE DEF f
<1>5. Pins(n, f)
  BY <1>2, <1>4 DEF Pins
<1>6. CASE f.state = "FORCED"
  BY <1>1, <1>3, <1>6 DEF StoreStep
<1>7. CASE f.state # "FORCED"
  BY <1>1, <1>3, <1>4, <1>5, <1>7, PutCheckedSteps
<1> QED
  BY <1>6, <1>7

LEMMA GetParamSteps ==
    ASSUME NEW n, GetParam(n)
    PROVE  StoreStep(n)
BY DEF GetParam, Call, Raise, StoreStep

LEMMA BodyCallSteps ==
    ASSUME IInv, BodyCall
    PROVE  \E n \in Declarable : StoreStep(n)
<1>1. PICK n \in Declarable :
        \/ \E d \in Defaults : DefineParam(n, d)
        \/ \E d \in Defaults, r \in Ranges \cup {None, Malformed} : Parameter(n, d, r)
        \/ \E v \in Forceds : ForceParam(n, v) \/ OverrideParam(n, v)
        \/ \E v \in Forceds, r \in Ranges \cup {None, Malformed} : ParameterForced(n, v, r)
        \/ \E r \in Ranges \cup {Malformed} : ParamRange(n, r)
        \/ GetParam(n)
  BY Zenon DEF BodyCall
<1>2. StoreStep(n)
  BY <1>1, DefineParamSteps, ParameterSteps, ForceParamSteps, OverrideParamSteps,
     ParameterForcedSteps, ParamRangeSteps, GetParamSteps, Zenon
<1> QED
  BY <1>2

-----------------------------------------------------------------------------
(* The other steps. *)

LEMMA InitHolds ==
    ASSUME ParameterAssumption, Init
    PROVE  IInv
<1>1. /\ cur = "top" /\ params = [i \in Insts |-> <<>>]
      /\ \A i \in Insts : DOMAIN params[i] = {}
  BY DEF Init
<1> QED
  BY <1>1 DEF IInv, Shape, NoChildYet, RangeHolds, Insts

\* The child begins with what its keywords and the scoped overrides give it,
\* and no range.
LEMMA InstantiateKeeps ==
    ASSUME ParameterAssumption, IInv, NEW k \in Keywords, Instantiate(k)
    PROVE  IInv' /\ PinnedStep
<1> DEFINE eff == Merged(Scoped, k)
           child == [n \in DOMAIN eff |-> Overridden(NewEntry(eff[n], FALSE), eff[n])]
<1>1. /\ cur = "top" /\ kw = None /\ kw' = k /\ cur' = "a" /\ tainted' = tainted
      /\ params' = [params EXCEPT !["a"] = child]
  BY Zenon DEF Instantiate
<1>2. \A n \in DOMAIN child : Sound(child[n]) /\ child[n].range = None
  <2> SUFFICES ASSUME NEW n \in DOMAIN eff
               PROVE  LET e == Overridden(NewEntry(eff[n], FALSE), eff[n])
                      IN  Sound(e) /\ e.range = None
    BY Zenon
  <2> DEFINE v == eff[n]
  <2> HIDE DEF v
  <2>1. Sound(NewEntry(v, FALSE)) /\ NewEntry(v, FALSE).range = None
    BY FreshSound DEF NewEntry
  <2>2. Sound(Overridden(NewEntry(v, FALSE), v)) /\ Overridden(NewEntry(v, FALSE), v).range = None
    BY <2>1, OverrideSound
  <2> QED
    BY <2>2 DEF v
<1> HIDE DEF child
<1>3. /\ DOMAIN params' = Insts /\ params' = [i \in Insts |-> params'[i]]
      /\ params'["top"] = params["top"] /\ params'["a"] = child
      /\ DOMAIN params["a"] = {}
  BY <1>1 DEF IInv, Shape, NoChildYet, Insts
<1>4. Shape'
  <2>1. \A i \in Insts : \A n \in DOMAIN params'[i] : Sound(params'[i][n])
    BY <1>2, <1>3 DEF IInv, Shape, Insts
  <2> QED
    BY <1>1, <1>3, <2>1 DEF Shape, Insts, Sound, IsEntry
<1>5. NoChildYet'
  BY <1>1 DEF NoChildYet, ParameterAssumption
<1>6. RangeHolds'
  <2>1. \A i \in Insts : \A n \in DOMAIN params'[i] :
            InRange(params'[i][n]) \/ <<i, n>> \in tainted
    BY <1>2, <1>3 DEF IInv, RangeHolds, InRange, Insts
  <2> QED
    BY <1>1, <2>1 DEF RangeHolds, InRange
<1>7. PinnedStep
  BY <1>3 DEF PinnedStep, Insts
<1> QED
  BY <1>4, <1>5, <1>6, <1>7 DEF IInv

\* Reading arguments, .cfg calls, catches and ends leave the store alone, and
\* so does a return, which hands over to the top.
LEMMA RestKeeps ==
    ASSUME IInv, UNCHANGED <<params, kw, tainted>>, cur' = cur \/ (kw # None /\ cur' = "top")
    PROVE  IInv' /\ PinnedStep
<1>1. Shape' /\ NoChildYet'
  BY DEF IInv, Shape, NoChildYet, Sound, IsEntry, Insts
<1>2. RangeHolds'
  BY DEF IInv, RangeHolds, InRange
<1> QED
  BY <1>1, <1>2 DEF IInv, PinnedStep

LEMMA NextKeeps ==
    ASSUME ParameterAssumption, IInv, [Next]_vars
    PROVE  IInv' /\ PinnedStep
<1>1. CASE BodyCall
  BY <1>1, BodyCallSteps, StoreStepKeeps, Zenon
<1>2. ASSUME NEW k \in Keywords, Instantiate(k)
      PROVE  IInv' /\ PinnedStep
  BY <1>2, InstantiateKeeps
<1>3. CASE TakeSpec \/ ReadDefaults \/ ArgumentsDone
  BY <1>3, RestKeeps DEF TakeSpec, ReadDefaults, ArgumentsDone, Reading
<1>4. ASSUME NEW k \in CfgKeys,
             (\E p \in Prios : Configure(k, p)) \/ RemoveConfiguration(k) \/ GetConfiguration(k)
      PROVE  IInv' /\ PinnedStep
  BY <1>4, RestKeeps DEF Configure, RemoveConfiguration, GetConfiguration, CfgCall
<1>5. CASE CfgDone \/ Catch \/ Fail
  BY <1>5, RestKeeps DEF CfgDone, Catch, Fail
<1>6. CASE Return
  BY <1>6, RestKeeps DEF Return
<1>7. CASE UNCHANGED vars
  BY <1>7, RestKeeps DEF vars
<1> QED
  BY <1>1, <1>2, <1>3, <1>4, <1>5, <1>6, <1>7, Zenon DEF Next

-----------------------------------------------------------------------------
(* Ranges and forces, for every behaviour. *)

\* The strengthened invariant, of which RangeHolds is a part.
THEOREM InvariantHolds == Spec => []IInv
<1>1. Init => IInv
  BY ParameterAssumption, InitHolds
<1>2. IInv /\ [Next]_vars => IInv'
  BY ParameterAssumption, NextKeeps
<1> QED
  BY <1>1, <1>2, PTL DEF Spec

\* No value of a declared parameter is ever outside its declared range, unless
\* a call about it raised.
THEOREM RangeHoldsAlways == Spec => []RangeHolds
<1>1. IInv => RangeHolds
  BY DEF IInv
<1> QED
  BY <1>1, InvariantHolds, PTL

\* A forced value stays, whatever calls follow on it.
THEOREM ForcedStays == Spec => ForcedPinned
<1>1. IInv /\ [Next]_vars => [PinnedStep]_vars
  BY ParameterAssumption, NextKeeps
<1>2. [][PinnedStep]_vars => ForcedPinned
  BY PTL DEF ForcedPinned, PinnedStep
<1> QED
  BY <1>1, <1>2, InvariantHolds, PTL DEF Spec

-----------------------------------------------------------------------------
(* Where values come from. *)

\* The arguments and files read so far, as they were given.
ReadSpecs(m) ==
    LET S == {given.specs[x] : x \in 1 .. m}
    IN  /\ DOMAIN src.bare = {s.name : s \in {u \in S : u.at = None}}
        /\ DOMAIN src.cmd = {<<s.at, s.name>> : s \in {u \in S : u.at # None}}
        /\ \A s \in S : IF s.at = None THEN src.bare[s.name] = s.val
                        ELSE src.cmd[<<s.at, s.name>>] = s.val
ReadFiles(m) ==
    LET S == {given.files[x] : x \in 1 .. m}
    IN  /\ \A e \in DOMAIN src.defaults : \E f \in S : \E t \in DOMAIN f : e = Last(t)
        /\ \A f \in S : \A t \in DOMAIN f :
              Last(t) \in DOMAIN src.defaults /\ src.defaults[Last(t)] = f[t]

\* First the arguments are read, then the files; if none is refused, the
\* sources hold what each of them gives.
Partly == \/ read \in 0 .. Len(given.specs) /\ ReadSpecs(read) /\ ReadFiles(0)
          \/ /\ read \in Len(given.specs) .. Len(given.specs) + Len(given.files)
             /\ ReadSpecs(Len(given.specs)) /\ ReadFiles(read - Len(given.specs))
Complete == /\ ReadSpecs(Len(given.specs)) /\ ReadFiles(Len(given.files))
            /\ src.json = given.json

Stage == /\ given \in Setups
         /\ DOMAIN src = {"cmd", "bare", "json", "defaults"}
         /\ \A x \in DOMAIN cfgDb : cfgDb[x].prio \in Prios
         /\ \/ /\ status \in {"args", "cfg", "failed"} /\ kw = None
               /\ \A i \in Insts : DOMAIN params[i] = {}
               /\ forcedKeys = {}
               /\ status = "args" => Partly
               /\ status = "cfg" => Complete
            \/ status \in {"running", "raised", "done", "failed"} /\ Complete

\* The child was made with the value, which may be a scoped argument's.
FromAbove(i, n, v, p) ==
    /\ i = "a" /\ kw # None /\ n \in DOMAIN Merged(Scoped, kw)
    /\ v = Merged(Scoped, kw)[n] /\ p = 40
    /\ n \in Names /\ <<i, n>> \in DOMAIN src.cmd => <<"cmd", <<i, n>>>> \in used

\* The value was looked up by an instance that was made without one; what the
\* lookup consulted is accounted for.
LookedUp(i, n, v, p) ==
    IF Candidates(<<i, n>>) # {}
    THEN v = Highest(Candidates(<<i, n>>)).val /\ p = Highest(Candidates(<<i, n>>)).prio
    ELSE Holding(i, n) # {} /\ v = DefaultOf(i, n) /\ p = 7

FromLookup(i, n, v, p) ==
    /\ LookedUp(i, n, v, p)
    /\ i = "a" => kw # None /\ n \notin DOMAIN Merged(Scoped, kw)
    /\ Consulted(<<i, n>>) \subseteq used
    /\ Accounted(i, Entered(i)) \subseteq entries
    /\ Accounted(i, Holding(i, n)) \X {n} \subseteq taken

\* An overridden value is one the body gave, or came from above or from a
\* lookup; only a lookup gives the priority of --defaults.
Sourced(i, n, s, v, p) ==
    IF s = "OVERRIDDEN"
    THEN (v \in Forceds /\ p = 40) \/ FromAbove(i, n, v, p) \/ FromLookup(i, n, v, p)
    ELSE p # 7

AllSourced == \A i \in Insts : \A n \in DOMAIN params[i] :
    Sourced(i, n, params[i][n].state, params[i][n].val, params[i][n].prio)

\* The child keeps a value for all it was made with, so that no lookup
\* replaces it.
Passed == kw # None =>
    \A n \in DOMAIN Merged(Scoped, kw) : n \in DOMAIN params["a"] /\ Settled(params["a"][n])

\* A key counts as forced where an instance that reads its entry forced it.
KeysForced == \A p \in forcedKeys :
    \E i \in Insts : /\ p[1] \in Accounted(i, Entered(i)) /\ p[2] \in DOMAIN params[i]
                     /\ params[i][p[2]].state = "FORCED"

SourceInv == Stage /\ AllSourced /\ Passed /\ KeysForced

-----------------------------------------------------------------------------
(* The calls of a body again: where the value they leave comes from. *)

\* The new entry e of n has the value and the source of the one it replaces,
\* is new, pinned or overridden by the body, or was looked up.
NewSource(n, e) ==
    \/ ~Known(n) /\ e.state = "DEFINED" /\ e.prio = 0
    \/ /\ Known(n)
       /\ e.state = Store[n].state /\ e.val = Store[n].val /\ e.prio = Store[n].prio
    \/ e.state = "FORCED" /\ e.prio = 50
    \/ /\ Known(n) => Store[n].state # "FORCED"
       /\ e.state = "OVERRIDDEN" /\ e.prio = 40 /\ e.val \in Forceds
    \/ /\ Known(n) => ~Settled(Store[n])
       /\ e.state = "OVERRIDDEN" /\ LookedUp(cur, n, e.val, e.prio)
       /\ Consulted(<<cur, n>>) \subseteq used'
       /\ Accounted(cur, Entered(cur)) \subseteq entries'
       /\ Accounted(cur, Holding(cur, n)) \X {n} \subseteq taken'

Marks(n, e) == \/ forcedKeys' = forcedKeys
               \/ /\ forcedKeys' = forcedKeys \cup Accounted(cur, Holding(cur, n)) \X {n}
                  /\ e.state = "FORCED"

SourceStep(n) ==
    /\ UNCHANGED <<given, src, cfgDb, kw, cur>>
    /\ status = "running" /\ status' \in {"running", "raised"}
    /\ used \subseteq used' /\ entries \subseteq entries' /\ taken \subseteq taken'
    /\ \/ UNCHANGED <<params, forcedKeys>>
       \/ \E e : Put(n, e) /\ NewSource(n, e) /\ Marks(n, e)

LEMMA CallIs ==
    ASSUME NEW n, Call(n)
    PROVE  UNCHANGED <<given, src, cfgDb, kw, cur>> /\ status = "running"
BY DEF Call, db

LEMMA RefuseSources ==
    ASSUME NEW n, Call(n), Raise(n), UNCHANGED <<params, books>>
    PROVE  SourceStep(n)
BY CallIs DEF Raise, SourceStep, books, accounts

LEMMA PutSources ==
    ASSUME NEW n, NEW e, Call(n), Put(n, e), NewSource(n, e), Marks(n, e),
           status' \in {"running", "raised"},
           used \subseteq used', entries \subseteq entries', taken \subseteq taken'
    PROVE  SourceStep(n)
<1>1. UNCHANGED <<given, src, cfgDb, kw, cur>> /\ status = "running"
  BY CallIs
<1> QED
  BY <1>1, Zenon DEF SourceStep

LEMMA CheckedIs ==
    ASSUME NEW n, NEW e, PutChecked(n, e), status = "running"
    PROVE  Put(n, e) /\ status' \in {"running", "raised"}
BY DEF PutChecked, Raise

\* Declaring a parameter leaves its value, or makes an entry.
LEMMA DeclaredIs ==
    ASSUME IInv, NEW n, NEW d
    PROVE  LET e == Declared(n, d)
           IN  /\ Sound(e)
               /\ ~Known(n) => e.state = "DEFINED" /\ e.prio = 0
               /\ Known(n) => e.state = Store[n].state /\ e.val = Store[n].val /\ e.prio = Store[n].prio
<1> DEFINE e == IF Known(n) THEN Store[n] ELSE NewEntry(d, TRUE)
           f == [e EXCEPT !.declared = TRUE, !.default = d, !.seenDecl = TRUE]
<1>1. Sound(e)
  BY OldSound
<1>2. ~Known(n) => e.state = "DEFINED" /\ e.prio = 0
  BY DEF NewEntry
<1>3. Known(n) => e = Store[n]
  OBVIOUS
<1>4. Declared(n, d) = f
  BY DEF Declared
<1> HIDE DEF e
<1>5. Sound(f) /\ f.state = e.state /\ f.val = e.val /\ f.prio = e.prio
  BY <1>1 DEF Sound, IsEntry
<1> HIDE DEF f
<1> QED
  BY <1>2, <1>3, <1>4, <1>5

LEMMA DefineParamSources ==
    ASSUME IInv, NEW n, NEW d, DefineParam(n, d)
    PROVE  SourceStep(n)
<1>1. Call(n) /\ UNCHANGED books
  BY DEF DefineParam
<1>2. CASE MayDeclare(n)
  <2>1. Put(n, Declared(n, d)) /\ status' = status
    BY <1>2 DEF DefineParam
  <2>2. NewSource(n, Declared(n, d))
    BY DeclaredIs DEF NewSource
  <2>3. Marks(n, Declared(n, d))
    BY <1>1 DEF Marks, books, accounts
  <2>4. used \subseteq used' /\ entries \subseteq entries' /\ taken \subseteq taken'
    BY <1>1 DEF books, accounts
  <2>5. status' \in {"running", "raised"}
    BY <1>1, <2>1, CallIs
  <2> QED
    BY <1>1, <2>1, <2>2, <2>3, <2>4, <2>5, PutSources
<1>3. CASE ~MayDeclare(n)
  BY <1>1, <1>3, RefuseSources DEF DefineParam, Refuse
<1> QED
  BY <1>2, <1>3

LEMMA LookedIs ==
    ASSUME IInv, NEW n, NEW e, Sound(e), ~Settled(e)
    PROVE  \/ Looked(n, e) = e /\ Candidates(<<cur, n>>) = {} /\ Holding(cur, n) = {}
           \/ Looked(n, e).state = "OVERRIDDEN" /\ LookedUp(cur, n, Looked(n, e).val, Looked(n, e).prio)
<1> DEFINE v == Highest(Candidates(<<cur, n>>)).val
           p == Highest(Candidates(<<cur, n>>)).prio
           w == DefaultOf(cur, n)
           f == [e EXCEPT !.val = v, !.prio = p, !.state = "OVERRIDDEN"]
           g == [e EXCEPT !.val = w, !.prio = 7, !.state = "OVERRIDDEN"]
<1>1. Looked(n, e) = IF Candidates(<<cur, n>>) # {} THEN f
                     ELSE IF Holding(cur, n) # {} THEN g ELSE e
  BY Zenon DEF Looked
<1>2. f.val = v /\ f.prio = p /\ f.state = "OVERRIDDEN"
  <2> HIDE DEF v, p
  <2> QED  BY DEF Sound, IsEntry
<1>3. g.val = w /\ g.prio = 7 /\ g.state = "OVERRIDDEN"
  <2> HIDE DEF w
  <2> QED  BY DEF Sound, IsEntry
<1>4. CASE Candidates(<<cur, n>>) # {}
  <2> HIDE DEF f, g
  <2> QED  BY <1>1, <1>2, <1>4 DEF LookedUp
<1>5. CASE Candidates(<<cur, n>>) = {} /\ Holding(cur, n) # {}
  <2> HIDE DEF f, g
  <2> QED  BY <1>1, <1>3, <1>5 DEF LookedUp
<1>6. CASE Candidates(<<cur, n>>) = {} /\ Holding(cur, n) = {}
  <2> HIDE DEF f, g
  <2> QED  BY <1>1, <1>6
<1> QED
  BY <1>4, <1>5, <1>6

\* Giving an entry a range leaves the rest.
LEMMA RangedIs ==
    ASSUME NEW e, Sound(e), NEW r
    PROVE  LET f == [e EXCEPT !.range = IF r = None THEN @ ELSE r]
           IN  /\ Sound(f) /\ f.val = e.val /\ f.state = e.state /\ f.prio = e.prio
               /\ f.seenForced = e.seenForced
BY DEF Sound, IsEntry

LEMMA PinnedIs ==
    ASSUME NEW e, Sound(e), NEW v
    PROVE  Pinned(e, v).state = "FORCED" /\ Pinned(e, v).prio = 50
BY DEF Sound, IsEntry, Pinned

LEMMA ModuleDefaultIs ==
    ASSUME NEW n, NEW b, ModuleDefault(n, b)
    PROVE  /\ Accounted(cur, Entered(cur)) \subseteq entries' /\ entries \subseteq entries'
           /\ taken \subseteq taken'
           /\ b => forcedKeys' = forcedKeys \cup Accounted(cur, Holding(cur, n)) \X {n}
           /\ ~b => forcedKeys' = forcedKeys /\ Accounted(cur, Holding(cur, n)) \X {n} \subseteq taken'
BY DEF ModuleDefault

LEMMA ParameterSources ==
    ASSUME IInv, NEW n, NEW d, NEW r, Parameter(n, d, r)
    PROVE  SourceStep(n)
<1> DEFINE e == Declared(n, d)
           ranged == [e EXCEPT !.range = IF r = None THEN @ ELSE r]
           settled == IF Settled(ranged) THEN ranged ELSE Looked(n, ranged)
           clash == r = Malformed \/ (r # None /\ e.range # None)
<1>1. Call(n)
  BY DEF Parameter
<1>2. /\ Sound(e)
      /\ ~Known(n) => e.state = "DEFINED" /\ e.prio = 0
      /\ Known(n) => e.state = Store[n].state /\ e.val = Store[n].val /\ e.prio = Store[n].prio
  BY DeclaredIs
<1>3. CASE ~MayDeclare(n)
  BY <1>1, <1>3, RefuseSources DEF Parameter, Refuse
<1>4. CASE MayDeclare(n) /\ clash
  <2>1. Put(n, e) /\ Raise(n) /\ UNCHANGED books
    BY <1>4 DEF Parameter
  <2> HIDE DEF e
  <2>2. NewSource(n, e)
    BY <1>2 DEF NewSource
  <2>3. Marks(n, e) /\ used \subseteq used' /\ entries \subseteq entries' /\ taken \subseteq taken'
    BY <2>1 DEF Marks, books, accounts
  <2>4. status' \in {"running", "raised"}
    BY <2>1 DEF Raise
  <2> QED
    BY <1>1, <2>1, <2>2, <2>3, <2>4, PutSources
<1>5. CASE MayDeclare(n) /\ ~clash
  <2>1. /\ PutChecked(n, settled)
        /\ ModuleDefault(n, e.state = "FORCED")
        /\ used' = IF Settled(e) THEN used ELSE used \cup Consulted(<<cur, n>>)
    BY <1>5 DEF Parameter, PutResolved
  <2> HIDE DEF e
  <2>2. Sound(ranged) /\ ranged.val = e.val /\ ranged.state = e.state /\ ranged.prio = e.prio
    BY <1>2, RangedIs
  <2> HIDE DEF ranged
  <2>3. Put(n, settled) /\ status' \in {"running", "raised"}
    BY <1>1, <2>1, CallIs, CheckedIs
  <2>4. used \subseteq used' /\ entries \subseteq entries' /\ taken \subseteq taken'
    BY <2>1, ModuleDefaultIs
  <2>5. NewSource(n, settled) /\ Marks(n, settled)
    <3>1. CASE Settled(e)
      <4>1. settled = ranged
        BY <2>2, <3>1 DEF Settled
      <4>2. NewSource(n, settled)
        BY <1>2, <2>2, <3>1, <4>1 DEF NewSource, Settled
      <4>3. Marks(n, settled)
        BY <2>1, <2>2, <4>1, ModuleDefaultIs DEF Marks
      <4> QED
        BY <4>2, <4>3
    <3>2. CASE ~Settled(e)
      <4>1. settled = Looked(n, ranged) /\ ~Settled(ranged) /\ e.state # "FORCED"
        BY <2>2, <3>2 DEF Settled
      <4>2. Marks(n, settled)
        BY <2>1, <4>1, ModuleDefaultIs DEF Marks
      <4>3. Known(n) => ~Settled(Store[n])
        BY <1>2, <3>2 DEF Settled
      <4>4. /\ Consulted(<<cur, n>>) \subseteq used' /\ Accounted(cur, Entered(cur)) \subseteq entries'
            /\ Accounted(cur, Holding(cur, n)) \X {n} \subseteq taken'
        BY <2>1, <3>2, <4>1, ModuleDefaultIs
      <4>5. CASE settled = ranged
        <5> HIDE DEF settled
        <5>1. /\ ~Known(n) => settled.state = "DEFINED" /\ settled.prio = 0
              /\ Known(n) => /\ settled.state = Store[n].state /\ settled.val = Store[n].val
                             /\ settled.prio = Store[n].prio
          BY <1>2, <2>2, <4>5
        <5> QED
          BY <4>2, <5>1 DEF NewSource
      <4>6. CASE settled.state = "OVERRIDDEN" /\ LookedUp(cur, n, settled.val, settled.prio)
        <5> HIDE DEF settled
        <5> QED
          BY <4>2, <4>3, <4>4, <4>6 DEF NewSource
      <4>7. settled = ranged \/ (settled.state = "OVERRIDDEN" /\ LookedUp(cur, n, settled.val, settled.prio))
        <5>1. \/ Looked(n, ranged) = ranged
              \/ Looked(n, ranged).state = "OVERRIDDEN" /\ LookedUp(cur, n, Looked(n, ranged).val, Looked(n, ranged).prio)
          BY <2>2, <4>1, LookedIs
        <5> QED
          BY <4>1, <5>1
      <4> QED
        BY <4>2, <4>5, <4>6, <4>7
    <3> QED
      BY <3>1, <3>2
  <2> HIDE DEF settled
  <2> QED
    BY <1>1, <2>3, <2>4, <2>5, PutSources
<1> QED
  BY <1>3, <1>4, <1>5

LEMMA ForceParamSources ==
    ASSUME IInv, NEW n, NEW v, ForceParam(n, v)
    PROVE  SourceStep(n)
<1> DEFINE e == IF Known(n) THEN Store[n] ELSE NewEntry(v, TRUE)
<1>1. Call(n) /\ UNCHANGED books
  BY DEF ForceParam
<1>2. CASE Known(n) /\ Store[n].seenForced
  BY <1>1, <1>2, RefuseSources DEF ForceParam, Refuse
<1>3. CASE ~(Known(n) /\ Store[n].seenForced)
  <2>1. PutChecked(n, Pinned(e, v))
    BY <1>3 DEF ForceParam
  <2>2. Sound(e)
    BY OldSound
  <2> HIDE DEF e
  <2>3. Put(n, Pinned(e, v)) /\ status' \in {"running", "raised"}
    BY <1>1, <2>1, CallIs, CheckedIs
  <2>4. NewSource(n, Pinned(e, v))
    BY <2>2, PinnedIs DEF NewSource
  <2>5. /\ Marks(n, Pinned(e, v))
        /\ used \subseteq used' /\ entries \subseteq entries' /\ taken \subseteq taken'
    BY <1>1 DEF Marks, books, accounts
  <2> QED
    BY <1>1, <2>3, <2>4, <2>5, PutSources
<1> QED
  BY <1>2, <1>3

LEMMA ParameterForcedSources ==
    ASSUME IInv, NEW n, NEW v, NEW r, ParameterForced(n, v, r)
    PROVE  SourceStep(n)
<1> DEFINE e == IF Known(n) THEN Store[n] ELSE NewEntry(v, TRUE)
           ranged == [e EXCEPT !.range = IF r = None THEN @ ELSE r]
           clash == r = Malformed \/ (r # None /\ (~Known(n) \/ Store[n].range # None))
<1>1. Call(n)
  BY DEF ParameterForced
<1>2. Sound(e) /\ (Known(n) => e = Store[n]) /\ (~Known(n) => ~e.seenForced)
  BY OldSound DEF NewEntry
<1>3. CASE clash
  BY <1>1, <1>3, RefuseSources DEF ParameterForced, Refuse
<1>4. CASE ~clash
  <2>1. /\ IF e.seenForced THEN Put(n, ranged) /\ Raise(n) ELSE PutChecked(n, Pinned(ranged, v))
        /\ ModuleDefault(n, TRUE) /\ used' = used
    BY <1>4 DEF ParameterForced
  <2> HIDE DEF e
  <2>2. /\ Sound(ranged) /\ ranged.val = e.val /\ ranged.state = e.state /\ ranged.prio = e.prio
        /\ ranged.seenForced = e.seenForced
    BY <1>2, RangedIs
  <2> HIDE DEF ranged
  <2>3. used \subseteq used' /\ entries \subseteq entries' /\ taken \subseteq taken'
    BY <2>1, ModuleDefaultIs
  <2>4. CASE e.seenForced
    <3>1. Put(n, ranged) /\ status' \in {"running", "raised"}
      BY <2>1, <2>4 DEF Raise
    <3>2. NewSource(n, ranged)
      BY <1>2, <2>2, <2>4 DEF NewSource
    <3>3. Marks(n, ranged)
      BY <2>1, <2>2, <2>4, ModuleDefaultIs DEF Marks, Sound
    <3> QED
      BY <1>1, <2>3, <3>1, <3>2, <3>3, PutSources
  <2>5. CASE ~e.seenForced
    <3>1. Put(n, Pinned(ranged, v)) /\ status' \in {"running", "raised"}
      BY <1>1, <2>1, <2>5, CallIs, CheckedIs
    <3>2. NewSource(n, Pinned(ranged, v))
      BY <2>2, PinnedIs DEF NewSource
    <3>3. Marks(n, Pinned(ranged, v))
      BY <2>1, <2>2, PinnedIs, ModuleDefaultIs DEF Marks
    <3> QED
      BY <1>1, <2>3, <3>1, <3>2, <3>3, PutSources
  <2> QED
    BY <2>4, <2>5
<1> QED
  BY <1>3, <1>4

LEMMA ParamRangeSources ==
    ASSUME IInv, NEW n, NEW r, ParamRange(n, r)
    PROVE  SourceStep(n)
<1> DEFINE e == Store[n]
           ranged == [e EXCEPT !.range = r]
<1>1. Call(n) /\ UNCHANGED books
  BY DEF ParamRange
<1>2. CASE ~Known(n) \/ Store[n].range # None \/ r = Malformed
  BY <1>1, <1>2, RefuseSources DEF ParamRange, Refuse
<1>3. CASE ~(~Known(n) \/ Store[n].range # None \/ r = Malformed)
  <2>1. PutChecked(n, ranged)
    BY <1>3 DEF ParamRange
  <2>2. Sound(e)
    BY <1>3, OldSound
  <2>3. Known(n) /\ e = Store[n]
    BY <1>3
  <2> HIDE DEF e
  <2>4. ranged.val = e.val /\ ranged.state = e.state /\ ranged.prio = e.prio
    BY <2>2 DEF Sound, IsEntry
  <2> HIDE DEF ranged
  <2>5. Put(n, ranged) /\ status' \in {"running", "raised"}
    BY <1>1, <2>1, CallIs, CheckedIs
  <2>6. NewSource(n, ranged)
    BY <2>3, <2>4 DEF NewSource
  <2>7. /\ Marks(n, ranged)
        /\ used \subseteq used' /\ entries \subseteq entries' /\ taken \subseteq taken'
    BY <1>1 DEF Marks, books, accounts
  <2> QED
    BY <1>1, <2>5, <2>6, <2>7, PutSources
<1> QED
  BY <1>2, <1>3

LEMMA OverrideParamSources ==
    ASSUME IInv, NEW n, NEW v \in Forceds, OverrideParam(n, v)
    PROVE  SourceStep(n)
<1> DEFINE e == IF Known(n) THEN Store[n] ELSE NewEntry(v, FALSE)
           f == Overridden(e, v)
<1>1. Call(n) /\ UNCHANGED books
  BY DEF OverrideParam
<1>2. Sound(e)
  BY OldSound
<1>3. IF f.state = "FORCED" THEN UNCHANGED <<params, status, tainted>> ELSE PutChecked(n, f)
  BY DEF OverrideParam
<1>0. Known(n) => e = Store[n]
  OBVIOUS
<1> HIDE DEF e
<1>4. f.state # "FORCED" => f.state = "OVERRIDDEN" /\ f.prio = 40 /\ f.val = v /\ e.state # "FORCED"
  BY <1>2 DEF Sound, IsEntry, Overridden
<1> HIDE DEF f
<1>5. used \subseteq used' /\ entries \subseteq entries' /\ taken \subseteq taken' /\ forcedKeys' = forcedKeys
  BY <1>1 DEF books, accounts
<1>6. CASE f.state = "FORCED"
  <2>1. UNCHANGED <<params, status>>
    BY <1>3, <1>6
  <2> QED
    BY <1>1, <1>5, <2>1, CallIs DEF SourceStep
<1>7. CASE f.state # "FORCED"
  <2>1. Put(n, f) /\ status' \in {"running", "raised"}
    BY <1>1, <1>3, <1>7, CallIs, CheckedIs
  <2>2. NewSource(n, f) /\ Marks(n, f)
    BY <1>0, <1>4, <1>5, <1>7 DEF NewSource, Marks
  <2> QED
    BY <1>1, <1>5, <2>1, <2>2, PutSources
<1> QED
  BY <1>6, <1>7

LEMMA GetParamSources ==
    ASSUME NEW n, GetParam(n)
    PROVE  SourceStep(n)
<1>1. Call(n) /\ UNCHANGED <<params, books>>
  BY DEF GetParam
<1>2. status' \in {"running", "raised"}
  BY <1>1, CallIs DEF GetParam, Raise
<1> QED
  BY <1>1, <1>2, CallIs DEF SourceStep, books, accounts

LEMMA BodyCallSources ==
    ASSUME IInv, BodyCall
    PROVE  \E n \in Declarable : SourceStep(n)
<1>1. PICK n \in Declarable :
        \/ \E d \in Defaults : DefineParam(n, d)
        \/ \E d \in Defaults, r \in Ranges \cup {None, Malformed} : Parameter(n, d, r)
        \/ \E v \in Forceds : ForceParam(n, v) \/ OverrideParam(n, v)
        \/ \E v \in Forceds, r \in Ranges \cup {None, Malformed} : ParameterForced(n, v, r)
        \/ \E r \in Ranges \cup {Malformed} : ParamRange(n, r)
        \/ GetParam(n)
  BY Zenon DEF BodyCall
<1>2. SourceStep(n)
  BY <1>1, DefineParamSources, ParameterSources, ForceParamSources, OverrideParamSources,
     ParameterForcedSources, ParamRangeSources, GetParamSources, Zenon
<1> QED
  BY <1>2

-----------------------------------------------------------------------------
(* What has a source keeps it. *)

LEMMA SourcesSame ==
    ASSUME UNCHANGED <<given, src, cfgDb>>, NEW i, NEW n, NEW v, NEW p
    PROVE  /\ Consulted(<<i, n>>)' = Consulted(<<i, n>>)
           /\ Entered(i)' = Entered(i) /\ Holding(i, n)' = Holding(i, n)
           /\ Accounted(i, Entered(i))' = Accounted(i, Entered(i))
           /\ Accounted(i, Holding(i, n))' = Accounted(i, Holding(i, n))
           /\ LookedUp(i, n, v, p)' <=> LookedUp(i, n, v, p)
           /\ Scoped' = Scoped
<1>1. EntryNames(i)' = EntryNames(i)
  BY DEF EntryNames
<1>2. Entered(i)' = Entered(i)
  BY <1>1 DEF Entered
<1>3. Holding(i, n)' = Holding(i, n)
  BY <1>1, <1>2 DEF Holding
<1>4. Accounted(i, Entered(i))' = Accounted(i, Entered(i)) /\ Accounted(i, Holding(i, n))' = Accounted(i, Holding(i, n))
  BY <1>1, <1>2, <1>3 DEF Accounted
<1>5. Candidates(<<i, n>>)' = Candidates(<<i, n>>)
  BY DEF Candidates
<1>6. DefaultOf(i, n)' = DefaultOf(i, n)
  BY <1>1, <1>3 DEF DefaultOf
<1>7. LookedUp(i, n, v, p)' <=> LookedUp(i, n, v, p)
  BY <1>3, <1>5, <1>6 DEF LookedUp
<1>8. Consulted(<<i, n>>)' = Consulted(<<i, n>>)
  BY DEF Consulted
<1>9. Scoped' = Scoped
  BY DEF Scoped
<1> QED
  BY <1>2, <1>3, <1>4, <1>7, <1>8, <1>9

LEMMA SourcedStays ==
    ASSUME UNCHANGED <<given, src, cfgDb, kw>>,
           used \subseteq used', entries \subseteq entries', taken \subseteq taken',
           NEW i, NEW n, NEW s, NEW v, NEW p, Sourced(i, n, s, v, p)
    PROVE  Sourced(i, n, s, v, p)'
<1>1. /\ Consulted(<<i, n>>)' = Consulted(<<i, n>>)
      /\ Accounted(i, Entered(i))' = Accounted(i, Entered(i))
      /\ Accounted(i, Holding(i, n))' = Accounted(i, Holding(i, n))
      /\ LookedUp(i, n, v, p)' <=> LookedUp(i, n, v, p)
      /\ Scoped' = Scoped
  BY SourcesSame
<1>2. Merged(Scoped, kw)' = Merged(Scoped, kw)
  BY <1>1 DEF Merged
<1>3. FromAbove(i, n, v, p) => FromAbove(i, n, v, p)'
  BY <1>2 DEF FromAbove
<1>4. FromLookup(i, n, v, p) => FromLookup(i, n, v, p)'
  BY <1>1, <1>2 DEF FromLookup
<1> QED
  BY <1>3, <1>4 DEF Sourced

\* What a body's call leaves has a source.
LEMMA NewSourced ==
    ASSUME ParameterAssumption, IInv, SourceInv, NEW n, UNCHANGED <<given, src, cfgDb, kw, cur>>,
           used \subseteq used', entries \subseteq entries', taken \subseteq taken',
           NEW e, NewSource(n, e)
    PROVE  Sourced(cur, n, e.state, e.val, e.prio)'
<1>1. CASE ~Known(n) /\ e.state = "DEFINED" /\ e.prio = 0
  BY <1>1 DEF Sourced
<1>2. CASE Known(n) /\ e.state = Store[n].state /\ e.val = Store[n].val /\ e.prio = Store[n].prio
  <2>1. Sourced(cur, n, e.state, e.val, e.prio)
    BY <1>2 DEF SourceInv, AllSourced, Known, Store, IInv, Shape
  <2> QED
    BY <2>1, SourcedStays
<1>3. CASE e.state = "FORCED" /\ e.prio = 50
  BY <1>3 DEF Sourced
<1>4. CASE /\ Known(n) => Store[n].state # "FORCED"
           /\ e.state = "OVERRIDDEN" /\ e.prio = 40 /\ e.val \in Forceds
  BY <1>4 DEF Sourced
<1>5. CASE /\ Known(n) => ~Settled(Store[n])
           /\ e.state = "OVERRIDDEN" /\ LookedUp(cur, n, e.val, e.prio)
           /\ Consulted(<<cur, n>>) \subseteq used'
           /\ Accounted(cur, Entered(cur)) \subseteq entries'
           /\ Accounted(cur, Holding(cur, n)) \X {n} \subseteq taken'
  <2>1. cur = "a" => kw # None /\ n \notin DOMAIN Merged(Scoped, kw)
    <3>1. cur = "a" => kw # None
      BY DEF IInv, NoChildYet
    <3> QED
      BY <1>5, <3>1 DEF SourceInv, Passed, Known, Store
  <2>2. PICK i, v, p : i = cur /\ v = e.val /\ p = e.prio
    OBVIOUS
  <2>3. /\ Consulted(<<i, n>>)' = Consulted(<<i, n>>)
        /\ Accounted(i, Entered(i))' = Accounted(i, Entered(i))
        /\ Accounted(i, Holding(i, n))' = Accounted(i, Holding(i, n))
        /\ LookedUp(i, n, v, p)' <=> LookedUp(i, n, v, p)
        /\ Scoped' = Scoped
    BY SourcesSame
  <2>4. Merged(Scoped, kw)' = Merged(Scoped, kw)
    BY <2>3 DEF Merged
  <2>5. FromLookup(i, n, v, p)'
    BY <1>5, <2>1, <2>2, <2>3, <2>4 DEF FromLookup
  <2>6. Sourced(i, n, "OVERRIDDEN", v, p)'
    BY <2>5 DEF Sourced
  <2> QED
    BY <1>5, <2>2, <2>6
<1> QED
  BY <1>1, <1>2, <1>3, <1>4, <1>5 DEF NewSource

LEMMA StageStays ==
    ASSUME SourceInv, UNCHANGED <<given, src, cfgDb>>, status = "running", status' \in {"running", "raised", "done"}
    PROVE  Stage'
<1>1. Stage
  BY DEF SourceInv
<1>2. Complete
  BY <1>1 DEF Stage
<1>3. Complete'
  BY <1>2 DEF Complete, ReadSpecs, ReadFiles
<1> QED
  BY <1>1, <1>3 DEF Stage

LEMMA SourceStepKeeps ==
    ASSUME ParameterAssumption, IInv, SourceInv, NEW n, SourceStep(n)
    PROVE  SourceInv'
<1>1. /\ UNCHANGED <<given, src, cfgDb, kw, cur>>
      /\ used \subseteq used' /\ entries \subseteq entries' /\ taken \subseteq taken'
      /\ cur \in Insts
  BY DEF SourceStep, IInv, Shape
<1>2. Stage'
  BY StageStays DEF SourceStep
<1>3. Scoped' = Scoped /\ Merged(Scoped, kw)' = Merged(Scoped, kw)
  <2>1. Scoped' = Scoped
    BY <1>1, SourcesSame
  <2> QED
    BY <1>1, <2>1 DEF Merged
<1>4. \A i : Accounted(i, Entered(i))' = Accounted(i, Entered(i))
  BY <1>1, SourcesSame
<1>5. CASE UNCHANGED <<params, forcedKeys>>
  <2>1. AllSourced'
    <3> SUFFICES ASSUME NEW i \in Insts, NEW m \in DOMAIN params[i]
                 PROVE  Sourced(i, m, params[i][m].state, params[i][m].val, params[i][m].prio)'
      BY <1>5 DEF AllSourced
    <3>1. PICK s, v, p : s = params[i][m].state /\ v = params[i][m].val /\ p = params[i][m].prio
      OBVIOUS
    <3>2. Sourced(i, m, s, v, p)
      BY <3>1 DEF SourceInv, AllSourced
    <3>3. Sourced(i, m, s, v, p)'
      BY <1>1, <3>2, SourcedStays
    <3> QED
      BY <1>5, <3>1, <3>3
  <2>2. Passed'
    BY <1>1, <1>3, <1>5 DEF SourceInv, Passed, Settled
  <2>3. KeysForced'
    BY <1>4, <1>5 DEF SourceInv, KeysForced
  <2> QED
    BY <1>2, <2>1, <2>2, <2>3 DEF SourceInv
<1>6. ASSUME NEW e, Put(n, e), NewSource(n, e), Marks(n, e)
      PROVE  SourceInv'
  <2>0. PICK ps : ps = params'
    OBVIOUS
  <2>1. /\ \A i \in Insts \ {cur} : ps[i] = params[i]
        /\ DOMAIN ps[cur] = DOMAIN params[cur] \cup {n} /\ ps[cur][n] = e
        /\ \A m \in DOMAIN params[cur] \ {n} : ps[cur][m] = params[cur][m]
    BY <1>6, <2>0, PutIs DEF IInv
  <2>2. \A i \in Insts : \A m \in DOMAIN ps[i] :
            \/ i = cur /\ m = n /\ ps[i][m] = e
            \/ m \in DOMAIN params[i] /\ ps[i][m] = params[i][m]
    BY <2>1
  <2>3. \A i \in Insts : DOMAIN params[i] \subseteq DOMAIN ps[i]
    BY <2>1
  <2>4. Sourced(cur, n, e.state, e.val, e.prio)'
    BY <1>1, <1>6, NewSourced
  <2>5. AllSourced'
    <3> SUFFICES ASSUME NEW i \in Insts, NEW m \in DOMAIN ps[i]
                 PROVE  Sourced(i, m, ps[i][m].state, ps[i][m].val, ps[i][m].prio)'
      BY <2>0 DEF AllSourced
    <3>1. CASE i = cur /\ m = n /\ ps[i][m] = e
      <4>1. PICK s, v, p : s = e.state /\ v = e.val /\ p = e.prio
        OBVIOUS
      <4>2. Sourced(i, m, s, v, p)'
        BY <1>1, <2>4, <3>1, <4>1
      <4> QED
        BY <3>1, <4>1, <4>2
    <3>2. CASE m \in DOMAIN params[i] /\ ps[i][m] = params[i][m]
      <4>1. PICK s, v, p : s = params[i][m].state /\ v = params[i][m].val /\ p = params[i][m].prio
        OBVIOUS
      <4>2. Sourced(i, m, s, v, p)
        BY <3>2, <4>1 DEF SourceInv, AllSourced
      <4>3. Sourced(i, m, s, v, p)'
        BY <1>1, <4>2, SourcedStays
      <4> QED
        BY <3>2, <4>1, <4>3
    <3> QED
      BY <2>2, <3>1, <3>2
  <2>6. Passed'
    <3> SUFFICES ASSUME kw # None, NEW m \in DOMAIN Merged(Scoped, kw)
                 PROVE  m \in DOMAIN ps["a"] /\ Settled(ps["a"][m])
      BY <1>1, <1>3, <2>0 DEF Passed, Settled
    <3>1. m \in DOMAIN params["a"] /\ Settled(params["a"][m]) /\ "a" \in Insts
      BY DEF SourceInv, Passed, Insts
    <3>2. CASE ps["a"][m] = params["a"][m]
      BY <2>3, <3>1, <3>2
    <3>3. CASE "a" = cur /\ m = n /\ ps["a"][m] = e
      <4>1. Known(n) /\ Settled(Store[n])
        BY <3>1, <3>3 DEF Known, Store
      <4>2. Settled(e)
        BY <1>6, <4>1 DEF NewSource, Settled
      <4> QED
        BY <2>3, <3>1, <3>3, <4>2
    <3> QED
      BY <2>2, <2>3, <3>1, <3>2, <3>3
  <2>7. KeysForced'
    <3> SUFFICES ASSUME NEW p \in forcedKeys'
                 PROVE  \E i \in Insts : /\ p[1] \in Accounted(i, Entered(i)) /\ p[2] \in DOMAIN ps[i]
                                         /\ ps[i][p[2]].state = "FORCED"
      BY <1>4, <2>0 DEF KeysForced
    <3>1. CASE p \in forcedKeys
      <4>1. PICK i \in Insts : /\ p[1] \in Accounted(i, Entered(i)) /\ p[2] \in DOMAIN params[i]
                               /\ params[i][p[2]].state = "FORCED"
        BY <3>1 DEF SourceInv, KeysForced
      <4>2. p[2] \in DOMAIN ps[i]
        BY <2>3, <4>1
      <4>3. CASE ps[i][p[2]] = params[i][p[2]]
        BY <4>1, <4>2, <4>3
      <4>4. CASE i = cur /\ p[2] = n /\ ps[i][p[2]] = e
        <5>1. Known(n) /\ Store[n].state = "FORCED"
          BY <4>1, <4>4 DEF Known, Store
        <5>2. e.state = "FORCED"
          BY <1>6, <5>1 DEF NewSource, Settled
        <5> QED
          BY <4>1, <4>2, <4>4, <5>2
      <4> QED
        BY <2>2, <4>2, <4>3, <4>4
    <3>2. CASE p \in Accounted(cur, Holding(cur, n)) \X {n} /\ e.state = "FORCED"
      <4>1. p[1] \in Accounted(cur, Holding(cur, n)) /\ p[2] = n
        BY <3>2
      <4>2. p[1] \in Accounted(cur, Entered(cur))
        BY <4>1 DEF Accounted, Holding
      <4> QED
        BY <1>1, <2>1, <3>2, <4>1, <4>2
    <3> QED
      BY <1>6, <3>1, <3>2 DEF Marks
  <2> QED
    BY <1>2, <2>5, <2>6, <2>7 DEF SourceInv
<1> QED
  BY <1>5, <1>6 DEF SourceStep

-----------------------------------------------------------------------------
(* The arguments and files. *)

Early == kw = None /\ forcedKeys = {} /\ \A i \in Insts : DOMAIN params[i] = {}

LEMMA EarlySources ==
    ASSUME Early
    PROVE  AllSourced /\ Passed /\ KeysForced
BY DEF Early, AllSourced, Passed, KeysForced

LEMMA GivenIs ==
    ASSUME ParameterAssumption, given \in Setups
    PROVE  /\ Len(given.specs) \in Nat /\ DOMAIN given.specs = 1 .. Len(given.specs)
           /\ Len(given.files) \in Nat /\ DOMAIN given.files = 1 .. Len(given.files)
<1>1. given.specs \in Seq(ToSet(given.specs)) /\ given.files \in Seq(ToSet(given.files))
  BY DEF ParameterAssumption
<1> QED
  BY <1>1

LEMMA InitSources ==
    ASSUME ParameterAssumption, Init
    PROVE  SourceInv
<1>1. given \in Setups /\ read = 0 /\ status = "args"
      /\ src.cmd = <<>> /\ src.bare = <<>> /\ src.defaults = <<>> /\ DOMAIN src = {"cmd", "bare", "json", "defaults"}
  BY DEF Init
<1>2. Early
  BY DEF Init, Early, Insts
<1>3. ReadSpecs(0) /\ ReadFiles(0)
  <2>1. {given.specs[x] : x \in 1 .. 0} = {} /\ {given.files[x] : x \in 1 .. 0} = {}
    OBVIOUS
  <2>2. DOMAIN src.bare = {} /\ DOMAIN src.cmd = {} /\ DOMAIN src.defaults = {}
    BY <1>1
  <2>3. PICK S : S = {given.specs[x] : x \in 1 .. 0}
    OBVIOUS
  <2>4. {s.name : s \in {u \in S : u.at = None}} = {} /\ {<<s.at, s.name>> : s \in {u \in S : u.at # None}} = {}
    BY <2>1, <2>3
  <2>5. ReadSpecs(0)
    BY <2>1, <2>2, <2>3, <2>4 DEF ReadSpecs
  <2>6. ReadFiles(0)
    BY <2>1, <2>2 DEF ReadFiles
  <2> QED
    BY <2>5, <2>6
<1>4. Partly
  <2>1. 0 \in 0 .. Len(given.specs)
    BY <1>1, GivenIs
  <2>2. read \in 0 .. Len(given.specs) /\ ReadSpecs(read) /\ ReadFiles(0)
    BY <1>1, <1>3, <2>1
  <2> QED
    BY <2>2 DEF Partly
<1>5. \A x \in DOMAIN cfgDb : cfgDb[x].prio \in Prios
  BY DEF Init
<1> QED
  BY <1>1, <1>2, <1>4, <1>5, EarlySources DEF SourceInv, Stage, Early

LEMMA UpTo ==
    ASSUME NEW f, NEW m \in Nat
    PROVE  {f[x] : x \in 1 .. m + 1} = {f[x] : x \in 1 .. m} \cup {f[m + 1]}
OBVIOUS

\* One argument more is read.
LEMMA OneMoreSpec ==
    ASSUME NEW m \in Nat, ReadSpecs(m), NEW s, s = given.specs[m + 1], ~Again(s), given' = given,
           NEW b, NEW c, b = src.bare', c = src.cmd',
           IF s.at = None THEN b = With(src.bare, s.name, s.val) /\ c = src.cmd
           ELSE c = With(src.cmd, <<s.at, s.name>>, s.val) /\ b = src.bare
    PROVE  ReadSpecs(m + 1)'
<1> DEFINE S == {given.specs[x] : x \in 1 .. m}
           T == {given.specs[x] : x \in 1 .. m + 1}
<1>1. T = S \cup {s}
  BY UpTo
<1> HIDE DEF T
<1>2. /\ DOMAIN src.bare = {u.name : u \in {w \in S : w.at = None}}
      /\ DOMAIN src.cmd = {<<u.at, u.name>> : u \in {w \in S : w.at # None}}
      /\ \A u \in S : IF u.at = None THEN src.bare[u.name] = u.val
                      ELSE src.cmd[<<u.at, u.name>>] = u.val
  BY DEF ReadSpecs
<1> HIDE DEF S
<1>3. /\ DOMAIN b = {u.name : u \in {w \in T : w.at = None}}
      /\ DOMAIN c = {<<u.at, u.name>> : u \in {w \in T : w.at # None}}
      /\ \A u \in T : IF u.at = None THEN b[u.name] = u.val
                      ELSE c[<<u.at, u.name>>] = u.val
  <2>1. CASE s.at = None
    <3>1. /\ c = src.cmd /\ DOMAIN b = DOMAIN src.bare \cup {s.name} /\ b[s.name] = s.val
          /\ \A x \in DOMAIN src.bare \ {s.name} : b[x] = src.bare[x]
      <4>1. c = src.cmd /\ b = With(src.bare, s.name, s.val)
        BY <2>1
      <4> QED
        BY <4>1 DEF With
    <3>2. s.name \notin DOMAIN src.bare
      BY <2>1 DEF Again
    <3>3. DOMAIN b = {u.name : u \in {w \in T : w.at = None}}
      BY <1>1, <1>2, <2>1, <3>1
    <3>4. DOMAIN c = {<<u.at, u.name>> : u \in {w \in T : w.at # None}}
      BY <1>1, <1>2, <2>1, <3>1
    <3>5. ASSUME NEW u \in T
          PROVE  IF u.at = None THEN b[u.name] = u.val ELSE c[<<u.at, u.name>>] = u.val
      <4>1. CASE u = s
        BY <2>1, <3>1, <4>1
      <4>2. CASE u \in S
        <5>1. u.at = None => u.name \in DOMAIN src.bare
          BY <1>2, <4>2
        <5> QED
          BY <1>2, <3>1, <3>2, <4>2, <5>1
      <4> QED
        BY <1>1, <4>1, <4>2
    <3> QED
      BY <3>3, <3>4, <3>5
  <2>2. CASE s.at # None
    <3>1. /\ b = src.bare /\ DOMAIN c = DOMAIN src.cmd \cup {<<s.at, s.name>>} /\ c[<<s.at, s.name>>] = s.val
          /\ \A x \in DOMAIN src.cmd \ {<<s.at, s.name>>} : c[x] = src.cmd[x]
      <4>1. b = src.bare /\ c = With(src.cmd, <<s.at, s.name>>, s.val)
        BY <2>2
      <4> QED
        BY <4>1 DEF With
    <3>2. <<s.at, s.name>> \notin DOMAIN src.cmd
      BY <2>2 DEF Again
    <3>3. DOMAIN b = {u.name : u \in {w \in T : w.at = None}}
      BY <1>1, <1>2, <2>2, <3>1
    <3>4. DOMAIN c = {<<u.at, u.name>> : u \in {w \in T : w.at # None}}
      BY <1>1, <1>2, <2>2, <3>1
    <3>5. ASSUME NEW u \in T
          PROVE  IF u.at = None THEN b[u.name] = u.val ELSE c[<<u.at, u.name>>] = u.val
      <4>1. CASE u = s
        BY <2>2, <3>1, <4>1
      <4>2. CASE u \in S
        <5>1. u.at # None => <<u.at, u.name>> \in DOMAIN src.cmd
          BY <1>2, <4>2
        <5> QED
          BY <1>2, <3>1, <3>2, <4>2, <5>1
      <4> QED
        BY <1>1, <4>1, <4>2
    <3> QED
      BY <3>3, <3>4, <3>5
  <2> QED
    BY <2>1, <2>2
<1> QED
  BY <1>3 DEF ReadSpecs, T

LEMMA EntriesAre ==
    ASSUME NEW tree, ~Repeated(tree)
    PROVE  /\ DOMAIN EntriesOf(tree) = {Last(t) : t \in DOMAIN tree}
           /\ \A t \in DOMAIN tree : EntriesOf(tree)[Last(t)] = tree[t] /\ Last(t) \notin DOMAIN src.defaults
<1>1. ASSUME NEW t \in DOMAIN tree
      PROVE  (CHOOSE u \in DOMAIN tree : Last(u) = Last(t)) = t
  BY DEF Repeated
<1>2. \A t \in DOMAIN tree : Last(t) \notin DOMAIN src.defaults
  BY DEF Repeated
<1>3. \A t \in DOMAIN tree : EntriesOf(tree)[Last(t)] = tree[CHOOSE u \in DOMAIN tree : Last(u) = Last(t)]
  BY DEF EntriesOf
<1>4. DOMAIN EntriesOf(tree) = {Last(t) : t \in DOMAIN tree}
  BY DEF EntriesOf
<1> QED
  BY <1>1, <1>2, <1>3, <1>4

\* One file more is read.
LEMMA OneMoreFile ==
    ASSUME NEW m \in Nat, ReadFiles(m), NEW tree, tree = given.files[m + 1], ~Repeated(tree),
           given' = given, NEW d, d = src.defaults', d = Merged(src.defaults, EntriesOf(tree))
    PROVE  ReadFiles(m + 1)'
<1> DEFINE S == {given.files[x] : x \in 1 .. m}
           T == {given.files[x] : x \in 1 .. m + 1}
           old == src.defaults
           new == EntriesOf(tree)
<1>1. T = S \cup {tree}
  BY UpTo
<1> HIDE DEF T
<1>2. /\ \A e \in DOMAIN old : \E f \in S : \E t \in DOMAIN f : e = Last(t)
      /\ \A f \in S : \A t \in DOMAIN f : Last(t) \in DOMAIN old /\ old[Last(t)] = f[t]
  BY DEF ReadFiles
<1> HIDE DEF S
<1>3. /\ DOMAIN new = {Last(t) : t \in DOMAIN tree}
      /\ \A t \in DOMAIN tree : new[Last(t)] = tree[t] /\ Last(t) \notin DOMAIN old
  BY EntriesAre
<1>4. /\ DOMAIN d = DOMAIN old \cup DOMAIN new
      /\ \A x \in DOMAIN new : d[x] = new[x]
      /\ \A x \in DOMAIN old \ DOMAIN new : d[x] = old[x]
  <2> HIDE DEF old, new
  <2> QED
    BY DEF Merged, old, new
<1> HIDE DEF old, new
<1>5. ASSUME NEW e \in DOMAIN d
      PROVE  \E f \in T : \E t \in DOMAIN f : e = Last(t)
  <2>1. CASE e \in DOMAIN old
    BY <1>1, <1>2, <2>1
  <2>2. CASE e \in DOMAIN new
    BY <1>1, <1>3, <2>2
  <2> QED
    BY <1>4, <2>1, <2>2
<1>6. ASSUME NEW f \in T, NEW t \in DOMAIN f
      PROVE  Last(t) \in DOMAIN d /\ d[Last(t)] = f[t]
  <2>1. CASE f = tree
    <3>1. Last(t) \in DOMAIN new
      BY <1>3, <2>1
    <3> QED
      BY <1>3, <1>4, <2>1, <3>1
  <2>2. CASE f \in S
    <3>1. Last(t) \in DOMAIN old
      BY <1>2, <2>2
    <3>2. Last(t) \notin DOMAIN new
      BY <1>3, <3>1
    <3> QED
      BY <1>2, <1>4, <2>2, <3>1, <3>2
  <2> QED
    BY <1>1, <2>1, <2>2
<1> QED
  BY <1>5, <1>6 DEF ReadFiles, T

LEMMA EarlyIs ==
    ASSUME SourceInv, IInv, status \in {"args", "cfg"}
    PROVE  Early /\ (status = "args" => Partly) /\ (status = "cfg" => Complete) /\ given \in Setups
BY DEF SourceInv, Stage, Early

\* A step before the bodies run.
LEMMA EarlyStep ==
    ASSUME Early, UNCHANGED <<given, kw, params, forcedKeys>>, given \in Setups,
           DOMAIN src' = {"cmd", "bare", "json", "defaults"},
           (\A x \in DOMAIN cfgDb : cfgDb[x].prio \in Prios)',
           status' \in {"args", "cfg", "failed"},
           status' = "args" => Partly', status' = "cfg" => Complete'
    PROVE  SourceInv'
<1>1. Early'
  BY DEF Early
<1>2. AllSourced' /\ Passed' /\ KeysForced'
  BY <1>1, EarlySources, PTL
<1>3. Stage'
  BY <1>1 DEF Stage, Early
<1> QED
  BY <1>2, <1>3 DEF SourceInv

LEMMA TakeSpecSources ==
    ASSUME ParameterAssumption, IInv, SourceInv, TakeSpec
    PROVE  SourceInv'
<1>1. /\ status = "args" /\ read' = read + 1 /\ read < Len(given.specs)
      /\ UNCHANGED <<given, cfgDb, params, kw, forcedKeys>>
  BY DEF TakeSpec, Reading, books, accounts
<1>2. Early /\ Partly /\ given \in Setups
  BY <1>1, EarlyIs
<1>3. Len(given.specs) \in Nat /\ Len(given.files) \in Nat
  BY <1>2, GivenIs
<1>4. read \in 0 .. Len(given.specs) /\ read \in Nat /\ ReadSpecs(read) /\ ReadFiles(0)
  <2>1. \/ read \in 0 .. Len(given.specs) /\ ReadSpecs(read) /\ ReadFiles(0)
        \/ read \in Len(given.specs) .. Len(given.specs) + Len(given.files)
    BY <1>1, <1>2 DEF Partly
  <2>2. read \notin Len(given.specs) .. Len(given.specs) + Len(given.files)
    <3>1. ASSUME NEW k \in Nat, NEW l \in Nat, NEW r \in k .. k + l
          PROVE  ~(r < k)
      OBVIOUS
    <3> QED
      BY <1>1, <1>3, <3>1
  <2>3. read \in 0 .. Len(given.specs) /\ ReadSpecs(read) /\ ReadFiles(0)
    BY <2>1, <2>2
  <2>4. read \in Nat
    BY <1>3, <2>3
  <2> QED
    BY <2>3, <2>4
<1>5. DOMAIN src = {"cmd", "bare", "json", "defaults"} /\ \A x \in DOMAIN cfgDb : cfgDb[x].prio \in Prios
  BY DEF SourceInv, Stage
<1>6. PICK s : s = given.specs[read + 1]
  OBVIOUS
<1>7. CASE s.at = Malformed \/ (s.at = None /\ ~given.global) \/ Again(s)
  <2>1. status' = "failed" /\ src' = src
    BY <1>6, <1>7 DEF TakeSpec
  <2> QED
    BY <1>1, <1>2, <1>5, <2>1, EarlyStep
<1>8. CASE ~(s.at = Malformed \/ (s.at = None /\ ~given.global) \/ Again(s))
  <2>1. /\ status' = status
        /\ src' = IF s.at = None THEN [src EXCEPT !.bare = With(@, s.name, s.val)]
                  ELSE [src EXCEPT !.cmd = With(@, <<s.at, s.name>>, s.val)]
    BY <1>6, <1>8 DEF TakeSpec
  <2>2. PICK b, c, d : b = With(src.bare, s.name, s.val) /\ c = With(src.cmd, <<s.at, s.name>>, s.val) /\ d = src'
    OBVIOUS
  <2>3. /\ DOMAIN d = {"cmd", "bare", "json", "defaults"} /\ d.defaults = src.defaults
        /\ IF s.at = None THEN d.bare = b /\ d.cmd = src.cmd ELSE d.cmd = c /\ d.bare = src.bare
    BY <1>5, <2>1, <2>2
  <2>4. ReadSpecs(read)'
    <3>1. PICK m, bb, cc : m = read /\ bb = src.bare' /\ cc = src.cmd'
      OBVIOUS
    <3>2. IF s.at = None THEN bb = With(src.bare, s.name, s.val) /\ cc = src.cmd
          ELSE cc = With(src.cmd, <<s.at, s.name>>, s.val) /\ bb = src.bare
      BY <2>2, <2>3, <3>1
    <3>3. m \in Nat /\ ReadSpecs(m) /\ s = given.specs[m + 1] /\ ~Again(s) /\ given' = given
      BY <1>1, <1>4, <1>6, <1>8, <3>1
    <3>4. ReadSpecs(m + 1)'
      BY <3>1, <3>2, <3>3, OneMoreSpec
    <3>5. m + 1 = read'
      BY <1>1, <3>1
    <3> QED
      BY <3>4, <3>5
  <2>5. ReadFiles(0)'
    <3>1. {given.files[x] : x \in 1 .. 0} = {} /\ {given.files[x] : x \in 1 .. 0}' = {}
      OBVIOUS
    <3>2. DOMAIN src.defaults = {}
      BY <1>4, <3>1 DEF ReadFiles
    <3>3. DOMAIN src.defaults' = {}
      BY <2>2, <2>3, <3>2
    <3> QED
      BY <3>1, <3>3 DEF ReadFiles
  <2>6. Partly'
    <3>1. read' \in 0 .. Len(given.specs)'
      BY <1>1, <1>3, <1>4
    <3> QED
      BY <2>4, <2>5, <3>1 DEF Partly
  <2> QED
    BY <1>1, <1>2, <1>5, <2>1, <2>2, <2>3, <2>6, EarlyStep
<1> QED
  BY <1>7, <1>8
LEMMA ReadDefaultsSources ==
    ASSUME ParameterAssumption, IInv, SourceInv, ReadDefaults
    PROVE  SourceInv'
<1>1. /\ status = "args" /\ read' = read + 1
      /\ Len(given.specs) <= read /\ read < Len(given.specs) + Len(given.files)
      /\ UNCHANGED <<given, cfgDb, params, kw, forcedKeys>>
  BY DEF ReadDefaults, Reading, books, accounts
<1>2. Early /\ Partly /\ given \in Setups
  BY <1>1, EarlyIs
<1>3. Len(given.specs) \in Nat /\ Len(given.files) \in Nat
  BY <1>2, GivenIs
<1>4. /\ read \in Len(given.specs) .. Len(given.specs) + Len(given.files)
      /\ ReadSpecs(Len(given.specs)) /\ ReadFiles(read - Len(given.specs))
  <2>1. CASE read \in 0 .. Len(given.specs) /\ ReadSpecs(read) /\ ReadFiles(0)
    <3>1. read = Len(given.specs) /\ read - Len(given.specs) = 0
      <4>1. ASSUME NEW k \in Nat, NEW r \in 0 .. k, k <= r
            PROVE  r = k /\ r - k = 0
        BY <4>1
      <4> QED
        <5>1. PICK k, r : k = Len(given.specs) /\ r = read
          OBVIOUS
        <5>2. k \in Nat /\ r \in 0 .. k /\ k <= r
          BY <1>1, <1>3, <2>1, <5>1
        <5>3. r = k /\ r - k = 0
          BY <4>1, <5>2
        <5> QED
          BY <5>1, <5>3
    <3>2. read \in Len(given.specs) .. Len(given.specs) + Len(given.files)
      <4>1. ASSUME NEW k \in Nat, NEW l \in Nat
            PROVE  k \in k .. k + l
        OBVIOUS
      <4> QED
        BY <1>3, <3>1, <4>1
    <3> QED
      BY <2>1, <3>1, <3>2
  <2>2. CASE /\ read \in Len(given.specs) .. Len(given.specs) + Len(given.files)
             /\ ReadSpecs(Len(given.specs)) /\ ReadFiles(read - Len(given.specs))
    BY <2>2
  <2> QED
    BY <1>2, <2>1, <2>2 DEF Partly
<1>5. DOMAIN src = {"cmd", "bare", "json", "defaults"} /\ \A x \in DOMAIN cfgDb : cfgDb[x].prio \in Prios
  BY DEF SourceInv, Stage
<1>6. PICK m, tree : m = read - Len(given.specs) /\ tree = given.files[read + 1 - Len(given.specs)]
  OBVIOUS
<1>7. /\ m \in Nat /\ read + 1 - Len(given.specs) = m + 1
      /\ (read + 1) - Len(given.specs) = m + 1
      /\ read + 1 \in Len(given.specs) .. Len(given.specs) + Len(given.files)
  <2>1. ASSUME NEW k \in Nat, NEW l \in Nat, NEW r \in k .. k + l, r < k + l
        PROVE  /\ r - k \in Nat /\ r + 1 - k = (r - k) + 1 /\ (r + 1) - k = (r - k) + 1
               /\ r + 1 \in k .. k + l
    BY <2>1
  <2> QED
    BY <1>1, <1>3, <1>4, <1>6, <2>1
<1>8. CASE Repeated(tree)
  <2>1. status' = "failed" /\ src' = src
    BY <1>6, <1>8 DEF ReadDefaults
  <2> QED
    BY <1>1, <1>2, <1>5, <2>1, EarlyStep
<1>9. CASE ~Repeated(tree)
  <2>1. status' = status /\ src' = [src EXCEPT !.defaults = Merged(@, EntriesOf(tree))]
    BY <1>6, <1>9 DEF ReadDefaults
  <2>2. PICK d, new : new = src' /\ d = Merged(src.defaults, EntriesOf(tree))
    OBVIOUS
  <2>3. /\ DOMAIN new = {"cmd", "bare", "json", "defaults"} /\ new.defaults = d
        /\ new.bare = src.bare /\ new.cmd = src.cmd
    BY <1>5, <2>1, <2>2
  <2>4. ReadFiles(read - Len(given.specs))'
    <3>1. ReadFiles(m) /\ tree = given.files[m + 1] /\ d = src.defaults'
      <4>1. tree = given.files[m + 1]
        BY <1>6, <1>7
      <4> QED
        BY <1>4, <1>6, <2>2, <2>3, <4>1
    <3>2. m \in Nat /\ ~Repeated(tree) /\ given' = given /\ d = Merged(src.defaults, EntriesOf(tree))
      BY <1>1, <1>7, <1>9, <2>2
    <3>3. ReadFiles(m + 1)'
      BY <3>1, <3>2, OneMoreFile
    <3>4. m + 1 = read' - Len(given.specs)'
      <4>1. read' = read + 1 /\ given' = given
        BY <1>1
      <4>2. (read + 1) - Len(given.specs) = m + 1
        BY <1>7, Zenon
      <4> QED
        BY <4>1, <4>2, Zenon
    <3> QED
      BY <3>3, <3>4
  <2>5. ReadSpecs(Len(given.specs))'
    BY <1>1, <1>4, <2>2, <2>3 DEF ReadSpecs
  <2>6. Partly'
    <3>1. read' \in Len(given'.specs) .. Len(given'.specs) + Len(given'.files)
      <4>1. read' = read + 1 /\ given' = given
        BY <1>1
      <4>2. read + 1 \in Len(given.specs) .. Len(given.specs) + Len(given.files)
        BY <1>7
      <4> QED
        BY <4>1, <4>2, Zenon
    <3> QED
      BY <2>4, <2>5, <3>1 DEF Partly
  <2> QED
    BY <1>1, <1>2, <1>5, <2>1, <2>2, <2>3, <2>6, EarlyStep
<1> QED
  BY <1>8, <1>9

LEMMA ArgumentsDoneSources ==
    ASSUME ParameterAssumption, IInv, SourceInv, ArgumentsDone
    PROVE  SourceInv'
<1>1. /\ status = "args" /\ read = Len(given.specs) + Len(given.files)
      /\ status' \in {"cfg", "failed"} /\ src' = [src EXCEPT !.json = given.json]
      /\ UNCHANGED <<given, cfgDb, params, kw, forcedKeys>>
  BY DEF ArgumentsDone
<1>2. Early /\ Partly /\ given \in Setups
  BY <1>1, EarlyIs
<1>3. Len(given.specs) \in Nat /\ Len(given.files) \in Nat
  BY <1>2, GivenIs
<1>4. ReadSpecs(Len(given.specs)) /\ ReadFiles(Len(given.files))
  <2>1. ASSUME NEW k \in Nat, NEW l \in Nat, NEW r, r = k + l
        PROVE  r - k = l /\ (r \in 0 .. k => r = k /\ l = 0)
    BY <2>1
  <2>2. /\ read - Len(given.specs) = Len(given.files)
        /\ read \in 0 .. Len(given.specs) => read = Len(given.specs) /\ Len(given.files) = 0
    <3>1. PICK k, l, r : k = Len(given.specs) /\ l = Len(given.files) /\ r = read
      OBVIOUS
    <3>2. k \in Nat /\ l \in Nat /\ r = k + l
      BY <1>1, <1>3, <3>1
    <3>3. r - k = l /\ (r \in 0 .. k => r = k /\ l = 0)
      BY <2>1, <3>2
    <3> QED
      BY <3>1, <3>3
  <2>3. CASE read \in 0 .. Len(given.specs) /\ ReadSpecs(read) /\ ReadFiles(0)
    BY <2>2, <2>3
  <2>4. CASE ReadSpecs(Len(given.specs)) /\ ReadFiles(read - Len(given.specs))
    BY <2>2, <2>4
  <2> QED
    BY <1>2, <2>3, <2>4 DEF Partly
<1>5. DOMAIN src = {"cmd", "bare", "json", "defaults"} /\ \A x \in DOMAIN cfgDb : cfgDb[x].prio \in Prios
  BY DEF SourceInv, Stage
<1>6. PICK new : new = src'
  OBVIOUS
<1>7. /\ DOMAIN new = {"cmd", "bare", "json", "defaults"} /\ new.json = given.json
      /\ new.defaults = src.defaults /\ new.bare = src.bare /\ new.cmd = src.cmd
  <2>1. PICK j : j = given.json
    OBVIOUS
  <2>2. new = [src EXCEPT !.json = j]
    BY <1>1, <1>6, <2>1
  <2>3. DOMAIN src = {"cmd", "bare", "json", "defaults"}
    BY <1>5
  <2>4. /\ DOMAIN new = {"cmd", "bare", "json", "defaults"} /\ new.json = j
        /\ new.defaults = src.defaults /\ new.bare = src.bare /\ new.cmd = src.cmd
    BY <2>2, <2>3
  <2> QED
    BY <2>1, <2>4
<1>8. ReadSpecs(Len(given.specs))'
  <2>1. UNCHANGED given /\ src.bare' = src.bare /\ src.cmd' = src.cmd
    BY <1>1, <1>6, <1>7
  <2> QED
    BY <1>4, <2>1 DEF ReadSpecs
<1>9. ReadFiles(Len(given.files))'
  BY <1>1, <1>4, <1>6, <1>7 DEF ReadFiles
<1>10. Complete'
  BY <1>1, <1>6, <1>7, <1>8, <1>9 DEF Complete
<1> QED
  BY <1>1, <1>2, <1>5, <1>6, <1>7, <1>10, EarlyStep

-----------------------------------------------------------------------------
(* The .cfg script. *)

LEMMA CfgCallSources ==
    ASSUME SourceInv, IInv, CfgCall, status' \in {"cfg", "failed"},
           \A x \in DOMAIN cfgDb' : cfgDb'[x].prio \in Prios
    PROVE  SourceInv'
<1>1. status = "cfg" /\ UNCHANGED <<given, src, params, kw, forcedKeys>>
  BY DEF CfgCall, accounts
<1>2. Early /\ Complete /\ given \in Setups /\ DOMAIN src = {"cmd", "bare", "json", "defaults"}
  BY <1>1, EarlyIs DEF SourceInv, Stage
<1>3. Complete'
  BY <1>1, <1>2 DEF Complete, ReadSpecs, ReadFiles
<1> QED
  BY <1>1, <1>2, <1>3, EarlyStep

LEMMA ScriptSources ==
    ASSUME ParameterAssumption, SourceInv, IInv, NEW k \in CfgKeys,
           (\E p \in Prios : Configure(k, p)) \/ RemoveConfiguration(k) \/ GetConfiguration(k)
    PROVE  SourceInv'
<1>1. CfgCall /\ status = "cfg"
  BY DEF Configure, RemoveConfiguration, GetConfiguration, CfgCall
<1>2. status' \in {"cfg", "failed"}
  BY <1>1 DEF Configure, RemoveConfiguration, GetConfiguration
<1>3. \A x \in DOMAIN cfgDb : cfgDb[x].prio \in Prios
  BY DEF SourceInv, Stage
<1>4. \A x \in DOMAIN cfgDb' : cfgDb'[x].prio \in Prios
  <2>1. ASSUME NEW p \in Prios, Configure(k, p)
        PROVE  \A x \in DOMAIN cfgDb' : cfgDb'[x].prio \in Prios
    <3>1. PICK e : e = [val |-> CfgVal, prio |-> p]
      OBVIOUS
    <3>2. cfgDb' = cfgDb \/ cfgDb' = With(cfgDb, k, e)
      BY <2>1, <3>1 DEF Configure
    <3>3. e.prio \in Prios
      BY <3>1
    <3>4. \A x \in DOMAIN With(cfgDb, k, e) : With(cfgDb, k, e)[x].prio \in Prios
      <4>1. \A x \in DOMAIN With(cfgDb, k, e) :
                (x = k /\ With(cfgDb, k, e)[x] = e) \/ (x \in DOMAIN cfgDb /\ With(cfgDb, k, e)[x] = cfgDb[x])
        BY DEF With
      <4> QED
        BY <1>3, <3>3, <4>1
    <3> QED
      BY <1>3, <3>2, <3>4
  <2>2. CASE RemoveConfiguration(k)
    BY <1>3, <2>2 DEF RemoveConfiguration, Without
  <2>3. CASE GetConfiguration(k)
    BY <1>3, <2>3 DEF GetConfiguration
  <2> QED
    BY <2>1, <2>2, <2>3
<1> QED
  BY <1>1, <1>2, <1>4, CfgCallSources

-----------------------------------------------------------------------------
(* From the script to the bodies, and the steps between calls. *)

\* A step that leaves the values and the sources alone.
LEMMA ValuesStay ==
    ASSUME SourceInv, UNCHANGED <<given, src, cfgDb, params, kw, used, entries, taken, forcedKeys>>
    PROVE  AllSourced' /\ Passed' /\ KeysForced'
<1>1. AllSourced'
  <2> SUFFICES ASSUME NEW i \in Insts, NEW m \in DOMAIN params[i]
               PROVE  Sourced(i, m, params[i][m].state, params[i][m].val, params[i][m].prio)'
    BY DEF AllSourced
  <2>1. PICK s, v, p : s = params[i][m].state /\ v = params[i][m].val /\ p = params[i][m].prio
    OBVIOUS
  <2>2. Sourced(i, m, s, v, p)
    BY <2>1 DEF SourceInv, AllSourced
  <2>3. Sourced(i, m, s, v, p)'
    BY <2>2, SourcedStays
  <2> QED
    BY <2>1, <2>3
<1>2. Passed'
  <2>1. Scoped' = Scoped
    BY SourcesSame
  <2> QED
    BY <2>1 DEF SourceInv, Passed, Settled, Merged
<1>3. KeysForced'
  <2>1. \A i : Accounted(i, Entered(i))' = Accounted(i, Entered(i))
    BY SourcesSame
  <2> QED
    BY <2>1 DEF SourceInv, KeysForced
<1> QED
  BY <1>1, <1>2, <1>3

LEMMA QuietSources ==
    ASSUME SourceInv, UNCHANGED <<given, src, cfgDb, params, kw, used, entries, taken, forcedKeys>>,
           \/ status = "cfg" /\ status' = "running"
           \/ status \in {"running", "raised"} /\ status' \in {"running", "raised", "done", "failed"}
           \/ UNCHANGED <<read, status>>
    PROVE  SourceInv'
<1>0. /\ \A m : ReadSpecs(m) => ReadSpecs(m)'
      /\ \A m : ReadFiles(m) => ReadFiles(m)'
  <2>1. \A m : ReadSpecs(m) => ReadSpecs(m)'
    BY DEF ReadSpecs
  <2>2. \A m : ReadFiles(m) => ReadFiles(m)'
    BY DEF ReadFiles
  <2> QED
    BY <2>1, <2>2
<1>1. Complete => Complete'
  BY <1>0 DEF Complete
<1>2. ASSUME UNCHANGED read, Partly
      PROVE  Partly'
  BY <1>0, <1>2 DEF Partly
<1>3. Stage
  BY DEF SourceInv
<1>4. Stage'
  <2>1. CASE \/ status = "cfg" /\ status' = "running"
             \/ status \in {"running", "raised"} /\ status' \in {"running", "raised", "done", "failed"}
    BY <1>1, <1>3, <2>1 DEF Stage
  <2>2. CASE UNCHANGED <<read, status>>
    BY <1>1, <1>2, <1>3, <2>2 DEF Stage
  <2> QED
    BY <2>1, <2>2
<1> QED
  BY <1>4, ValuesStay DEF SourceInv

-----------------------------------------------------------------------------
(* The child. *)

\* The top's values do not depend on the child.
LEMMA TopStays ==
    ASSUME UNCHANGED <<given, src, cfgDb>>,
           used \subseteq used', entries \subseteq entries', taken \subseteq taken',
           NEW n, NEW s, NEW v, NEW p, Sourced("top", n, s, v, p)
    PROVE  Sourced("top", n, s, v, p)'
<1>1. /\ Consulted(<<"top", n>>)' = Consulted(<<"top", n>>)
      /\ Accounted("top", Entered("top"))' = Accounted("top", Entered("top"))
      /\ Accounted("top", Holding("top", n))' = Accounted("top", Holding("top", n))
      /\ LookedUp("top", n, v, p)' <=> LookedUp("top", n, v, p)
  BY SourcesSame
<1>2. FromLookup("top", n, v, p) => FromLookup("top", n, v, p)'
  BY <1>1 DEF FromLookup
<1> QED
  BY <1>2 DEF Sourced, FromAbove

\* What the child is made with.
LEMMA MadeIs ==
    ASSUME NEW v
    PROVE  LET e == Overridden(NewEntry(v, FALSE), v)
           IN  e.state = "OVERRIDDEN" /\ e.val = v /\ e.prio = 40
BY DEF Overridden, NewEntry

LEMMA InstantiateSources ==
    ASSUME ParameterAssumption, IInv, SourceInv, NEW k \in Keywords, Instantiate(k)
    PROVE  SourceInv'
<1> DEFINE eff == Merged(Scoped, k)
           child == [n \in DOMAIN eff |-> Overridden(NewEntry(eff[n], FALSE), eff[n])]
<1>1. /\ status = "running" /\ kw = None /\ kw' = k /\ k # None
      /\ UNCHANGED <<given, src, cfgDb, entries, taken, forcedKeys, status>>
      /\ params' = [params EXCEPT !["a"] = child]
  BY Zenon DEF Instantiate, db, accounts, ParameterAssumption
<1>2. /\ used \subseteq used'
      /\ \A n \in Names : <<"a", n>> \in DOMAIN src.cmd => <<"cmd", <<"a", n>>>> \in used'
  BY DEF Instantiate
<1>3. DOMAIN child = DOMAIN eff
  OBVIOUS
<1>4. \A n \in DOMAIN eff : child[n].state = "OVERRIDDEN" /\ child[n].val = eff[n] /\ child[n].prio = 40
  <2> SUFFICES ASSUME NEW n \in DOMAIN eff
               PROVE  LET e == Overridden(NewEntry(eff[n], FALSE), eff[n])
                      IN  e.state = "OVERRIDDEN" /\ e.val = eff[n] /\ e.prio = 40
    BY Zenon
  <2> DEFINE v == eff[n]
  <2> HIDE DEF v
  <2>1. LET e == Overridden(NewEntry(v, FALSE), v)
        IN  e.state = "OVERRIDDEN" /\ e.val = v /\ e.prio = 40
    BY MadeIs
  <2> QED
    BY <2>1 DEF v
<1>5. Scoped' = Scoped
  BY <1>1, SourcesSame
<1>6. Merged(Scoped, kw)' = eff
  BY <1>1, <1>5 DEF Merged
<1> HIDE DEF child
<1>7. PICK ps : ps = params'
  OBVIOUS
<1>8. ps["top"] = params["top"] /\ ps["a"] = child /\ DOMAIN params["a"] = {} /\ Insts = {"top", "a"}
  BY <1>1, <1>7 DEF IInv, Shape, NoChildYet, Insts
<1>9. Stage'
  BY <1>1, StageStays
<1>10. AllSourced'
  <2>1. ASSUME NEW n \in DOMAIN ps["top"]
        PROVE  Sourced("top", n, ps["top"][n].state, ps["top"][n].val, ps["top"][n].prio)'
    <3>1. PICK s, v, p : s = ps["top"][n].state /\ v = ps["top"][n].val /\ p = ps["top"][n].prio
      OBVIOUS
    <3>2. Sourced("top", n, s, v, p)
      BY <1>8, <3>1 DEF SourceInv, AllSourced
    <3>3. Sourced("top", n, s, v, p)'
      BY <1>1, <1>2, <3>2, TopStays
    <3> QED
      BY <3>1, <3>3
  <2>2. ASSUME NEW n \in DOMAIN ps["a"]
        PROVE  Sourced("a", n, ps["a"][n].state, ps["a"][n].val, ps["a"][n].prio)'
    <3>1. PICK v : v = eff[n]
      OBVIOUS
    <3>2. ps["a"][n].state = "OVERRIDDEN" /\ ps["a"][n].val = v /\ ps["a"][n].prio = 40 /\ n \in DOMAIN eff
      BY <1>3, <1>4, <1>8, <3>1
    <3>3. FromAbove("a", n, v, 40)'
      BY <1>1, <1>2, <1>6, <3>1, <3>2 DEF FromAbove
    <3>4. Sourced("a", n, "OVERRIDDEN", v, 40)'
      BY <3>3 DEF Sourced
    <3> QED
      BY <3>2, <3>4
  <2> QED
    BY <1>7, <1>8, <2>1, <2>2 DEF AllSourced, Insts
<1>11. Passed'
  BY <1>3, <1>4, <1>6, <1>7, <1>8 DEF Passed, Settled
<1>12. KeysForced'
  <2> SUFFICES ASSUME NEW p \in forcedKeys
               PROVE  \E i \in Insts : /\ p[1] \in Accounted(i, Entered(i))' /\ p[2] \in DOMAIN ps[i]
                                       /\ ps[i][p[2]].state = "FORCED"
    BY <1>1, <1>7 DEF KeysForced
  <2>1. PICK i \in Insts : /\ p[1] \in Accounted(i, Entered(i)) /\ p[2] \in DOMAIN params[i]
                           /\ params[i][p[2]].state = "FORCED"
    BY DEF SourceInv, KeysForced
  <2>2. i = "top"
    BY <1>8, <2>1
  <2>3. Accounted(i, Entered(i))' = Accounted(i, Entered(i))
    BY <1>1, SourcesSame
  <2> QED
    BY <1>8, <2>1, <2>2, <2>3
<1> QED
  BY <1>9, <1>10, <1>11, <1>12 DEF SourceInv

LEMMA NextSources ==
    ASSUME ParameterAssumption, IInv, SourceInv, [Next]_vars
    PROVE  SourceInv'
<1>1. CASE BodyCall
  BY <1>1, BodyCallSources, SourceStepKeeps
<1>2. ASSUME NEW k \in Keywords, Instantiate(k)
      PROVE  SourceInv'
  BY <1>2, InstantiateSources
<1>3. CASE TakeSpec
  BY <1>3, TakeSpecSources
<1>4. CASE ReadDefaults
  BY <1>4, ReadDefaultsSources
<1>5. CASE ArgumentsDone
  BY <1>5, ArgumentsDoneSources
<1>6. ASSUME NEW k \in CfgKeys,
             (\E p \in Prios : Configure(k, p)) \/ RemoveConfiguration(k) \/ GetConfiguration(k)
      PROVE  SourceInv'
  BY <1>6, ScriptSources
<1>7. CASE CfgDone \/ Return \/ Catch \/ Fail
  <2>1. UNCHANGED <<given, src, cfgDb, params, kw, used, entries, taken, forcedKeys>>
    BY <1>7 DEF CfgDone, Return, Catch, Fail, db, books, accounts
  <2>2. \/ status = "cfg" /\ status' = "running"
        \/ status \in {"running", "raised"} /\ status' \in {"running", "raised", "done", "failed"}
    BY <1>7 DEF CfgDone, Return, Catch, Fail
  <2> QED
    BY <2>1, <2>2, QuietSources
<1>8. CASE UNCHANGED vars
  BY <1>8, QuietSources DEF vars
<1> QED
  BY <1>1, <1>2, <1>3, <1>4, <1>5, <1>6, <1>7, <1>8, Zenon DEF Next

\* Every value a body did not give has its source, and is accounted for.
THEOREM SourcesHold == Spec => []SourceInv
<1>1. Init => SourceInv
  BY ParameterAssumption, InitSources
<1>2. IInv /\ SourceInv /\ [Next]_vars => SourceInv'
  BY ParameterAssumption, NextSources
<1> QED
  BY <1>1, <1>2, InvariantHolds, PTL DEF Spec

-----------------------------------------------------------------------------
(* The ladder. *)

\* The smallest of some numbers.
LEMMA MinIs ==
    ASSUME NEW S, S \subseteq Nat, S # {}
    PROVE  Min(S) \in S /\ \A y \in S : Min(S) <= y
<1> DEFINE R == OpToRel(<, Nat)
<1>1. OpToRel(<, Nat) = {ss \in Nat \X Nat : ss[1] < ss[2]}
  BY DEF OpToRel
<1>2. IsWellFoundedOn(R, Nat)
  BY NatLessThanWellFounded
<1>3. PICK m \in S : \A k \in S : ~ (<<k, m>> \in R)
  <2> HIDE DEF R
  <2> QED
    BY <1>2, WFMin
<1>4. \A y \in S : m <= y
  <2> SUFFICES ASSUME NEW y \in S
               PROVE  m <= y
    OBVIOUS
  <2>1. <<y, m>> \notin {ss \in Nat \X Nat : ss[1] < ss[2]}
    BY <1>1, <1>3
  <2> QED
    BY <2>1
<1> QED
  BY <1>3, <1>4 DEF Min

\* One of the candidates of a lookup has the highest priority.
LEMMA HighestIs ==
    ASSUME NEW C, C # {}, \A c \in C : c.prio \in Nat,
           NEW a, NEW b, NEW d, C \subseteq {a, b, d}
    PROVE  Highest(C) \in C /\ \A x \in C : x.prio <= Highest(C).prio
<1>1. \E c \in C : \A x \in C : x.prio <= c.prio
  OBVIOUS
<1> QED
  BY <1>1 DEF Highest

RungOf(level, prio, val, key) == [level |-> level, prio |-> prio, val |-> val, key |-> key]

\* The rungs, by what the arguments and files were read into.
IsRung(i, n, r) ==
    \/ i = "a" /\ kw # None /\ n \in DOMAIN kw /\ r = RungOf(4, 0, kw[n], n)
    \/ <<i, n>> \in DOMAIN src.cmd /\ r = RungOf(3, 0, src.cmd[<<i, n>>], <<i, n>>)
    \/ n \in DOMAIN src.bare /\ r = RungOf(2, 30, src.bare[n], n)
    \/ <<i, n>> \in DOMAIN src.json /\ r = RungOf(2, 20, src.json[<<i, n>>], <<i, n>>)
    \/ <<i, n>> \in DOMAIN cfgDb /\ r = RungOf(2, cfgDb[<<i, n>>].prio, cfgDb[<<i, n>>].val, <<i, n>>)
    \/ \E x \in Holding(i, n) :
          r = RungOf(1, Len(EntryNames(i)) - x, src.defaults[EntryNames(i)[x]][n], EntryNames(i)[x])

LEMMA SpecsAre ==
    ASSUME ParameterAssumption, given \in Setups
    PROVE  /\ ToSet(given.specs) = {given.specs[x] : x \in 1 .. Len(given.specs)}
           /\ ToSet(given.files) = {given.files[x] : x \in 1 .. Len(given.files)}
BY GivenIs DEF ToSet

LEMMA RungIs ==
    ASSUME ParameterAssumption, given \in Setups, Complete, NEW i \in Insts, NEW n, NEW r
    PROVE  r \in Rungs(i, n) <=> IsRung(i, n, r)
<1> DEFINE k == <<i, n>>
           S == ToSet(given.specs)
           F == ToSet(given.files)
           names == EntryNames(i)
           Argued(at) == {s \in S : s.at = at /\ s.name = n}
           Holders(f, x) == {t \in DOMAIN f : Last(t) = names[x] /\ n \in DOMAIN f[t]}
           R4 == IF i = "a" /\ kw # None THEN {RungOf(4, 0, kw[y], y) : y \in DOMAIN kw \cap {n}} ELSE {}
           R3 == {RungOf(3, 0, s.val, k) : s \in Argued(i)}
           R2a == {RungOf(2, 30, s.val, n) : s \in Argued(None)}
           R2b == {RungOf(2, 20, given.json[x], x) : x \in DOMAIN given.json \cap {k}}
           R2c == {RungOf(2, cfgDb[x].prio, cfgDb[x].val, x) : x \in DOMAIN cfgDb \cap {k}}
           Of(f, x) == {RungOf(1, Len(names) - x, f[t][n], names[x]) : t \in Holders(f, x)}
           R1 == UNION {Of(f, x) : f \in F, x \in DOMAIN names}
<1>1. Rungs(i, n) = R4 \cup R3 \cup R2a \cup R2b \cup R2c \cup R1
  BY DEF Rungs, RungOf
<1>2. /\ DOMAIN src.bare = {s.name : s \in {u \in S : u.at = None}}
      /\ DOMAIN src.cmd = {<<s.at, s.name>> : s \in {u \in S : u.at # None}}
      /\ \A s \in S : IF s.at = None THEN src.bare[s.name] = s.val
                      ELSE src.cmd[<<s.at, s.name>>] = s.val
  BY SpecsAre DEF Complete, ReadSpecs
<1>3. /\ \A e \in DOMAIN src.defaults : \E f \in F : \E t \in DOMAIN f : e = Last(t)
      /\ \A f \in F : \A t \in DOMAIN f :
            Last(t) \in DOMAIN src.defaults /\ src.defaults[Last(t)] = f[t]
  BY SpecsAre DEF Complete, ReadFiles
<1>4. src.json = given.json
  BY DEF Complete
<1> HIDE DEF S, F
<1>5. r \in R4 <=> i = "a" /\ kw # None /\ n \in DOMAIN kw /\ r = RungOf(4, 0, kw[n], n)
  OBVIOUS
<1>6. r \in R3 <=> k \in DOMAIN src.cmd /\ r = RungOf(3, 0, src.cmd[k], k)
  <2>1. i # None
    BY DEF ParameterAssumption
  <2>2. ASSUME NEW s \in Argued(i)
        PROVE  k \in DOMAIN src.cmd /\ src.cmd[k] = s.val
    BY <1>2, <2>1
  <2>3. ASSUME k \in DOMAIN src.cmd
        PROVE  \E s \in Argued(i) : TRUE
    BY <1>2, <2>3
  <2> QED
    BY <2>2, <2>3
<1>7. r \in R2a <=> n \in DOMAIN src.bare /\ r = RungOf(2, 30, src.bare[n], n)
  <2>1. ASSUME NEW s \in Argued(None)
        PROVE  n \in DOMAIN src.bare /\ src.bare[n] = s.val
    BY <1>2
  <2>2. ASSUME n \in DOMAIN src.bare
        PROVE  \E s \in Argued(None) : TRUE
    BY <1>2, <2>2
  <2> QED
    BY <2>1, <2>2
<1>8. r \in R2b <=> k \in DOMAIN src.json /\ r = RungOf(2, 20, src.json[k], k)
  BY <1>4
<1>9. r \in R2c <=> k \in DOMAIN cfgDb /\ r = RungOf(2, cfgDb[k].prio, cfgDb[k].val, k)
  OBVIOUS
<1>10. r \in R1 <=> \E x \in Holding(i, n) :
          r = RungOf(1, Len(names) - x, src.defaults[names[x]][n], names[x])
  <2>1. r \in R1 <=> \E f \in F, x \in DOMAIN names : r \in Of(f, x)
    <3> HIDE DEF names, Of
    <3> QED
      OBVIOUS
  <2>2. \A x : x \in Holding(i, n) <=>
            x \in DOMAIN names /\ names[x] \in DOMAIN src.defaults /\ n \in DOMAIN src.defaults[names[x]]
    BY DEF Holding, Entered
  <2> HIDE DEF names
  <2>3. ASSUME NEW f \in F, NEW x \in DOMAIN names, r \in Of(f, x)
        PROVE  x \in Holding(i, n) /\ r = RungOf(1, Len(names) - x, src.defaults[names[x]][n], names[x])
    <3>1. PICK t \in DOMAIN f : /\ Last(t) = names[x] /\ n \in DOMAIN f[t]
                               /\ r = RungOf(1, Len(names) - x, f[t][n], names[x])
      BY <2>3
    <3>2. names[x] \in DOMAIN src.defaults /\ src.defaults[names[x]] = f[t]
      BY <1>3, <3>1
    <3> QED
      BY <2>2, <3>1, <3>2
  <2>4. ASSUME NEW x \in Holding(i, n), r = RungOf(1, Len(names) - x, src.defaults[names[x]][n], names[x])
        PROVE  x \in DOMAIN names /\ \E f \in F : r \in Of(f, x)
    <3>1. PICK f \in F : \E t \in DOMAIN f : names[x] = Last(t)
      BY <1>3, <2>2
    <3>2. PICK t \in DOMAIN f : names[x] = Last(t)
      BY <3>1
    <3>3. src.defaults[names[x]] = f[t]
      BY <1>3, <3>2
    <3> QED
      BY <2>2, <2>4, <3>2, <3>3
  <2> HIDE DEF R1, Of
  <2> QED
    BY <2>1, <2>3, <2>4
<1> HIDE DEF R4, R3, R2a, R2b, R2c, R1
<1> QED
  BY <1>1, <1>5, <1>6, <1>7, <1>8, <1>9, <1>10 DEF IsRung

LEMMA NamesAre ==
    ASSUME ParameterAssumption, NEW i \in Insts, NEW n
    PROVE  /\ Len(EntryNames(i)) \in Nat /\ DOMAIN EntryNames(i) = 1 .. Len(EntryNames(i))
           /\ Holding(i, n) \subseteq Entered(i) /\ Entered(i) \subseteq 1 .. Len(EntryNames(i))
<1>1. ModuleNames[i] \in Seq(ToSet(ModuleNames[i]))
  BY DEF ParameterAssumption
<1>2. PICK T : T = ToSet(ModuleNames[i]) \cup {given.entry}
  OBVIOUS
<1>3. EntryNames(i) \in Seq(T)
  <2>1. ModuleNames[i] \in Seq(T)
    BY <1>1, <1>2
  <2>2. <<given.entry>> \in Seq(T) /\ <<>> \in Seq(T)
    BY <1>2
  <2> QED
    BY <2>1, <2>2 DEF EntryNames
<1>4. Len(EntryNames(i)) \in Nat /\ DOMAIN EntryNames(i) = 1 .. Len(EntryNames(i))
  BY <1>3
<1> QED
  BY <1>4 DEF Holding, Entered

\* The level and the priority of a rung are numbers, and tell it from all others.
LEMMA RungsDiffer ==
    ASSUME ParameterAssumption, Stage, NEW i \in Insts, NEW n, NEW r, IsRung(i, n, r)
    PROVE  /\ r.level \in 1 .. 4 /\ r.prio \in Nat
           /\ \A s : IsRung(i, n, s) /\ s.level = r.level /\ s.prio = r.prio => s = r
<1>1. <<i, n>> \in DOMAIN cfgDb => cfgDb[<<i, n>>].prio \in Nat /\ cfgDb[<<i, n>>].prio \notin {20, 30}
  BY DEF Stage, ParameterAssumption
<1>2. \A x \in Holding(i, n) : Len(EntryNames(i)) - x \in Nat
  BY NamesAre
<1>3. \A x, y \in Holding(i, n) : Len(EntryNames(i)) - x = Len(EntryNames(i)) - y => x = y
  BY NamesAre
<1>4. r.level \in 1 .. 4 /\ r.prio \in Nat
  BY <1>1, <1>2 DEF IsRung, RungOf
<1>5. ASSUME NEW s, IsRung(i, n, s), s.level = r.level, s.prio = r.prio
      PROVE  s = r
  <2>1. CASE r.level # 1
    BY <1>1, <1>5, <2>1 DEF IsRung, RungOf
  <2>2. CASE r.level = 1
    <3>1. PICK x \in Holding(i, n) :
            r = RungOf(1, Len(EntryNames(i)) - x, src.defaults[EntryNames(i)[x]][n], EntryNames(i)[x])
      BY <2>2 DEF IsRung, RungOf
    <3>2. PICK y \in Holding(i, n) :
            s = RungOf(1, Len(EntryNames(i)) - y, src.defaults[EntryNames(i)[y]][n], EntryNames(i)[y])
      BY <1>5, <2>2 DEF IsRung, RungOf
    <3>3. x = y
      BY <1>3, <1>5, <3>1, <3>2 DEF RungOf
    <3> QED
      BY <3>1, <3>2, <3>3
  <2> QED
    BY <2>1, <2>2
<1> QED
  BY <1>4, <1>5

\* A rung above all others is the highest.
LEMMA TopIs ==
    ASSUME ParameterAssumption, Stage, Complete, NEW i \in Insts, NEW n, NEW r, IsRung(i, n, r),
           \A s : IsRung(i, n, s) => Above(r, s)
    PROVE  HighestRung(i, n) = r
<1>1. given \in Setups
  BY DEF Stage
<1>2. r \in Rungs(i, n) /\ \A s \in Rungs(i, n) : Above(r, s)
  BY <1>1, RungIs
<1>3. PICK t : t = HighestRung(i, n)
  OBVIOUS
<1>4. t \in Rungs(i, n) /\ \A s \in Rungs(i, n) : Above(t, s)
  BY <1>2, <1>3 DEF HighestRung
<1>5. IsRung(i, n, t) /\ Above(t, r) /\ Above(r, t)
  BY <1>1, <1>2, <1>4, RungIs
<1>6. r.level \in 1 .. 4 /\ r.prio \in Nat /\ t.level \in 1 .. 4 /\ t.prio \in Nat
  BY <1>5, RungsDiffer
<1>7. t.level = r.level /\ t.prio = r.prio
  BY <1>5, <1>6 DEF Above
<1> QED
  BY <1>3, <1>5, <1>7, RungsDiffer

\* What the child was made with is on one of the two highest levels.
LEMMA AboveIsHighest ==
    ASSUME ParameterAssumption, Stage, Complete, NEW n \in Names, NEW v, NEW p,
           FromAbove("a", n, v, p), <<"a", n>> \notin DOMAIN cfgDb
    PROVE  LET r == HighestRung("a", n)
           IN  r.val = v /\ r.level \in {3, 4} /\ (r.level = 3 => r.key = <<"a", n>> /\ <<"a", n>> \in DOMAIN src.cmd)
<1>1. kw # None /\ n \in DOMAIN Merged(Scoped, kw) /\ v = Merged(Scoped, kw)[n] /\ "a" \in Insts
  BY DEF FromAbove, Insts
<1>2. CASE n \in DOMAIN kw
  <2>1. v = kw[n]
    BY <1>1, <1>2 DEF Merged
  <2>2. PICK r : r = RungOf(4, 0, kw[n], n)
    OBVIOUS
  <2>3. IsRung("a", n, r)
    BY <1>1, <1>2, <2>2 DEF IsRung
  <2>4. \A s : IsRung("a", n, s) => Above(r, s)
    <3> SUFFICES ASSUME NEW s, IsRung("a", n, s)
                 PROVE  Above(r, s)
      OBVIOUS
    <3>1. s.level \in 1 .. 4 /\ (s.level = 4 => s.prio = 0)
      BY DEF IsRung, RungOf
    <3> QED
      BY <2>2, <3>1 DEF Above, RungOf
  <2>5. HighestRung("a", n) = r
    BY <1>1, <2>3, <2>4, TopIs
  <2> QED
    BY <2>1, <2>2, <2>5 DEF RungOf
<1>3. CASE n \notin DOMAIN kw
  <2>1. n \in DOMAIN Scoped /\ v = Scoped[n]
    BY <1>1, <1>3 DEF Merged
  <2>2. <<"a", n>> \in DOMAIN src.cmd /\ v = src.cmd[<<"a", n>>]
    <3>1. n \notin {m \in Names : <<"a", m>> \in DOMAIN cfgDb}
      OBVIOUS
    <3>2. PICK g, h : /\ g = [m \in {x \in Names : <<"a", x>> \in DOMAIN cfgDb} |-> cfgDb[<<"a", m>>].val]
                      /\ h = [m \in {x \in Names : <<"a", x>> \in DOMAIN src.cmd} |-> src.cmd[<<"a", m>>]]
      OBVIOUS
    <3>3. Scoped = Merged(g, h) /\ n \notin DOMAIN g
      BY <3>1, <3>2 DEF Scoped
    <3>4. n \in DOMAIN h /\ v = h[n]
      BY <2>1, <3>3 DEF Merged
    <3> QED
      BY <3>2, <3>4
  <2>3. PICK r : r = RungOf(3, 0, src.cmd[<<"a", n>>], <<"a", n>>)
    OBVIOUS
  <2>4. IsRung("a", n, r)
    BY <2>2, <2>3 DEF IsRung
  <2>5. \A s : IsRung("a", n, s) => Above(r, s)
    <3> SUFFICES ASSUME NEW s, IsRung("a", n, s)
                 PROVE  Above(r, s)
      OBVIOUS
    <3>1. s.level \in 1 .. 3 /\ (s.level = 3 => s.prio = 0)
      BY <1>3 DEF IsRung, RungOf
    <3> QED
      BY <2>3, <3>1 DEF Above, RungOf
  <2>6. HighestRung("a", n) = r
    BY <1>1, <2>4, <2>5, TopIs
  <2> QED
    BY <2>2, <2>3, <2>6 DEF RungOf
<1> QED
  BY <1>2, <1>3

\* The candidates of a lookup are the arguments, files and scripts of its
\* highest level.
LEMMA CandidatesAre ==
    ASSUME ParameterAssumption, Stage, NEW i \in Insts, NEW n, <<i, n>> \notin DOMAIN src.cmd
    PROVE  LET C == Candidates(<<i, n>>)
           IN  /\ \A c \in C : c.prio \in Nat \ {7} /\ \E key : IsRung(i, n, RungOf(2, c.prio, c.val, key))
               /\ \A s : IsRung(i, n, s) /\ s.level = 2 => \E c \in C : c.prio = s.prio
               /\ C # {} => Highest(C) \in C /\ \A c \in C : c.prio <= Highest(C).prio
<1> DEFINE k == <<i, n>>
           C == Candidates(k)
           x == [prio |-> cfgDb[k].prio, val |-> cfgDb[k].val]
           y == [prio |-> 30, val |-> src.bare[n]]
           z == [prio |-> 20, val |-> src.json[k]]
<1>1. \A c : c \in C <=> \/ k \in DOMAIN cfgDb /\ c = x
                         \/ n \in DOMAIN src.bare /\ c = y
                         \/ k \in DOMAIN src.json /\ c = z
  <2>1. k \notin DOMAIN src.cmd /\ k[2] = n
    OBVIOUS
  <2>2. C = {[prio |-> cfgDb[j].prio, val |-> cfgDb[j].val] : j \in DOMAIN cfgDb \cap {k}} \cup
            {[prio |-> 30, val |-> src.bare[m]] : m \in DOMAIN src.bare \cap {n}} \cup
            {[prio |-> 20, val |-> src.json[j]] : j \in DOMAIN src.json \cap {k}}
    <3> HIDE DEF k
    <3> QED
      BY <2>1 DEF Candidates
  <2> HIDE DEF C
  <2>3. \A c : c \in {[prio |-> cfgDb[j].prio, val |-> cfgDb[j].val] : j \in DOMAIN cfgDb \cap {k}}
                <=> k \in DOMAIN cfgDb /\ c = x
    <3> HIDE DEF k
    <3> QED
      OBVIOUS
  <2>4. \A c : c \in {[prio |-> 30, val |-> src.bare[m]] : m \in DOMAIN src.bare \cap {n}}
                <=> n \in DOMAIN src.bare /\ c = y
    OBVIOUS
  <2>5. \A c : c \in {[prio |-> 20, val |-> src.json[j]] : j \in DOMAIN src.json \cap {k}}
                <=> k \in DOMAIN src.json /\ c = z
    <3> HIDE DEF k
    <3> QED
      OBVIOUS
  <2> HIDE DEF k, x, y, z
  <2> QED
    BY <2>2, <2>3, <2>4, <2>5
<1>2. k \in DOMAIN cfgDb => cfgDb[k].prio \in Nat \ {7}
  BY DEF Stage, ParameterAssumption
<1> HIDE DEF C
<1>3. \A c \in C : c.prio \in Nat \ {7}
  <2>1. k \in DOMAIN cfgDb => x.prio \in Nat \ {7}
    BY <1>2
  <2>2. y.prio \in Nat \ {7} /\ z.prio \in Nat \ {7}
    OBVIOUS
  <2> HIDE DEF x, y, z
  <2> QED
    BY <1>1, <2>1, <2>2
<1>4. ASSUME NEW c \in C
      PROVE  \E key : IsRung(i, n, RungOf(2, c.prio, c.val, key))
  <2>1. CASE k \in DOMAIN cfgDb /\ c = x
    BY <2>1 DEF IsRung
  <2>2. CASE n \in DOMAIN src.bare /\ c = y
    BY <2>2 DEF IsRung
  <2>3. CASE k \in DOMAIN src.json /\ c = z
    BY <2>3 DEF IsRung
  <2>4. \/ k \in DOMAIN cfgDb /\ c = x
        \/ n \in DOMAIN src.bare /\ c = y
        \/ k \in DOMAIN src.json /\ c = z
    BY <1>1, Zenon
  <2> HIDE DEF k, x, y, z
  <2> QED
    BY <2>1, <2>2, <2>3, <2>4
<1>5. ASSUME NEW s, IsRung(i, n, s), s.level = 2
      PROVE  \E c \in C : c.prio = s.prio
  <2>1. \/ k \in DOMAIN cfgDb /\ s.prio = x.prio
        \/ n \in DOMAIN src.bare /\ s.prio = y.prio
        \/ k \in DOMAIN src.json /\ s.prio = z.prio
    BY <1>5 DEF IsRung, RungOf
  <2> HIDE DEF x, y, z
  <2> QED
    BY <1>1, <2>1
<1>6. C # {} => Highest(C) \in C /\ \A c \in C : c.prio <= Highest(C).prio
  <2>1. C \subseteq {x, y, z} /\ \A c \in C : c.prio \in Nat
    BY <1>1, <1>3
  <2> HIDE DEF x, y, z
  <2> QED
    BY <2>1, HighestIs
<1> QED
  BY <1>3, <1>4, <1>5, <1>6 DEF C

\* A value a lookup found is the one of the highest rung.
LEMMA LookupIsHighest ==
    ASSUME ParameterAssumption, Stage, Complete, NEW i \in Insts, NEW n \in Names, NEW v, NEW p,
           FromLookup(i, n, v, p), i = "top" \/ <<i, n>> \notin DOMAIN cfgDb
    PROVE  LET r == HighestRung(i, n)
           IN  r.val = v /\ IsRung(i, n, r) /\ (r.level # 3 => <<i, n>> \notin DOMAIN src.cmd)
<1>1. ~(i = "a" /\ kw # None /\ n \in DOMAIN kw)
  BY DEF FromLookup, Merged
<1>2. LookedUp(i, n, v, p)
  BY DEF FromLookup
<1>3. \A s : IsRung(i, n, s) => s.level \in 1 .. 3 /\ (s.level = 3 => s.prio = 0 /\ <<i, n>> \in DOMAIN src.cmd)
                                /\ s.prio \in Nat
  <2> SUFFICES ASSUME NEW s, IsRung(i, n, s)
               PROVE  s.level \in 1 .. 3 /\ (s.level = 3 => s.prio = 0 /\ <<i, n>> \in DOMAIN src.cmd) /\ s.prio \in Nat
    OBVIOUS
  <2>1. s.prio \in Nat
    BY RungsDiffer
  <2>2. s.level \in 1 .. 3 /\ (s.level = 3 => s.prio = 0 /\ <<i, n>> \in DOMAIN src.cmd)
    BY <1>1 DEF IsRung, RungOf
  <2> QED
    BY <2>1, <2>2
<1>4. CASE <<i, n>> \in DOMAIN src.cmd
  <2>0. PICK w : w = src.cmd[<<i, n>>]
    OBVIOUS
  <2>1. PICK c : c = [prio |-> 30, val |-> w]
    OBVIOUS
  <2>2. Candidates(<<i, n>>) = {c}
    BY <1>4, <2>0, <2>1 DEF Candidates
  <2>3. Highest({c}) = c
    <3>1. c \in {c} /\ \A d \in {c} : d.prio <= c.prio
      BY <2>1
    <3>2. Highest({c}) \in {c}
      BY <3>1 DEF Highest
    <3> QED
      BY <3>2
  <2>4. v = w
    <3>1. Candidates(<<i, n>>) # {} /\ Highest(Candidates(<<i, n>>)) = c
      BY <2>2, <2>3
    <3>2. v = c.val
      BY <1>2, <3>1 DEF LookedUp
    <3> QED
      BY <2>1, <3>2
  <2>5. PICK key, r : key = <<i, n>> /\ r = RungOf(3, 0, w, key)
    OBVIOUS
  <2>6. IsRung(i, n, r)
    BY <1>4, <2>0, <2>5 DEF IsRung
  <2>7. r.level = 3 /\ r.prio = 0 /\ r.val = v
    BY <2>4, <2>5 DEF RungOf
  <2>8. ASSUME NEW s, IsRung(i, n, s)
        PROVE  Above(r, s)
    <3>1. s.level \in 1 .. 3 /\ (s.level = 3 => s.prio = 0)
      BY <1>3, <2>8
    <3> QED
      BY <2>7, <3>1 DEF Above
  <2>9. HighestRung(i, n) = r
    BY <2>6, <2>8, TopIs
  <2> QED
    BY <2>6, <2>7, <2>9
<1>5. CASE <<i, n>> \notin DOMAIN src.cmd /\ Candidates(<<i, n>>) # {}
  <2> DEFINE C == Candidates(<<i, n>>)
  <2>1. PICK c : c = Highest(C)
    OBVIOUS
  <2>2. c \in C /\ v = c.val /\ \A d \in C : d.prio <= c.prio
    BY <1>2, <1>5, <2>1, CandidatesAre DEF LookedUp
  <2>3. PICK key : IsRung(i, n, RungOf(2, c.prio, c.val, key))
    BY <1>5, <2>2, CandidatesAre
  <2>4. PICK r : r = RungOf(2, c.prio, c.val, key)
    OBVIOUS
  <2>5. r.level = 2 /\ r.prio = c.prio /\ r.val = c.val /\ IsRung(i, n, r)
    BY <2>3, <2>4 DEF RungOf
  <2>6. ASSUME NEW s, IsRung(i, n, s)
        PROVE  Above(r, s)
    <3>1. s.level \in 1 .. 2
      BY <1>3, <1>5, <2>6
    <3>2. s.level = 2 => s.prio <= c.prio
      <4> SUFFICES ASSUME s.level = 2
                   PROVE  s.prio <= c.prio
        OBVIOUS
      <4>1. PICK d \in C : d.prio = s.prio
        BY <1>5, <2>6, CandidatesAre
      <4> QED
        BY <2>2, <4>1
    <3> QED
      BY <2>5, <3>1, <3>2 DEF Above
  <2>7. HighestRung(i, n) = r
    BY <2>5, <2>6, TopIs
  <2> QED
    BY <1>5, <2>2, <2>5, <2>7
<1>6. CASE <<i, n>> \notin DOMAIN src.cmd /\ Candidates(<<i, n>>) = {}
  <2>1. Holding(i, n) # {} /\ v = DefaultOf(i, n)
    BY <1>2, <1>6 DEF LookedUp
  <2>2. PICK x : x = Min(Holding(i, n))
    OBVIOUS
  <2>3. Holding(i, n) \subseteq Nat
    BY NamesAre
  <2>4. x \in Holding(i, n) /\ \A y \in Holding(i, n) : x <= y
    BY <2>1, <2>2, <2>3, MinIs
  <2>5. PICK r : r = RungOf(1, Len(EntryNames(i)) - x, src.defaults[EntryNames(i)[x]][n], EntryNames(i)[x])
    OBVIOUS
  <2>6. r.level = 1 /\ r.prio = Len(EntryNames(i)) - x /\ r.val = v /\ IsRung(i, n, r)
    BY <2>1, <2>2, <2>4, <2>5 DEF RungOf, IsRung, DefaultOf
  <2>7. ASSUME NEW s, IsRung(i, n, s)
        PROVE  Above(r, s)
    <3>1. s.level = 1
      <4>1. s.level \in 1 .. 2
        BY <1>3, <1>6, <2>7
      <4>2. s.level # 2
        <5> SUFFICES ASSUME s.level = 2
                     PROVE  FALSE
          OBVIOUS
        <5>1. \E c \in Candidates(<<i, n>>) : c.prio = s.prio
          BY <1>6, <2>7, CandidatesAre
        <5> QED
          BY <1>6, <5>1
      <4> QED
        BY <4>1, <4>2
    <3>2. PICK y \in Holding(i, n) : s.prio = Len(EntryNames(i)) - y
      BY <2>7, <3>1 DEF IsRung, RungOf
    <3>3. Len(EntryNames(i)) - y <= Len(EntryNames(i)) - x
      <4>1. x \in Nat /\ y \in Nat /\ x <= y /\ Len(EntryNames(i)) \in Nat
        BY <2>3, <2>4, NamesAre
      <4> QED
        BY <4>1
    <3> QED
      BY <2>6, <3>1, <3>2, <3>3 DEF Above
  <2>8. HighestRung(i, n) = r
    BY <2>6, <2>7, TopIs
  <2> QED
    BY <1>6, <2>6, <2>8
<1> QED
  BY <1>4, <1>5, <1>6

\* What Read says of an entry, and where its value came from.
LEMMA ReadIs ==
    ASSUME IInv, SourceInv, NEW i \in Insts, NEW n, Read(i, n)
    PROVE  /\ n \in DOMAIN params[i] /\ Stage /\ Complete
           /\ \/ i = "a" /\ FromAbove(i, n, params[i][n].val, params[i][n].prio)
              \/ FromLookup(i, n, params[i][n].val, params[i][n].prio)
<1>1. /\ n \in DOMAIN params[i] /\ params[i][n].state = "OVERRIDDEN"
      /\ params[i][n].val \notin Forceds
  BY Zenon DEF Read
<1>2. Stage /\ Complete
  BY <1>1 DEF SourceInv, Stage
<1>3. Sourced(i, n, params[i][n].state, params[i][n].val, params[i][n].prio)
  BY <1>1 DEF SourceInv, AllSourced
<1> QED
  BY <1>1, <1>2, <1>3 DEF Sourced, FromAbove

LEMMA LadderFollows ==
    ASSUME ParameterAssumption, IInv, SourceInv
    PROVE  LadderHolds
<1> SUFFICES ASSUME NEW i \in Insts, NEW n \in Names, Read(i, n),
                    i = "top" \/ <<i, n>> \notin DOMAIN cfgDb
             PROVE  params[i][n].val = HighestRung(i, n).val
  BY DEF LadderHolds
<1>1. PICK v, p : v = params[i][n].val /\ p = params[i][n].prio
  OBVIOUS
<1>2. Stage /\ Complete /\ ((i = "a" /\ FromAbove(i, n, v, p)) \/ FromLookup(i, n, v, p))
  BY <1>1, ReadIs
<1>3. CASE i = "a" /\ FromAbove(i, n, v, p)
  BY <1>1, <1>2, <1>3, AboveIsHighest
<1>4. CASE FromLookup(i, n, v, p)
  BY <1>1, <1>2, <1>4, LookupIsHighest
<1> QED
  BY <1>2, <1>3, <1>4

-----------------------------------------------------------------------------
(* The account. *)

\* Only entries of the files are read.
EntriesRead == entries \subseteq DOMAIN src.defaults

LEMMA EntriesKept ==
    ASSUME SourceInv, EntriesRead, [Next]_vars
    PROVE  EntriesRead'
<1>1. DOMAIN src = {"cmd", "bare", "json", "defaults"}
  BY DEF SourceInv, Stage
<1>2. CASE BodyCall
  <2>1. PICK n \in Declarable :
        \/ \E d \in Defaults : DefineParam(n, d)
        \/ \E d \in Defaults, r \in Ranges \cup {None, Malformed} : Parameter(n, d, r)
        \/ \E v \in Forceds : ForceParam(n, v) \/ OverrideParam(n, v)
        \/ \E v \in Forceds, r \in Ranges \cup {None, Malformed} : ParameterForced(n, v, r)
        \/ \E r \in Ranges \cup {Malformed} : ParamRange(n, r)
        \/ GetParam(n)
    BY <1>2, Zenon DEF BodyCall
  <2>2. Call(n)
    BY <2>1, Zenon DEF DefineParam, Parameter, ForceParam, OverrideParam, ParameterForced, ParamRange, GetParam
  <2>3. UNCHANGED books \/ \E b : ModuleDefault(n, b)
    BY <2>1, Zenon DEF DefineParam, Parameter, ForceParam, OverrideParam, ParameterForced, ParamRange, GetParam
  <2>4. src' = src
    BY <2>2, CallIs
  <2>5. entries' = entries \/ entries' = entries \cup Accounted(cur, Entered(cur))
    BY <2>3 DEF books, accounts, ModuleDefault
  <2> QED
    BY <2>4, <2>5 DEF EntriesRead, Accounted, Entered
<1>3. CASE TakeSpec
  <2>1. entries' = entries /\ (src' = src \/ (\E b : src' = [src EXCEPT !.bare = b]) \/ \E c : src' = [src EXCEPT !.cmd = c])
    BY <1>3 DEF TakeSpec, Reading, books, accounts
  <2>2. src'.defaults = src.defaults
    BY <1>1, <2>1
  <2> QED
    BY <2>1, <2>2 DEF EntriesRead
<1>4. CASE ReadDefaults
  <2>1. entries' = entries /\ (src' = src \/ \E f : src' = [src EXCEPT !.defaults = Merged(@, f)])
    BY <1>4 DEF ReadDefaults, Reading, books, accounts
  <2>2. DOMAIN src.defaults \subseteq DOMAIN src'.defaults
    BY <1>1, <2>1 DEF Merged
  <2> QED
    BY <2>1, <2>2 DEF EntriesRead
<1>5. CASE ArgumentsDone
  <2>1. /\ entries' = entries \/ entries' \subseteq DOMAIN src.defaults
        /\ \E j : src' = [src EXCEPT !.json = j]
    BY <1>5 DEF ArgumentsDone
  <2>2. src'.defaults = src.defaults
    BY <1>1, <2>1
  <2> QED
    BY <2>1, <2>2 DEF EntriesRead
<1>6. CASE UNCHANGED <<src, entries>>
  BY <1>6 DEF EntriesRead
<1>7. \/ BodyCall \/ TakeSpec \/ ReadDefaults \/ ArgumentsDone \/ UNCHANGED <<src, entries>>
  BY DEF Next, vars, CfgDone, Return, Catch, Fail, Instantiate, Configure, RemoveConfiguration,
         GetConfiguration, CfgCall, db, books, accounts
<1> QED
  BY <1>2, <1>3, <1>4, <1>5, <1>6, <1>7

LEMMA ReportsFollow ==
    ASSUME ParameterAssumption, IInv, SourceInv, EntriesRead
    PROVE  ReportsTrue
<1>1. ASSUME NEW i \in Insts, NEW n \in Names, Read(i, n), i = "top" \/ <<i, n>> \notin DOMAIN cfgDb
      PROVE  LET top == HighestRung(i, n)
             IN  /\ top.level = 3 => <<"cmd", top.key>> \notin Unused
                 /\ top.level = 2 /\ top.prio = 30 => <<"bare", top.key>> \notin Unused
                 /\ top.level = 2 /\ top.prio \in Prios => <<"cfg", top.key>> \notin Unused
                 /\ params[i][n].prio # 40 => \A e \in ToSet(EntryNames(i)) :
                       e \notin UnusedEntries /\ ~NeverUsed(e, n)
  <2>1. PICK v, p : v = params[i][n].val /\ p = params[i][n].prio
    OBVIOUS
  <2>2. Stage /\ Complete /\ ((i = "a" /\ FromAbove(i, n, v, p)) \/ FromLookup(i, n, v, p))
    BY <1>1, <2>1, ReadIs
  <2>3. PICK r : r = HighestRung(i, n)
    OBVIOUS
  <2>4. CASE i = "a" /\ FromAbove(i, n, v, p)
    <3>1. p = 40 /\ (<<i, n>> \in DOMAIN src.cmd => <<"cmd", <<i, n>>>> \in used)
      BY <2>4 DEF FromAbove
    <3>2. /\ r.level \in {3, 4}
          /\ r.level = 3 => r.key = <<i, n>> /\ <<i, n>> \in DOMAIN src.cmd
      BY <1>1, <2>2, <2>3, <2>4, AboveIsHighest
    <3>3. r.level = 3 => <<"cmd", r.key>> \notin Unused
      BY <3>1, <3>2 DEF Unused
    <3> QED
      BY <2>1, <2>3, <3>1, <3>2, <3>3
  <2>5. CASE FromLookup(i, n, v, p)
    <3>1. IsRung(i, n, r) /\ (r.level # 3 => <<i, n>> \notin DOMAIN src.cmd)
      BY <1>1, <2>2, <2>3, <2>5, LookupIsHighest
    <3>2. /\ Consulted(<<i, n>>) \subseteq used
          /\ Accounted(i, Entered(i)) \subseteq entries
          /\ Accounted(i, Holding(i, n)) \X {n} \subseteq taken
      BY <2>5 DEF FromLookup
    <3>3. r.level = 3 => <<"cmd", r.key>> \notin Unused
      <4> SUFFICES ASSUME r.level = 3
                   PROVE  <<"cmd", r.key>> \in used
        BY DEF Unused
      <4>1. r.key = <<i, n>> /\ <<i, n>> \in DOMAIN src.cmd
        BY <3>1 DEF IsRung, RungOf
      <4>2. <<"cmd", <<i, n>>>> \in Consulted(<<i, n>>)
        BY <4>1 DEF Consulted
      <4> QED
        BY <3>2, <4>1, <4>2
    <3>4. r.level = 2 /\ r.prio = 30 => <<"bare", r.key>> \notin Unused
      <4> SUFFICES ASSUME r.level = 2, r.prio = 30
                   PROVE  <<"bare", r.key>> \in used
        BY DEF Unused
      <4>1. <<i, n>> \in DOMAIN cfgDb => cfgDb[<<i, n>>].prio # 30
        BY <2>2 DEF Stage, ParameterAssumption
      <4>2. r.key = n /\ n \in DOMAIN src.bare /\ <<i, n>> \notin DOMAIN src.cmd
        BY <3>1, <4>1 DEF IsRung, RungOf
      <4>3. <<"bare", n>> \in Consulted(<<i, n>>)
        BY <4>2 DEF Consulted
      <4> QED
        BY <3>2, <4>2, <4>3
    <3>5. r.level = 2 /\ r.prio \in Prios => <<"cfg", r.key>> \notin Unused
      <4> SUFFICES ASSUME r.level = 2, r.prio \in Prios
                   PROVE  <<"cfg", r.key>> \in used
        BY DEF Unused
      <4>1. r.prio # 20 /\ r.prio # 30
        BY DEF ParameterAssumption
      <4>2. r.key = <<i, n>> /\ <<i, n>> \in DOMAIN cfgDb
        BY <3>1, <4>1 DEF IsRung, RungOf
      <4>3. <<"cfg", <<i, n>>>> \in Consulted(<<i, n>>)
        BY <4>2 DEF Consulted
      <4> QED
        BY <3>2, <4>2, <4>3
    <3>6. ASSUME NEW e \in ToSet(EntryNames(i))
          PROVE  e \notin UnusedEntries /\ ~NeverUsed(e, n)
      <4>1. PICK x \in DOMAIN EntryNames(i) : e = EntryNames(i)[x]
        BY DEF ToSet
      <4>2. e \in DOMAIN src.defaults => e \in entries
        BY <3>2, <4>1 DEF Accounted, Entered
      <4>3. e \in DOMAIN src.defaults /\ n \in DOMAIN src.defaults[e] => <<e, n>> \in taken
        <5> SUFFICES ASSUME e \in DOMAIN src.defaults, n \in DOMAIN src.defaults[e]
                     PROVE  <<e, n>> \in taken
          OBVIOUS
        <5>1. x \in Holding(i, n)
          BY <4>1 DEF Holding, Entered
        <5>2. e \in Accounted(i, Holding(i, n))
          BY <4>1, <5>1 DEF Accounted
        <5> QED
          BY <3>2, <5>2
      <4> QED
        BY <4>2, <4>3 DEF UnusedEntries, NeverUsed, EntriesRead
    <3> QED
      BY <2>3, <3>3, <3>4, <3>5, <3>6
  <2> QED
    BY <2>2, <2>4, <2>5
<1>2. ASSUME NEW e \in DOMAIN src.defaults, NEW n \in Names, IsForced(e, n)
      PROVE  /\ \E i \in Insts : /\ e \in Accounted(i, Entered(i)) /\ n \in DOMAIN params[i]
                                 /\ params[i][n].state = "FORCED"
             /\ \A i \in Insts : n \in DOMAIN params[i] /\ params[i][n].prio = 7 =>
                   e # EntryNames(i)[Min(Holding(i, n))]
  <2>1. <<e, n>> \in forcedKeys /\ <<e, n>> \notin taken
    BY <1>2 DEF IsForced
  <2>2. \E i \in Insts : /\ e \in Accounted(i, Entered(i)) /\ n \in DOMAIN params[i]
                         /\ params[i][n].state = "FORCED"
    <3>1. PICK q : q = <<e, n>>
      OBVIOUS
    <3>2. q \in forcedKeys /\ q[1] = e /\ q[2] = n
      BY <2>1, <3>1
    <3> QED
      BY <3>2 DEF SourceInv, KeysForced
  <2>3. ASSUME NEW i \in Insts, n \in DOMAIN params[i], params[i][n].prio = 7
        PROVE  e # EntryNames(i)[Min(Holding(i, n))]
    <3>1. PICK s, v, p : s = params[i][n].state /\ v = params[i][n].val /\ p = params[i][n].prio
      OBVIOUS
    <3>2. Sourced(i, n, s, v, p) /\ p = 7 /\ Stage
      BY <2>3, <3>1 DEF SourceInv, AllSourced
    <3>3. FromLookup(i, n, v, p)
      BY <3>2 DEF Sourced, FromAbove
    <3>4. Candidates(<<i, n>>) = {}
      <4>1. CASE <<i, n>> \in DOMAIN src.cmd
        <5>1. PICK c : c = [prio |-> 30, val |-> src.cmd[<<i, n>>]]
          OBVIOUS
        <5>2. Candidates(<<i, n>>) = {c} /\ c.prio = 30
          BY <4>1, <5>1 DEF Candidates
        <5>3. Highest({c}) = c
          <6>1. c \in {c} /\ \A d \in {c} : d.prio <= c.prio
            BY <5>2
          <6>2. Highest({c}) \in {c}
            BY <6>1 DEF Highest
          <6> QED
            BY <6>2
        <5>4. Candidates(<<i, n>>) # {} /\ Highest(Candidates(<<i, n>>)) = c
          BY <5>2, <5>3
        <5>5. p = 30
          BY <3>3, <5>2, <5>4 DEF FromLookup, LookedUp
        <5> QED
          BY <3>2, <5>5
      <4>2. CASE <<i, n>> \notin DOMAIN src.cmd
        <5> SUFFICES ASSUME Candidates(<<i, n>>) # {}
                     PROVE  FALSE
          OBVIOUS
        <5>1. Highest(Candidates(<<i, n>>)).prio # 7
          BY <3>2, <4>2, CandidatesAre
        <5> QED
          BY <3>2, <3>3, <5>1 DEF FromLookup, LookedUp
      <4> QED
        BY <4>1, <4>2
    <3>5. Holding(i, n) # {}
      BY <3>3, <3>4 DEF FromLookup, LookedUp
    <3>6. PICK x : x = Min(Holding(i, n))
      OBVIOUS
    <3>7. x \in Holding(i, n)
      <4>1. Holding(i, n) \subseteq Nat
        BY NamesAre
      <4> QED
        BY <3>5, <3>6, <4>1, MinIs
    <3>8. EntryNames(i)[x] \in Accounted(i, Holding(i, n))
      BY <3>7 DEF Accounted
    <3>9. <<EntryNames(i)[x], n>> \in taken
      BY <3>3, <3>8 DEF FromLookup
    <3> QED
      BY <2>1, <3>6, <3>9
  <2> QED
    BY <2>2, <2>3
<1> QED
  BY <1>1, <1>2, Zenon DEF ReportsTrue

\* The value of a parameter nothing in the program forced is that of the
\* highest rung of the ladder that names it.
THEOREM LadderHoldsAlways == Spec => []LadderHolds
<1>1. IInv /\ SourceInv => LadderHolds
  BY ParameterAssumption, LadderFollows
<1> QED
  BY <1>1, InvariantHolds, SourcesHold, PTL

\* What --strict-unused and --json-out say of the overrides and the defaults
\* is so.
THEOREM ReportsTrueAlways == Spec => []ReportsTrue
<1>1. IInv /\ SourceInv /\ EntriesRead => ReportsTrue
  BY ParameterAssumption, ReportsFollow
<1>2. Init => EntriesRead
  BY DEF Init, EntriesRead
<1>3. SourceInv /\ EntriesRead /\ [Next]_vars => EntriesRead'
  BY EntriesKept
<1> QED
  BY <1>1, <1>2, <1>3, InvariantHolds, SourcesHold, PTL DEF Spec
=============================================================================

----------------------------- MODULE OutputProofs -----------------------------
(* What runs leave on disk, for any command lines, designs and bounds: a run  *)
(* converges, Make's targets are safe, and cleaning is complete.              *)
(*                                                                            *)
(* A run's program is a sequence of operations, each of which writes the one  *)
(* text that a file of that name has under these flags and sources, or takes  *)
(* files away (StepIs).  The invariant says how far the run has got: the      *)
(* operations before the current one hold (Progress), whatever ran before.    *)
(* Nothing a later operation does undoes an earlier one, because a name       *)
(* determines the text.  A list comes after the files it names (GenIs,        *)
(* ListAfterFiles), so what a whole target names is whole; a later run        *)
(* truncates such a file only if its text differs, and then the sources were  *)
(* edited since, so the target is old (MakeInv).  A sweep takes away all that *)
(* its command line covers (Owned, NothingLeft).                              *)
EXTENDS OutputFiles, SequenceTheorems, WellFoundedInduction, TLAPS

-----------------------------------------------------------------------------
(* Sequences. *)

\* Induction over the natural numbers, for a set of them.
LEMMA AllNat ==
    ASSUME NEW S, 0 \in S, \A k \in Nat : k \in S => k + 1 \in S
    PROVE  \A k \in Nat : k \in S
<1> SUFFICES ASSUME Nat \ S # {} PROVE FALSE
  OBVIOUS
<1> DEFINE R == OpToRel(<, Nat)
<1>1. OpToRel(<, Nat) = {ss \in Nat \X Nat : ss[1] < ss[2]}
  BY DEF OpToRel
<1>2. IsWellFoundedOn(R, Nat)
  BY NatLessThanWellFounded
<1>3. PICK T : T = Nat \ S
  OBVIOUS
<1>4. PICK m \in T : \A k \in T : ~ (<<k, m>> \in R)
  <2> HIDE DEF R
  <2>1. T \subseteq Nat /\ T # {}
    BY <1>3
  <2> QED
    BY <1>2, <2>1, WFMin
<1>5. m \in Nat /\ m # 0
  BY <1>3, <1>4
<1>6. m - 1 \in Nat /\ m - 1 < m /\ (m - 1) + 1 = m
  BY <1>5
<1>7. m - 1 \in T
  BY <1>3, <1>4, <1>5, <1>6
<1>8. <<m - 1, m>> \notin {ss \in Nat \X Nat : ss[1] < ss[2]}
  BY <1>1, <1>4, <1>7
<1> QED
  BY <1>5, <1>6, <1>8

LEMMA Joined ==
    ASSUME NEW S, NEW s \in Seq(S), NEW t \in Seq(S)
    PROVE  /\ s \o t \in Seq(S)
           /\ ToSet(s \o t) = ToSet(s) \cup ToSet(t)
<1>1. /\ s \o t \in Seq(S)
      /\ Len(s \o t) = Len(s) + Len(t)
      /\ \A i \in 1 .. Len(s) + Len(t) : (s \o t)[i] = IF i <= Len(s) THEN s[i] ELSE t[i - Len(s)]
  BY ConcatProperties
<1>2. /\ DOMAIN s = 1 .. Len(s) /\ DOMAIN t = 1 .. Len(t) /\ DOMAIN (s \o t) = 1 .. Len(s) + Len(t)
      /\ Len(s) \in Nat /\ Len(t) \in Nat
  BY <1>1
<1>3. ToSet(s \o t) \subseteq ToSet(s) \cup ToSet(t)
  BY <1>1, <1>2 DEF ToSet
<1>4. ToSet(s) \subseteq ToSet(s \o t)
  BY <1>1, <1>2 DEF ToSet
<1>5. ASSUME NEW i \in 1 .. Len(t)
      PROVE  t[i] \in ToSet(s \o t)
  <2>1. Len(s) + i \in 1 .. Len(s) + Len(t) /\ ~(Len(s) + i <= Len(s)) /\ (Len(s) + i) - Len(s) = i
    BY <1>2
  <2>2. (s \o t)[Len(s) + i] = t[i]
    BY <1>1, <2>1
  <2> QED
    BY <1>2, <2>1, <2>2 DEF ToSet
<1> QED
  BY <1>1, <1>2, <1>3, <1>4, <1>5 DEF ToSet

LEMMA Grown ==
    ASSUME NEW S, NEW T, S \subseteq T, NEW s \in Seq(S)
    PROVE  s \in Seq(T)
OBVIOUS

\* The first n prefixes of FlattenSeq.
IsFlat(ss, f, n) == f = [i \in 1 .. n |-> IF i = 1 THEN ss[i] ELSE f[i - 1] \o ss[i]]

LEMMA FlatExists ==
    ASSUME NEW ss
    PROVE  \A n \in Nat : \E f : IsFlat(ss, f, n)
<1> DEFINE S == {n \in Nat : \E f : IsFlat(ss, f, n)}
<1>1. 0 \in S
  <2>1. PICK f : f = [i \in 1 .. 0 |-> 0]
    OBVIOUS
  <2>2. IsFlat(ss, f, 0)
    BY <2>1 DEF IsFlat
  <2> QED
    BY <2>2
<1>2. ASSUME NEW n \in Nat, NEW f, IsFlat(ss, f, n)
      PROVE  \E g : IsFlat(ss, g, n + 1)
  <2>1. PICK g : g = [i \in 1 .. n + 1 |-> IF i = 1 THEN ss[i] ELSE f[i - 1] \o ss[i]]
    OBVIOUS
  <2>2. ASSUME NEW i \in 1 .. n
        PROVE  g[i] = f[i]
    <3>1. f[i] = IF i = 1 THEN ss[i] ELSE f[i - 1] \o ss[i]
      BY <1>2 DEF IsFlat
    <3>2. i \in 1 .. n + 1
      OBVIOUS
    <3> QED
      BY <2>1, <3>1, <3>2
  <2>3. \A i \in 1 .. n + 1 : i # 1 => i - 1 \in 1 .. n
    OBVIOUS
  <2>4. IsFlat(ss, g, n + 1)
    BY <2>1, <2>2, <2>3 DEF IsFlat
  <2> QED
    BY <2>4
<1>3. \A k \in Nat : k \in S => k + 1 \in S
  BY <1>2
<1> HIDE DEF S
<1>4. \A k \in Nat : k \in S
  BY <1>1, <1>3, AllNat
<1> QED
  BY <1>4 DEF S

\* A flattened sequence of sequences has the elements of all of them.
LEMMA FlatIs ==
    ASSUME NEW S, NEW ss \in Seq(Seq(S))
    PROVE  /\ FlattenSeq(ss) \in Seq(S)
           /\ \A i \in DOMAIN ss : ToSet(ss[i]) \subseteq ToSet(FlattenSeq(ss))
<1>0. Len(ss) \in Nat /\ DOMAIN ss = 1 .. Len(ss)
  OBVIOUS
<1>1. CASE Len(ss) = 0
  <2>1. ss = <<>> /\ DOMAIN ss = {}
    BY <1>0, <1>1, EmptySeq
  <2>2. FlattenSeq(ss) = ss
    BY <1>1, Zenon DEF FlattenSeq
  <2>3. <<>> \in Seq(S)
    OBVIOUS
  <2> QED
    BY <2>1, <2>2, <2>3
<1>2. CASE Len(ss) # 0
  <2> DEFINE flatten[i \in 1 .. Len(ss)] == IF i = 1 THEN ss[i] ELSE flatten[i - 1] \o ss[i]
  <2>1. FlattenSeq(ss) = flatten[Len(ss)]
    BY <1>2, Zenon DEF FlattenSeq
  <2>2. flatten = CHOOSE f : IsFlat(ss, f, Len(ss))
    BY Zenon DEF IsFlat
  <2> HIDE DEF flatten
  <2>3. IsFlat(ss, flatten, Len(ss))
    BY <1>0, <2>2, FlatExists
  <2>4. \A i \in 1 .. Len(ss) : flatten[i] = IF i = 1 THEN ss[i] ELSE flatten[i - 1] \o ss[i]
    BY <2>3 DEF IsFlat
  <2> DEFINE Good(n) == /\ flatten[n] \in Seq(S)
                        /\ \A i \in 1 .. n : ToSet(ss[i]) \subseteq ToSet(flatten[n])
             R == {n \in Nat : n \in 1 .. Len(ss) => Good(n)}
  <2>5. 0 \in R
    OBVIOUS
  <2>6. ASSUME NEW n \in Nat, n \in R, n + 1 \in 1 .. Len(ss)
        PROVE  Good(n + 1)
    <3>0. ss[n + 1] \in Seq(S)
      BY <1>0, <2>6
    <3>1. CASE n = 0
      <4>1. flatten[1] = ss[1]
        BY <2>4, <2>6, <3>1
      <4>2. \A i \in 1 .. 1 : i = 1
        OBVIOUS
      <4> QED
        BY <3>0, <3>1, <4>1, <4>2
    <3>2. CASE n # 0
      <4>1. n \in 1 .. Len(ss) /\ n + 1 # 1 /\ (n + 1) - 1 = n
        BY <1>0, <2>6, <3>2
      <4>2. flatten[n + 1] = flatten[n] \o ss[n + 1]
        BY <2>4, <2>6, <4>1
      <4>3. Good(n)
        BY <2>6, <4>1
      <4>4. /\ flatten[n + 1] \in Seq(S)
            /\ ToSet(flatten[n + 1]) = ToSet(flatten[n]) \cup ToSet(ss[n + 1])
        BY <3>0, <4>2, <4>3, Joined
      <4>5. \A i \in 1 .. n + 1 : i \in 1 .. n \/ i = n + 1
        OBVIOUS
      <4> QED
        BY <4>3, <4>4, <4>5
    <3> QED
      BY <3>1, <3>2
  <2>7. ASSUME NEW n \in Nat, n \in R
        PROVE  n + 1 \in R
    <3>1. n + 1 \in 1 .. Len(ss) => Good(n + 1)
      BY <2>6, <2>7
    <3> QED
      BY <3>1
  <2> HIDE DEF R
  <2>8. \A n \in Nat : n \in R
    BY <2>5, <2>7, AllNat
  <2>9. Good(Len(ss))
    <3>1. Len(ss) \in R /\ Len(ss) \in 1 .. Len(ss)
      BY <1>0, <1>2, <2>8
    <3> QED
      BY <3>1 DEF R
  <2> QED
    BY <1>0, <2>1, <2>9
<1> QED
  BY <1>1, <1>2

-----------------------------------------------------------------------------
(* The operations of a run. *)

RawSteps(f, d) == {Create(<<f.raw, s, ".py">>, d.sources) : s \in ToSet(d.templates)}
ModuleSteps(f, d) == {Put(<<f.raw, m.name, ".v">>, m.text) : m \in ToSet(d.files)} \cup
                     {Put(Dest(f, m), m.text) : m \in ToSet(d.files)}
LogSteps(f) == {Create(f.log, f.top)}
ListSteps(f, d) ==
    {Put(Target(f), PathsOf(f, Written(f, d))), Put(Depend(f), <<Target(f), d.sources>>),
     Put(Script(f), CleanOutputs(f))} \cup
    (IF f.product = None
     THEN {Put(VerifVlist(f), PathsOf(f, SelectSeq(Written(f, d), InVerif)))}
     ELSE IF f.single THEN {}
     ELSE {Put(SynthSide(f.product), PathsOf(f, SelectSeq(Written(f, d), InSynth))),
           Put(VerifSide(f.product), PathsOf(f, SelectSeq(Written(f, d), InVerif)))}) \cup
    (IF f.pathfile = None THEN {} ELSE {Put(f.pathfile, f.top)})
JsonSteps(f, d) == IF f.json = None THEN {} ELSE {Create(p, d.sources) : p \in ToSet(JsonTriple(f.json))}

\* Those before the lists, and those from the lists on.
EarlySteps(f, d) == RawSteps(f, d) \cup LogSteps(f) \cup ModuleSteps(f, d)
LateSteps(f, d)  == ListSteps(f, d) \cup JsonSteps(f, d)

CleanSteps(f) == {RemoveDir(x) : x \in {f.raw, f.synth, f.verif}} \cup
                 {RemoveOne(p) : p \in ToSet(CleanFiles(f)) \cup {Script(f)}}

LEMMA MapIs ==
    ASSUME NEW S, NEW s \in Seq(S), NEW T, NEW g, g = [i \in DOMAIN s |-> g[i]],
           \A i \in DOMAIN s : g[i] \in T
    PROVE  g \in Seq(T) /\ ToSet(g) = {g[i] : i \in DOMAIN s}
<1>1. DOMAIN s = 1 .. Len(s) /\ Len(s) \in Nat
  OBVIOUS
<1>2. g \in [1 .. Len(s) -> T]
  BY <1>1
<1> QED
  BY <1>1, <1>2 DEF ToSet

LEMMA RawIs ==
    ASSUME DesignAssumption, NEW f, NEW d \in Designs
    PROVE  WriteRaw(f, d) \in Seq(RawSteps(f, d))
<1> DEFINE g == WriteRaw(f, d)
<1>1. g = [i \in DOMAIN d.templates |-> Create(<<f.raw, d.templates[i], ".py">>, d.sources)]
  BY Zenon DEF WriteRaw, Map
<1>2. d.templates \in Seq(ToSet(d.templates))
  BY DEF DesignAssumption
<1> HIDE DEF g
<1>3. \A i \in DOMAIN d.templates : g[i] \in RawSteps(f, d)
  BY <1>1 DEF RawSteps, ToSet
<1>4. g = [i \in DOMAIN d.templates |-> g[i]]
  BY <1>1
<1>5. g \in Seq(RawSteps(f, d))
  BY <1>2, <1>3, <1>4, MapIs
<1> QED
  BY <1>5 DEF g

\* What flush_to_disk does with one module.
ModuleOps(f, m) == If(f.genRaw, <<Put(<<f.raw, m.name, ".v">>, m.text)>>) \o
                   If(~Filtered(f, m), <<Put(Dest(f, m), m.text)>>)

LEMMA ModuleOpsAre ==
    ASSUME NEW f, NEW m, NEW S, Put(<<f.raw, m.name, ".v">>, m.text) \in S, Put(Dest(f, m), m.text) \in S
    PROVE  /\ ModuleOps(f, m) \in Seq(S)
           /\ ~Filtered(f, m) => Put(Dest(f, m), m.text) \in ToSet(ModuleOps(f, m))
<1> DEFINE s == If(f.genRaw, <<Put(<<f.raw, m.name, ".v">>, m.text)>>)
           t == If(~Filtered(f, m), <<Put(Dest(f, m), m.text)>>)
<1>1. s \in Seq(S) /\ t \in Seq(S)
  BY DEF If
<1>2. ~Filtered(f, m) => Put(Dest(f, m), m.text) \in ToSet(t)
  BY DEF If, ToSet
<1>3. ModuleOps(f, m) = s \o t
  BY Zenon DEF ModuleOps
<1> HIDE DEF s, t
<1> QED
  BY <1>1, <1>2, <1>3, Joined

LEMMA FlushIs ==
    ASSUME DesignAssumption, NEW f, NEW d \in Designs
    PROVE  /\ FlushToDisk(f, d) \in Seq(ModuleSteps(f, d))
           /\ \A m \in ToSet(d.files) :
                 ~Filtered(f, m) => Put(Dest(f, m), m.text) \in ToSet(FlushToDisk(f, d))
<1> DEFINE S == ModuleSteps(f, d)
           ss == [i \in DOMAIN d.files |-> ModuleOps(f, d.files[i])]
<1>1. FlushToDisk(f, d) = FlattenSeq(ss)
  BY Zenon DEF FlushToDisk, Each, Map, ModuleOps
<1>2. d.files \in Seq(ToSet(d.files))
  BY DEF DesignAssumption
<1>3. \A m \in ToSet(d.files) : Put(<<f.raw, m.name, ".v">>, m.text) \in S /\ Put(Dest(f, m), m.text) \in S
  BY DEF ModuleSteps
<1>4. \A i \in DOMAIN d.files : d.files[i] \in ToSet(d.files)
  BY DEF ToSet
<1> HIDE DEF S
<1>5. \A m \in ToSet(d.files) : /\ ModuleOps(f, m) \in Seq(S)
                                /\ ~Filtered(f, m) => Put(Dest(f, m), m.text) \in ToSet(ModuleOps(f, m))
  BY <1>3, ModuleOpsAre
<1>6. /\ DOMAIN ss = DOMAIN d.files
      /\ \A i \in DOMAIN d.files : ss[i] = ModuleOps(f, d.files[i])
      /\ ss = [i \in DOMAIN d.files |-> ss[i]]
  OBVIOUS
<1> HIDE DEF ss
<1>7. \A i \in DOMAIN d.files : ss[i] \in Seq(S)
  BY <1>4, <1>5, <1>6
<1>8. ss \in Seq(Seq(S))
  BY <1>2, <1>6, <1>7, MapIs
<1>9. /\ FlattenSeq(ss) \in Seq(S)
      /\ \A i \in DOMAIN ss : ToSet(ss[i]) \subseteq ToSet(FlattenSeq(ss))
  BY <1>8, FlatIs
<1>10. ASSUME NEW i \in DOMAIN d.files, ~Filtered(f, d.files[i])
       PROVE  Put(Dest(f, d.files[i]), d.files[i].text) \in ToSet(FlushToDisk(f, d))
  BY <1>1, <1>4, <1>5, <1>6, <1>9, <1>10
<1>11. \A m \in ToSet(d.files) : \E i \in DOMAIN d.files : m = d.files[i]
  BY DEF ToSet
<1> QED
  BY <1>1, <1>9, <1>10, <1>11 DEF S

LEMMA WrittenIs ==
    ASSUME DesignAssumption, NEW f, NEW d \in Designs
    PROVE  Written(f, d) \in Seq({m \in ToSet(d.files) : ~Filtered(f, m)})
<1> DEFINE S == {m \in ToSet(d.files) : ~Filtered(f, m)}
           ss == [i \in DOMAIN d.files |-> If(~Filtered(f, d.files[i]), <<d.files[i]>>)]
<1>1. Written(f, d) = FlattenSeq(ss)
  BY Zenon DEF Written, Each, Map
<1>2. d.files \in Seq(ToSet(d.files))
  BY DEF DesignAssumption
<1>3. ASSUME NEW i \in DOMAIN d.files
      PROVE  If(~Filtered(f, d.files[i]), <<d.files[i]>>) \in Seq(S)
  <2>1. d.files[i] \in ToSet(d.files)
    BY DEF ToSet
  <2>2. ~Filtered(f, d.files[i]) => d.files[i] \in S
    BY <2>1
  <2> HIDE DEF S
  <2> QED
    BY <2>2 DEF If
<1>4. \A i \in DOMAIN d.files : ss[i] = If(~Filtered(f, d.files[i]), <<d.files[i]>>)
  OBVIOUS
<1>5. ss = [i \in DOMAIN d.files |-> ss[i]]
  OBVIOUS
<1> HIDE DEF S, ss
<1>6. ss \in Seq(Seq(S))
  <2>1. \A i \in DOMAIN d.files : ss[i] \in Seq(S)
    BY <1>3, <1>4
  <2> QED
    BY <1>2, <1>5, <2>1, MapIs
<1>7. FlattenSeq(ss) \in Seq(S)
  BY <1>6, FlatIs
<1> QED
  BY <1>1, <1>7 DEF S

\* A list names the files of the modules that were not filtered out.
LEMMA PathsAre ==
    ASSUME DesignAssumption, NEW f, NEW d \in Designs, NEW p \in ToSet(PathsOf(f, Written(f, d)))
    PROVE  \E m \in ToSet(d.files) : ~Filtered(f, m) /\ p = Dest(f, m)
<1> DEFINE S == {m \in ToSet(d.files) : ~Filtered(f, m)}
<1>1. PICK ms \in Seq(S) : ms = Written(f, d)
  BY WrittenIs
<1>2. PathsOf(f, ms) = [i \in DOMAIN ms |-> Dest(f, ms[i])]
  BY Zenon DEF PathsOf, Map
<1>3. PICK i \in DOMAIN ms : p = Dest(f, ms[i])
  BY <1>1, <1>2 DEF ToSet
<1>4. ms[i] \in S
  BY <1>1, <1>3
<1> QED
  BY <1>3, <1>4

LEMMA ListsAre ==
    ASSUME NEW f, NEW d
    PROVE  /\ WriteFileLists(f, d) \in Seq(ListSteps(f, d))
           /\ WriteCleanScript(f) \in Seq(ListSteps(f, d))
           /\ If(f.product # None, WriteProductLists(f, d)) \in Seq(ListSteps(f, d))
           /\ WritePathfile(f) \in Seq(ListSteps(f, d))
<1> DEFINE S == ListSteps(f, d)
           ms == Written(f, d)
           vs == SelectSeq(ms, InVerif)
           list == <<Put(Vlist(f), PathsOf(f, ms))>>
           verif == If(vs # <<>>, <<Put(VerifVlist(f), PathsOf(f, vs))>>)
           dep == <<Put(Depend(f), <<Target(f), d.sources>>)>>
           sides == <<Put(SynthSide(f.product), PathsOf(f, SelectSeq(ms, InSynth))),
                      Put(VerifSide(f.product), PathsOf(f, SelectSeq(ms, InVerif)))>>
<1>1. /\ Put(Target(f), PathsOf(f, ms)) \in S
      /\ Put(Depend(f), <<Target(f), d.sources>>) \in S
      /\ Put(Script(f), CleanOutputs(f)) \in S
      /\ f.product = None => Put(VerifVlist(f), PathsOf(f, vs)) \in S
      /\ f.product # None /\ ~f.single =>
            /\ Put(SynthSide(f.product), PathsOf(f, SelectSeq(ms, InSynth))) \in S
            /\ Put(VerifSide(f.product), PathsOf(f, SelectSeq(ms, InVerif))) \in S
      /\ f.pathfile # None => Put(f.pathfile, f.top) \in S
  BY Zenon DEF ListSteps
<1>2. Target(f) = IF f.product # None THEN f.product ELSE Vlist(f)
  BY DEF Target
<1>3. WriteFileLists(f, d) = If(f.product = None, list \o verif) \o dep
  BY Zenon DEF WriteFileLists
<1>4. WriteCleanScript(f) = <<Put(Script(f), CleanOutputs(f))>>
  BY DEF WriteCleanScript
<1>5. WriteProductLists(f, d) = <<Put(f.product, PathsOf(f, ms))>> \o If(~f.single, sides)
  BY Zenon DEF WriteProductLists
<1>6. WritePathfile(f) = If(f.pathfile # None, <<Put(f.pathfile, f.top)>>)
  BY Zenon DEF WritePathfile, Asked
<1> HIDE DEF S, ms, vs
<1>7. <<>> \in Seq(S) /\ dep \in Seq(S)
  BY <1>1
<1>8. f.product = None => list \in Seq(S) /\ verif \in Seq(S)
  BY <1>1, <1>2 DEF If
<1>9. f.product # None => /\ <<Put(f.product, PathsOf(f, ms))>> \in Seq(S)
                          /\ If(~f.single, sides) \in Seq(S)
  BY <1>1, <1>2 DEF If
<1>10. <<Put(Script(f), CleanOutputs(f))>> \in Seq(S)
  BY <1>1
<1>11. If(f.pathfile # None, <<Put(f.pathfile, f.top)>>) \in Seq(S)
  BY <1>1 DEF If
<1> HIDE DEF list, verif, dep, sides
<1>12. f.product = None => list \o verif \in Seq(S)
  BY <1>8, Joined
<1>13. If(f.product = None, list \o verif) \in Seq(S)
  BY <1>7, <1>12 DEF If
<1>14. f.product # None => <<Put(f.product, PathsOf(f, ms))>> \o If(~f.single, sides) \in Seq(S)
  BY <1>9, Joined
<1>15. If(f.product # None, WriteProductLists(f, d)) \in Seq(S)
  BY <1>5, <1>7, <1>14 DEF If
<1>16. WriteFileLists(f, d) \in Seq(S)
  BY <1>3, <1>7, <1>13, Joined
<1> QED
  BY <1>4, <1>6, <1>10, <1>11, <1>15, <1>16 DEF S

LEMMA JsonIs ==
    ASSUME NEW f, NEW d
    PROVE  WriteJson(f, d) \in Seq(JsonSteps(f, d))
<1> DEFINE t == JsonTriple(f.json)
           g == [i \in DOMAIN t |-> Create(t[i], d.sources)]
<1>1. WriteJson(f, d) = If(f.json # None, g)
  BY Zenon DEF WriteJson, Asked, Map
<1>2. t \in Seq(ToSet(t))
  <2>1. \E x, y, z : t = <<x, y, z>>
    BY Zenon DEF JsonTriple
  <2> QED
    BY <2>1 DEF ToSet
<1> HIDE DEF t
<1>3. f.json # None => \A i \in DOMAIN t : Create(t[i], d.sources) \in JsonSteps(f, d)
  BY DEF JsonSteps, ToSet, t
<1>4. g = [i \in DOMAIN t |-> g[i]] /\ \A i \in DOMAIN t : g[i] = Create(t[i], d.sources)
  OBVIOUS
<1> HIDE DEF g
<1>5. f.json # None => g \in Seq(JsonSteps(f, d))
  BY <1>2, <1>3, <1>4, MapIs
<1>6. <<>> \in Seq(JsonSteps(f, d))
  OBVIOUS
<1> QED
  BY <1>1, <1>5, <1>6 DEF If

\* A sequence of elements of E, all of M among them, and then of L.
Splits(s, E, L, M) == \E a \in Seq(E), b \in Seq(L) : s = a \o b /\ M \subseteq ToSet(a)

LEMMA SplitsAlone ==
    ASSUME NEW E, NEW L, NEW s \in Seq(E)
    PROVE  Splits(s, E, L, ToSet(s))
<1>1. s \o <<>> = s
  BY ConcatEmptySeq
<1>2. <<>> \in Seq(L)
  OBVIOUS
<1> QED
  BY <1>1, <1>2 DEF Splits

LEMMA SplitsAfter ==
    ASSUME NEW E, NEW L, NEW M, NEW x \in Seq(E), NEW s, Splits(s, E, L, M)
    PROVE  Splits(x \o s, E, L, M)
<1>1. PICK a \in Seq(E), b \in Seq(L) : s = a \o b /\ M \subseteq ToSet(a)
  BY DEF Splits
<1>2. PICK S : S = E \cup L
  OBVIOUS
<1>3. x \in Seq(S) /\ a \in Seq(S) /\ b \in Seq(S)
  BY <1>2, Grown
<1>4. x \o (a \o b) = (x \o a) \o b
  BY <1>3
<1>5. x \o a \in Seq(E) /\ ToSet(a) \subseteq ToSet(x \o a)
  BY Joined
<1> QED
  BY <1>1, <1>4, <1>5 DEF Splits

LEMMA SplitsBefore ==
    ASSUME NEW E, NEW L, NEW M, NEW y \in Seq(L), NEW s, Splits(s, E, L, M)
    PROVE  Splits(s \o y, E, L, M)
<1>1. PICK a \in Seq(E), b \in Seq(L) : s = a \o b /\ M \subseteq ToSet(a)
  BY DEF Splits
<1>2. PICK S : S = E \cup L
  OBVIOUS
<1>3. y \in Seq(S) /\ a \in Seq(S) /\ b \in Seq(S)
  BY <1>2, Grown
<1>4. (a \o b) \o y = a \o (b \o y)
  BY <1>3
<1>5. b \o y \in Seq(L)
  BY Joined
<1> QED
  BY <1>1, <1>4, <1>5 DEF Splits

LEMMA WarningsAre ==
    ASSUME NEW f, NEW d
    PROVE  Warnings(f, d) \in Seq(LogSteps(f))
<1>1. Create(f.log, f.top) \in LogSteps(f)
  BY DEF LogSteps
<1>2. Warnings(f, d) = <<>> \/ Warnings(f, d) = <<Create(f.log, f.top)>>
  BY Zenon DEF Warnings, If
<1> QED
  <2>1. PICK o \in LogSteps(f) : o = Create(f.log, f.top)
    BY <1>1
  <2>2. <<o>> \in Seq(LogSteps(f)) /\ <<>> \in Seq(LogSteps(f))
    OBVIOUS
  <2> QED
    BY <1>2, <2>1, <2>2

\* A run that writes outputs does the templates, warnings and modules first.
LEMMA GenIs ==
    ASSUME DesignAssumption, NEW f, NEW d \in Designs
    PROVE  \E a \in Seq(EarlySteps(f, d)), b \in Seq(LateSteps(f, d)) :
              /\ Program("gen", f, d) = a \o b
              /\ \A m \in ToSet(d.files) : ~Filtered(f, m) => Put(Dest(f, m), m.text) \in ToSet(a)
<1> DEFINE E == EarlySteps(f, d)
           L == LateSteps(f, d)
<1>1. PICK raw \in Seq(E), warn \in Seq(E), flush \in Seq(E) :
         raw = WriteRaw(f, d) /\ warn = Warnings(f, d) /\ flush = FlushToDisk(f, d)
  <2>1. RawSteps(f, d) \subseteq E /\ LogSteps(f) \subseteq E /\ ModuleSteps(f, d) \subseteq E
    BY DEF EarlySteps
  <2> HIDE DEF E
  <2> QED
    BY <2>1, RawIs, WarningsAre, FlushIs, Grown
<1>2. PICK lists \in Seq(L), script \in Seq(L), prods \in Seq(L), path \in Seq(L), json \in Seq(L) :
         /\ lists = WriteFileLists(f, d) /\ script = WriteCleanScript(f)
         /\ prods = If(f.product # None, WriteProductLists(f, d))
         /\ path = WritePathfile(f) /\ json = WriteJson(f, d)
  <2>1. ListSteps(f, d) \subseteq L /\ JsonSteps(f, d) \subseteq L
    BY DEF LateSteps
  <2> HIDE DEF L
  <2> QED
    BY <2>1, ListsAre, JsonIs, Grown
<1>3. Program("gen", f, d) =
        raw \o ((warn \o ((((flush \o lists) \o script) \o prods) \o path)) \o json)
  BY <1>1, <1>2, Zenon DEF Program, FlushOutputs, If
<1>4. \A m \in ToSet(d.files) : ~Filtered(f, m) => Put(Dest(f, m), m.text) \in ToSet(flush)
  BY <1>1, FlushIs
<1> HIDE DEF E, L
<1> DEFINE M == ToSet(flush)
           Sp(s) == Splits(s, E, L, M)
<1>5. Sp(flush)
  BY SplitsAlone
<1>6. \A x \in Seq(E) : \A s : Sp(s) => Sp(x \o s)
  BY SplitsAfter
<1>7. \A y \in Seq(L) : \A s : Sp(s) => Sp(s \o y)
  BY SplitsBefore
<1> HIDE DEF M, Sp
<1>8. PICK s1 : s1 = flush \o lists
  OBVIOUS
<1>9. PICK s2 : s2 = s1 \o script
  OBVIOUS
<1>10. PICK s3 : s3 = s2 \o prods
  OBVIOUS
<1>11. PICK s4 : s4 = s3 \o path
  OBVIOUS
<1>12. PICK s5 : s5 = warn \o s4
  OBVIOUS
<1>13. PICK s6 : s6 = s5 \o json
  OBVIOUS
<1>14. Sp(s1)
  BY <1>5, <1>7, <1>8
<1>15. Sp(s2)
  BY <1>7, <1>9, <1>14
<1>16. Sp(s3)
  BY <1>7, <1>10, <1>15
<1>17. Sp(s4)
  BY <1>7, <1>11, <1>16
<1>18. Sp(s5)
  BY <1>6, <1>12, <1>17
<1>19. Sp(s6)
  BY <1>7, <1>13, <1>18
<1>20. Sp(raw \o s6)
  BY <1>6, <1>19
<1>21. Program("gen", f, d) = raw \o s6
  BY <1>3, <1>8, <1>9, <1>10, <1>11, <1>12, <1>13
<1> QED
  BY <1>4, <1>20, <1>21 DEF Sp, Splits, M, E, L

LEMMA InjJoined ==
    ASSUME NEW S, NEW s \in Seq(S), NEW t \in Seq(S), NEW st, st = s \o t, IsInjective(st)
    PROVE  IsInjective(s) /\ IsInjective(t) /\ ToSet(s) \cap ToSet(t) = {}
<1>1. /\ Len(st) = Len(s) + Len(t)
      /\ \A i \in 1 .. Len(s) + Len(t) : st[i] = IF i <= Len(s) THEN s[i] ELSE t[i - Len(s)]
      /\ DOMAIN s = 1 .. Len(s) /\ DOMAIN t = 1 .. Len(t) /\ DOMAIN st = 1 .. Len(s) + Len(t)
      /\ Len(s) \in Nat /\ Len(t) \in Nat
  BY ConcatProperties
<1>2. \A a, b \in 1 .. Len(s) + Len(t) : st[a] = st[b] => a = b
  BY <1>1 DEF IsInjective
<1>3. ASSUME NEW a \in 1 .. Len(s)
      PROVE  a \in 1 .. Len(s) + Len(t) /\ st[a] = s[a]
  BY <1>1
<1>4. ASSUME NEW a \in 1 .. Len(t)
      PROVE  Len(s) + a \in 1 .. Len(s) + Len(t) /\ st[Len(s) + a] = t[a]
  <2>1. Len(s) + a \in 1 .. Len(s) + Len(t) /\ ~(Len(s) + a <= Len(s)) /\ (Len(s) + a) - Len(s) = a
    BY <1>1
  <2> QED
    BY <1>1, <2>1
<1>5. ASSUME NEW a \in 1 .. Len(s), NEW b \in 1 .. Len(s), s[a] = s[b]
      PROVE  a = b
  BY <1>2, <1>3, <1>5
<1>6. ASSUME NEW a \in 1 .. Len(t), NEW b \in 1 .. Len(t), t[a] = t[b]
      PROVE  a = b
  <2>1. Len(s) + a = Len(s) + b
    BY <1>2, <1>4, <1>6
  <2> QED
    BY <1>1, <2>1
<1>7. ASSUME NEW a \in 1 .. Len(s), NEW b \in 1 .. Len(t), s[a] = t[b]
      PROVE  FALSE
  <2>1. a = Len(s) + b
    BY <1>2, <1>3, <1>4, <1>7
  <2> QED
    BY <1>1, <2>1
<1>8. IsInjective(s) /\ IsInjective(t)
  BY <1>1, <1>5, <1>6 DEF IsInjective
<1>9. ToSet(s) \cap ToSet(t) = {}
  BY <1>1, <1>7 DEF ToSet
<1> QED
  BY <1>8, <1>9

\* The files a command line may ask for.
PathFiles(f) == IF f.pathfile = None THEN {} ELSE {f.pathfile}
ProductFiles(f) == IF f.product = None THEN {}
                 ELSE {f.product} \cup IF f.single THEN {} ELSE {SynthSide(f.product), VerifSide(f.product)}
JsonFiles(f) == IF f.json = None THEN {} ELSE ToSet(JsonTriple(f.json))
ListFiles(f) == {Vlist(f), VerifVlist(f), Depend(f)}

Disjoint(A, B) == A \cap B = {}

LEMMA FilesAre ==
    ASSUME NEW f
    PROVE  /\ CleanFiles(f) \in Seq(ToSet(CleanFiles(f)))
           /\ ToSet(CleanFiles(f)) =
                 ListFiles(f) \cup PathFiles(f) \cup ProductFiles(f) \cup JsonFiles(f) \cup {f.log}
           /\ IsInjective(CleanFiles(f)) =>
                 /\ Vlist(f) # VerifVlist(f) /\ Vlist(f) # Depend(f) /\ VerifVlist(f) # Depend(f)
                 /\ f.product # None /\ ~f.single =>
                       /\ f.product # SynthSide(f.product) /\ f.product # VerifSide(f.product)
                       /\ SynthSide(f.product) # VerifSide(f.product)
                 /\ Disjoint(ListFiles(f), PathFiles(f)) /\ Disjoint(ListFiles(f), ProductFiles(f))
                 /\ Disjoint(ListFiles(f), JsonFiles(f)) /\ f.log \notin ListFiles(f)
                 /\ Disjoint(PathFiles(f), ProductFiles(f)) /\ Disjoint(PathFiles(f), JsonFiles(f))
                 /\ f.log \notin PathFiles(f)
                 /\ Disjoint(ProductFiles(f), JsonFiles(f)) /\ f.log \notin ProductFiles(f)
                 /\ f.log \notin JsonFiles(f)
<1>1. PICK S : S = ListFiles(f) \cup PathFiles(f) \cup ProductFiles(f) \cup JsonFiles(f) \cup {f.log}
  OBVIOUS
<1>2. PICK l \in Seq(S) : /\ l = <<Vlist(f), VerifVlist(f), Depend(f)>> /\ ToSet(l) = ListFiles(f)
                          /\ IsInjective(l) => /\ Vlist(f) # VerifVlist(f) /\ Vlist(f) # Depend(f)
                                               /\ VerifVlist(f) # Depend(f)
  <2>1. PICK x \in S, y \in S, z \in S : x = Vlist(f) /\ y = VerifVlist(f) /\ z = Depend(f)
    BY <1>1 DEF ListFiles
  <2>2. <<x, y, z>> \in Seq(S) /\ ToSet(<<x, y, z>>) = {x, y, z}
    BY DEF ToSet
  <2>3. IsInjective(<<x, y, z>>) => x # y /\ x # z /\ y # z
    BY DEF IsInjective
  <2> QED
    BY <2>1, <2>2, <2>3 DEF ListFiles
<1>3. PICK u \in Seq(S) : u = Asked(f.pathfile, LAMBDA p : <<p>>) /\ ToSet(u) = PathFiles(f)
  <2>1. Asked(f.pathfile, LAMBDA p : <<p>>) = IF f.pathfile # None THEN <<f.pathfile>> ELSE <<>>
    BY Zenon DEF Asked, If
  <2>2. f.pathfile # None => f.pathfile \in S
    BY <1>1 DEF PathFiles
  <2>3. /\ <<>> \in Seq(S) /\ ToSet(<<>>) = {}
        /\ f.pathfile # None => <<f.pathfile>> \in Seq(S) /\ ToSet(<<f.pathfile>>) = {f.pathfile}
    BY <2>2 DEF ToSet
  <2> QED
    BY <2>1, <2>3 DEF PathFiles
<1>4. PICK v \in Seq(S) :
         /\ v = Asked(f.product, LAMBDA p : <<p>> \o If(~f.single, <<SynthSide(p), VerifSide(p)>>))
         /\ ToSet(v) = ProductFiles(f)
         /\ IsInjective(v) /\ f.product # None /\ ~f.single =>
               /\ f.product # SynthSide(f.product) /\ f.product # VerifSide(f.product)
               /\ SynthSide(f.product) # VerifSide(f.product)
  <2>0. Asked(f.product, LAMBDA p : <<p>> \o If(~f.single, <<SynthSide(p), VerifSide(p)>>)) =
           IF f.product # None
           THEN <<f.product>> \o IF ~f.single THEN <<SynthSide(f.product), VerifSide(f.product)>> ELSE <<>>
           ELSE <<>>
    BY Zenon DEF Asked, If
  <2>1. CASE f.product = None
    <3>1. <<>> \in Seq(S) /\ ToSet(<<>>) = {}
      BY DEF ToSet
    <3> QED
      BY <2>0, <2>1, <3>1 DEF ProductFiles
  <2>2. CASE f.product # None /\ f.single
    <3>1. PICK p \in S : p = f.product
      BY <1>1, <2>2 DEF ProductFiles
    <3>2. <<p>> \in Seq(S) /\ ToSet(<<p>>) = {p} /\ <<p>> \o <<>> = <<p>>
      BY DEF ToSet
    <3> QED
      BY <2>0, <2>2, <3>1, <3>2 DEF ProductFiles
  <2>3. CASE f.product # None /\ ~f.single
    <3>0. f.product \in S /\ SynthSide(f.product) \in S /\ VerifSide(f.product) \in S
      <4>1. ProductFiles(f) = {f.product} \cup {SynthSide(f.product), VerifSide(f.product)}
        BY <2>3, Zenon DEF ProductFiles
      <4> QED
        BY <1>1, <4>1
    <3>7. PICK p \in S : p = f.product
      BY <3>0
    <3>8. PICK x \in S : x = SynthSide(f.product)
      BY <3>0, Zenon
    <3>9. PICK y \in S : y = VerifSide(f.product)
      BY <3>0, Zenon
    <3>1. p = f.product /\ x = SynthSide(f.product) /\ y = VerifSide(f.product)
      BY <3>7, <3>8, <3>9, Zenon
    <3>2. PICK one \in Seq(S), two \in Seq(S) : /\ one = <<p>> /\ two = <<x, y>>
                                              /\ ToSet(one) = {p} /\ ToSet(two) = {x, y}
      <4>1. <<p>> \in Seq(S) /\ <<x, y>> \in Seq(S) /\ ToSet(<<p>>) = {p} /\ ToSet(<<x, y>>) = {x, y}
        BY DEF ToSet
      <4> QED
        BY <4>1
    <3>3. PICK z \in Seq(S) : z = one \o two /\ ToSet(z) = ToSet(one) \cup ToSet(two)
      BY Joined
    <3>4. IsInjective(two) => x # y
      BY <3>2 DEF IsInjective
    <3>5. IsInjective(z) => p # x /\ p # y /\ x # y
      BY <3>2, <3>3, <3>4, InjJoined
    <3>6. ProductFiles(f) = {p} \cup {x, y}
      BY <2>3, <3>1, Zenon DEF ProductFiles
    <3>10. Asked(f.product, LAMBDA q : <<q>> \o If(~f.single, <<SynthSide(q), VerifSide(q)>>)) = z
      BY <2>0, <2>3, <3>1, <3>2, <3>3
    <3>11. IsInjective(z) => /\ f.product # SynthSide(f.product) /\ f.product # VerifSide(f.product)
                             /\ SynthSide(f.product) # VerifSide(f.product)
      BY <3>1, <3>5, Zenon
    <3>12. ToSet(z) = ProductFiles(f)
      BY <3>2, <3>3, <3>6
    <3> QED
      BY <3>10, <3>11, <3>12
  <2> QED
    BY <2>1, <2>2, <2>3
<1>5. PICK w \in Seq(S) : w = Asked(f.json, JsonTriple) /\ ToSet(w) = JsonFiles(f)
  <2>1. Asked(f.json, JsonTriple) = IF f.json # None THEN JsonTriple(f.json) ELSE <<>>
    BY Zenon DEF Asked, If
  <2>2. PICK x, y, z : JsonTriple(f.json) = <<x, y, z>>
    BY Zenon DEF JsonTriple
  <2>3. ToSet(<<x, y, z>>) = {x, y, z} /\ ToSet(<<>>) = {}
    BY DEF ToSet
  <2>4. f.json # None => x \in S /\ y \in S /\ z \in S
    BY <1>1, <2>2, <2>3 DEF JsonFiles
  <2>5. <<>> \in Seq(S) /\ (f.json # None => <<x, y, z>> \in Seq(S))
    BY <2>4
  <2> QED
    BY <2>1, <2>2, <2>3, <2>5 DEF JsonFiles
<1>6. PICK e \in Seq(S) : e = <<f.log>> /\ ToSet(e) = {f.log}
  <2>1. PICK o \in S : o = f.log
    BY <1>1
  <2>2. <<o>> \in Seq(S) /\ ToSet(<<o>>) = {o}
    BY DEF ToSet
  <2> QED
    BY <2>1, <2>2
<1>7. CleanFiles(f) = (((l \o u) \o v) \o w) \o e
  BY <1>2, <1>3, <1>4, <1>5, <1>6, Zenon DEF CleanFiles, Products
<1>8. PICK lu \in Seq(S) : lu = l \o u /\ ToSet(lu) = ToSet(l) \cup ToSet(u)
  BY Joined
<1>9. PICK luv \in Seq(S) : luv = lu \o v /\ ToSet(luv) = ToSet(lu) \cup ToSet(v)
  BY Joined
<1>10. PICK luvw \in Seq(S) : luvw = luv \o w /\ ToSet(luvw) = ToSet(luv) \cup ToSet(w)
  BY Joined
<1>11. PICK all \in Seq(S) : all = luvw \o e /\ ToSet(all) = ToSet(luvw) \cup ToSet(e)
  BY Joined
<1>12. CleanFiles(f) = all
  <2>1. CleanFiles(f) = ((lu \o v) \o w) \o e
    BY <1>7, <1>8
  <2>2. CleanFiles(f) = (luv \o w) \o e
    BY <2>1, <1>9
  <2> QED
    BY <2>2, <1>10, <1>11
<1>13. ToSet(all) = S
  <2>1. ToSet(l) = ListFiles(f) /\ ToSet(u) = PathFiles(f) /\ ToSet(v) = ProductFiles(f)
    BY <1>2, <1>3, <1>4, Zenon
  <2>2. ToSet(w) = JsonFiles(f) /\ ToSet(e) = {f.log}
    BY <1>5, <1>6, Zenon
  <2>3. ToSet(all) = (((ToSet(l) \cup ToSet(u)) \cup ToSet(v)) \cup ToSet(w)) \cup ToSet(e)
    BY <1>8, <1>9, <1>10, <1>11, Zenon
  <2> QED
    BY <1>1, <2>1, <2>2, <2>3, Zenon
<1>14. ASSUME IsInjective(all)
       PROVE  /\ IsInjective(l) /\ IsInjective(v)
              /\ Disjoint(ToSet(l), ToSet(u)) /\ Disjoint(ToSet(lu), ToSet(v))
              /\ Disjoint(ToSet(luv), ToSet(w)) /\ Disjoint(ToSet(luvw), ToSet(e))
  <2>1. IsInjective(luvw) /\ Disjoint(ToSet(luvw), ToSet(e))
    BY <1>11, <1>14, InjJoined DEF Disjoint
  <2>2. IsInjective(luv) /\ Disjoint(ToSet(luv), ToSet(w))
    BY <1>10, <2>1, InjJoined DEF Disjoint
  <2>3. IsInjective(lu) /\ IsInjective(v) /\ Disjoint(ToSet(lu), ToSet(v))
    BY <1>9, <2>2, InjJoined DEF Disjoint
  <2>4. IsInjective(l) /\ Disjoint(ToSet(l), ToSet(u))
    BY <1>8, <2>3, InjJoined DEF Disjoint
  <2> QED
    BY <2>1, <2>2, <2>3, <2>4
<1>15. ASSUME IsInjective(all)
       PROVE  /\ Disjoint(ListFiles(f), PathFiles(f)) /\ Disjoint(ListFiles(f), ProductFiles(f))
              /\ Disjoint(ListFiles(f), JsonFiles(f)) /\ f.log \notin ListFiles(f)
              /\ Disjoint(PathFiles(f), ProductFiles(f)) /\ Disjoint(PathFiles(f), JsonFiles(f))
              /\ f.log \notin PathFiles(f)
              /\ Disjoint(ProductFiles(f), JsonFiles(f)) /\ f.log \notin ProductFiles(f)
              /\ f.log \notin JsonFiles(f)
  <2>1. /\ ToSet(l) = ListFiles(f) /\ ToSet(u) = PathFiles(f) /\ ToSet(v) = ProductFiles(f)
        /\ ToSet(w) = JsonFiles(f) /\ f.log \in ToSet(e)
    BY <1>2, <1>3, <1>4, <1>5, <1>6
  <2>2. PICK A, B, C, D, K : A = ToSet(l) /\ B = ToSet(u) /\ C = ToSet(v) /\ D = ToSet(w) /\ K = ToSet(e)
    OBVIOUS
  <2>3. /\ A \cap B = {} /\ (A \cup B) \cap C = {} /\ ((A \cup B) \cup C) \cap D = {}
        /\ (((A \cup B) \cup C) \cup D) \cap K = {}
    BY <1>8, <1>9, <1>10, <1>14, <1>15, <2>2 DEF Disjoint
  <2>4. /\ A \cap B = {} /\ A \cap C = {} /\ A \cap D = {} /\ A \cap K = {} /\ B \cap C = {}
        /\ B \cap D = {} /\ B \cap K = {} /\ C \cap D = {} /\ C \cap K = {} /\ D \cap K = {}
    BY <2>3
  <2> QED
    BY <2>1, <2>2, <2>4 DEF Disjoint
<1>16. all \in Seq(ToSet(all))
  BY <1>13
<1> QED
  BY <1>1, <1>2, <1>4, <1>12, <1>13, <1>14, <1>15, <1>16

Sweepers == {"clean", "script"}
OpsOf(mode, f, d) == IF mode = "script" THEN CleanOutputs(f) ELSE Program(mode, f, d)
StepsOf(mode, f, d) ==
    CASE mode \in Sweepers -> CleanSteps(f)
      [] mode = "parse"    -> RawSteps(f, d)
      [] mode = "stdout"   -> RawSteps(f, d) \cup LogSteps(f) \cup {RemoveDir(f.raw)} \cup JsonSteps(f, d)
      [] mode = "gen"      -> EarlySteps(f, d) \cup LateSteps(f, d)

LEMMA CleanIs ==
    ASSUME NEW f
    PROVE  /\ CleanOutputs(f) \in Seq(CleanSteps(f))
           /\ CleanSteps(f) \subseteq ToSet(CleanOutputs(f))
<1> DEFINE S == CleanSteps(f)
           D == {f.raw, f.synth, f.verif}
           P == ToSet(CleanFiles(f)) \cup {Script(f)}
<1>1. PICK dirs \in Seq(D) : CleanDirs(f) = dirs /\ ToSet(dirs) = D
  <2>1. PICK x, y, z : x = f.raw /\ y = f.synth /\ z = f.verif
    OBVIOUS
  <2>2. <<x, y, z>> \in Seq({x, y, z}) /\ ToSet(<<x, y, z>>) = {x, y, z}
    BY DEF ToSet
  <2> QED
    BY <2>1, <2>2 DEF CleanDirs
<1>2. PICK fs \in Seq(P) : fs = CleanFiles(f) \o <<Script(f)>> /\ ToSet(fs) = P
  <2>1. PICK cf \in Seq(P) : cf = CleanFiles(f)
    <3>1. ToSet(CleanFiles(f)) \subseteq P
      OBVIOUS
    <3> HIDE DEF P
    <3> QED
      BY <3>1, FilesAre, Grown
  <2>2. PICK sc \in Seq(P) : sc = <<Script(f)>> /\ ToSet(sc) = {Script(f)}
    <3>1. PICK q \in P : q = Script(f)
      OBVIOUS
    <3>2. <<q>> \in Seq(P) /\ ToSet(<<q>>) = {q}
      BY DEF ToSet
    <3> QED
      BY <3>1, <3>2
  <2>3. ToSet(cf) \cup ToSet(sc) = P
    BY <2>1, <2>2
  <2> HIDE DEF P
  <2>4. cf \o sc \in Seq(P) /\ ToSet(cf \o sc) = P
    BY <2>3, Joined
  <2> QED
    BY <2>1, <2>2, <2>4
<1>3. \A x \in D : RemoveDir(x) \in S
  BY DEF CleanSteps
<1>4. \A q \in P : RemoveOne(q) \in S
  BY DEF CleanSteps
<1>5. \A o \in S : (\E x \in D : o = RemoveDir(x)) \/ (\E q \in P : o = RemoveOne(q))
  BY DEF CleanSteps
<1> HIDE DEF S, D, P
<1>6. PICK u \in Seq(S) : u = Map(RemoveDir, dirs) /\ ToSet(u) = {RemoveDir(x) : x \in D}
  <2> DEFINE g == [i \in DOMAIN dirs |-> RemoveDir(dirs[i])]
  <2>1. Map(RemoveDir, dirs) = g
    BY Zenon DEF Map
  <2>2. g = [i \in DOMAIN dirs |-> g[i]] /\ \A i \in DOMAIN dirs : g[i] = RemoveDir(dirs[i])
    OBVIOUS
  <2> HIDE DEF g
  <2>3. \A i \in DOMAIN dirs : g[i] \in S
    BY <1>3, <2>2
  <2>4. g \in Seq(S) /\ ToSet(g) = {g[i] : i \in DOMAIN dirs}
    <3>1. g \in Seq(S)
      BY <2>2, <2>3, MapIs
    <3>2. DOMAIN g = DOMAIN dirs
      BY <2>2
    <3> QED
      BY <3>1, <3>2 DEF ToSet
  <2>5. ToSet(g) = {RemoveDir(x) : x \in D}
    <3>1. D = {dirs[i] : i \in DOMAIN dirs}
      BY <1>1 DEF ToSet
    <3> QED
      BY <2>2, <2>4, <3>1
  <2> QED
    BY <2>1, <2>4, <2>5
<1>7. PICK v \in Seq(S) : v = Map(RemoveOne, fs) /\ ToSet(v) = {RemoveOne(q) : q \in P}
  <2> DEFINE g == [i \in DOMAIN fs |-> RemoveOne(fs[i])]
  <2>1. Map(RemoveOne, fs) = g
    BY Zenon DEF Map
  <2>2. g = [i \in DOMAIN fs |-> g[i]] /\ \A i \in DOMAIN fs : g[i] = RemoveOne(fs[i])
    OBVIOUS
  <2> HIDE DEF g
  <2>3. \A i \in DOMAIN fs : g[i] \in S
    BY <1>4, <2>2
  <2>4. g \in Seq(S) /\ ToSet(g) = {g[i] : i \in DOMAIN fs}
    <3>1. g \in Seq(S)
      BY <2>2, <2>3, MapIs
    <3>2. DOMAIN g = DOMAIN fs
      BY <2>2
    <3> QED
      BY <3>1, <3>2 DEF ToSet
  <2>5. ToSet(g) = {RemoveOne(q) : q \in P}
    <3>1. P = {fs[i] : i \in DOMAIN fs}
      BY <1>2 DEF ToSet
    <3> QED
      BY <2>2, <2>4, <3>1
  <2> QED
    BY <2>1, <2>4, <2>5
<1>8. CleanOutputs(f) = u \o v
  BY <1>1, <1>2, <1>6, <1>7, Zenon DEF CleanOutputs
<1>9. u \o v \in Seq(S) /\ ToSet(u \o v) = ToSet(u) \cup ToSet(v)
  BY Joined
<1>10. S \subseteq ToSet(u \o v)
  BY <1>5, <1>6, <1>7, <1>9
<1> QED
  BY <1>8, <1>9, <1>10 DEF S

LEMMA ProgramIs ==
    ASSUME DesignAssumption, NEW f, NEW d \in Designs, NEW mode \in Modes
    PROVE  OpsOf(mode, f, d) \in Seq(StepsOf(mode, f, d))
<1>1. CASE mode \in Sweepers
  <2>1. OpsOf(mode, f, d) = CleanOutputs(f)
    BY <1>1 DEF OpsOf, Program, Sweepers
  <2>2. StepsOf(mode, f, d) = CleanSteps(f)
    BY <1>1 DEF StepsOf, Sweepers
  <2> QED
    BY <2>1, <2>2, CleanIs
<1>2. CASE mode = "parse"
  <2>1. OpsOf(mode, f, d) = WriteRaw(f, d) \o <<>>
    BY <1>2, Zenon DEF OpsOf, Program, If
  <2>2. StepsOf(mode, f, d) = RawSteps(f, d)
    BY <1>2 DEF StepsOf, Sweepers
  <2>3. WriteRaw(f, d) \o <<>> = WriteRaw(f, d)
    BY RawIs, ConcatEmptySeq
  <2> QED
    BY <2>1, <2>2, <2>3, RawIs
<1>3. CASE mode = "stdout"
  <2> DEFINE S == RawSteps(f, d) \cup LogSteps(f) \cup {RemoveDir(f.raw)} \cup JsonSteps(f, d)
  <2>1. StepsOf(mode, f, d) = S
    BY <1>3 DEF StepsOf, Sweepers
  <2>2. PICK raw \in Seq(S), warn \in Seq(S), json \in Seq(S) :
           raw = WriteRaw(f, d) /\ warn = Warnings(f, d) /\ json = WriteJson(f, d)
    <3>1. RawSteps(f, d) \subseteq S /\ LogSteps(f) \subseteq S /\ JsonSteps(f, d) \subseteq S
      OBVIOUS
    <3> HIDE DEF S
    <3> QED
      BY <3>1, RawIs, WarningsAre, JsonIs, Grown
  <2>3. PICK rm \in Seq(S) : rm = <<RemoveDir(f.raw)>>
    <3>1. PICK o \in S : o = RemoveDir(f.raw)
      OBVIOUS
    <3> HIDE DEF S
    <3>2. <<o>> \in Seq(S)
      OBVIOUS
    <3> QED
      BY <3>1, <3>2
  <2>4. OpsOf(mode, f, d) = raw \o ((warn \o rm) \o json)
    BY <1>3, <2>2, <2>3, Zenon DEF OpsOf, Program, If
  <2> HIDE DEF S
  <2>5. PICK x \in Seq(S) : x = warn \o rm
    BY Joined
  <2>6. PICK y \in Seq(S) : y = x \o json
    BY Joined
  <2>7. raw \o y \in Seq(S)
    BY Joined
  <2> QED
    BY <2>1, <2>4, <2>5, <2>6, <2>7
<1>4. CASE mode = "gen"
  <2>1. OpsOf(mode, f, d) = Program("gen", f, d)
    BY <1>4 DEF OpsOf
  <2>2. StepsOf(mode, f, d) = EarlySteps(f, d) \cup LateSteps(f, d)
    BY <1>4 DEF StepsOf, Sweepers
  <2> DEFINE S == EarlySteps(f, d) \cup LateSteps(f, d)
  <2>3. PICK a \in Seq(EarlySteps(f, d)), b \in Seq(LateSteps(f, d)) : Program("gen", f, d) = a \o b
    BY GenIs
  <2>4. a \in Seq(S) /\ b \in Seq(S)
    BY <2>3, Grown
  <2> HIDE DEF S
  <2>5. a \o b \in Seq(S)
    BY <2>4, Joined
  <2> QED
    BY <2>1, <2>2, <2>3, <2>5 DEF S
<1> QED
  BY <1>1, <1>2, <1>3, <1>4 DEF Modes, Sweepers

-----------------------------------------------------------------------------
(* What a run writes where. *)

\* What --clean takes away.
Covered(f, p) == p[1] \in {f.raw, f.synth, f.verif} \/ p \in ToSet(CleanFiles(f)) \cup {Script(f)}

\* The text of each file, from its name.
TextAt(f, d, p) ==
    IF p[3] = ".py" THEN d.sources
    ELSE IF p[3] = ".v" THEN (CHOOSE m \in ToSet(d.files) : m.name = p[2]).text
    ELSE IF p[3] = ".sh" THEN CleanOutputs(f)
    ELSE IF p = Target(f) THEN PathsOf(f, Written(f, d))
    ELSE IF p = Depend(f) THEN <<Target(f), d.sources>>
    ELSE IF p \in JsonFiles(f) THEN d.sources
    ELSE IF p \in PathFiles(f) \cup {f.log} THEN f.top
    ELSE IF p \notin ProductFiles(f) \/ p = VerifSide(f.product)
    THEN PathsOf(f, SelectSeq(Written(f, d), InVerif))
    ELSE PathsOf(f, SelectSeq(Written(f, d), InSynth))

LEMMA Apart ==
    ASSUME FlagsAssumption, NEW g \in DOMAIN Flags, NEW f, f = Flags[g]
    PROVE  /\ Vlist(f) # VerifVlist(f) /\ Vlist(f) # Depend(f) /\ VerifVlist(f) # Depend(f)
           /\ f.product # None /\ ~f.single =>
                 /\ f.product # SynthSide(f.product) /\ f.product # VerifSide(f.product)
                 /\ SynthSide(f.product) # VerifSide(f.product)
           /\ Disjoint(ListFiles(f), PathFiles(f)) /\ Disjoint(ListFiles(f), ProductFiles(f))
           /\ Disjoint(ListFiles(f), JsonFiles(f)) /\ f.log \notin ListFiles(f)
           /\ Disjoint(PathFiles(f), ProductFiles(f)) /\ Disjoint(PathFiles(f), JsonFiles(f))
           /\ f.log \notin PathFiles(f)
           /\ Disjoint(ProductFiles(f), JsonFiles(f)) /\ f.log \notin ProductFiles(f)
           /\ f.log \notin JsonFiles(f)
           /\ \A p \in ListFiles(f) \cup PathFiles(f) \cup ProductFiles(f) \cup JsonFiles(f) \cup {f.log} :
                 p[3] # ".v" /\ p[3] # ".py" /\ p[3] # ".sh" /\ Covered(f, p)
<1>1. IsInjective(CleanFiles(f))
  BY DEF FlagsAssumption
<1>2. \A p \in ToSet(CleanFiles(f)) : p[3] \notin {".v", ".py", ".sh"}
  BY DEF FlagsAssumption
<1>3. \A p \in ListFiles(f) \cup PathFiles(f) \cup ProductFiles(f) \cup JsonFiles(f) \cup {f.log} :
                 p[3] # ".v" /\ p[3] # ".py" /\ p[3] # ".sh" /\ Covered(f, p)
  BY <1>2, FilesAre DEF Covered
<1> QED
  BY <1>1, <1>3, FilesAre

IsWrite(o) == o.op \in {"put", "create"}
Fits(f, d, o) == /\ IsWrite(o) /\ Covered(f, o.path) /\ o.text = TextAt(f, d, o.path)
                 /\ o = [op |-> o.op, path |-> o.path, text |-> o.text]

LEMMA NamedModule ==
    ASSUME DesignAssumption, NEW d \in Designs, NEW m \in ToSet(d.files)
    PROVE  (CHOOSE n \in ToSet(d.files) : n.name = m.name) = m
BY DEF DesignAssumption

\* The operations of one kind of file each.
LEMMA EarlyIs ==
    ASSUME FlagsAssumption, DesignAssumption, NEW g \in DOMAIN Flags, NEW f, f = Flags[g],
           NEW d \in Designs, NEW o \in EarlySteps(f, d)
    PROVE  /\ Fits(f, d, o)
           /\ o.path[3] \in {".v", ".py"} \/ o.path = f.log
           /\ o.path[3] = ".v" => o.op = "put"
<1>1. CASE o \in RawSteps(f, d)
  <2>1. PICK s : o = Create(<<f.raw, s, ".py">>, d.sources)
    BY <1>1 DEF RawSteps
  <2>2. o.op = "create" /\ o.path = <<f.raw, s, ".py">> /\ o.text = d.sources
    BY <2>1 DEF Create
  <2>3. o.path[1] = f.raw /\ o.path[3] = ".py"
    BY <2>2
  <2>4. TextAt(f, d, o.path) = d.sources
    BY <2>3 DEF TextAt
  <2> QED
    BY <2>1, <2>2, <2>3, <2>4 DEF Fits, IsWrite, Covered, Create
<1>2. CASE o \in LogSteps(f)
  <2>1. o = Create(f.log, f.top)
    BY <1>2 DEF LogSteps
  <2>2. o.op = "create" /\ o.path = f.log /\ o.text = f.top
    BY <2>1 DEF Create
  <2>3. /\ f.log[3] # ".v" /\ f.log[3] # ".py" /\ f.log[3] # ".sh" /\ Covered(f, f.log)
        /\ f.log \notin ListFiles(f) /\ f.log \notin ProductFiles(f) /\ f.log \notin JsonFiles(f)
    BY Apart
  <2>4. f.log # Target(f) /\ f.log # Depend(f)
    BY <2>3 DEF Target, ListFiles, ProductFiles
  <2>5. TextAt(f, d, f.log) = f.top
    BY <2>3, <2>4 DEF TextAt
  <2> QED
    BY <2>1, <2>2, <2>3, <2>5 DEF Fits, IsWrite, Create
<1>3. CASE o \in ModuleSteps(f, d)
  <2>1. PICK m \in ToSet(d.files), x \in {f.raw, f.synth, f.verif} : o = Put(<<x, m.name, ".v">>, m.text)
    BY <1>3, Zenon DEF ModuleSteps, Dest
  <2>2. o.op = "put" /\ o.path = <<x, m.name, ".v">> /\ o.text = m.text
    BY <2>1 DEF Put
  <2>3. o.path[1] = x /\ o.path[2] = m.name /\ o.path[3] = ".v"
    BY <2>2
  <2>4. TextAt(f, d, o.path) = m.text
    BY <2>3, NamedModule DEF TextAt
  <2> QED
    BY <2>1, <2>2, <2>3, <2>4 DEF Fits, IsWrite, Covered, Put
<1> QED
  BY <1>1, <1>2, <1>3 DEF EarlySteps

LEMMA LateIs ==
    ASSUME FlagsAssumption, DesignAssumption, NEW g \in DOMAIN Flags, NEW f, f = Flags[g],
           NEW d \in Designs, NEW o \in LateSteps(f, d)
    PROVE  /\ Fits(f, d, o)
           /\ o.path[3] \notin {".v", ".py"} /\ o.path # f.log
           /\ o.path[3] = ".sh" \/ o.path \in ToSet(CleanFiles(f))
           /\ o.path = Vlist(f) => Target(f) = Vlist(f)
<1> DEFINE P == ListFiles(f) \cup PathFiles(f) \cup ProductFiles(f) \cup JsonFiles(f) \cup {f.log}
<1>0. /\ \A p \in P : p[3] # ".v" /\ p[3] # ".py" /\ p[3] # ".sh" /\ Covered(f, p)
      /\ ToSet(CleanFiles(f)) = P
  BY Apart, FilesAre
<1>1. ASSUME NEW p \in P \ {f.log}, NEW t, t = TextAt(f, d, p), p = Vlist(f) => Target(f) = Vlist(f),
             o = Put(p, t) \/ o = Create(p, t)
      PROVE  /\ Fits(f, d, o)
             /\ o.path[3] \notin {".v", ".py"} /\ o.path # f.log
             /\ o.path[3] = ".sh" \/ o.path \in ToSet(CleanFiles(f))
             /\ o.path = Vlist(f) => Target(f) = Vlist(f)
  <2>1. o.op \in {"put", "create"} /\ o.path = p /\ o.text = t
    BY <1>1 DEF Put, Create
  <2>2. o = [op |-> o.op, path |-> o.path, text |-> o.text]
    BY <1>1, <2>1 DEF Put, Create
  <2>3. p[3] # ".v" /\ p[3] # ".py" /\ Covered(f, p) /\ p \in ToSet(CleanFiles(f)) /\ p # f.log
    BY <1>0, <1>1
  <2> HIDE DEF P
  <2> QED
    BY <1>1, <2>1, <2>2, <2>3 DEF Fits, IsWrite
<1>a. /\ Vlist(f) # VerifVlist(f) /\ Vlist(f) # Depend(f) /\ VerifVlist(f) # Depend(f)
      /\ \A p \in ListFiles(f) : p \notin PathFiles(f) /\ p \notin ProductFiles(f) /\ p \notin JsonFiles(f) /\ p # f.log
      /\ \A p \in PathFiles(f) : p \notin ListFiles(f) /\ p \notin ProductFiles(f) /\ p \notin JsonFiles(f) /\ p # f.log
      /\ \A p \in ProductFiles(f) : p \notin PathFiles(f) /\ p \notin ListFiles(f) /\ p \notin JsonFiles(f) /\ p # f.log
      /\ \A p \in JsonFiles(f) : p \notin PathFiles(f) /\ p \notin ProductFiles(f) /\ p \notin ListFiles(f) /\ p # f.log
      /\ f.product # None /\ ~f.single =>
            /\ f.product # SynthSide(f.product) /\ f.product # VerifSide(f.product)
            /\ SynthSide(f.product) # VerifSide(f.product)
  BY Apart DEF Disjoint
<1>b. \A p \in P : TextAt(f, d, p) =
        IF p = Target(f) THEN PathsOf(f, Written(f, d))
        ELSE IF p = Depend(f) THEN <<Target(f), d.sources>>
        ELSE IF p \in JsonFiles(f) THEN d.sources
        ELSE IF p \in PathFiles(f) \cup {f.log} THEN f.top
        ELSE IF p \notin ProductFiles(f) \/ p = VerifSide(f.product)
        THEN PathsOf(f, SelectSeq(Written(f, d), InVerif))
        ELSE PathsOf(f, SelectSeq(Written(f, d), InSynth))
  BY <1>0, Zenon DEF TextAt
<1>c. \/ f.product = None /\ Target(f) = Vlist(f) /\ ProductFiles(f) = {}
      \/ f.product # None /\ Target(f) = f.product /\ f.product \in ProductFiles(f)
  BY Zenon DEF Target, ProductFiles
<1>d. Vlist(f) \in ListFiles(f) /\ VerifVlist(f) \in ListFiles(f) /\ Depend(f) \in ListFiles(f)
  BY DEF ListFiles
<1>e. Target(f) \in P /\ Target(f) # f.log /\ Target(f) # Depend(f) /\ Target(f) # VerifVlist(f)
      /\ Target(f) \notin JsonFiles(f) /\ Target(f) \notin PathFiles(f)
  BY <1>a, <1>c, <1>d
<1>2. CASE o = Put(Target(f), PathsOf(f, Written(f, d)))
  <2>1. TextAt(f, d, Target(f)) = PathsOf(f, Written(f, d))
    BY <1>b, <1>e
  <2>2. Target(f) = Vlist(f) => Target(f) = Vlist(f)
    OBVIOUS
  <2> HIDE DEF P
  <2> QED
    BY <1>1, <1>2, <1>e, <2>1, <2>2
<1>3. CASE o = Put(Depend(f), <<Target(f), d.sources>>)
  <2>1. TextAt(f, d, Depend(f)) = <<Target(f), d.sources>>
    BY <1>b, <1>d, <1>e
  <2>2. Depend(f) \in P /\ Depend(f) # f.log /\ Depend(f) # Vlist(f)
    BY <1>a, <1>d
  <2> HIDE DEF P
  <2> QED
    BY <1>1, <1>3, <2>1, <2>2
<1>4. CASE o = Put(Script(f), CleanOutputs(f))
  <2>1. o.op = "put" /\ o.path = Script(f) /\ o.text = CleanOutputs(f)
    BY <1>4 DEF Put
  <2>2. Script(f)[3] = ".sh"
    BY DEF Script
  <2>3. TextAt(f, d, Script(f)) = CleanOutputs(f)
    BY <2>2 DEF TextAt
  <2>4. Script(f) # f.log /\ Script(f) # Vlist(f)
    BY <1>0, <1>d, <2>2
  <2>5. Covered(f, Script(f))
    BY DEF Covered
  <2>6. o = [op |-> o.op, path |-> o.path, text |-> o.text]
    BY <1>4, <2>1 DEF Put
  <2> QED
    BY <2>1, <2>2, <2>3, <2>4, <2>5, <2>6 DEF Fits, IsWrite
<1>5. CASE f.product = None /\ o = Put(VerifVlist(f), PathsOf(f, SelectSeq(Written(f, d), InVerif)))
  <2>1. VerifVlist(f) \in P /\ VerifVlist(f) # f.log /\ VerifVlist(f) # Vlist(f)
    BY <1>a, <1>d
  <2>2. TextAt(f, d, VerifVlist(f)) = PathsOf(f, SelectSeq(Written(f, d), InVerif))
    <3>1. /\ VerifVlist(f) # Target(f) /\ VerifVlist(f) # Depend(f) /\ VerifVlist(f) \notin JsonFiles(f)
          /\ VerifVlist(f) \notin PathFiles(f) \cup {f.log} /\ VerifVlist(f) \notin ProductFiles(f)
      BY <1>a, <1>d, <1>e
    <3> HIDE DEF P
    <3> QED
      BY <1>b, <2>1, <3>1, Zenon
  <2> HIDE DEF P
  <2> QED
    BY <1>1, <1>5, <2>1, <2>2
<1>6. CASE /\ f.product # None /\ ~f.single
           /\ o = Put(SynthSide(f.product), PathsOf(f, SelectSeq(Written(f, d), InSynth)))
  <2>0. SynthSide(f.product) \in ProductFiles(f)
    BY <1>6, Zenon DEF ProductFiles
  <2>1. PICK p \in P \ {f.log} : p = SynthSide(f.product) /\ p # Vlist(f) /\ p \in ProductFiles(f)
    <3>1. PICK p : p = SynthSide(f.product)
      BY Zenon
    <3>2. p \in ProductFiles(f)
      BY <2>0, <3>1, Zenon
    <3> QED
      BY <1>a, <1>d, <3>1, <3>2
  <2>2. TextAt(f, d, p) = PathsOf(f, SelectSeq(Written(f, d), InSynth))
    <3>1. /\ p # Target(f) /\ p # VerifSide(f.product)
      BY <1>a, <1>c, <1>6, <2>1, Zenon
    <3>2. p # Depend(f) /\ p \notin JsonFiles(f) /\ p \notin PathFiles(f) \cup {f.log} /\ p \in P
      BY <1>a, <1>d, <2>1
    <3> HIDE DEF P
    <3> QED
      BY <1>b, <2>1, <3>1, <3>2, Zenon
  <2>3. o = Put(p, PathsOf(f, SelectSeq(Written(f, d), InSynth)))
    BY <1>6, <2>1, Zenon
  <2> HIDE DEF P
  <2> QED
    BY <1>1, <2>1, <2>2, <2>3
<1>7. CASE /\ f.product # None /\ ~f.single
           /\ o = Put(VerifSide(f.product), PathsOf(f, SelectSeq(Written(f, d), InVerif)))
  <2>0. VerifSide(f.product) \in ProductFiles(f)
    BY <1>7, Zenon DEF ProductFiles
  <2>1. PICK p \in P \ {f.log} : p = VerifSide(f.product) /\ p # Vlist(f) /\ p \in ProductFiles(f)
    <3>1. PICK p : p = VerifSide(f.product)
      BY Zenon
    <3>2. p \in ProductFiles(f)
      BY <2>0, <3>1, Zenon
    <3> QED
      BY <1>a, <1>d, <3>1, <3>2
  <2>2. TextAt(f, d, p) = PathsOf(f, SelectSeq(Written(f, d), InVerif))
    <3>1. p # Target(f)
      BY <1>a, <1>c, <1>7, <2>1, Zenon
    <3>2. p # Depend(f) /\ p \notin JsonFiles(f) /\ p \notin PathFiles(f) \cup {f.log} /\ p \in P
      BY <1>a, <1>d, <2>1
    <3> HIDE DEF P
    <3> QED
      BY <1>b, <2>1, <3>1, <3>2, Zenon
  <2>3. o = Put(p, PathsOf(f, SelectSeq(Written(f, d), InVerif)))
    BY <1>7, <2>1, Zenon
  <2> HIDE DEF P
  <2> QED
    BY <1>1, <2>1, <2>2, <2>3
<1>8. CASE f.pathfile # None /\ o = Put(f.pathfile, f.top)
  <2>0. f.pathfile \in PathFiles(f)
    BY <1>8 DEF PathFiles
  <2>1. f.pathfile \in P \ {f.log} /\ f.pathfile # Vlist(f)
    BY <1>a, <1>d, <2>0
  <2>2. TextAt(f, d, f.pathfile) = f.top
    <3>1. f.pathfile # Target(f) /\ f.pathfile # Depend(f) /\ f.pathfile \notin JsonFiles(f)
      BY <1>a, <1>d, <1>e, <2>0
    <3> QED
      BY <1>b, <2>0, <2>1, <3>1
  <2> HIDE DEF P
  <2> QED
    BY <1>1, <1>8, <2>1, <2>2
<1>9. CASE o \in JsonSteps(f, d)
  <2>0. PICK p \in JsonFiles(f) : o = Create(p, d.sources)
    BY <1>9, Zenon DEF JsonSteps, JsonFiles
  <2>1. p \in P \ {f.log} /\ p # Vlist(f)
    BY <1>a, <1>d, <2>0
  <2>2. TextAt(f, d, p) = d.sources
    <3>1. p # Target(f) /\ p # Depend(f)
      BY <1>a, <1>d, <1>e, <2>0
    <3> QED
      BY <1>b, <2>0, <2>1, <3>1
  <2> HIDE DEF P
  <2> QED
    BY <1>1, <2>0, <2>1, <2>2
<1>10. CASE o \in ListSteps(f, d)
  <2>1. \/ o = Put(Target(f), PathsOf(f, Written(f, d)))
        \/ o = Put(Depend(f), <<Target(f), d.sources>>)
        \/ o = Put(Script(f), CleanOutputs(f))
        \/ f.product = None /\ o = Put(VerifVlist(f), PathsOf(f, SelectSeq(Written(f, d), InVerif)))
        \/ f.product # None /\ ~f.single /\ o = Put(SynthSide(f.product), PathsOf(f, SelectSeq(Written(f, d), InSynth)))
        \/ f.product # None /\ ~f.single /\ o = Put(VerifSide(f.product), PathsOf(f, SelectSeq(Written(f, d), InVerif)))
        \/ f.pathfile # None /\ o = Put(f.pathfile, f.top)
    BY <1>10, Zenon DEF ListSteps
  <2> HIDE DEF P
  <2> QED
    BY <1>2, <1>3, <1>4, <1>5, <1>6, <1>7, <1>8, <2>1, Zenon
<1> QED
  BY <1>9, <1>10 DEF LateSteps

-----------------------------------------------------------------------------
(* The invariant. *)

Store ==
    /\ run \in Nat /\ edited \in Nat /\ edited <= run
    /\ design \in Designs
    /\ job \in [mode : Modes, flags : DOMAIN Flags, done : BOOLEAN]
    /\ ~Idle => edited < run /\ ~job.done
    /\ job.mode \in Sweepers => job.flags \in swept
    /\ \A p \in Exists : /\ disk[p].by \in DOMAIN Flags
                         /\ disk[p].at \in Nat /\ disk[p].at <= run

\* The command line that wrote a file can take it away.
Owned == \A p \in Exists : Covered(Flags[disk[p].by], p)

\* A script is the one of the command line that wrote it.
Scripts == \A p \in Exists :
    p[3] = ".sh" /\ disk[p].whole => disk[p].text = CleanOutputs(Flags[disk[p].by])

\* A file that is open for writing.
Filling == ~Idle /\ Head(todo).op = "fill"

\* What an operation is for, once it was done, or begun.
There(o) == o.path \in Exists /\ disk[o.path].whole /\ disk[o.path].text = o.text
Performed(o) ==
    /\ IsWrite(o) => (Filling /\ Head(todo).path = o.path) \/ There(o)
    /\ o.op = "remove" => o.path \notin Exists
    /\ o.op = "rmtree" => \A p \in Exists : p[1] # o.dir

\* The run has its first k operations behind it, and maybe an open file.
Left(ops, k) ==
    /\ k \in 0 .. Len(ops)
    /\ todo \in Seq(ToSet(todo))
    /\ Len(todo) = Len(ops) - k
    /\ \A i \in 1 .. Len(todo) :
          \/ todo[i] = ops[k + i]
          \/ i = 1 /\ IsWrite(ops[k + 1]) /\ todo[1] = [ops[k + 1] EXCEPT !.op = "fill"]

Ops == OpsOf(job.mode, Flags[job.flags], design)
Current == \/ ~Idle
           \/ job.done /\ (edited < run \/ job.mode \in Sweepers)
Progress ==
    Current => \E k \in 0 .. Len(Ops) :
        /\ Left(Ops, k)
        /\ job.mode # "stdout" => \A i \in 1 .. k : Performed(Ops[i])

\* MakeSafe, of one list and in the middle of a run too.
Trusted(l) == l \in Exists /\ disk[l].whole /\ disk[l].at > edited /\ Unswept(l)
Kept(p, m) == p \in Exists /\ disk[p].whole /\ disk[p].text = m.text
MakeInv ==
    \A g \in DOMAIN Flags :
        Trusted(Target(Flags[g])) =>
            \A m \in ToSet(design.files) :
                Dest(Flags[disk[Target(Flags[g])].by], m) \in Entries(Target(Flags[g])) =>
                    Kept(Dest(Flags[disk[Target(Flags[g])].by], m), m)

OutputInv == Store /\ Owned /\ Scripts /\ Progress /\ MakeInv

\* What any operation of a run may be.
LEMMA StepIs ==
    ASSUME FlagsAssumption, DesignAssumption, NEW g \in DOMAIN Flags, NEW f, f = Flags[g],
           NEW d \in Designs, NEW mode \in Modes, NEW o \in StepsOf(mode, f, d)
    PROVE  /\ mode \in Sweepers => o.op \in {"remove", "rmtree"}
           /\ mode \in {"gen", "parse"} => IsWrite(o)
           /\ mode = "stdout" => o.op = "create" \/ (o.op = "rmtree" /\ o.dir = f.raw)
           /\ IsWrite(o) => /\ Fits(f, d, o)
                            /\ o \in EarlySteps(f, d) \cup LateSteps(f, d)
                            /\ mode = "parse" => o \in EarlySteps(f, d)
                            /\ mode = "stdout" => o \in EarlySteps(f, d) \cup JsonSteps(f, d)
<1>1. CASE mode \in Sweepers
  <2>1. o \in CleanSteps(f) /\ mode \notin {"gen", "parse", "stdout"}
    BY <1>1 DEF StepsOf, Sweepers
  <2>2. o.op \in {"remove", "rmtree"}
    BY <2>1 DEF CleanSteps, RemoveDir, RemoveOne
  <2>3. ~IsWrite(o)
    BY <2>2 DEF IsWrite
  <2> QED
    BY <2>1, <2>2, <2>3
<1>2. o \in EarlySteps(f, d) \cup LateSteps(f, d) => Fits(f, d, o) /\ IsWrite(o)
  BY EarlyIs, LateIs DEF Fits
<1>3. CASE mode = "parse"
  <2>1. o \in RawSteps(f, d) /\ mode \notin Sweepers /\ mode # "stdout"
    BY <1>3 DEF StepsOf, Sweepers
  <2>2. o \in EarlySteps(f, d)
    BY <2>1 DEF EarlySteps
  <2> QED
    BY <1>2, <2>1, <2>2
<1>4. CASE mode = "gen"
  <2>1. o \in EarlySteps(f, d) \cup LateSteps(f, d) /\ mode \notin Sweepers \cup {"stdout", "parse"}
    BY <1>4 DEF StepsOf, Sweepers
  <2> QED
    BY <1>2, <2>1
<1>5. CASE mode = "stdout"
  <2>1. /\ o \in RawSteps(f, d) \cup LogSteps(f) \cup {RemoveDir(f.raw)} \cup JsonSteps(f, d)
        /\ mode \notin Sweepers \cup {"gen", "parse"}
    BY <1>5 DEF StepsOf, Sweepers
  <2>2. CASE o \in RawSteps(f, d) \cup LogSteps(f) \cup JsonSteps(f, d)
    <3>1. o.op = "create"
      BY <2>2 DEF RawSteps, LogSteps, JsonSteps, Create
    <3>2. o \in EarlySteps(f, d) \cup JsonSteps(f, d) /\ o \in EarlySteps(f, d) \cup LateSteps(f, d)
      BY <2>2 DEF EarlySteps, LateSteps
    <3> QED
      BY <1>2, <2>1, <3>1, <3>2
  <2>3. CASE o = RemoveDir(f.raw)
    <3>1. o.op = "rmtree" /\ o.dir = f.raw
      BY <2>3 DEF RemoveDir
    <3> QED
      BY <2>1, <3>1 DEF IsWrite
  <2> QED
    BY <2>1, <2>2, <2>3
<1> QED
  BY <1>1, <1>3, <1>4, <1>5 DEF Modes, Sweepers

\* Only a full run writes what Make is to rebuild, and for its own command line.
LEMMA TargetIs ==
    ASSUME FlagsAssumption, DesignAssumption, NEW g \in DOMAIN Flags, NEW f, f = Flags[g],
           NEW d \in Designs, NEW mode \in Modes, NEW o \in StepsOf(mode, f, d), IsWrite(o),
           NEW h \in DOMAIN Flags, o.path = Target(Flags[h])
    PROVE  /\ mode = "gen" /\ o \in LateSteps(f, d) /\ o.path[3] \notin {".v", ".py", ".sh"}
           /\ o.path # f.log
           /\ o.text = PathsOf(f, Written(f, d))
<1> DEFINE q == Target(Flags[h])
<1>1. q[3] \notin {".v", ".py", ".sh"}
  <2>1. /\ \A p \in ListFiles(Flags[h]) \cup PathFiles(Flags[h]) \cup ProductFiles(Flags[h]) \cup JsonFiles(Flags[h])
                      \cup {Flags[h].log} :
              p[3] # ".v" /\ p[3] # ".py" /\ p[3] # ".sh" /\ Covered(Flags[h], p)
    BY Apart, Zenon
  <2>2. Target(Flags[h]) \in ListFiles(Flags[h]) \cup ProductFiles(Flags[h])
    BY Zenon DEF Target, ListFiles, ProductFiles
  <2> QED
    BY <2>1, <2>2
<1>2. \A p \in ToSet(CleanFiles(f)) : p = q => p \in {Vlist(f), Target(f)}
  BY DEF FlagsAssumption
<1>3. /\ f.log \notin ListFiles(f) /\ f.log \notin ProductFiles(f)
      /\ \A p \in JsonFiles(f) : p \notin ListFiles(f) /\ p \notin ProductFiles(f)
  BY Apart, Zenon DEF Disjoint
<1>4. Vlist(f) \in ListFiles(f) /\ Target(f) \in ListFiles(f) \cup ProductFiles(f)
  BY Zenon DEF Target, ListFiles, ProductFiles
<1>5. f.log \in ToSet(CleanFiles(f))
  BY FilesAre
<1>6. q # f.log
  BY <1>2, <1>3, <1>4, <1>5
<1>7. /\ o.text = TextAt(f, d, o.path)
      /\ mode \notin Sweepers
      /\ o \in EarlySteps(f, d) \cup LateSteps(f, d)
      /\ mode = "parse" => o \in EarlySteps(f, d)
      /\ mode = "stdout" => o \in EarlySteps(f, d) \cup JsonSteps(f, d)
  BY StepIs DEF IsWrite, Fits
<1>8. o \notin EarlySteps(f, d) /\ o \in LateSteps(f, d)
  <2>1. ASSUME o \in EarlySteps(f, d) PROVE FALSE
    <3>1. o.path[3] \in {".v", ".py"} \/ o.path = f.log
      BY <2>1, EarlyIs
    <3> QED
      BY <1>1, <1>6, <3>1
  <2> QED
    BY <1>7, <2>1
<1>9. q = Target(f)
  <2>1. /\ o.path[3] = ".sh" \/ o.path \in ToSet(CleanFiles(f))
        /\ o.path = Vlist(f) => Target(f) = Vlist(f)
    BY <1>8, LateIs
  <2> QED
    BY <1>1, <1>2, <2>1
<1>10. mode # "stdout"
  <2>1. ASSUME o \in JsonSteps(f, d) PROVE FALSE
    <3>1. PICK p \in JsonFiles(f) : o = Create(p, d.sources)
      BY <2>1, Zenon DEF JsonSteps, JsonFiles
    <3>2. o.path \in JsonFiles(f)
      BY <3>1 DEF Create
    <3> QED
      BY <1>3, <1>4, <1>9, <3>2
  <2> QED
    BY <1>7, <1>8, <2>1
<1>11. mode = "gen"
  BY <1>7, <1>8, <1>10 DEF Modes, Sweepers
<1>12. TextAt(f, d, q) = PathsOf(f, Written(f, d))
  BY <1>1, <1>9 DEF TextAt
<1> QED
  BY <1>1, <1>6, <1>7, <1>8, <1>11, <1>12

-----------------------------------------------------------------------------
(* One step of a run. *)

\* The operation that is being done.
Now(k, c) ==
    /\ k \in Nat /\ k + 1 \in DOMAIN Ops /\ c = Ops[k + 1]
    /\ c \in StepsOf(job.mode, Flags[job.flags], design)
    /\ Left(Ops, k)
    /\ job.mode # "stdout" => \A i \in 1 .. k : Performed(Ops[i])
    /\ \/ Head(todo) = c
       \/ IsWrite(c) /\ Head(todo) = [c EXCEPT !.op = "fill"]

LEMMA NowIs ==
    ASSUME FlagsAssumption, DesignAssumption, OutputInv, ~Idle
    PROVE  \E k, c : Now(k, c)
<1>1. PICK k \in 0 .. Len(Ops) : /\ Left(Ops, k)
                                 /\ job.mode # "stdout" => \A i \in 1 .. k : Performed(Ops[i])
  BY Zenon DEF OutputInv, Progress, Current
<1>2. Ops \in Seq(StepsOf(job.mode, Flags[job.flags], design))
  BY ProgramIs DEF OutputInv, Store, Ops
<1>3. PICK ops : ops = Ops
  OBVIOUS
<1>4. todo \in Seq(ToSet(todo)) /\ Len(todo) = Len(ops) - k
  BY <1>1, <1>3 DEF Left
<1>5. todo # <<>>
  BY DEF Idle
<1>6. Head(todo) = todo[1] /\ Len(todo) \in Nat \ {0}
  BY <1>4, <1>5
<1>7. k \in Nat /\ k + 1 \in DOMAIN ops /\ ops[k + 1] \in StepsOf(job.mode, Flags[job.flags], design)
  <2>1. Len(ops) \in Nat /\ DOMAIN ops = 1 .. Len(ops)
    BY <1>2, <1>3
  <2>2. k + 1 \in 1 .. Len(ops)
    BY <1>3, <1>4, <1>6, <2>1
  <2> QED
    BY <1>2, <1>3, <2>1, <2>2
<1>8. 1 \in 1 .. Len(todo)
  BY <1>6
<1>9. \/ todo[1] = ops[k + 1]
      \/ IsWrite(ops[k + 1]) /\ todo[1] = [ops[k + 1] EXCEPT !.op = "fill"]
  BY <1>1, <1>3, <1>8, Zenon DEF Left
<1>10. Now(k, ops[k + 1])
  BY <1>1, <1>3, <1>6, <1>7, <1>9, Zenon DEF Now
<1> QED
  BY <1>10

\* What is to do next.
LEMMA HeadIs ==
    ASSUME FlagsAssumption, DesignAssumption, OutputInv, NEW k, NEW c, Now(k, c)
    PROVE  /\ c.op \in {"put", "create", "remove", "rmtree"}
           /\ \/ Head(todo) = c
              \/ /\ IsWrite(c) /\ Head(todo).op = "fill"
                 /\ Head(todo).path = c.path /\ Head(todo).text = c.text
           /\ job.mode \in Sweepers => c.op \in {"remove", "rmtree"}
           /\ job.mode \in {"gen", "parse"} => IsWrite(c)
           /\ job.mode = "stdout" => c.op = "create" \/ (c.op = "rmtree" /\ c.dir = Flags[job.flags].raw)
           /\ IsWrite(c) => Fits(Flags[job.flags], design, c)
<1>1. /\ job.mode \in Modes /\ job.flags \in DOMAIN Flags /\ design \in Designs
      /\ c \in StepsOf(job.mode, Flags[job.flags], design)
  BY DEF OutputInv, Store, Now
<1>2. /\ job.mode \in Sweepers => c.op \in {"remove", "rmtree"}
      /\ job.mode \in {"gen", "parse"} => IsWrite(c)
      /\ job.mode = "stdout" => c.op = "create" \/ (c.op = "rmtree" /\ c.dir = Flags[job.flags].raw)
      /\ IsWrite(c) => Fits(Flags[job.flags], design, c)
  BY <1>1, StepIs
<1>3. c.op \in {"put", "create", "remove", "rmtree"}
  BY <1>1, <1>2 DEF Modes, Sweepers, IsWrite
<1>4. ASSUME IsWrite(c), NEW o, o = [c EXCEPT !.op = "fill"]
      PROVE  o.op = "fill" /\ o.path = c.path /\ o.text = c.text
  <2>1. c = [op |-> c.op, path |-> c.path, text |-> c.text]
    BY <1>2, <1>4 DEF Fits
  <2> QED
    BY <1>4, <2>1
<1>5. \/ Head(todo) = c
      \/ IsWrite(c) /\ Head(todo) = [c EXCEPT !.op = "fill"]
  BY Zenon DEF Now
<1> QED
  BY <1>2, <1>3, <1>4, <1>5

LEMMA Own ==
    ASSUME NEW S, NEW s \in Seq(S)
    PROVE  s \in Seq(ToSet(s))
<1>1. DOMAIN s = 1 .. Len(s) /\ Len(s) \in Nat /\ s = [i \in 1 .. Len(s) |-> s[i]]
  OBVIOUS
<1>2. \A i \in 1 .. Len(s) : s[i] \in ToSet(s)
  BY <1>1 DEF ToSet
<1> QED
  BY <1>1, <1>2

LEMMA MovesOn ==
    ASSUME NEW ops, NEW S, ops \in Seq(S), NEW k \in Nat, Left(ops, k), ~Idle, todo' = Tail(todo)
    PROVE  Left(ops, k + 1)'
<1>1. PICK s, t : s = todo /\ t = todo'
  OBVIOUS
<1>2. s \in Seq(ToSet(s)) /\ s # <<>> /\ t = Tail(s) /\ Len(s) = Len(ops) - k
  BY <1>1 DEF Left, Idle
<1>3. /\ Len(s) \in Nat \ {0} /\ Len(t) = Len(s) - 1 /\ t \in Seq(ToSet(s))
      /\ \A i \in 1 .. Len(t) : t[i] = s[i + 1]
  BY <1>2
<1>4. t \in Seq(ToSet(t))
  BY <1>3, Own
<1>5. Len(ops) \in Nat /\ k + 1 \in 0 .. Len(ops) /\ Len(t) = Len(ops) - (k + 1)
  BY <1>2, <1>3
<1>6. ASSUME NEW i \in 1 .. Len(t)
      PROVE  t[i] = ops[(k + 1) + i]
  <2>1. i + 1 \in 1 .. Len(s) /\ i + 1 # 1 /\ k + (i + 1) = (k + 1) + i
    BY <1>3
  <2>2. s[i + 1] = ops[k + (i + 1)]
    BY <1>1, <2>1 DEF Left
  <2> QED
    BY <1>3, <2>1, <2>2
<1> QED
  BY <1>1, <1>4, <1>5, <1>6 DEF Left

LEMMA OpensFile ==
    ASSUME NEW ops, NEW S, ops \in Seq(S), NEW k \in Nat, Left(ops, k), ~Idle,
           IsWrite(ops[k + 1]), Head(todo) = ops[k + 1],
           todo' = <<[Head(todo) EXCEPT !.op = "fill"]>> \o Tail(todo)
    PROVE  Left(ops, k)'
<1>1. PICK s, t, x : s = todo /\ t = todo' /\ x = [ops[k + 1] EXCEPT !.op = "fill"]
  OBVIOUS
<1>2. s \in Seq(ToSet(s)) /\ s # <<>> /\ Len(s) = Len(ops) - k
  BY <1>1 DEF Left, Idle
<1>a. t = <<x>> \o Tail(s)
  BY <1>1, Zenon
<1>3. PICK R : R = ToSet(s) \cup {x}
  OBVIOUS
<1>4. PICK u \in Seq(R), v \in Seq(R) : u = <<x>> /\ v = Tail(s)
  <2>1. Tail(s) \in Seq(ToSet(s)) /\ ToSet(s) \subseteq R /\ x \in R
    BY <1>2, <1>3
  <2>2. Tail(s) \in Seq(R)
    BY <2>1, Grown
  <2>3. <<x>> \in Seq(R)
    BY <2>1
  <2> QED
    BY <2>2, <2>3
<1>5. t = u \o v /\ Len(u) = 1 /\ u[1] = x
  BY <1>a, <1>4
<1>6. /\ Len(s) \in Nat \ {0} /\ Len(v) = Len(s) - 1
      /\ \A i \in 1 .. Len(v) : v[i] = s[i + 1]
  BY <1>2, <1>4
<1>7. /\ Len(t) = Len(u) + Len(v) /\ t \in Seq(R)
      /\ \A i \in 1 .. Len(u) + Len(v) : t[i] = IF i <= Len(u) THEN u[i] ELSE v[i - Len(u)]
  BY <1>4, <1>5, ConcatProperties
<1>8. Len(t) = Len(s)
  BY <1>5, <1>6, <1>7
<1>9. ASSUME NEW i \in 1 .. Len(t)
      PROVE  t[i] = IF i = 1 THEN x ELSE s[i]
  <2>1. CASE i = 1
    BY <1>5, <1>6, <1>7, <1>8, <2>1
  <2>2. CASE i # 1
    <3>1. i - 1 \in 1 .. Len(v) /\ ~(i <= Len(u)) /\ i - Len(u) = i - 1 /\ (i - 1) + 1 = i
      BY <1>5, <1>6, <1>8, <2>2
    <3>2. i \in 1 .. Len(u) + Len(v)
      BY <1>7
    <3>3. t[i] = v[i - Len(u)]
      BY <1>7, <3>1, <3>2
    <3>4. v[i - 1] = s[(i - 1) + 1]
      BY <1>6, <3>1
    <3> QED
      BY <2>2, <3>1, <3>3, <3>4
  <2> QED
    BY <2>1, <2>2
<1>10. t \in Seq(ToSet(t))
  BY <1>7, Own
<1>11. ASSUME NEW i \in 1 .. Len(t)
       PROVE  t[i] = ops[k + i] \/ (i = 1 /\ IsWrite(ops[k + 1]) /\ t[1] = [ops[k + 1] EXCEPT !.op = "fill"])
  <2>1. CASE i = 1
    BY <1>1, <1>9, <2>1
  <2>2. CASE i # 1
    <3>1. s[i] = ops[k + i]
      BY <1>1, <1>8, <2>2 DEF Left
    <3> QED
      BY <1>9, <2>2, <3>1
  <2> QED
    BY <2>1, <2>2
<1>12. k \in 0 .. Len(ops) /\ Len(t) = Len(ops) - k
  BY <1>2, <1>8 DEF Left
<1> QED
  BY <1>1, <1>10, <1>11, <1>12 DEF Left

LEMMA HaveIs ==
    ASSUME NEW o, NEW w, Have(o, w)
    PROVE  /\ Exists' = Exists \cup {o.path}
           /\ disk'[o.path].text = o.text /\ disk'[o.path].whole = w
           /\ disk'[o.path].at = run /\ disk'[o.path].by = job.flags
           /\ \A p \in Exists : p # o.path => disk'[p] = disk[p]
BY DEF Have, File, Exists

LEMMA WithoutIs ==
    ASSUME NEW P, disk' = Without(P)
    PROVE  Exists' = Exists \ P /\ \A p \in Exists' : disk'[p] = disk[p]
BY DEF Without, Exists

LEMMA RestIs ==
    ASSUME OutputInv, NEW ops, Rest(ops)
    PROVE  /\ todo' = ops /\ job'.mode = job.mode /\ job'.flags = job.flags
           /\ job' \in [mode : Modes, flags : DOMAIN Flags, done : BOOLEAN]
           /\ job'.done <=> Idle'
           /\ design' = design /\ edited' = edited /\ run' = run /\ stops' = stops
           /\ swept' = swept /\ cut' = cut /\ Ops' = Ops
<1>1. job \in [mode : Modes, flags : DOMAIN Flags, done : BOOLEAN]
  BY DEF OutputInv, Store
<1>2. /\ todo' = ops /\ job' = [job EXCEPT !.done = (ops = <<>>)]
      /\ design' = design /\ edited' = edited /\ run' = run /\ stops' = stops
      /\ swept' = swept /\ cut' = cut
  BY DEF Rest
<1>3. /\ job'.mode = job.mode /\ job'.flags = job.flags /\ job'.done = (ops = <<>>)
      /\ job' \in [mode : Modes, flags : DOMAIN Flags, done : BOOLEAN]
  BY <1>1, <1>2
<1>4. Ops' = Ops
  BY <1>2, <1>3, Zenon DEF Ops
<1> QED
  BY <1>2, <1>3, <1>4 DEF Idle

LEMMA StoreKept ==
    ASSUME OutputInv, ~Idle, NEW ops, Rest(ops),
           \A p \in Exists' : /\ disk'[p].by \in DOMAIN Flags
                              /\ disk'[p].at \in Nat /\ disk'[p].at <= run
    PROVE  Store'
<1>1. /\ todo' = ops /\ job'.mode = job.mode /\ job'.flags = job.flags
      /\ job' \in [mode : Modes, flags : DOMAIN Flags, done : BOOLEAN]
      /\ job'.done <=> Idle'
      /\ design' = design /\ edited' = edited /\ run' = run /\ swept' = swept
  BY RestIs
<1>2. /\ run \in Nat /\ edited \in Nat /\ edited <= run /\ edited < run
      /\ design \in Designs
      /\ job.mode \in Sweepers => job.flags \in swept
  BY DEF OutputInv, Store
<1> QED
  BY <1>1, <1>2 DEF Store

LEMMA OpsAre ==
    ASSUME FlagsAssumption, DesignAssumption, OutputInv
    PROVE  /\ Ops \in Seq(StepsOf(job.mode, Flags[job.flags], design))
           /\ job.mode \in {"gen", "parse"} =>
                 \A i \in DOMAIN Ops : IsWrite(Ops[i]) /\ Fits(Flags[job.flags], design, Ops[i])
<1>1. job.mode \in Modes /\ job.flags \in DOMAIN Flags /\ design \in Designs
  BY DEF OutputInv, Store
<1>2. Ops \in Seq(StepsOf(job.mode, Flags[job.flags], design))
  BY <1>1, ProgramIs DEF Ops
<1>3. PICK ops : ops = Ops
  OBVIOUS
<1>4. \A i \in DOMAIN ops : ops[i] \in StepsOf(job.mode, Flags[job.flags], design)
  BY <1>2, <1>3
<1>5. \A i \in DOMAIN ops : job.mode \in {"gen", "parse"} =>
          IsWrite(ops[i]) /\ Fits(Flags[job.flags], design, ops[i])
  BY <1>1, <1>4, StepIs
<1> QED
  BY <1>2, <1>3, <1>5

\* The run goes on to its next operation.
LEMMA ProgressKept ==
    ASSUME FlagsAssumption, DesignAssumption, OutputInv, ~Idle, NEW k, NEW c, Now(k, c),
           Rest(Tail(todo)),
           job.mode # "stdout" => \A i \in 1 .. k + 1 : Performed(Ops[i])'
    PROVE  Progress'
<1>1. PICK ops : ops = Ops
  OBVIOUS
<1>2. /\ ops \in Seq(StepsOf(job.mode, Flags[job.flags], design)) /\ Left(ops, k) /\ k \in Nat
      /\ k + 1 \in DOMAIN ops
  BY <1>1, OpsAre DEF Now
<1>3. todo' = Tail(todo) /\ Ops' = ops /\ job'.mode = job.mode
  BY <1>1, RestIs
<1>4. Left(ops, k + 1)'
  BY <1>2, <1>3, MovesOn
<1>5. k + 1 \in 0 .. Len(ops)
  BY <1>2
<1> QED
  BY <1>1, <1>3, <1>4, <1>5, Zenon DEF Progress

LEMMA LeaveAloneKeeps ==
    ASSUME FlagsAssumption, DesignAssumption, OutputInv, ~Idle, LeaveAlone
    PROVE  OutputInv'
<1>1. Head(todo).op = "put" /\ There(Head(todo)) /\ disk' = disk /\ Rest(Tail(todo))
  BY DEF LeaveAlone, UpToDate, There
<1>2. PICK k, c : Now(k, c)
  BY NowIs
<1>3. c = Head(todo) /\ IsWrite(c) /\ job.mode \notin Sweepers
  BY <1>1, <1>2, HeadIs DEF IsWrite
<1>4. /\ todo' = Tail(todo) /\ job'.mode = job.mode /\ job'.flags = job.flags
      /\ job'.done <=> Idle'
      /\ design' = design /\ edited' = edited /\ run' = run
      /\ swept' = swept /\ cut' = cut /\ Ops' = Ops
  BY <1>1, RestIs
<1>5. Store'
  BY <1>1, StoreKept DEF OutputInv, Store, Exists
<1>6. Owned' /\ Scripts'
  BY <1>1 DEF OutputInv, Owned, Scripts, Exists
<1>7. job.mode # "stdout" => \A i \in 1 .. k + 1 : Performed(Ops[i])'
  <2>1. SUFFICES ASSUME job.mode # "stdout", NEW i \in 1 .. k + 1 PROVE Performed(Ops[i])'
    OBVIOUS
  <2>2. job.mode \in {"gen", "parse"}
    BY <1>3, <2>1 DEF OutputInv, Store, Modes, Sweepers
  <2>3. PICK o : o = Ops[i]
    OBVIOUS
  <2>4. k \in Nat /\ k + 1 \in DOMAIN Ops /\ c = Ops[k + 1] /\ DOMAIN Ops = 1 .. Len(Ops) /\ Len(Ops) \in Nat
    BY <1>2, OpsAre DEF Now
  <2>5. IsWrite(o)
    BY <2>2, <2>3, <2>4, OpsAre
  <2>6. There(o)
    <3>1. CASE i \in 1 .. k
      <4>1. Performed(o)
        BY <1>2, <2>1, <2>3, <3>1 DEF Now
      <4> QED
        BY <1>1, <2>5, <4>1 DEF Performed, Filling
    <3>2. CASE i = k + 1
      BY <1>1, <1>3, <2>3, <2>4, <3>2
    <3> QED
      BY <2>4, <3>1, <3>2
  <2>7. There(o)'
    BY <1>1, <2>6 DEF There, Exists
  <2>8. o = Ops[i]'
    BY <1>4, <2>3
  <2>9. o.op \notin {"remove", "rmtree"}
    BY <2>5 DEF IsWrite
  <2>10. Performed(o)'
    BY <2>7, <2>9 DEF Performed
  <2> QED
    BY <2>8, <2>10
<1>8. Progress'
  BY <1>1, <1>2, <1>7, ProgressKept
<1>9. MakeInv'
  <2>1. \A l : Trusted(l)' => Trusted(l)
    BY <1>1, <1>3, <1>4 DEF Trusted, Unswept, Sweeping, Exists, Sweepers
  <2>2. \A p, m : Kept(p, m) => Kept(p, m)'
    BY <1>1 DEF Kept, Exists
  <2>3. \A l : Entries(l)' = Entries(l)
    BY <1>1 DEF Entries
  <2> QED
    BY <1>1, <1>4, <2>1, <2>2, <2>3 DEF OutputInv, MakeInv
<1> QED
  BY <1>5, <1>6, <1>8, <1>9 DEF OutputInv

LEMMA WriteKeeps ==
    ASSUME FlagsAssumption, DesignAssumption, OutputInv, ~Idle, NEW k, NEW c, Now(k, c), IsWrite(c),
           NEW o, o.path = c.path, o.text = c.text, NEW w, Have(o, w), NEW ops, Rest(ops)
    PROVE  Store' /\ Owned' /\ Scripts'
<1>1. /\ Exists' = Exists \cup {c.path}
      /\ disk'[c.path].text = c.text /\ disk'[c.path].whole = w
      /\ disk'[c.path].at = run /\ disk'[c.path].by = job.flags
      /\ \A p \in Exists : p # c.path => disk'[p] = disk[p]
  BY HaveIs
<1>2. /\ run \in Nat /\ job.flags \in DOMAIN Flags /\ design \in Designs
      /\ \A p \in Exists : /\ disk[p].by \in DOMAIN Flags
                           /\ disk[p].at \in Nat /\ disk[p].at <= run
  BY DEF OutputInv, Store
<1>3. Fits(Flags[job.flags], design, c)
  BY HeadIs
<1>4. Store'
  <2>1. \A p \in Exists' : p = c.path \/ (p \in Exists /\ disk'[p] = disk[p])
    BY <1>1
  <2>2. run <= run
    BY <1>2
  <2>3. \A p \in Exists' : disk'[p].by \in DOMAIN Flags /\ disk'[p].at \in Nat /\ disk'[p].at <= run
    BY <1>1, <1>2, <2>1, <2>2
  <2> QED
    BY <2>3, StoreKept
<1>5. Owned'
  <2>1. Covered(Flags[job.flags], c.path)
    BY <1>3 DEF Fits
  <2> QED
    BY <1>1, <2>1 DEF OutputInv, Owned
<1>6. Scripts'
  <2>1. c.path[3] = ".sh" => c.text = CleanOutputs(Flags[job.flags])
    BY <1>3 DEF Fits, TextAt
  <2> QED
    BY <1>1, <2>1 DEF OutputInv, Scripts
<1> QED
  BY <1>4, <1>5, <1>6

\* A module's file, written at all, has the module's text.
LEMMA ModuleText ==
    ASSUME FlagsAssumption, DesignAssumption, OutputInv, NEW c, Fits(Flags[job.flags], design, c),
           NEW h, NEW m \in ToSet(design.files), c.path = Dest(h, m)
    PROVE  c.text = m.text /\ c.path[3] = ".v"
<1>1. c.path[2] = m.name /\ c.path[3] = ".v"
  BY DEF Dest
<1>2. design \in Designs
  BY DEF OutputInv, Store
<1>3. PICK f, d, p : f = Flags[job.flags] /\ d = design /\ p = c.path
  OBVIOUS
<1>4. c.text = TextAt(f, d, p)
  BY <1>3 DEF Fits
<1>5. p[2] = m.name /\ p[3] = ".v" /\ p[3] # ".py" /\ m \in ToSet(d.files) /\ d \in Designs
  BY <1>1, <1>2, <1>3
<1>6. TextAt(f, d, p) = (CHOOSE n \in ToSet(d.files) : n.name = p[2]).text
  BY <1>5, Zenon DEF TextAt
<1>7. (CHOOSE n \in ToSet(d.files) : n.name = p[2]) = m
  BY <1>5 DEF DesignAssumption
<1> QED
  BY <1>1, <1>4, <1>6, <1>7

LEMMA TruncateKeeps ==
    ASSUME FlagsAssumption, DesignAssumption, OutputInv, ~Idle, Truncate
    PROVE  OutputInv'
<1>1. PICK k, c : Now(k, c)
  BY NowIs
<1>2. PICK fill, rest : fill = [Head(todo) EXCEPT !.op = "fill"] /\ rest = <<fill>> \o Tail(todo)
  OBVIOUS
<1>3. /\ Head(todo).op \in {"put", "create"} /\ ~UpToDate(Head(todo))
      /\ Have(Head(todo), FALSE) /\ Rest(rest)
  BY <1>2, Zenon DEF Truncate
<1>4. c = Head(todo) /\ IsWrite(c) /\ job.mode \notin Sweepers
  BY <1>1, <1>3, HeadIs DEF IsWrite
<1>5. Fits(Flags[job.flags], design, c)
  BY <1>1, <1>4, HeadIs
<1>6. fill.op = "fill" /\ fill.path = c.path /\ fill.text = c.text
  <2>1. c = [op |-> c.op, path |-> c.path, text |-> c.text]
    BY <1>5 DEF Fits
  <2> QED
    BY <1>2, <1>4, <2>1
<1>7. /\ todo' = rest /\ job'.mode = job.mode /\ job'.flags = job.flags
      /\ design' = design /\ edited' = edited /\ run' = run
      /\ swept' = swept /\ cut' = cut /\ Ops' = Ops
  BY <1>3, RestIs
<1>8. /\ Exists' = Exists \cup {c.path}
      /\ disk'[c.path].text = c.text /\ disk'[c.path].whole = FALSE
      /\ disk'[c.path].at = run /\ disk'[c.path].by = job.flags
      /\ \A p \in Exists : p # c.path => disk'[p] = disk[p]
  BY <1>3, <1>4, HaveIs
<1>9. Store' /\ Owned' /\ Scripts'
  BY <1>1, <1>3, <1>4, WriteKeeps
<1>10. PICK ops : ops = Ops
  OBVIOUS
<1>11. /\ ops \in Seq(StepsOf(job.mode, Flags[job.flags], design)) /\ Left(ops, k) /\ k \in Nat
       /\ k + 1 \in DOMAIN ops /\ c = ops[k + 1] /\ DOMAIN ops = 1 .. Len(ops) /\ Len(ops) \in Nat
  BY <1>1, <1>10, OpsAre DEF Now
<1>12. Left(ops, k)'
  BY <1>2, <1>4, <1>7, <1>11, OpensFile
<1>13. todo' # <<>> /\ Head(todo') = fill
  <2>1. todo \in Seq(ToSet(todo)) /\ todo # <<>>
    BY <1>11 DEF Left, Idle
  <2>2. PICK R : R = ToSet(todo) \cup {fill}
    OBVIOUS
  <2>3. Tail(todo) \in Seq(R) /\ fill \in R
    <3>1. Tail(todo) \in Seq(ToSet(todo)) /\ ToSet(todo) \subseteq R /\ fill \in R
      BY <2>1, <2>2
    <3> QED
      BY <3>1, Grown
  <2>a. <<fill>> \in Seq(R)
    BY <2>3
  <2>4. PICK u \in Seq(R), v \in Seq(R) : u = <<fill>> /\ v = Tail(todo)
    BY <2>3, <2>a
  <2>5. Len(u) = 1 /\ u[1] = fill /\ Len(v) \in Nat
    BY <2>4
  <2>6. /\ rest \in Seq(R) /\ Len(rest) = Len(u) + Len(v)
        /\ \A i \in 1 .. Len(u) + Len(v) : rest[i] = IF i <= Len(u) THEN u[i] ELSE v[i - Len(u)]
    BY <1>2, <2>4, ConcatProperties
  <2>7. rest[1] = fill /\ Len(rest) # 0
    BY <2>5, <2>6
  <2>8. rest # <<>> /\ Head(rest) = rest[1]
    BY <2>6, <2>7
  <2> QED
    BY <1>7, <2>7, <2>8
<1>14. job.mode # "stdout" => \A i \in 1 .. k : Performed(Ops[i])'
  <2>1. SUFFICES ASSUME job.mode # "stdout", NEW i \in 1 .. k PROVE Performed(Ops[i])'
    OBVIOUS
  <2>2. job.mode \in {"gen", "parse"}
    BY <1>4, <2>1 DEF OutputInv, Store, Modes, Sweepers
  <2>3. PICK o : o = Ops[i]
    OBVIOUS
  <2>4. i \in DOMAIN ops
    BY <1>11
  <2>5. IsWrite(o)
    BY <1>10, <2>2, <2>3, <2>4, OpsAre
  <2>6. There(o)
    <3>1. Performed(o)
      BY <1>1, <2>1, <2>3 DEF Now
    <3>2. ~Filling
      BY <1>3 DEF Filling
    <3> QED
      BY <2>5, <3>1, <3>2 DEF Performed
  <2>7. o.op \notin {"remove", "rmtree"}
    BY <2>5 DEF IsWrite
  <2>8. CASE o.path = c.path
    <3>1. Filling' /\ Head(todo').path = o.path
      BY <1>6, <1>13, <2>8 DEF Filling, Idle
    <3>2. Performed(o)'
      BY <2>7, <3>1 DEF Performed
    <3> QED
      BY <1>7, <2>3, <3>2
  <2>9. CASE o.path # c.path
    <3>1. There(o)'
      BY <1>8, <2>6, <2>9 DEF There
    <3>2. Performed(o)'
      BY <2>7, <3>1 DEF Performed
    <3> QED
      BY <1>7, <2>3, <3>2
  <2> QED
    BY <2>8, <2>9
<1>15. Progress'
  <2>1. Ops' = ops /\ k \in 0 .. Len(ops)
    BY <1>7, <1>10, <1>11
  <2> QED
    BY <1>7, <1>10, <1>12, <1>14, <2>1, Zenon DEF Progress
<1>16. MakeInv'
  <2>1. SUFFICES ASSUME NEW g \in DOMAIN Flags, NEW l, l = Target(Flags[g]), Trusted(l)',
                        NEW m \in ToSet(design.files), NEW p, p = Dest(Flags[disk'[l].by], m), p \in Entries(l)'
                 PROVE  Kept(p, m)'
    BY <1>7, Zenon DEF MakeInv
  <2>2. l # c.path
    BY <1>8, <2>1 DEF Trusted
  <2>3. l \in Exists /\ disk'[l] = disk[l]
    BY <1>8, <2>1, <2>2 DEF Trusted
  <2>4. Trusted(l)
    BY <1>4, <1>7, <2>1, <2>3 DEF Trusted, Unswept, Sweeping, Sweepers
  <2>5. Kept(p, m)
    BY <2>1, <2>3, <2>4, Zenon DEF OutputInv, MakeInv, Entries
  <2>6. CASE p = c.path
    <3>1. c.text = m.text /\ c.path[3] = ".v"
      BY <1>5, <2>1, <2>6, ModuleText
    <3>2. c.op = "put"
      <4>1. c \in StepsOf(job.mode, Flags[job.flags], design)
        BY <1>1 DEF Now
      <4>2. c \in EarlySteps(Flags[job.flags], design) \cup LateSteps(Flags[job.flags], design)
        BY <1>4, <4>1, StepIs DEF OutputInv, Store
      <4> QED
        BY <3>1, <4>2, EarlyIs, LateIs DEF OutputInv, Store
    <3>3. UpToDate(c)
      BY <2>5, <2>6, <3>1, <3>2 DEF Kept, UpToDate
    <3> QED
      BY <1>3, <1>4, <3>3
  <2>7. CASE p # c.path
    BY <1>8, <2>5, <2>7 DEF Kept
  <2> QED
    BY <2>6, <2>7
<1> QED
  BY <1>9, <1>15, <1>16 DEF OutputInv

\* By the time a list is written, the files it names are.
LEMMA ListAfterFiles ==
    ASSUME FlagsAssumption, DesignAssumption, OutputInv, NEW k, NEW c, Now(k, c), IsWrite(c),
           Head(todo).op = "fill", Head(todo).path = c.path,
           NEW g \in DOMAIN Flags, c.path = Target(Flags[g]),
           NEW m \in ToSet(design.files), NEW p, p = Dest(Flags[job.flags], m), p \in ToSet(c.text)
    PROVE  Kept(p, m)
<1>1. PICK f, d, ops : f = Flags[job.flags] /\ d = design /\ ops = Ops
  OBVIOUS
<1>2. /\ job.mode \in Modes /\ job.flags \in DOMAIN Flags /\ d \in Designs
      /\ c \in StepsOf(job.mode, f, d)
  BY <1>1 DEF OutputInv, Store, Now
<1>3. /\ job.mode = "gen" /\ c \in LateSteps(f, d) /\ c.path[3] \notin {".v", ".py", ".sh"}
      /\ c.path # f.log /\ c.text = PathsOf(f, Written(f, d))
  BY <1>1, <1>2, TargetIs
<1>4. PICK n \in ToSet(d.files) : ~Filtered(f, n) /\ p = Dest(f, n)
  BY <1>1, <1>2, <1>3, PathsAre
<1>5. p[2] = n.name /\ p[2] = m.name /\ p[3] = ".v"
  BY <1>1, <1>4 DEF Dest
<1>6. n = m
  BY <1>1, <1>2, <1>4, <1>5 DEF DesignAssumption
<1>7. PICK a \in Seq(EarlySteps(f, d)), b \in Seq(LateSteps(f, d)) :
         /\ Program("gen", f, d) = a \o b
         /\ \A x \in ToSet(d.files) : ~Filtered(f, x) => Put(Dest(f, x), x.text) \in ToSet(a)
  BY <1>2, GenIs
<1>8. ops = a \o b
  BY <1>1, <1>3, <1>7 DEF Ops, OpsOf
<1>9. PICK i \in DOMAIN a : a[i] = Put(p, m.text)
  BY <1>4, <1>6, <1>7 DEF ToSet
<1>10. /\ Len(a) \in Nat /\ DOMAIN a = 1 .. Len(a) /\ Len(b) \in Nat /\ i \in Nat
       /\ \A j \in DOMAIN a : a[j] \in EarlySteps(f, d)
  BY <1>7, <1>9
<1>11. /\ Len(ops) = Len(a) + Len(b)
       /\ \A j \in 1 .. Len(a) + Len(b) : ops[j] = IF j <= Len(a) THEN a[j] ELSE b[j - Len(a)]
  <2>1. PICK R : R = EarlySteps(f, d) \cup LateSteps(f, d)
    OBVIOUS
  <2>2. a \in Seq(R) /\ b \in Seq(R)
    BY <1>7, <2>1, Grown
  <2> QED
    BY <1>8, <2>2, ConcatProperties
<1>12. k \in Nat /\ k + 1 \in 1 .. Len(a) + Len(b) /\ c = ops[k + 1]
  <2>1. ops \in Seq(StepsOf(job.mode, f, d))
    BY <1>1, OpsAre
  <2>2. DOMAIN ops = 1 .. Len(ops)
    BY <2>1
  <2> QED
    BY <1>1, <1>11, <2>2 DEF Now
<1>13. ~(k + 1 <= Len(a))
  <2>1. SUFFICES ASSUME k + 1 <= Len(a) PROVE FALSE
    OBVIOUS
  <2>2. c = a[k + 1] /\ k + 1 \in DOMAIN a
    BY <1>10, <1>11, <1>12, <2>1
  <2>3. c.path[3] \in {".v", ".py"} \/ c.path = f.log
    BY <1>1, <1>2, <1>10, <2>2, EarlyIs
  <2> QED
    BY <1>3, <2>3
<1>14. i \in 1 .. k /\ ops[i] = a[i]
  <2>1. i <= Len(a) /\ i \in 1 .. Len(a) + Len(b) /\ i \in 1 .. k
    BY <1>9, <1>10, <1>12, <1>13
  <2> QED
    BY <1>11, <2>1
<1>15. PICK o : o = Put(p, m.text)
  OBVIOUS
<1>16. Performed(o)
  BY <1>1, <1>3, <1>9, <1>14, <1>15 DEF Now
<1>17. o.op = "put" /\ o.path = p /\ o.text = m.text
  BY <1>15 DEF Put
<1>18. p # c.path
  BY <1>3, <1>5
<1>19. There(o)
  BY <1>16, <1>17, <1>18 DEF Performed, IsWrite
<1> QED
  BY <1>17, <1>19 DEF There, Kept

LEMMA FillKeeps ==
    ASSUME FlagsAssumption, DesignAssumption, OutputInv, ~Idle, Fill
    PROVE  OutputInv'
<1>1. PICK k, c : Now(k, c)
  BY NowIs
<1>2. Head(todo).op = "fill" /\ Have(Head(todo), TRUE) /\ Rest(Tail(todo))
  BY DEF Fill
<1>3. IsWrite(c) /\ Head(todo).path = c.path /\ Head(todo).text = c.text /\ job.mode \notin Sweepers
  BY <1>1, <1>2, HeadIs DEF IsWrite
<1>4. Fits(Flags[job.flags], design, c)
  BY <1>1, <1>3, HeadIs
<1>5. /\ todo' = Tail(todo) /\ job'.mode = job.mode /\ job'.flags = job.flags
      /\ design' = design /\ edited' = edited /\ run' = run
      /\ swept' = swept /\ cut' = cut /\ Ops' = Ops
  BY <1>2, RestIs
<1>6. /\ Exists' = Exists \cup {c.path}
      /\ disk'[c.path].text = c.text /\ disk'[c.path].whole = TRUE
      /\ disk'[c.path].at = run /\ disk'[c.path].by = job.flags
      /\ \A p \in Exists : p # c.path => disk'[p] = disk[p]
  BY <1>2, <1>3, HaveIs
<1>7. Store' /\ Owned' /\ Scripts'
  BY <1>1, <1>2, <1>3, WriteKeeps
<1>8. job.mode # "stdout" => \A i \in 1 .. k + 1 : Performed(Ops[i])'
  <2>1. SUFFICES ASSUME job.mode # "stdout", NEW i \in 1 .. k + 1 PROVE Performed(Ops[i])'
    OBVIOUS
  <2>2. job.mode \in {"gen", "parse"}
    BY <1>3, <2>1 DEF OutputInv, Store, Modes, Sweepers
  <2>3. PICK o : o = Ops[i]
    OBVIOUS
  <2>4. k \in Nat /\ k + 1 \in DOMAIN Ops /\ c = Ops[k + 1] /\ DOMAIN Ops = 1 .. Len(Ops) /\ Len(Ops) \in Nat
    BY <1>1, OpsAre DEF Now
  <2>5. IsWrite(o) /\ Fits(Flags[job.flags], design, o)
    BY <2>2, <2>3, <2>4, OpsAre
  <2>6. o.op \notin {"remove", "rmtree"}
    BY <2>5 DEF IsWrite
  <2>7. CASE o.path = c.path
    <3>1. o.text = c.text
      BY <1>4, <2>5, <2>7 DEF Fits
    <3>2. There(o)'
      BY <1>6, <2>7, <3>1 DEF There
    <3>3. Performed(o)'
      BY <2>6, <3>2 DEF Performed
    <3> QED
      BY <1>5, <2>3, <3>3
  <2>8. CASE o.path # c.path
    <3>1. i \in 1 .. k
      <4>1. i # k + 1
        BY <2>3, <2>4, <2>8
      <4> QED
        BY <2>4, <4>1
    <3>2. Performed(o)
      BY <1>1, <2>1, <2>3, <3>1 DEF Now
    <3>3. There(o)
      BY <1>3, <2>5, <2>8, <3>2 DEF Performed
    <3>4. There(o)'
      BY <1>6, <2>8, <3>3 DEF There
    <3>5. Performed(o)'
      BY <2>6, <3>4 DEF Performed
    <3> QED
      BY <1>5, <2>3, <3>5
  <2> QED
    BY <2>7, <2>8
<1>9. Progress'
  BY <1>1, <1>2, <1>8, ProgressKept
<1>10. MakeInv'
  <2>1. SUFFICES ASSUME NEW g \in DOMAIN Flags, NEW l, l = Target(Flags[g]), Trusted(l)',
                        NEW m \in ToSet(design.files), NEW p, p = Dest(Flags[disk'[l].by], m), p \in Entries(l)'
                 PROVE  Kept(p, m)'
    BY <1>5, Zenon DEF MakeInv
  <2>2. CASE p = c.path
    <3>1. PICK h : c.path = Dest(h, m) /\ m \in ToSet(design.files)
      BY <2>1, <2>2
    <3>2. c.text = m.text
      BY <1>4, <3>1, ModuleText
    <3> QED
      BY <1>6, <2>2, <3>2 DEF Kept
  <2>3. CASE l = c.path /\ p # c.path
    <3>1. p = Dest(Flags[job.flags], m) /\ p \in ToSet(c.text)
      BY <1>6, <2>1, <2>3 DEF Entries
    <3>2. Kept(p, m)
      BY <1>1, <1>2, <1>3, <2>1, <2>3, <3>1, ListAfterFiles
    <3> QED
      BY <1>6, <2>3, <3>2 DEF Kept
  <2>4. CASE l # c.path /\ p # c.path
    <3>1. l \in Exists /\ disk'[l] = disk[l]
      BY <1>6, <2>1, <2>4 DEF Trusted
    <3>2. Trusted(l)
      BY <1>3, <1>5, <2>1, <3>1 DEF Trusted, Unswept, Sweeping, Sweepers
    <3>3. Kept(p, m)
      BY <2>1, <3>1, <3>2, Zenon DEF OutputInv, MakeInv, Entries
    <3> QED
      BY <1>6, <2>4, <3>3 DEF Kept
  <2> QED
    BY <2>2, <2>3, <2>4
<1> QED
  BY <1>7, <1>9, <1>10 DEF OutputInv

\* Files are only taken away.
Fewer == Exists' \subseteq Exists /\ \A p \in Exists' : disk'[p] = disk[p]

LEMMA FewerKeeps ==
    ASSUME OutputInv, ~Idle, Fewer, NEW ops, Rest(ops)
    PROVE  Store' /\ Owned' /\ Scripts'
<1>1. \A p \in Exists' : p \in Exists /\ disk'[p] = disk[p]
  BY DEF Fewer
<1>2. Store'
  BY <1>1, StoreKept DEF OutputInv, Store
<1> QED
  BY <1>1, <1>2 DEF OutputInv, Owned, Scripts

\* What a full sweep leaves is not the command line's own.
LEMMA NothingLeft ==
    ASSUME NEW f, NEW E,
           \A o \in ToSet(CleanOutputs(f)) : /\ o.op = "remove" => o.path \notin E
                                             /\ o.op = "rmtree" => \A p \in E : p[1] # o.dir,
           NEW p \in E
    PROVE  ~Covered(f, p)
<1>1. \A o \in CleanSteps(f) : o \in ToSet(CleanOutputs(f))
  BY CleanIs
<1>2. ASSUME NEW x \in {f.raw, f.synth, f.verif} PROVE p[1] # x
  <2>1. RemoveDir(x) \in CleanSteps(f)
    BY DEF CleanSteps
  <2>2. RemoveDir(x).op = "rmtree" /\ RemoveDir(x).dir = x
    BY DEF RemoveDir
  <2> QED
    BY <1>1, <2>1, <2>2
<1>3. ASSUME NEW q \in ToSet(CleanFiles(f)) \cup {Script(f)} PROVE p # q
  <2>1. RemoveOne(q) \in CleanSteps(f)
    BY DEF CleanSteps
  <2>2. RemoveOne(q).op = "remove" /\ RemoveOne(q).path = q
    BY DEF RemoveOne
  <2> QED
    BY <1>1, <2>1, <2>2
<1> QED
  BY <1>2, <1>3 DEF Covered

LEMMA SweepOps ==
    ASSUME job.mode \in Sweepers
    PROVE  Ops = CleanOutputs(Flags[job.flags])
BY DEF Ops, OpsOf, Program, Sweepers

LEMMA SweepKeeps ==
    ASSUME FlagsAssumption, DesignAssumption, OutputInv, ~Idle, NEW k, NEW c, Now(k, c),
           job.mode \in Sweepers, Fewer, Rest(Tail(todo)), Performed(c)'
    PROVE  OutputInv'
<1>1. Store' /\ Owned' /\ Scripts'
  BY FewerKeeps
<1>2. /\ todo' = Tail(todo) /\ job'.mode = job.mode /\ job'.flags = job.flags
      /\ design' = design /\ edited' = edited /\ run' = run
      /\ swept' = swept /\ cut' = cut /\ Ops' = Ops
  BY RestIs
<1>3. PICK ops, f : ops = Ops /\ f = Flags[job.flags]
  OBVIOUS
<1>4. /\ ops \in Seq(StepsOf(job.mode, f, design)) /\ Left(ops, k) /\ k \in Nat
      /\ k + 1 \in DOMAIN ops /\ c = ops[k + 1] /\ DOMAIN ops = 1 .. Len(ops) /\ Len(ops) \in Nat
  BY <1>3, OpsAre DEF Now
<1>5. ops = CleanOutputs(f) /\ ops \in Seq(CleanSteps(f))
  BY <1>3, SweepOps, CleanIs
<1>6. \A i \in DOMAIN ops : ops[i].op \in {"remove", "rmtree"}
  BY <1>5 DEF CleanSteps, RemoveDir, RemoveOne
<1>7. job.mode # "stdout"
  BY DEF Sweepers
<1>8. ASSUME NEW i \in 1 .. k + 1
      PROVE  Performed(ops[i])'
  <2>1. CASE i = k + 1
    BY <1>4, <2>1
  <2>2. CASE i # k + 1
    <3>1. i \in 1 .. k /\ i \in DOMAIN ops
      BY <1>4, <2>2
    <3>2. PICK o : o = ops[i]
      OBVIOUS
    <3>3. Performed(o) /\ o.op \in {"remove", "rmtree"}
      BY <1>3, <1>6, <1>7, <3>1, <3>2 DEF Now
    <3>4. Performed(o)'
      BY <3>3 DEF Performed, Fewer, IsWrite
    <3> QED
      BY <3>2, <3>4
  <2> QED
    BY <2>1, <2>2
<1>9. Progress'
  <2>1. job.mode # "stdout" => \A i \in 1 .. k + 1 : Performed(Ops[i])'
    BY <1>2, <1>3, <1>8
  <2> QED
    BY <2>1, ProgressKept
<1>10. ASSUME Idle' PROVE \A p \in Exists' : disk'[p].by # job.flags
  <2>1. Left(ops, k + 1)'
    BY <1>2, <1>4, MovesOn
  <2>2. todo' = <<>>
    BY <1>10 DEF Idle
  <2>3. 0 = Len(ops) - (k + 1)
    BY <2>1, <2>2 DEF Left
  <2>4. \A i \in DOMAIN ops : i \in 1 .. k + 1
    BY <1>4, <2>3
  <2>5. PICK E : E = Exists'
    OBVIOUS
  <2>6. \A o \in ToSet(ops) : Performed(o)'
    BY <1>8, <2>4 DEF ToSet
  <2>7. \A o \in ToSet(CleanOutputs(f)) : /\ o.op = "remove" => o.path \notin E
                                          /\ o.op = "rmtree" => \A p \in E : p[1] # o.dir
    BY <1>5, <2>5, <2>6 DEF Performed
  <2>8. \A p \in E : ~Covered(f, p)
    BY <2>7, NothingLeft
  <2>9. \A p \in Exists' : Covered(Flags[disk'[p].by], p)
    BY <1>1 DEF Owned
  <2> QED
    BY <1>3, <2>5, <2>8, <2>9
<1>11. MakeInv'
  <2>1. ASSUME NEW l, Trusted(l)' PROVE FALSE
    <3>1. l \in Exists' /\ swept' \subseteq {disk'[l].by} /\ ~Sweeping'
      BY <2>1 DEF Trusted, Unswept
    <3>2. Idle'
      BY <1>2, <3>1 DEF Sweeping, Sweepers
    <3>3. job.flags \in swept
      BY DEF OutputInv, Store
    <3> QED
      BY <1>2, <1>10, <3>1, <3>2, <3>3
  <2> QED
    BY <2>1 DEF MakeInv
<1> QED
  BY <1>1, <1>9, <1>11 DEF OutputInv

LEMMA RemoveFileKeeps ==
    ASSUME FlagsAssumption, DesignAssumption, OutputInv, ~Idle, RemoveFile
    PROVE  OutputInv'
<1>1. PICK k, c : Now(k, c)
  BY NowIs
<1>2. Head(todo).op = "remove" /\ disk' = Without({Head(todo).path}) /\ Rest(Tail(todo))
  BY DEF RemoveFile
<1>3. c = Head(todo) /\ ~IsWrite(c)
  BY <1>1, <1>2, HeadIs DEF IsWrite
<1>4. job.mode \in Sweepers
  BY <1>1, <1>2, <1>3, HeadIs DEF OutputInv, Store, Modes, Sweepers
<1>5. Exists' = Exists \ {c.path} /\ \A p \in Exists' : disk'[p] = disk[p]
  BY <1>2, <1>3, WithoutIs
<1>6. Fewer
  BY <1>5 DEF Fewer
<1>7. Performed(c)'
  BY <1>2, <1>3, <1>5 DEF Performed
<1> QED
  BY <1>1, <1>2, <1>4, <1>6, <1>7, SweepKeeps

LEMMA RemoveTreeKeeps ==
    ASSUME FlagsAssumption, DesignAssumption, OutputInv, ~Idle, RemoveTree
    PROVE  OutputInv'
<1>1. PICK k, c : Now(k, c)
  BY NowIs
<1>2. PICK In : In = {p \in Exists : p[1] = Head(todo).dir}
  OBVIOUS
<1>3. /\ Head(todo).op = "rmtree"
      /\ \/ \E p \in In : disk' = Without({p}) /\ Rest(todo)
         \/ In = {} /\ disk' = disk /\ Rest(Tail(todo))
  BY <1>2, Zenon DEF RemoveTree
<1>4. c = Head(todo) /\ ~IsWrite(c)
  BY <1>1, <1>3, HeadIs DEF IsWrite
<1>5. job.mode \in Sweepers \/ (job.mode = "stdout" /\ c.dir = Flags[job.flags].raw)
  BY <1>1, <1>3, <1>4, HeadIs DEF OutputInv, Store, Modes, Sweepers
<1>6. PICK ops : ops = Ops
  OBVIOUS
<1>7. /\ ops \in Seq(StepsOf(job.mode, Flags[job.flags], design)) /\ Left(ops, k) /\ k \in Nat
      /\ k + 1 \in DOMAIN ops /\ c = ops[k + 1] /\ DOMAIN ops = 1 .. Len(ops) /\ Len(ops) \in Nat
  BY <1>1, <1>6, OpsAre DEF Now
<1>8. ASSUME NEW q \in In, disk' = Without({q}), Rest(todo)
      PROVE  OutputInv'
  <2>1. Exists' = Exists \ {q} /\ \A p \in Exists' : disk'[p] = disk[p]
    BY <1>8, WithoutIs
  <2>2. Fewer
    BY <2>1 DEF Fewer
  <2>3. Store' /\ Owned' /\ Scripts'
    BY <1>8, <2>2, FewerKeeps
  <2>4. /\ todo' = todo /\ job'.mode = job.mode /\ job'.flags = job.flags
        /\ design' = design /\ edited' = edited /\ run' = run
        /\ swept' = swept /\ cut' = cut /\ Ops' = Ops
    BY <1>8, RestIs
  <2>5. Left(ops, k)'
    BY <1>7, <2>4 DEF Left
  <2>6. job.mode # "stdout" => \A i \in 1 .. k : Performed(Ops[i])'
    <3>1. SUFFICES ASSUME job.mode # "stdout", NEW i \in 1 .. k PROVE Performed(ops[i])'
      BY <1>6, <2>4
    <3>2. PICK o : o = ops[i]
      OBVIOUS
    <3>3. ops \in Seq(CleanSteps(Flags[job.flags])) /\ i \in DOMAIN ops
      BY <1>5, <1>6, <1>7, <3>1, SweepOps, CleanIs
    <3>4. o.op \in {"remove", "rmtree"}
      BY <3>2, <3>3 DEF CleanSteps, RemoveDir, RemoveOne
    <3>5. Performed(o)
      BY <1>1, <1>6, <3>1, <3>2 DEF Now
    <3>6. Performed(o)'
      BY <2>2, <3>4, <3>5 DEF Performed, Fewer, IsWrite
    <3> QED
      BY <3>2, <3>6
  <2>7. Progress'
    <3>1. Ops' = ops /\ k \in 0 .. Len(ops) /\ job'.mode = job.mode
      BY <1>6, <1>7, <2>4
    <3> QED
      BY <1>6, <2>5, <2>6, <3>1, Zenon DEF Progress
  <2>8. MakeInv'
    <3>1. SUFFICES ASSUME NEW g \in DOMAIN Flags, NEW l, l = Target(Flags[g]), Trusted(l)',
                          NEW m \in ToSet(design.files), NEW p, p = Dest(Flags[disk'[l].by], m), p \in Entries(l)'
                   PROVE  Kept(p, m)'
      BY <2>4, Zenon DEF MakeInv
    <3>2. l \in Exists /\ disk'[l] = disk[l]
      BY <2>1, <3>1 DEF Trusted
    <3>3. job.mode = "stdout" /\ c.dir = Flags[job.flags].raw
      <4>1. ~Idle'
        BY <2>4 DEF Idle
      <4> QED
        BY <1>5, <2>4, <3>1, <4>1 DEF Trusted, Unswept, Sweeping, Sweepers
    <3>4. Trusted(l)
      BY <2>4, <3>1, <3>2, <3>3 DEF Trusted, Unswept, Sweeping
    <3>5. Kept(p, m)
      BY <3>1, <3>2, <3>4, Zenon DEF OutputInv, MakeInv, Entries
    <3>6. p # q
      <4>1. q[1] = Flags[job.flags].raw
        BY <1>2, <1>4, <1>8, <3>3
      <4>2. PICK h \in DOMAIN Flags : p = Dest(Flags[h], m)
        BY <3>1, <3>2 DEF OutputInv, Store
      <4>3. p[1] \in {Flags[h].synth, Flags[h].verif}
        BY <4>2 DEF Dest
      <4> QED
        BY <4>1, <4>3 DEF FlagsAssumption, OutputInv, Store
    <3> QED
      BY <2>1, <3>5, <3>6 DEF Kept
  <2> QED
    BY <2>3, <2>7, <2>8 DEF OutputInv
<1>9. ASSUME In = {}, disk' = disk, Rest(Tail(todo))
      PROVE  OutputInv'
  <2>1. Fewer /\ Exists' = Exists
    BY <1>9 DEF Fewer, Exists
  <2>2. CASE job.mode \in Sweepers
    <3>1. Performed(c)'
      BY <1>2, <1>3, <1>4, <1>9, <2>1 DEF Performed
    <3> QED
      BY <1>1, <1>9, <2>1, <2>2, <3>1, SweepKeeps
  <2>3. CASE job.mode = "stdout"
    <3>1. Store' /\ Owned' /\ Scripts'
      BY <1>9, <2>1, FewerKeeps
    <3>2. Progress'
      BY <1>1, <1>9, <2>3, ProgressKept
    <3>3. /\ job'.mode = job.mode /\ job'.flags = job.flags
          /\ design' = design /\ edited' = edited
          /\ swept' = swept /\ cut' = cut
      BY <1>9, RestIs
    <3>4. \A l : Trusted(l)' => Trusted(l)
      BY <1>9, <2>1, <2>3, <3>3 DEF Trusted, Unswept, Sweeping
    <3>5. \A p, m : Kept(p, m) => Kept(p, m)'
      BY <1>9, <2>1 DEF Kept
    <3>6. \A l : Entries(l)' = Entries(l)
      BY <1>9 DEF Entries
    <3>7. MakeInv'
      BY <1>9, <3>3, <3>4, <3>5, <3>6 DEF OutputInv, MakeInv
    <3> QED
      BY <3>1, <3>2, <3>7 DEF OutputInv
  <2> QED
    BY <1>5, <2>2, <2>3
<1> QED
  BY <1>3, <1>8, <1>9

LEMMA StopKeeps ==
    ASSUME OutputInv, ~Idle, Stop
    PROVE  OutputInv'
<1>1. /\ todo' = <<>> /\ cut' = (cut \/ job.mode \in {"clean", "script"})
      /\ disk' = disk /\ design' = design /\ edited' = edited /\ job' = job /\ run' = run /\ swept' = swept
  BY DEF Stop
<1>2. Idle'
  BY <1>1 DEF Idle
<1>3. ~job.done
  BY DEF OutputInv, Store
<1>4. Store' /\ Owned' /\ Scripts'
  BY <1>1, <1>2 DEF OutputInv, Store, Owned, Scripts, Exists
<1>5. Progress'
  <2>1. ~Current'
    BY <1>1, <1>2, <1>3 DEF Current
  <2> QED
    BY <2>1, Zenon DEF Progress
<1>6. \A l : Trusted(l)' => Trusted(l)
  BY <1>1 DEF Trusted, Unswept, Sweeping, Exists
<1>7. \A p, m : Kept(p, m) => Kept(p, m)'
  BY <1>1 DEF Kept, Exists
<1>8. \A l : Entries(l)' = Entries(l)
  BY <1>1 DEF Entries
<1>9. MakeInv'
  BY <1>1, <1>6, <1>7, <1>8 DEF OutputInv, MakeInv
<1> QED
  BY <1>4, <1>5, <1>9 DEF OutputInv

-----------------------------------------------------------------------------
(* Between the runs. *)

LEMMA StartKeeps ==
    ASSUME DesignAssumption, OutputInv, NEW mode \in Modes, NEW g \in DOMAIN Flags, NEW ops,
           ops = OpsOf(mode, Flags[g], design), Start(mode, g, ops)
    PROVE  OutputInv'
<1>1. /\ Idle /\ run' = run + 1 /\ job' = [mode |-> mode, flags |-> g, done |-> FALSE]
      /\ todo' = ops
      /\ swept' = IF mode \in {"clean", "script"} THEN swept \cup {g} ELSE swept
      /\ disk' = disk /\ design' = design /\ edited' = edited /\ cut' = cut
  BY DEF Start
<1>2. /\ run \in Nat /\ edited \in Nat /\ edited <= run
      /\ design \in Designs
      /\ job.mode \in Sweepers => job.flags \in swept
      /\ \A p \in Exists : /\ disk[p].by \in DOMAIN Flags
                           /\ disk[p].at \in Nat /\ disk[p].at <= run
  BY DEF OutputInv, Store
<1>3. job'.mode = mode /\ job'.flags = g /\ ~job'.done
  BY <1>1
<1>4. Store'
  <2>1. /\ run' \in Nat /\ edited' \in Nat /\ edited' <= run' /\ edited' < run'
    BY <1>1, <1>2
  <2>2. job' \in [mode : Modes, flags : DOMAIN Flags, done : BOOLEAN]
    BY <1>1
  <2>3. job'.mode \in Sweepers => job'.flags \in swept'
    BY <1>1, <1>3 DEF Sweepers
  <2>4. \A p \in Exists' : p \in Exists /\ disk'[p] = disk[p]
    BY <1>1 DEF Exists
  <2>5. \A n \in Nat : n <= run => n <= run'
    BY <1>1, <1>2
  <2>6. \A p \in Exists' : disk'[p].by \in DOMAIN Flags /\ disk'[p].at \in Nat /\ disk'[p].at <= run'
    BY <1>2, <2>4, <2>5
  <2> QED
    BY <1>1, <1>2, <1>3, <2>1, <2>2, <2>3, <2>6 DEF Store
<1>5. Owned' /\ Scripts'
  BY <1>1 DEF OutputInv, Owned, Scripts, Exists
<1>6. ops \in Seq(StepsOf(mode, Flags[g], design)) /\ Ops' = ops
  <2>1. Ops' = OpsOf(job'.mode, Flags[job'.flags], design')
    BY Zenon DEF Ops
  <2> QED
    BY <1>1, <1>2, <1>3, <2>1, ProgramIs
<1>7. Left(ops, 0)'
  <2>1. todo' \in Seq(ToSet(todo')) /\ Len(ops) \in Nat
    BY <1>1, <1>6, Own
  <2>2. 0 \in 0 .. Len(ops) /\ Len(todo') = Len(ops) - 0
    BY <1>1, <2>1
  <2>3. \A i \in 1 .. Len(todo') : todo'[i] = ops[0 + i]
    BY <1>1
  <2> QED
    BY <2>1, <2>2, <2>3 DEF Left
<1>8. Progress'
  <2>1. 0 \in 0 .. Len(ops) /\ \A i \in 1 .. 0 : Performed(ops[i])'
    BY <1>6
  <2> QED
    BY <1>6, <1>7, <2>1, Zenon DEF Progress
<1>9. \A l : Trusted(l)' => Trusted(l)
  BY <1>1, <1>3 DEF Trusted, Unswept, Sweeping, Exists, Idle
<1>10. \A p, m : Kept(p, m) => Kept(p, m)'
  BY <1>1 DEF Kept, Exists
<1>11. \A l : Entries(l)' = Entries(l)
  BY <1>1 DEF Entries
<1>12. MakeInv'
  BY <1>1, <1>9, <1>10, <1>11 DEF OutputInv, MakeInv
<1> QED
  BY <1>4, <1>5, <1>8, <1>12 DEF OutputInv

LEMMA EditKeeps ==
    ASSUME OutputInv, NEW d \in Designs, Edit(d)
    PROVE  OutputInv'
<1>1. /\ Idle /\ Idle' /\ design' = d /\ edited' = run
      /\ disk' = disk /\ job' = job /\ todo' = todo /\ run' = run /\ swept' = swept /\ cut' = cut
  BY DEF Edit, Idle
<1>2. Store' /\ Owned' /\ Scripts'
  BY <1>1 DEF OutputInv, Store, Owned, Scripts, Exists
<1>3. Progress'
  <2>1. SUFFICES ASSUME Current' PROVE Progress'
    BY Zenon DEF Progress
  <2>2. job.mode \in Sweepers /\ job.done
    BY <1>1, <2>1 DEF Current, OutputInv, Store
  <2>3. Ops' = Ops
    BY <1>1, <2>2 DEF Ops, OpsOf, Program, Sweepers
  <2>4. PICK ops : ops = Ops
    OBVIOUS
  <2>5. PICK k \in 0 .. Len(ops) : /\ Left(ops, k)
                                   /\ job.mode # "stdout" => \A i \in 1 .. k : Performed(ops[i])
    BY <2>2, <2>4, Zenon DEF OutputInv, Progress, Current
  <2>6. Left(ops, k)'
    BY <1>1, <2>5 DEF Left
  <2>7. \A o : Performed(o) => Performed(o)'
    BY <1>1 DEF Performed, Filling, There, Exists
  <2> QED
    BY <1>1, <2>3, <2>4, <2>5, <2>6, <2>7, Zenon DEF Progress
<1>4. MakeInv'
  <2>1. ASSUME NEW l, Trusted(l)' PROVE FALSE
    <3>1. l \in Exists /\ disk[l].at > run
      BY <1>1, <2>1 DEF Trusted, Exists
    <3>2. disk[l].at \in Nat /\ disk[l].at <= run /\ run \in Nat
      BY <3>1 DEF OutputInv, Store
    <3> QED
      BY <3>1, <3>2
  <2> QED
    BY <2>1 DEF MakeInv
<1> QED
  BY <1>2, <1>3, <1>4 DEF OutputInv

-----------------------------------------------------------------------------
(* Every behaviour. *)

LEMMA OutputInit ==
    ASSUME FlagsAssumption, Init
    PROVE  OutputInv
<1>1. /\ disk = <<>> /\ design \in Designs /\ edited = 0 /\ todo = <<>> /\ run = 0
      /\ job = [mode |-> "gen", flags |-> CHOOSE g \in DOMAIN Flags : TRUE, done |-> FALSE]
  BY DEF Init
<1>2. Exists = {} /\ Idle
  BY <1>1 DEF Exists, Idle
<1>3. (CHOOSE g \in DOMAIN Flags : TRUE) \in DOMAIN Flags
  BY DEF FlagsAssumption
<1>4. job.mode = "gen" /\ ~job.done /\ job \in [mode : Modes, flags : DOMAIN Flags, done : BOOLEAN]
  BY <1>1, <1>3 DEF Modes
<1>5. Store
  BY <1>1, <1>2, <1>4 DEF Store, Sweepers
<1>6. Owned /\ Scripts
  BY <1>2 DEF Owned, Scripts
<1>7. Progress
  <2>1. ~Current
    BY <1>2, <1>4 DEF Current
  <2> QED
    BY <2>1, Zenon DEF Progress
<1>8. MakeInv
  BY <1>2 DEF MakeInv, Trusted
<1> QED
  BY <1>5, <1>6, <1>7, <1>8 DEF OutputInv

LEMMA OutputStep ==
    ASSUME FlagsAssumption, DesignAssumption, OutputInv, [Next]_vars
    PROVE  OutputInv'
<1>1. ASSUME NEW mode \in Modes \ {"script"}, NEW g \in DOMAIN Flags, Execute(mode, g)
      PROVE  OutputInv'
  <2>1. PICK ops : ops = Program(mode, Flags[g], design)
    OBVIOUS
  <2>2. ops = OpsOf(mode, Flags[g], design) /\ Start(mode, g, ops)
    BY <1>1, <2>1 DEF Execute, OpsOf
  <2> QED
    BY <2>2, StartKeeps
<1>2. ASSUME NEW p \in Exists, RunScript(p)
      PROVE  OutputInv'
  <2>1. PICK ops : ops = disk[p].text
    OBVIOUS
  <2>2. p[3] = ".sh" /\ disk[p].whole /\ Start("script", disk[p].by, ops)
    BY <1>2, <2>1 DEF RunScript
  <2>3. PICK g \in DOMAIN Flags : g = disk[p].by
    BY DEF OutputInv, Store
  <2>4. ops = OpsOf("script", Flags[g], design)
    BY <2>1, <2>2, <2>3 DEF OutputInv, Scripts, OpsOf
  <2>5. Start("script", g, ops)
    BY <2>2, <2>3
  <2>6. "script" \in Modes
    BY DEF Modes
  <2> QED
    BY <2>4, <2>5, <2>6, StartKeeps
<1>3. ASSUME NEW d \in Designs, Edit(d)
      PROVE  OutputInv'
  BY <1>3, EditKeeps
<1>4. ASSUME Step
      PROVE  OutputInv'
  BY <1>4, LeaveAloneKeeps, TruncateKeeps, FillKeeps, RemoveFileKeeps, RemoveTreeKeeps, StopKeeps DEF Step
<1>5. ASSUME UNCHANGED vars
      PROVE  OutputInv'
  <2>1. /\ disk' = disk /\ design' = design /\ edited' = edited /\ job' = job /\ todo' = todo
        /\ run' = run /\ swept' = swept /\ cut' = cut
    BY <1>5 DEF vars
  <2>2. Idle' <=> Idle
    BY <2>1 DEF Idle
  <2>3. Store' /\ Owned' /\ Scripts'
    BY <2>1, <2>2 DEF OutputInv, Store, Owned, Scripts, Exists
  <2>4. Progress'
    <3>1. Ops' = Ops /\ (Current' <=> Current)
      BY <2>1, <2>2 DEF Ops, Current
    <3>2. \A o : Performed(o)' <=> Performed(o)
      BY <2>1, <2>2 DEF Performed, Filling, There, Exists
    <3>3. \A ops, k : Left(ops, k)' <=> Left(ops, k)
      BY <2>1 DEF Left
    <3> QED
      BY <2>1, <3>1, <3>2, <3>3, Zenon DEF OutputInv, Progress
  <2>5. MakeInv'
    <3>1. \A l : Trusted(l)' => Trusted(l)
      BY <2>1, <2>2 DEF Trusted, Unswept, Sweeping, Exists
    <3>2. \A p, m : Kept(p, m) => Kept(p, m)'
      BY <2>1 DEF Kept, Exists
    <3>3. \A l : Entries(l)' = Entries(l)
      BY <2>1 DEF Entries
    <3> QED
      BY <2>1, <3>1, <3>2, <3>3 DEF OutputInv, MakeInv
  <2> QED
    BY <2>3, <2>4, <2>5 DEF OutputInv
<1> QED
  BY <1>1, <1>2, <1>3, <1>4, <1>5 DEF Next

\* What holds in a state follows from the invariant.
LEMMA OutputAlways == Spec => []OutputInv
<1>1. Init => OutputInv
  BY FlagsAssumption, OutputInit
<1>2. OutputInv /\ [Next]_vars => OutputInv'
  BY FlagsAssumption, DesignAssumption, OutputStep
<1> QED
  BY <1>1, <1>2, PTL DEF Spec

\* When a run has got to its end, all it had to do is done.
LEMMA AllDone ==
    ASSUME FlagsAssumption, DesignAssumption, OutputInv, Idle, job.done,
           edited < run \/ job.mode \in Sweepers, job.mode # "stdout"
    PROVE  \A i \in DOMAIN Ops : Performed(Ops[i])
<1>1. PICK ops : ops = Ops
  OBVIOUS
<1>2. PICK k \in 0 .. Len(ops) : /\ Left(ops, k)
                                 /\ job.mode # "stdout" => \A i \in 1 .. k : Performed(ops[i])
  BY <1>1, Zenon DEF OutputInv, Progress, Current
<1>3. ops \in Seq(StepsOf(job.mode, Flags[job.flags], design))
  BY <1>1, OpsAre
<1>4. Len(ops) \in Nat /\ DOMAIN ops = 1 .. Len(ops) /\ 0 = Len(ops) - k
  BY <1>2, <1>3 DEF Left, Idle
<1>5. \A i \in DOMAIN ops : i \in 1 .. k
  BY <1>2, <1>4
<1> QED
  BY <1>1, <1>2, <1>5

\* flush_to_disk leaves nothing stale, and nothing half-written: a run that
\* got to its end has left every file it emits whole and with its own text,
\* whatever runs stopped anywhere before left.
THEOREM ConvergesAlways == Spec => []Converges
<1>1. OutputInv => Converges
  <2>1. SUFFICES ASSUME OutputInv, Rested, job.done, job.mode \in {"gen", "parse"}, edited < run,
                        NEW ops, ops = Program(job.mode, Flags[job.flags], design), NEW i \in DOMAIN ops
                 PROVE  There(ops[i])
    BY Zenon DEF Converges, There
  <2>2. ops = Ops /\ Idle
    BY <2>1 DEF Ops, OpsOf, Rested
  <2>3. PICK o : o = ops[i]
    OBVIOUS
  <2>4. IsWrite(o)
    BY <2>1, <2>2, <2>3, OpsAre, FlagsAssumption, DesignAssumption
  <2>5. Performed(o)
    BY <2>1, <2>2, <2>3, AllDone, FlagsAssumption, DesignAssumption
  <2> QED
    BY <2>2, <2>3, <2>4, <2>5 DEF Performed, Filling
<1> QED
  BY <1>1, OutputAlways, PTL

\* flush_to_disk comes before the lists: a target that Make takes for newer
\* than the sources, and that is whole, names no file that is missing, cut
\* short or stale, wherever runs stopped.
THEOREM MakeSafeAlways == Spec => []MakeSafe
<1>1. OutputInv => MakeSafe
  <2>1. SUFFICES ASSUME OutputInv, NEW g \in DOMAIN Flags, NEW l, l = Target(Flags[g]),
                        Idle, l \in Exists /\ disk[l].whole /\ disk[l].at > edited, Unswept(l),
                        NEW m \in ToSet(design.files), NEW p, p = Dest(Flags[disk[l].by], m), p \in Entries(l)
                 PROVE  Kept(p, m)
    BY Zenon DEF MakeSafe, Kept
  <2>2. Trusted(l)
    BY <2>1 DEF Trusted
  <2> QED
    BY <2>1, <2>2, Zenon DEF OutputInv, MakeInv
<1> QED
  BY <1>1, OutputAlways, PTL

\* clean and the script it leaves take away every file that runs with these
\* flags wrote, whatever the sources were then and wherever the runs stopped.
THEOREM CleanCompleteAlways == Spec => []CleanComplete
<1>1. OutputInv => CleanComplete
  <2>1. SUFFICES ASSUME OutputInv, Rested, job.done, job.mode \in Sweepers, NEW p \in Exists
                 PROVE  disk[p].by # job.flags
    BY DEF CleanComplete, Sweepers
  <2>2. job.mode # "stdout" /\ Idle
    BY <2>1 DEF Sweepers, Rested
  <2>3. PICK ops, f : ops = Ops /\ f = Flags[job.flags]
    OBVIOUS
  <2>4. ops = CleanOutputs(f)
    BY <2>1, <2>3, SweepOps
  <2>5. \A o \in ToSet(ops) : Performed(o)
    BY <2>1, <2>2, <2>3, AllDone, FlagsAssumption, DesignAssumption DEF ToSet
  <2>6. PICK E : E = Exists
    OBVIOUS
  <2>7. \A o \in ToSet(CleanOutputs(f)) : /\ o.op = "remove" => o.path \notin E
                                          /\ o.op = "rmtree" => \A q \in E : q[1] # o.dir
    BY <2>4, <2>5, <2>6 DEF Performed
  <2>8. ~Covered(f, p)
    BY <2>1, <2>6, <2>7, NothingLeft
  <2> QED
    BY <2>1, <2>3, <2>8 DEF OutputInv, Owned
<1> QED
  BY <1>1, OutputAlways, PTL

=============================================================================

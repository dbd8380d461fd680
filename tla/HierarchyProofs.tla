---------------------------- MODULE HierarchyProofs ----------------------------
(***************************************************************************)
(* For any classes, bodies and overrides: what the hierarchy of instances, *)
(* clones unrolled, is like, and what elaborations are shared for.         *)
(*                                                                         *)
(* KeysHonest needs what a key leads to (Ways) said of the journals too,   *)
(* whose bindings a rollback brings back.  It holds when a key is stored   *)
(* because a body read its parameter once, where it began, and only        *)
(* force_param changed it since (ReadOnce); and it stays because the       *)
(* instance is then finished and sealed, and is not one of those that run  *)
(* (Working).  Tree and Shares say what the instances are among themselves.*)
(*                                                                         *)
(* DedupSound follows from DedupInv, by induction on the depth of an       *)
(* occurrence: the overrides the cache compared under the path of a clone  *)
(* are those of the path it shares.                                        *)
(*                                                                         *)
(* Acyclic needs LoopInv: no clone, those since discarded included, stands *)
(* for a body one of its ancestors is an instance of (Loopless); and until *)
(* that body is finished the clone has its name (NamedAlike), which is     *)
(* what clone_inst compares.                                               *)
(*                                                                         *)
(* NoTwins needs TwinInv: what unique_inst kept is under its final key     *)
(* (Filed), and no rollback still to come will take it from there, since   *)
(* the calls under way that began after it have not noted the key          *)
(* (Unmarked).  Kinds and MadeSince say which frames those calls have,     *)
(* Rank which journal belongs to which frame, and Live which instances     *)
(* still hang off the top after the rollbacks so far.                      *)
(***************************************************************************)
EXTENDS ElaborationProofs, WellFoundedInduction, NaturalsInduction

-----------------------------------------------------------------------------
(* Overrides and signatures. *)

\* The scoped value of a path, from any of the three sources.
Read(p) == FirstGiven(ScopedFor(p), At(p, "json"))

LEMMA CfgSame ==
    ASSUME cfg' = cfg, NEW p, NEW t, NEW c, NEW e
    PROVE /\ At(p, t)' = At(p, t)
          /\ ScopedFor(p)' = ScopedFor(p)
          /\ SubtreeSig(p)' = SubtreeSig(p)
          /\ ParamValue(c, p, e)' = ParamValue(c, p, e)
          /\ EffParams(p, e)' = EffParams(p, e)
<1>1. \A q, s : At(q, s)' = At(q, s)
  BY DEF At
<1>2. \A q, s : FirstGiven(q, s)' = FirstGiven(q, s)
  BY DEF FirstGiven
<1>3. \A q : ScopedFor(q)' = ScopedFor(q)
  BY <1>1, <1>2 DEF ScopedFor
<1>4. SubtreeSig(p)' = SubtreeSig(p)
  BY <1>1, <1>2, <1>3 DEF SubtreeSig
<1>5. Configured(p)' = Configured(p)
  BY <1>1, <1>2 DEF Configured
<1> QED
  BY <1>1, <1>2, <1>3, <1>4, <1>5 DEF ParamValue, EffParams

LEMMA OverPaths ==
    ASSUME ClassAssumption, cfg \in Settings, NEW o \in cfg.over
    PROVE  IsSeq(o.path)
BY DEF ClassAssumption, IsSeq

\* The part of a path below a prefix of it.
Rest(p, q) == SubSeq(q, Len(p) + 1, Len(q))

LEMMA RestIs ==
    ASSUME NEW p, NEW q, IsSeq(p), IsSeq(q), Len(p) <= Len(q)
    PROVE  /\ IsSeq(Rest(p, q)) /\ Len(Rest(p, q)) = Len(q) - Len(p)
           /\ \A i \in 1 .. Len(q) - Len(p) : Rest(p, q)[i] = q[Len(p) + i]
<1>1. PICK S : q \in Seq(S)
  BY DEF IsSeq
<1>2. Len(p) \in Nat /\ Len(q) \in Nat
  BY SeqIs
<1>3. PICK m \in Nat : m = Len(p)
  BY <1>2
<1>4. PICK t : t = SubSeq(q, m + 1, Len(q))
  OBVIOUS
<1>5. m + 1 \in Int /\ Len(q) \in Int /\ \A i \in m + 1 .. Len(q) : q[i] \in S
  BY <1>1, <1>2, <1>3
<1>6. /\ t \in Seq(S) /\ Len(t) = IF m + 1 <= Len(q) THEN Len(q) - (m + 1) + 1 ELSE 0
      /\ \A i \in 1 .. Len(q) - (m + 1) + 1 : t[i] = q[(m + 1) + i - 1]
  BY <1>4, <1>5, SubSeqProperties
<1>7. Len(t) = Len(q) - m
  BY <1>2, <1>3, <1>6
<1>8. \A i \in 1 .. Len(q) - m : t[i] = q[m + i]
  <2> TAKE i \in 1 .. Len(q) - m
  <2>1. i \in 1 .. Len(q) - (m + 1) + 1 /\ (m + 1) + i - 1 = m + i
    BY <1>2, <1>3
  <2> QED
    BY <1>6, <2>1
<1>9. IsSeq(t)
  BY <1>6 DEF IsSeq
<1>10. t = Rest(p, q)
  BY <1>3, <1>4 DEF Rest
<1> QED
  BY <1>3, <1>7, <1>8, <1>9, <1>10

LEMMA NotEmpty ==
    ASSUME NEW s, IsSeq(s)
    PROVE  s # <<>> <=> Len(s) > 0
<1>1. PICK S : s \in Seq(S)
  BY DEF IsSeq
<1> QED
  BY <1>1, EmptySeq

LEMMA SameSeq ==
    ASSUME NEW s, NEW t, IsSeq(s), IsSeq(t), Len(s) = Len(t), \A i \in 1 .. Len(s) : s[i] = t[i]
    PROVE  s = t
<1>1. PICK S : s \in Seq(S)
  BY DEF IsSeq
<1>2. PICK T : t \in Seq(T)
  BY DEF IsSeq
<1>3. s \in Seq(S \cup T) /\ t \in Seq(S \cup T)
  BY <1>1, <1>2, SeqMonotonic
<1> QED
  BY <1>3, SeqEqual

\* A prefix, element by element.
LEMMA PrefixIs ==
    ASSUME NEW p, NEW q, IsSeq(p), IsSeq(q)
    PROVE  IsPrefix(p, q) <=> Len(p) <= Len(q) /\ \A i \in 1 .. Len(p) : p[i] = q[i]
<1>1. Len(p) \in Nat /\ Len(q) \in Nat
  BY SeqIs
<1>2. PICK S : p \in Seq(S)
  BY DEF IsSeq
<1>3. PICK T : q \in Seq(T)
  BY DEF IsSeq
<1>4. PICK s : s = SubSeq(p, 1, Len(p))
  OBVIOUS
<1>5. PICK t : t = SubSeq(q, 1, Len(p))
  OBVIOUS
<1>6. ASSUME Len(p) <= Len(q)
      PROVE  /\ IsSeq(s) /\ IsSeq(t) /\ Len(s) = Len(p) /\ Len(t) = Len(p)
             /\ \A i \in 1 .. Len(p) : s[i] = p[i] /\ t[i] = q[i]
  <2>1. 1 \in 1 .. Len(p) + 1 /\ 1 \in 1 .. Len(q) + 1 /\ Len(p) \in 0 .. Len(q) /\ Len(p) \in 0 .. Len(p)
    BY <1>1, <1>6
  <2>2. /\ s \in Seq(S) /\ Len(s) = IF 1 <= Len(p) THEN Len(p) - 1 + 1 ELSE 0
        /\ \A i \in 1 .. Len(p) - 1 + 1 : s[i] = p[1 + i - 1]
    BY <1>2, <1>4, <2>1, SubSeqProperties
  <2>3. /\ t \in Seq(T) /\ Len(t) = IF 1 <= Len(p) THEN Len(p) - 1 + 1 ELSE 0
        /\ \A i \in 1 .. Len(p) - 1 + 1 : t[i] = q[1 + i - 1]
    BY <1>3, <1>5, <2>1, SubSeqProperties
  <2> QED
    BY <1>1, <2>2, <2>3 DEF IsSeq
<1>7. IsPrefix(p, q) <=> Len(p) <= Len(q) /\ s = t
  BY <1>4, <1>5 DEF IsPrefix
<1>8. ASSUME Len(p) <= Len(q)
      PROVE  s = t <=> \A i \in 1 .. Len(p) : p[i] = q[i]
  BY <1>6, <1>8, SameSeq
<1> QED
  BY <1>7, <1>8

\* The part of q below p, one step further down.
LEMMA RestBelow ==
    ASSUME NEW p, NEW q, NEW x, IsSeq(p), IsSeq(q), IsPrefix(p, q)
    PROVE  /\ IsSeq(Append(p, x))
           /\ IsPrefix(Append(p, x), q) <=> Rest(p, q) # <<>> /\ Rest(p, q)[1] = x
           /\ Rest(p, q) # <<>> => Rest(Append(p, x), q) = SubSeq(Rest(p, q), 2, Len(Rest(p, q)))
           /\ Rest(p, q) = <<>> <=> q = p
<1>1. /\ IsSeq(Append(p, x)) /\ Len(Append(p, x)) = Len(p) + 1 /\ Append(p, x)[Len(p) + 1] = x
      /\ \A i \in 1 .. Len(p) : Append(p, x)[i] = p[i]
  BY AppendIs
<1>2. Len(p) \in Nat /\ Len(q) \in Nat
  BY SeqIs
<1>3. Len(p) <= Len(q) /\ \A i \in 1 .. Len(p) : p[i] = q[i]
  BY PrefixIs
<1>4. /\ IsSeq(Rest(p, q)) /\ Len(Rest(p, q)) = Len(q) - Len(p)
      /\ \A i \in 1 .. Len(q) - Len(p) : Rest(p, q)[i] = q[Len(p) + i]
  BY <1>3, RestIs
<1>5. Rest(p, q) # <<>> <=> Len(p) < Len(q)
  <2>1. Rest(p, q) # <<>> <=> Len(Rest(p, q)) > 0
    BY <1>4, NotEmpty
  <2> QED
    BY <1>2, <1>3, <1>4, <2>1
<1>6. IsPrefix(Append(p, x), q) <=> Rest(p, q) # <<>> /\ Rest(p, q)[1] = x
  <2>1. IsPrefix(Append(p, x), q) <=> /\ Len(p) + 1 <= Len(q)
                                      /\ \A i \in 1 .. Len(p) + 1 : Append(p, x)[i] = q[i]
    <3>1. PICK a : a = Append(p, x)
      OBVIOUS
    <3>2. IsSeq(a) /\ Len(a) = Len(p) + 1
      BY <1>1, <3>1
    <3>3. IsPrefix(a, q) <=> Len(a) <= Len(q) /\ \A i \in 1 .. Len(a) : a[i] = q[i]
      BY <3>2, PrefixIs
    <3> QED
      BY <3>1, <3>2, <3>3
  <2>2. (\A i \in 1 .. Len(p) + 1 : Append(p, x)[i] = q[i]) <=> q[Len(p) + 1] = x
    <3>1. \A i \in 1 .. Len(p) + 1 : i \in 1 .. Len(p) \/ i = Len(p) + 1
      BY <1>2
    <3>2. Len(p) + 1 \in 1 .. Len(p) + 1
      BY <1>2
    <3> QED
      BY <1>1, <1>3, <3>1, <3>2
  <2>3. Len(p) < Len(q) => Rest(p, q)[1] = q[Len(p) + 1]
    BY <1>2, <1>4
  <2> QED
    BY <1>2, <1>5, <2>1, <2>2, <2>3
<1>7. ASSUME Rest(p, q) # <<>>
      PROVE  Rest(Append(p, x), q) = SubSeq(Rest(p, q), 2, Len(Rest(p, q)))
  <2> DEFINE a == Append(p, x)
             b == Rest(p, q)
  <2>1. /\ IsSeq(Rest(a, q)) /\ Len(Rest(a, q)) = Len(q) - Len(a)
        /\ \A i \in 1 .. Len(q) - Len(a) : Rest(a, q)[i] = q[Len(a) + i]
    <3>1. IsSeq(a) /\ Len(a) <= Len(q)
      BY <1>1, <1>2, <1>5, <1>7
    <3> HIDE DEF a
    <3> QED
      BY <3>1, RestIs
  <2>2. PICK u : u = <<x>>
    OBVIOUS
  <2>3. IsSeq(u) /\ Len(u) = 1
    <3>1. u \in Seq({x}) /\ Len(u) = 1
      BY <2>2
    <3> QED
      BY <3>1 DEF IsSeq
  <2>4. PICK e : e = SubSeq(b, 2, Len(b))
    OBVIOUS
  <2>5. e = Rest(u, b)
    BY <2>3, <2>4 DEF Rest
  <2>6. /\ IsSeq(e) /\ Len(e) = Len(b) - 1
        /\ \A i \in 1 .. Len(b) - 1 : e[i] = b[1 + i]
    <3>1. Len(u) <= Len(b)
      BY <1>2, <1>4, <1>5, <1>7, <2>3
    <3>2. IsSeq(b)
      BY <1>4
    <3> HIDE DEF b
    <3>3. /\ Len(Rest(u, b)) = Len(b) - Len(u) /\ IsSeq(Rest(u, b))
          /\ \A i \in 1 .. Len(b) - Len(u) : Rest(u, b)[i] = b[Len(u) + i]
      BY <2>3, <3>1, <3>2, RestIs
    <3> QED
      BY <2>3, <2>5, <3>3
  <2>7. \A i \in 1 .. Len(q) - Len(a) : Rest(a, q)[i] = e[i]
    <3> TAKE i \in 1 .. Len(q) - Len(a)
    <3>1. i \in 1 .. Len(b) - 1 /\ 1 + i \in 1 .. Len(q) - Len(p) /\ Len(a) + i = Len(p) + (1 + i)
      BY <1>1, <1>2, <1>4
    <3>2. Rest(a, q)[i] = q[Len(a) + i]
      BY <2>1
    <3>3. e[i] = b[1 + i]
      BY <2>6, <3>1
    <3>4. b[1 + i] = q[Len(p) + (1 + i)]
      BY <1>4, <3>1
    <3> QED
      BY <3>1, <3>2, <3>3, <3>4
  <2>8. Rest(a, q) = e
    <3>1. Len(e) = Len(q) - Len(a)
      BY <1>1, <1>2, <1>4, <2>6
    <3> QED
      BY <2>1, <2>6, <2>7, <3>1, SameSeq
  <2> QED
    BY <2>4, <2>8
<1>8. Rest(p, q) = <<>> <=> q = p
  <2>1. Len(p) = Len(q) => p = q
    BY <1>3, SameSeq
  <2> QED
    BY <1>2, <1>3, <1>5, <2>1
<1> QED
  BY <1>1, <1>5, <1>6, <1>7, <1>8

\* The signature of a path, in terms of the parts below it.
LEMMA SigIs ==
    ASSUME ClassAssumption, cfg \in Settings, NEW p, IsSeq(p)
    PROVE  \A m : m \in SubtreeSig(p) <=>
               \E o \in cfg.over : IsPrefix(p, o.path) /\ m = <<Rest(p, o.path), Read(o.path)>>
BY DEF SubtreeSig, Rest, Read

\* It says what is read at the path itself.
LEMMA SigReads ==
    ASSUME ClassAssumption, cfg \in Settings, NEW p, NEW q, IsSeq(p), IsSeq(q),
           SubtreeSig(p) = SubtreeSig(q)
    PROVE  Read(p) = Read(q)
<1>1. ASSUME NEW a, NEW b, IsSeq(a), IsSeq(b), SubtreeSig(a) = SubtreeSig(b),
             NEW o \in cfg.over, o.path = a
      PROVE  Read(a) = Read(b)
  <2>1. IsPrefix(a, a)
    BY <1>1, SeqIs, PrefixIs
  <2>2. Rest(a, a) = <<>>
    BY <1>1, <2>1, RestBelow
  <2>3. <<Rest(a, a), Read(a)>> \in SubtreeSig(b)
    BY <1>1, <2>1, SigIs
  <2>4. PICK r \in cfg.over : IsPrefix(b, r.path) /\ <<Rest(a, a), Read(a)>> = <<Rest(b, r.path), Read(r.path)>>
    BY <1>1, <2>3, SigIs
  <2>5. r.path = b
    BY <1>1, <2>2, <2>4, OverPaths, RestBelow
  <2> QED
    BY <2>4, <2>5
<1>2. ASSUME NEW a, \A o \in cfg.over : o.path # a
      PROVE  Read(a) = None
  BY <1>2 DEF Read, FirstGiven, ScopedFor, At
<1>3. CASE \E o \in cfg.over : o.path = p
  BY <1>1, <1>3
<1>4. CASE \E o \in cfg.over : o.path = q
  BY <1>1, <1>4
<1> QED
  BY <1>2, <1>3, <1>4

\* And the signatures of the paths below.
LEMMA SigBelow ==
    ASSUME ClassAssumption, cfg \in Settings, NEW p, NEW q, NEW x, IsSeq(p), IsSeq(q),
           SubtreeSig(p) = SubtreeSig(q)
    PROVE  SubtreeSig(Append(p, x)) = SubtreeSig(Append(q, x))
<1>1. ASSUME NEW a, NEW b, IsSeq(a), IsSeq(b), SubtreeSig(a) = SubtreeSig(b),
             NEW m \in SubtreeSig(Append(a, x))
      PROVE  m \in SubtreeSig(Append(b, x))
  <2>1. PICK o \in cfg.over : IsPrefix(Append(a, x), o.path)
                              /\ m = <<Rest(Append(a, x), o.path), Read(o.path)>>
    BY <1>1, SigIs, AppendIs
  <2>2. IsSeq(o.path)
    BY OverPaths
  <2>3. IsPrefix(a, o.path)
    <3>1. PICK ax : ax = Append(a, x)
      OBVIOUS
    <3>2. IsSeq(ax) /\ Len(ax) = Len(a) + 1 /\ \A i \in 1 .. Len(a) : ax[i] = a[i]
      BY <1>1, <3>1, AppendIs
    <3>3. IsPrefix(ax, o.path)
      BY <2>1, <3>1
    <3>4. Len(ax) <= Len(o.path) /\ \A i \in 1 .. Len(ax) : ax[i] = o.path[i]
      BY <2>2, <3>2, <3>3, PrefixIs
    <3>5. Len(a) \in Nat /\ Len(o.path) \in Nat
      BY <1>1, <2>2, SeqIs
    <3>6. Len(a) <= Len(o.path) /\ \A i \in 1 .. Len(a) : a[i] = o.path[i]
      BY <3>2, <3>4, <3>5
    <3> QED
      BY <1>1, <2>2, <3>6, PrefixIs
  <2>4. /\ Rest(a, o.path) # <<>> /\ Rest(a, o.path)[1] = x
        /\ Rest(Append(a, x), o.path) = SubSeq(Rest(a, o.path), 2, Len(Rest(a, o.path)))
    BY <1>1, <2>1, <2>2, <2>3, RestBelow
  <2>5. <<Rest(a, o.path), Read(o.path)>> \in SubtreeSig(b)
    BY <1>1, <2>3, SigIs
  <2>6. PICK r \in cfg.over : IsPrefix(b, r.path)
                              /\ <<Rest(a, o.path), Read(o.path)>> = <<Rest(b, r.path), Read(r.path)>>
    BY <1>1, <2>5, SigIs
  <2>7. Rest(a, o.path) = Rest(b, r.path) /\ Read(o.path) = Read(r.path)
    BY <2>6
  <2>8. /\ IsPrefix(Append(b, x), r.path)
        /\ Rest(Append(b, x), r.path) = SubSeq(Rest(b, r.path), 2, Len(Rest(b, r.path)))
    BY <1>1, <2>4, <2>6, <2>7, OverPaths, RestBelow
  <2>9. m = <<Rest(Append(b, x), r.path), Read(r.path)>>
    BY <2>1, <2>4, <2>7, <2>8
  <2> QED
    BY <1>1, <2>8, <2>9, SigIs, AppendIs
<1>2. \A m : m \in SubtreeSig(Append(p, x)) <=> m \in SubtreeSig(Append(q, x))
  BY <1>1
<1> QED
  BY <1>2 DEF SubtreeSig

\* What is given explicitly or at a path settles a value up to the bare and the
\* JSON values; these are read alike at paths of the same signature.
LEMMA GivenAlike ==
    ASSUME NEW p, NEW q, NEW c, NEW j, NEW k, Read(p) = Read(q), EffParams(p, j) = EffParams(q, k)
    PROVE  ParamValue(c, p, EffParams(p, j)) = ParamValue(c, q, EffParams(q, k))
BY DEF Read, EffParams, ParamValue, Configured, FirstGiven, ScopedFor

LEMMA ReadAlike ==
    ASSUME OneScale, NEW p, NEW q, NEW c, NEW k, Read(p) = Read(q)
    PROVE  ParamValue(c, p, EffParams(p, k)) = ParamValue(c, q, EffParams(q, k))
<1>1. \A r : (\A o \in cfg.over : o.tier = "json") => ScopedFor(r) = None
  BY DEF ScopedFor, FirstGiven, At
<1>2. \A r : (\A o \in cfg.over : o.tier # "json") => At(r, "json") = None
  BY DEF At
<1>3. CASE cfg.bare = None
  BY <1>3 DEF Read, EffParams, ParamValue, Configured, FirstGiven, ScopedFor
<1>4. CASE \A o \in cfg.over : o.tier = "json"
  <2>1. ScopedFor(p) = None /\ ScopedFor(q) = None
    BY <1>1, <1>4
  <2> QED
    BY <2>1 DEF Read, EffParams, ParamValue, Configured, FirstGiven, ScopedFor
<1>5. CASE \A o \in cfg.over : o.tier # "json"
  <2>1. At(p, "json") = None /\ At(q, "json") = None
    BY <1>2, <1>5
  <2> QED
    BY <2>1 DEF Read, EffParams, ParamValue, Configured, FirstGiven, ScopedFor
<1> QED
  BY <1>3, <1>4, <1>5 DEF OneScale

-----------------------------------------------------------------------------
(* The invariant. *)

\* Instances form a tree, numbered from the top: the path of each extends its
\* parent's, clones have nothing below them, and what a body was given is what
\* its call and the overrides of its path said.
Tree(is) ==
    \A i \in 1 .. Len(is) :
        /\ is[i].parent \in Nat /\ is[i].parent < i /\ (is[i].parent = 0 <=> i = 1)
        /\ is[i].cloneOf \in Nat /\ is[i].cloneOf < i
        /\ is[i].done \in BOOLEAN /\ is[i].forced \in BOOLEAN /\ IsSeq(is[i].path)
        /\ i # 1 => /\ is[is[i].parent].cloneOf = 0
                    /\ is[i].path = Append(is[is[i].parent].path, is[i].iname)
        /\ is[i].cloneOf = 0 =>
              is[i].eff = IF i = 1 THEN None ELSE EffParams(is[i].path, is[i].kw)
        /\ \A x \in DOMAIN is[i].subs :
              is[is[i].subs[x]].parent = i /\ is[is[i].subs[x]].iname = x

\* A frame is that of an unfinished body, below those of its callers.
Working(is, s) ==
    \A k \in 1 .. Len(s) :
        /\ s[k].inst = 1 <=> k = 1
        /\ is[s[k].inst].cloneOf = 0 /\ is[s[k].inst].done = FALSE
        /\ s[k].pc \in Nat /\ (k < Len(s) => s[k].pc > 0)
        /\ s[k].pc = 0 => is[s[k].inst].forced = FALSE
        /\ k > 1 => s[k].sig = SubtreeSig(is[s[k].inst].path)
        /\ \A j \in 1 .. k - 1 : s[j].inst < s[k].inst

\* A body that began read its parameter, which only force_param changes since.
Began(is, s, i) == is[i].done = TRUE \/ \E k \in 1 .. Len(s) : s[k].inst = i /\ s[k].pc > 0
ReadOnce(is, s) ==
    \A i \in 1 .. Len(is) :
        is[i].cloneOf = 0 /\ Began(is, s, i) =>
            /\ is[i].start = ParamValue(is[i].cls, is[i].path, is[i].eff)
            /\ ForcedAt[is[i].cls] # None => is[i].forced = TRUE /\ is[i].val = is[i].start
            /\ is[i].forced = FALSE => is[i].val = is[i].start

\* Every way to an instance that a later call may be given.
Ways == /\ \A k, v : Binds(modules, modJ, k, v) => v # 1 /\ Spelled(insts[v], k)
        /\ \A c \in DOMAIN ununiq : ununiq[c].inst # 1 /\ Registered(c)

\* No body changed a parameter that its template leaves open.
Declared(is) == \A i \in 1 .. Len(is) : is[i].forced = TRUE => ForcedAt[is[i].cls] # None

\* What is shared without clone_inst: a finished original, read at the clone's
\* path as it was read at its own.
Shares(is) ==
    \A i \in 1 .. Len(is) : is[i].cloneOf # 0 /\ is[i].by # "clone" =>
        /\ is[i].cloneOf # 1 /\ is[is[i].cloneOf].cloneOf = 0
        /\ is[i].cls = is[is[i].cloneOf].cls
        /\ SubtreeSig(is[i].path) = SubtreeSig(is[is[i].cloneOf].path)
        /\ Declared(is) =>
              ParamValue(is[i].cls, is[i].path, EffParams(is[i].path, is[i].kw)) = is[i].start

DedupInv == /\ cfg \in Settings /\ Len(insts) > 0
            /\ Tree(insts) /\ Working(insts, stack) /\ ReadOnce(insts, stack)
            /\ Ways /\ Shares(insts)

-----------------------------------------------------------------------------
(* The tree. *)

\* What moves do with the tree: an instance may come under a parent p.
Arrives(is, p) ==
    LET r == is[Len(insts) + 1]
    IN  /\ Len(is) = Len(insts) + 1 /\ p \in 1 .. Len(insts) /\ insts[p].cloneOf = 0
        /\ SubsPut(is, p, r.iname, Len(insts) + 1)
        /\ r.parent = p /\ r.path = Append(insts[p].path, r.iname) /\ DOMAIN r.subs = {}
        /\ r.cloneOf \in 0 .. Len(insts) /\ r.done \in BOOLEAN /\ r.forced \in BOOLEAN
        /\ r.cloneOf = 0 => r.eff = EffParams(r.path, r.kw)
Grows(is) ==
    /\ Old(is)
    /\ \A i \in 1 .. Len(insts) : is[i].done \in BOOLEAN /\ is[i].forced \in BOOLEAN
    /\ \/ Len(is) = Len(insts) /\ (SubsKept(is) \/ \E q, x : SubsDrop(is, q, x))
       \/ \E p : Arrives(is, p)

\* The body under execution and its caller.
LEMMA SelfWorks ==
    ASSUME ScopeInv, SealInv, DedupInv, stack # <<>>
    PROVE  /\ Len(stack) \in Nat \ {0} /\ Len(stack) \in 1 .. Len(stack) /\ Len(insts) \in Nat \ {0}
           /\ Frame = stack[Len(stack)] /\ Self = stack[Len(stack)].inst /\ Me = insts[Self]
           /\ Self \in 1 .. Len(insts) /\ Me.cloneOf = 0 /\ Me.done = FALSE
           /\ Len(stack) > 1 => /\ Me.parent = stack[Len(stack) - 1].inst /\ Self # 1
                                /\ Me.parent \in 1 .. Len(insts) /\ Me.parent < Self
                                /\ insts[Me.parent].cloneOf = 0
                                /\ Me.path = Append(insts[Me.parent].path, Me.iname)
                                /\ Frame.sig = SubtreeSig(Me.path)
<1>1. /\ Len(stack) \in Nat \ {0} /\ Self = stack[Len(stack)].inst
      /\ Self \in 1 .. Len(insts) /\ Len(insts) \in Nat \ {0}
  BY SelfIs
<1>2. Frame = stack[Len(stack)] /\ Me = insts[Self]
  BY StackIs DEF Me
<1>3. Len(stack) \in 1 .. Len(stack)
  BY <1>1
<1>4. Working(insts, stack) /\ Tree(insts)
  BY DEF DedupInv
<1>5. Me.cloneOf = 0 /\ Me.done = FALSE
  BY <1>1, <1>2, <1>3, <1>4 DEF Working
<1>6. ASSUME Len(stack) > 1
      PROVE  /\ Me.parent = stack[Len(stack) - 1].inst /\ Self # 1
             /\ Me.parent \in 1 .. Len(insts) /\ Frame.sig = SubtreeSig(Me.path)
  BY <1>1, <1>2, <1>3, <1>4, <1>6, ParentIs DEF Working
<1>7. ASSUME Len(stack) > 1
      PROVE  /\ Me.parent < Self /\ insts[Me.parent].cloneOf = 0
             /\ Me.path = Append(insts[Me.parent].path, Me.iname)
  BY <1>1, <1>2, <1>4, <1>6, <1>7 DEF Tree
<1> QED
  BY <1>1, <1>2, <1>3, <1>5, <1>6, <1>7

LEMMA MovesGrow ==
    ASSUME ScopeInv, SealInv, DedupInv, NEW is, NEW s, Moves(is, s)
    PROVE  Grows(is)
<1>1. Tree(insts) /\ Len(insts) \in Nat
  BY InstsAre DEF DedupInv
<1>2. \A i \in 1 .. Len(insts) : insts[i].done \in BOOLEAN /\ insts[i].forced \in BOOLEAN
  BY <1>1 DEF Tree
<1>3. ASSUME AllSame(is), NEW i \in 1 .. Len(insts)
      PROVE  is[i].done \in BOOLEAN /\ is[i].forced \in BOOLEAN
  BY <1>2, <1>3 DEF AllSame, Same, Ran
<1>4. ASSUME Old(is), is[Self].done \in BOOLEAN, is[Self].forced \in BOOLEAN, NEW i \in 1 .. Len(insts)
      PROVE  is[i].done \in BOOLEAN /\ is[i].forced \in BOOLEAN
  BY <1>2, <1>4 DEF Old, Same, Ran
<1>5. ASSUME stack # <<>>
      PROVE  Me.done \in BOOLEAN /\ Me.forced \in BOOLEAN /\ Me.cloneOf = 0 /\ Self \in 1 .. Len(insts)
             /\ Me = insts[Self]
  BY <1>2, <1>5, SelfWorks
<1>6. CASE Rests(is, s) \/ Gives(is, s)
  BY <1>3, <1>6 DEF Rests, Gives, Grows
<1>7. CASE Starts(is, s) \/ Forces(is, s)
  <2>1. stack # <<>> /\ Old(is) /\ SubsKept(is) /\ Len(is) = Len(insts)
    BY <1>7 DEF Starts, Forces
  <2>2. is[Self].done \in BOOLEAN /\ is[Self].forced \in BOOLEAN
    BY <1>5, <1>7, <2>1 DEF Starts, Forces
  <2> QED
    BY <1>4, <2>1, <2>2 DEF Grows
<1>8. CASE Returns(is, s) \/ Stops(is, s)
  <2>1. stack # <<>> /\ Old(is) /\ SubsKept(is) /\ Len(is) = Len(insts) /\ Finishes(is)
    BY <1>8 DEF Returns, Stops, Finishes
  <2>2. is[Self].done \in BOOLEAN /\ is[Self].forced \in BOOLEAN
    BY <1>5, <2>1 DEF Finishes
  <2> QED
    BY <1>4, <2>1, <2>2 DEF Grows
<1>9. ASSUME NEW src, NEW op, Aliases(is, s, src, op)
      PROVE  Grows(is)
  <2> DEFINE r == is[Len(insts) + 1]
  <2>1. /\ Old(is) /\ AllSame(is) /\ Len(is) = Len(insts) + 1 /\ stack # <<>>
        /\ src \in 1 .. Len(insts) /\ SubsPut(is, Self, op.iname, Len(insts) + 1) /\ Copies(r, src)
        /\ Placed(r, Self, op.iname, ChildPath(op), op.kw, op.op)
    BY <1>9 DEF Aliases
  <2>2. r.cloneOf = src /\ r.done = insts[src].done /\ r.forced = insts[src].forced /\ DOMAIN r.subs = {}
    BY <2>1 DEF Copies, Ran
  <2>3. r.parent = Self /\ r.iname = op.iname /\ r.path = Append(insts[Self].path, r.iname)
    BY <1>5, <2>1 DEF Placed, ChildPath
  <2>4. r.cloneOf \in 0 .. Len(insts) /\ r.cloneOf # 0
    BY <1>1, <2>1, <2>2
  <2>5. r.done \in BOOLEAN /\ r.forced \in BOOLEAN
    BY <1>2, <2>1, <2>2
  <2>6. Arrives(is, Self)
    BY <1>5, <2>1, <2>2, <2>3, <2>4, <2>5 DEF Arrives
  <2> QED
    BY <1>3, <2>1, <2>6 DEF Grows
<1>10. ASSUME NEW op, Calls(is, s, op)
       PROVE  Grows(is)
  <2> DEFINE r == is[Len(insts) + 1]
  <2>1. /\ Old(is) /\ AllSame(is) /\ Len(is) = Len(insts) + 1 /\ stack # <<>>
        /\ SubsPut(is, Self, op.iname, Len(insts) + 1) /\ DOMAIN r.subs = {}
        /\ r.cloneOf = 0 /\ r.done = FALSE /\ r.forced = FALSE /\ r.eff = Eff(op)
        /\ Placed(r, Self, op.iname, ChildPath(op), op.kw, op.op)
    BY <1>10 DEF Calls
  <2>2. /\ r.parent = Self /\ r.iname = op.iname /\ r.path = Append(insts[Self].path, r.iname)
        /\ r.eff = EffParams(r.path, r.kw)
    BY <1>5, <2>1 DEF Placed, ChildPath, Eff
  <2>3. r.cloneOf \in 0 .. Len(insts)
    BY <1>1, <2>1
  <2>4. r.done \in BOOLEAN /\ r.forced \in BOOLEAN
    BY <2>1
  <2>5. Arrives(is, Self)
    BY <1>5, <2>1, <2>2, <2>3, <2>4 DEF Arrives
  <2> QED
    BY <1>3, <2>1, <2>5 DEF Grows
<1>11. CASE Replaces(is, s)
  <2> DEFINE r == is[Len(insts) + 1]
             src == modules[Post]
  <2>1. /\ Finishes(is) /\ Len(is) = Len(insts) + 1 /\ Len(stack) > 1 /\ src \in 1 .. Len(insts)
        /\ SubsPut(is, Me.parent, Me.iname, Len(insts) + 1) /\ Copies(r, src)
        /\ Placed(r, Me.parent, Me.iname, Me.path, Me.kw, Me.by)
    BY <1>11 DEF Replaces
  <2>2. stack # <<>> /\ Old(is) /\ is[Self].done = TRUE /\ is[Self].forced = Me.forced
    BY <2>1 DEF Finishes
  <2>3. r.cloneOf = src /\ r.done = insts[src].done /\ r.forced = insts[src].forced /\ DOMAIN r.subs = {}
    BY <2>1 DEF Copies, Ran
  <2>4. /\ r.parent = Me.parent /\ r.iname = Me.iname /\ r.path = Append(insts[Me.parent].path, r.iname)
        /\ Me.parent \in 1 .. Len(insts) /\ insts[Me.parent].cloneOf = 0
    BY <2>1, <2>2, SelfWorks DEF Placed
  <2>5. r.cloneOf \in 0 .. Len(insts) /\ r.cloneOf # 0
    BY <1>1, <2>1, <2>3
  <2>6. r.done \in BOOLEAN /\ r.forced \in BOOLEAN
    BY <1>2, <2>1, <2>3
  <2>7. Arrives(is, Me.parent)
    BY <2>1, <2>3, <2>4, <2>5, <2>6 DEF Arrives
  <2>8. is[Self].done \in BOOLEAN /\ is[Self].forced \in BOOLEAN
    BY <1>5, <2>2
  <2> QED
    BY <1>4, <2>2, <2>7, <2>8 DEF Grows
<1> QED
  BY <1>6, <1>7, <1>8, <1>9, <1>10, <1>11, Zenon DEF Moves

LEMMA TreeGrows ==
    ASSUME SealInv, Tree(insts), NEW is, Grows(is)
    PROVE  Tree(is)
<1>1. Len(insts) \in Nat
  BY InstsAre
<1>2. \A i \in 1 .. Len(insts) : Ident(is[i], insts[i])
  BY DEF Grows, Old
<1>3. ASSUME NEW i \in 1 .. Len(insts)
      PROVE  /\ is[i].parent \in Nat /\ is[i].parent < i /\ (is[i].parent = 0 <=> i = 1)
             /\ is[i].cloneOf \in Nat /\ is[i].cloneOf < i
             /\ is[i].done \in BOOLEAN /\ is[i].forced \in BOOLEAN /\ IsSeq(is[i].path)
             /\ is[i].cloneOf = 0 =>
                   is[i].eff = IF i = 1 THEN None ELSE EffParams(is[i].path, is[i].kw)
  BY <1>2 DEF Tree, Ident, Grows
<1>4. ASSUME NEW i \in 1 .. Len(insts), i # 1
      PROVE  /\ is[is[i].parent].cloneOf = 0
             /\ is[i].path = Append(is[is[i].parent].path, is[i].iname)
  <2>1. is[i].parent = insts[i].parent /\ is[i].path = insts[i].path /\ is[i].iname = insts[i].iname
    BY <1>2 DEF Ident
  <2>2. is[i].parent \in 1 .. Len(insts)
    BY <1>1, <1>3, <1>4
  <2>3. /\ is[is[i].parent].cloneOf = insts[insts[i].parent].cloneOf
        /\ is[is[i].parent].path = insts[insts[i].parent].path
    BY <1>2, <2>1, <2>2 DEF Ident
  <2> QED
    BY <1>4, <2>1, <2>3 DEF Tree
<1>5. ASSUME NEW i \in 1 .. Len(insts), NEW x \in DOMAIN insts[i].subs
      PROVE  is[insts[i].subs[x]].parent = i /\ is[insts[i].subs[x]].iname = x
  <2>1. insts[i].subs[x] \in 1 .. Len(insts)
    BY DEF SealInv, Shaped
  <2> QED
    BY <1>2, <2>1 DEF Tree, Ident
<1>6. CASE Len(is) = Len(insts) /\ (SubsKept(is) \/ \E q, x : SubsDrop(is, q, x))
  <2>1. ASSUME NEW i \in 1 .. Len(insts), NEW x \in DOMAIN is[i].subs
        PROVE  is[is[i].subs[x]].parent = i /\ is[is[i].subs[x]].iname = x
    <3>1. x \in DOMAIN insts[i].subs /\ is[i].subs[x] = insts[i].subs[x]
      BY <1>6, <2>1 DEF SubsKept, SubsDrop, Drop
    <3> QED
      BY <1>5, <3>1
  <2> QED
    BY <1>3, <1>4, <1>6, <2>1 DEF Tree
<1>7. ASSUME NEW p, Arrives(is, p)
      PROVE  Tree(is)
  <2> DEFINE n == Len(insts) + 1
  <2>1. /\ Len(is) = n /\ p \in 1 .. Len(insts) /\ insts[p].cloneOf = 0
        /\ SubsPut(is, p, is[n].iname, n)
        /\ is[n].parent = p /\ is[n].path = Append(insts[p].path, is[n].iname) /\ DOMAIN is[n].subs = {}
        /\ is[n].cloneOf \in 0 .. Len(insts) /\ is[n].done \in BOOLEAN /\ is[n].forced \in BOOLEAN
        /\ is[n].cloneOf = 0 => is[n].eff = EffParams(is[n].path, is[n].kw)
    BY <1>7 DEF Arrives
  <2>2. ASSUME NEW i \in 1 .. Len(insts), NEW x \in DOMAIN is[i].subs
        PROVE  is[is[i].subs[x]].parent = i /\ is[is[i].subs[x]].iname = x
    <3>1. CASE i = p /\ x = is[n].iname
      <4>1. is[i].subs[x] = n
        BY <2>1, <3>1 DEF SubsPut, Put
      <4> QED
        BY <2>1, <3>1, <4>1
    <3>2. CASE ~(i = p /\ x = is[n].iname)
      <4>1. x \in DOMAIN insts[i].subs /\ is[i].subs[x] = insts[i].subs[x]
        <5>1. CASE i # p
          BY <2>1, <2>2, <5>1 DEF SubsPut
        <5>2. CASE i = p
          <6>1. is[i].subs = Put(insts[i].subs, is[n].iname, n) /\ x # is[n].iname
            BY <2>1, <3>2, <5>2 DEF SubsPut
          <6> QED
            BY <2>2, <6>1 DEF Put
        <5> QED
          BY <5>1, <5>2
      <4> QED
        BY <1>5, <4>1
    <3> QED
      BY <3>1, <3>2
  <2>3. is[p].cloneOf = 0 /\ is[p].path = insts[p].path /\ IsSeq(is[p].path)
    BY <1>2, <1>3, <2>1 DEF Ident
  <2>4. IsSeq(is[n].path)
    BY <2>1, <2>3, AppendIs
  <2>5. /\ is[n].parent \in Nat /\ is[n].parent < n /\ is[n].parent # 0 /\ n # 1
        /\ is[n].cloneOf \in Nat /\ is[n].cloneOf < n
    BY <1>1, <2>1
  <2>6. ASSUME NEW i \in 1 .. n
        PROVE  i \in 1 .. Len(insts) \/ i = n
    BY <1>1
  <2> HIDE DEF n
  <2>7. ASSUME NEW i \in 1 .. n
        PROVE  /\ is[i].parent \in Nat /\ is[i].parent < i /\ (is[i].parent = 0 <=> i = 1)
               /\ is[i].cloneOf \in Nat /\ is[i].cloneOf < i
               /\ is[i].done \in BOOLEAN /\ is[i].forced \in BOOLEAN /\ IsSeq(is[i].path)
               /\ is[i].cloneOf = 0 =>
                     is[i].eff = IF i = 1 THEN None ELSE EffParams(is[i].path, is[i].kw)
    BY <1>3, <2>1, <2>4, <2>5, <2>6
  <2>8. ASSUME NEW i \in 1 .. n, i # 1
        PROVE  /\ is[is[i].parent].cloneOf = 0
               /\ is[i].path = Append(is[is[i].parent].path, is[i].iname)
    BY <1>4, <2>1, <2>3, <2>6, <2>8
  <2>9. ASSUME NEW i \in 1 .. n, NEW x \in DOMAIN is[i].subs
        PROVE  is[is[i].subs[x]].parent = i /\ is[is[i].subs[x]].iname = x
    BY <2>1, <2>2, <2>6, <2>9
  <2> QED
    BY <2>1, <2>7, <2>8, <2>9 DEF Tree
<1> QED
  BY <1>6, <1>7 DEF Grows

-----------------------------------------------------------------------------
(* The bodies under execution. *)

\* What Working says of one frame.
Works(is, s, k) ==
    /\ s[k].inst = 1 <=> k = 1
    /\ is[s[k].inst].cloneOf = 0 /\ is[s[k].inst].done = FALSE
    /\ s[k].pc \in Nat /\ (k < Len(s) => s[k].pc > 0)
    /\ s[k].pc = 0 => is[s[k].inst].forced = FALSE
    /\ k > 1 => s[k].sig = SubtreeSig(is[s[k].inst].path)
    /\ \A j \in 1 .. k - 1 : s[j].inst < s[k].inst

LEMMA WorkingIs ==
    ASSUME NEW is, NEW s
    PROVE  Working(is, s) <=> \A k \in 1 .. Len(s) : Works(is, s, k)
BY DEF Working, Works

\* A frame whose body does not run stays as it is.
LEMMA CallersWork ==
    ASSUME ScopeInv, SealInv, DedupInv, stack # <<>>, NEW is, Old(is)
    PROVE  \A k \in 1 .. Len(stack) :
              /\ stack[k].inst \in 1 .. Len(insts)
              /\ Ident(is[stack[k].inst], insts[stack[k].inst])
              /\ k < Len(stack) => /\ stack[k].inst # Self /\ stack[k].pc > 0
                                   /\ Same(is[stack[k].inst], insts[stack[k].inst])
<1> TAKE k \in 1 .. Len(stack)
<1>1. stack[k].inst \in 1 .. Len(insts)
  BY DEF SealInv, Linked
<1>2. Self \in 1 .. Len(insts) /\ Self = stack[Len(stack)].inst /\ Len(stack) \in Nat \ {0}
  BY SelfWorks
<1>3. k < Len(stack) => stack[k].inst # Self /\ stack[k].pc > 0
  <2>1. Len(stack) \in 1 .. Len(stack)
    BY <1>2
  <2>2. Works(insts, stack, k) /\ Works(insts, stack, Len(stack))
    BY <2>1, WorkingIs DEF DedupInv
  <2>3. k < Len(stack) => k \in 1 .. Len(stack) - 1
    BY <1>2
  <2> QED
    BY <1>1, <1>2, <2>2, <2>3 DEF Works
<1> QED
  BY <1>1, <1>3 DEF Old

\* The first m frames, when their bodies are not finished and none of those
\* that have not begun has its parameter forced.
LEMMA FramesWork ==
    ASSUME ScopeInv, SealInv, DedupInv, stack # <<>>, NEW is, NEW s, Old(is),
           NEW m \in 0 .. Len(stack), Frames(s, m),
           m = Len(stack) => is[Self].done = Me.done /\ (Frame.pc = 0 => is[Self].forced = Me.forced)
    PROVE  Working(is, s)
<1> SUFFICES ASSUME NEW k \in 1 .. Len(s)
             PROVE  Works(is, s, k)
  BY WorkingIs
<1>1. /\ Len(stack) \in Nat \ {0} /\ Frame = stack[Len(stack)] /\ Self = stack[Len(stack)].inst
      /\ Me = insts[Self]
  BY SelfWorks
<1>2. Len(s) = m /\ k \in 1 .. Len(stack) /\ k \in 1 .. m
  BY <1>1 DEF Frames
<1>3. /\ s[k].inst = stack[k].inst /\ s[k].sig = stack[k].sig
      /\ s[k].pc = stack[k].pc \/ (k = m /\ s[k].pc = stack[k].pc + 1)
      /\ \A j \in 1 .. k - 1 : s[j].inst = stack[j].inst
  BY <1>1, <1>2 DEF Frames
<1>4. Works(insts, stack, k)
  BY <1>2, WorkingIs DEF DedupInv
<1>5. Ident(is[stack[k].inst], insts[stack[k].inst])
  BY <1>2, CallersWork
<1>6. is[s[k].inst].cloneOf = 0 /\ (k > 1 => s[k].sig = SubtreeSig(is[s[k].inst].path))
  BY <1>3, <1>4, <1>5 DEF Ident, Works
<1>7. s[k].pc \in Nat /\ (k < Len(s) => s[k].pc > 0)
  BY <1>1, <1>2, <1>3, <1>4 DEF Works
<1>8. is[s[k].inst].done = FALSE
  <2>1. CASE k < Len(stack)
    BY <1>2, <1>3, <1>4, <2>1, CallersWork DEF Same, Works
  <2>2. CASE k = Len(stack)
    BY <1>1, <1>2, <1>3, <1>4, <2>2 DEF Works
  <2>3. k < Len(stack) \/ k = Len(stack)
    BY <1>1, <1>2
  <2> QED
    BY <2>1, <2>2, <2>3
<1>9. ASSUME s[k].pc = 0
      PROVE  is[s[k].inst].forced = FALSE
  <2>1. stack[k].pc = 0
    BY <1>3, <1>4, <1>9 DEF Works
  <2>2. k = Len(stack) /\ m = Len(stack)
    BY <1>1, <1>2, <1>4, <2>1 DEF Works
  <2> QED
    BY <1>1, <1>3, <1>4, <2>1, <2>2 DEF Works
<1> QED
  BY <1>3, <1>4, <1>6, <1>7, <1>8, <1>9 DEF Works

LEMMA StartsWork ==
    ASSUME ScopeInv, SealInv, DedupInv, NEW is, NEW s, Starts(is, s)
    PROVE  Working(is, s)
<1> SUFFICES ASSUME NEW k \in 1 .. Len(s)
             PROVE  Works(is, s, k)
  BY WorkingIs
<1>0. stack # <<>> /\ Old(is) /\ is[Self].done = Me.done /\ s = Advance(stack) /\ Formed(stack)
  BY DEF Starts, ScopeInv
<1>1. /\ Len(stack) \in Nat \ {0} /\ Self = stack[Len(stack)].inst /\ Me = insts[Self] /\ Me.done = FALSE
  BY <1>0, SelfWorks
<1>2. Len(s) = Len(stack) /\ k \in 1 .. Len(stack)
  BY <1>0, AdvancedIs
<1>3. /\ s[k].inst = stack[k].inst /\ s[k].sig = stack[k].sig
      /\ s[k].pc = IF k = Len(stack) THEN stack[k].pc + 1 ELSE stack[k].pc
      /\ \A j \in 1 .. k - 1 : s[j].inst = stack[j].inst
  BY <1>0, <1>1, <1>2, AdvancedIs
<1>4. Works(insts, stack, k)
  BY <1>2, WorkingIs DEF DedupInv
<1>5. Ident(is[stack[k].inst], insts[stack[k].inst])
  BY <1>0, <1>2, CallersWork
<1>6. is[s[k].inst].cloneOf = 0 /\ (k > 1 => s[k].sig = SubtreeSig(is[s[k].inst].path))
  BY <1>3, <1>4, <1>5 DEF Ident, Works
<1>7. s[k].pc \in Nat /\ s[k].pc > 0
  BY <1>1, <1>2, <1>3, <1>4 DEF Works
<1>8. is[s[k].inst].done = FALSE
  <2>1. CASE k < Len(stack)
    BY <1>0, <1>2, <1>3, <1>4, <2>1, CallersWork DEF Same, Works
  <2>2. CASE k = Len(stack)
    BY <1>0, <1>1, <1>3, <2>2
  <2>3. k < Len(stack) \/ k = Len(stack)
    BY <1>1, <1>2
  <2> QED
    BY <2>1, <2>2, <2>3
<1> QED
  BY <1>3, <1>4, <1>6, <1>7, <1>8 DEF Works

LEMMA CallsWork ==
    ASSUME ScopeInv, SealInv, DedupInv, NEW is, NEW s, NEW op, Calls(is, s, op)
    PROVE  Working(is, s)
<1> DEFINE n == Len(insts) + 1
<1>0. /\ stack # <<>> /\ Old(is) /\ AllSame(is) /\ Frame.pc > 0 /\ Len(s) = Len(stack) + 1
      /\ \A k \in 1 .. Len(stack) : s[k] = stack[k]
      /\ s[Len(s)].inst = n /\ s[Len(s)].pc = 0 /\ s[Len(s)].sig = Sig(op)
      /\ is[n].cloneOf = 0 /\ is[n].done = FALSE /\ is[n].forced = FALSE /\ is[n].path = ChildPath(op)
  BY DEF Calls, Placed
<1>1. /\ Len(stack) \in Nat \ {0} /\ Frame = stack[Len(stack)] /\ Len(insts) \in Nat \ {0}
  BY <1>0, SelfWorks
<1>2. ASSUME NEW k \in 1 .. Len(stack)
      PROVE  Works(is, s, k)
  <2>1. Works(insts, stack, k)
    BY WorkingIs DEF DedupInv
  <2>2. s[k] = stack[k] /\ \A j \in 1 .. k - 1 : s[j] = stack[j]
    BY <1>0, <1>1
  <2>3. /\ Ident(is[stack[k].inst], insts[stack[k].inst]) /\ stack[k].inst \in 1 .. Len(insts)
    BY <1>0, CallersWork
  <2>4. Same(is[stack[k].inst], insts[stack[k].inst])
    BY <1>0, <2>3 DEF AllSame
  <2>5. stack[k].pc > 0
    BY <1>0, <1>1, <2>1 DEF Works
  <2> QED
    BY <2>1, <2>2, <2>3, <2>4, <2>5 DEF Works, Ident, Same
<1>3. Works(is, s, Len(s))
  <2>1. ASSUME NEW j \in 1 .. Len(s) - 1
        PROVE  s[j].inst < n /\ s[j].inst # n
    <3>1. j \in 1 .. Len(stack) /\ s[j] = stack[j]
      BY <1>0, <1>1
    <3>2. stack[j].inst \in 1 .. Len(insts)
      BY <1>0, <3>1, CallersWork
    <3> QED
      BY <1>1, <3>1, <3>2
  <2>2. n # 1 /\ Len(s) # 1
    BY <1>0, <1>1
  <2>3. s[Len(s)].sig = SubtreeSig(is[n].path)
    BY <1>0 DEF Sig
  <2> HIDE DEF n
  <2> QED
    BY <1>0, <2>1, <2>2, <2>3 DEF Works
<1>4. \A k \in 1 .. Len(s) : k \in 1 .. Len(stack) \/ k = Len(s)
  BY <1>0, <1>1
<1> QED
  BY <1>2, <1>3, <1>4, WorkingIs

LEMMA MovesWork ==
    ASSUME ScopeInv, SealInv, DedupInv, NEW is, NEW s, Moves(is, s)
    PROVE  Working(is, s)
<1>1. CASE stack = <<>>
  <2>1. Rests(is, s)
    BY <1>1, Zenon DEF Moves, Starts, Forces, Aliases, Calls, Returns, Replaces, Stops, Gives, Finishes
  <2>2. Len(stack) = 0
    BY <1>1
  <2>3. Len(s) = 0
    BY <2>1, <2>2 DEF Rests, Frames
  <2> QED
    BY <2>3 DEF Working
<1> SUFFICES ASSUME stack # <<>> PROVE Working(is, s)
  BY <1>1
<1>2. /\ Len(stack) \in Nat \ {0} /\ Me = insts[Self] /\ Self \in 1 .. Len(insts)
      /\ Len(stack) \in 0 .. Len(stack) /\ Len(stack) - 1 \in 0 .. Len(stack)
      /\ Len(stack) - 1 # Len(stack)
  BY SelfWorks
<1>3. AllSame(is) => is[Self].done = Me.done /\ is[Self].forced = Me.forced
  BY <1>2 DEF AllSame, Same, Ran
<1>4. CASE Rests(is, s) \/ \E src, op : Aliases(is, s, src, op)
  <2>1. Old(is) /\ AllSame(is) /\ Frames(s, Len(stack))
    BY <1>4 DEF Rests, Aliases
  <2> QED
    BY <1>2, <1>3, <2>1, FramesWork
<1>5. CASE Forces(is, s)
  <2>1. Old(is) /\ is[Self].done = Me.done /\ Frame.pc > 0 /\ Frames(s, Len(stack))
    BY <1>5 DEF Forces
  <2>2. Frame.pc # 0
    BY <2>1
  <2> QED
    BY <1>2, <2>1, <2>2, FramesWork
<1>6. CASE Returns(is, s) \/ Replaces(is, s) \/ Stops(is, s) \/ Gives(is, s)
  <2>1. Old(is) /\ Frames(s, Len(stack) - 1)
    <3>1. Finishes(is) => Old(is)
      BY DEF Finishes
    <3> QED
      BY <1>6, <3>1 DEF Returns, Replaces, Stops, Gives
  <2> QED
    BY <1>2, <2>1, FramesWork
<1> QED
  BY <1>4, <1>5, <1>6, StartsWork, CallsWork, Zenon DEF Moves

-----------------------------------------------------------------------------
(* What a body read. *)

\* What ReadOnce says of one instance.
Reads(r) ==
    /\ r.start = ParamValue(r.cls, r.path, r.eff)
    /\ ForcedAt[r.cls] # None => r.forced = TRUE /\ r.val = r.start
    /\ r.forced = FALSE => r.val = r.start

LEMMA ReadOnceIs ==
    ASSUME NEW is, NEW s
    PROVE  ReadOnce(is, s) <=>
               \A i \in 1 .. Len(is) : is[i].cloneOf = 0 /\ Began(is, s, i) => Reads(is[i])
BY DEF ReadOnce, Reads

LEMMA SameReads ==
    ASSUME NEW a, NEW b, Ident(a, b), Ran(a, b), Reads(b)
    PROVE  Reads(a)
BY DEF Ident, Ran, Reads

\* Frames that are as far as before, up to one operation of a body that runs.
Further(s) ==
    \A k \in 1 .. Len(s) : s[k].inst \in 1 .. Len(insts) /\ s[k].pc > 0 =>
        k \in 1 .. Len(stack) /\ s[k].inst = stack[k].inst /\ stack[k].pc > 0

LEMMA FramesFurther ==
    ASSUME ScopeInv, SealInv, DedupInv, stack # <<>>, NEW s, NEW m \in 0 .. Len(stack), Frames(s, m)
    PROVE  Further(s)
<1>1. Len(stack) \in Nat /\ Len(s) = m
  BY SelfWorks DEF Frames
<1> SUFFICES ASSUME NEW k \in 1 .. Len(s), s[k].pc > 0
             PROVE  k \in 1 .. Len(stack) /\ s[k].inst = stack[k].inst /\ stack[k].pc > 0
  BY DEF Further
<1>2. k \in 1 .. Len(stack) /\ k \in 1 .. m
  BY <1>1
<1>3. Works(insts, stack, k)
  BY <1>2, WorkingIs DEF DedupInv
<1>4. k < m => k < Len(stack)
  BY <1>1, <1>2
<1>5. m # Len(stack) => k < Len(stack)
  BY <1>1, <1>2
<1>6. CASE k < Len(stack)
  BY <1>2, <1>3, <1>6 DEF Frames, Works
<1>7. CASE ~(k < Len(stack))
  BY <1>2, <1>4, <1>5, <1>7 DEF Frames
<1> QED
  BY <1>6, <1>7

LEMMA BeganBefore ==
    ASSUME NEW s, Further(s), NEW is, NEW i \in 1 .. Len(insts), Began(is, s, i), is[i].done = insts[i].done
    PROVE  Began(insts, stack, i)
BY DEF Further, Began

\* Instances that got no further read what they read before.
LEMMA OthersRead ==
    ASSUME SealInv, DedupInv, NEW is, Old(is), NEW s, Further(s), NEW i \in 1 .. Len(insts),
           is[i].cloneOf = 0, Began(is, s, i), Same(is[i], insts[i])
    PROVE  Reads(is[i])
<1>1. Ident(is[i], insts[i]) /\ insts[i].cloneOf = 0
  BY DEF Old, Ident
<1>2. Began(insts, stack, i)
  BY BeganBefore DEF Same
<1>3. Reads(insts[i])
  BY <1>1, <1>2, ReadOnceIs DEF DedupInv
<1> QED
  BY <1>1, <1>3, SameReads DEF Same

LEMMA SelfBegan ==
    ASSUME ScopeInv, SealInv, DedupInv, stack # <<>>, Frame.pc > 0
    PROVE  Reads(Me)
<1>1. /\ Len(stack) \in 1 .. Len(stack) /\ Frame = stack[Len(stack)] /\ Self = stack[Len(stack)].inst
      /\ Self \in 1 .. Len(insts) /\ Me = insts[Self] /\ Me.cloneOf = 0
  BY SelfWorks
<1>2. Began(insts, stack, Self)
  BY <1>1 DEF Began
<1> QED
  BY <1>1, <1>2, ReadOnceIs DEF DedupInv

\* The one who got further, by each move that gets anyone further.
LEMMA SelfReads ==
    ASSUME ScopeInv, SealInv, DedupInv, NEW is, NEW s,
           Starts(is, s) \/ Forces(is, s) \/ Finishes(is)
    PROVE  Reads(is[Self])
<1>0. stack # <<>> /\ Old(is)
  BY DEF Starts, Forces, Finishes
<1>1. Ident(is[Self], Me) /\ Me = insts[Self]
  BY <1>0, SelfWorks DEF Old
<1>2. CASE Starts(is, s)
  BY <1>1, <1>2 DEF Starts, Reads, Ident
<1>3. CASE Forces(is, s)
  <2>1. Reads(Me) /\ is[Self].start = Me.start /\ is[Self].forced = TRUE /\ ~Me.forced
    BY <1>0, <1>3, SelfBegan DEF Forces
  <2>2. ForcedAt[Me.cls] = None
    BY <2>1 DEF Reads
  <2> QED
    BY <1>1, <2>1, <2>2 DEF Reads, Ident
<1>4. CASE Finishes(is)
  <2>1. Reads(Me) /\ Ran(is[Self], Me)
    BY <1>0, <1>4, SelfBegan DEF Finishes, Ran
  <2> QED
    BY <1>1, <2>1, SameReads
<1> QED
  BY <1>2, <1>3, <1>4

LEMMA StartsFurther ==
    ASSUME ScopeInv, SealInv, DedupInv, NEW is, NEW s, Starts(is, s), NEW i \in 1 .. Len(insts),
           i # Self, Began(is, s, i)
    PROVE  Began(insts, stack, i)
<1>0. stack # <<>> /\ s = Advance(stack) /\ Formed(stack) /\ is[i].done = insts[i].done
  BY DEF Starts, ScopeInv, Old, Same
<1>1. Len(stack) \in Nat \ {0} /\ Self = stack[Len(stack)].inst
  BY <1>0, SelfWorks
<1>2. CASE is[i].done = TRUE
  BY <1>0, <1>2 DEF Began
<1>3. ASSUME NEW k \in 1 .. Len(s), s[k].inst = i, s[k].pc > 0
      PROVE  Began(insts, stack, i)
  <2>1. k \in 1 .. Len(stack) /\ s[k].inst = stack[k].inst
        /\ s[k].pc = IF k = Len(stack) THEN stack[k].pc + 1 ELSE stack[k].pc
    BY <1>0, AdvancedIs
  <2>2. k # Len(stack)
    BY <1>1, <1>3, <2>1
  <2> QED
    BY <1>3, <2>1, <2>2 DEF Began
<1> QED
  BY <1>2, <1>3 DEF Began

LEMMA MovesRead ==
    ASSUME ScopeInv, SealInv, DedupInv, NEW is, NEW s, Moves(is, s)
    PROVE  ReadOnce(is, s)
<1>0. Len(insts) \in Nat
  BY InstsAre
<1>1. CASE stack = <<>>
  <2>1. Rests(is, s)
    BY <1>1, Zenon DEF Moves, Starts, Forces, Aliases, Calls, Returns, Replaces, Stops, Gives, Finishes
  <2>2. Len(stack) = 0
    BY <1>1
  <2>3. Len(s) = 0 /\ Old(is) /\ AllSame(is) /\ Len(is) = Len(insts)
    BY <2>1, <2>2 DEF Rests, Frames
  <2>4. Further(s)
    BY <2>3 DEF Further
  <2> QED
    BY <2>3, <2>4, OthersRead, ReadOnceIs DEF AllSame
<1> SUFFICES ASSUME stack # <<>>, NEW i \in 1 .. Len(is), is[i].cloneOf = 0, Began(is, s, i)
             PROVE  Reads(is[i])
  BY <1>1, ReadOnceIs
<1>2. /\ Len(stack) \in 0 .. Len(stack) /\ Len(stack) - 1 \in 0 .. Len(stack)
      /\ Self \in 1 .. Len(insts)
  BY SelfWorks
<1>3. ASSUME Old(is), Further(s), i \in 1 .. Len(insts), i # Self \/ AllSame(is)
      PROVE  Reads(is[i])
  BY <1>3, OthersRead DEF Old, AllSame
<1>4. CASE Rests(is, s) \/ Gives(is, s)
  <2>1. /\ Old(is) /\ AllSame(is) /\ Len(is) = Len(insts)
        /\ \E m \in {Len(stack), Len(stack) - 1} : Frames(s, m)
    BY <1>4 DEF Rests, Gives
  <2> QED
    BY <1>2, <1>3, <2>1, FramesFurther
<1>5. CASE Starts(is, s)
  <2>1. Old(is) /\ Len(is) = Len(insts)
    BY <1>5 DEF Starts
  <2>2. CASE i # Self
    <3>1. Ident(is[i], insts[i]) /\ Same(is[i], insts[i]) /\ insts[i].cloneOf = 0
      BY <2>1, <2>2 DEF Old, Ident
    <3>2. Began(insts, stack, i)
      BY <1>5, <2>1, <2>2, StartsFurther
    <3>3. Reads(insts[i])
      BY <2>1, <3>1, <3>2, ReadOnceIs DEF DedupInv
    <3> QED
      BY <3>1, <3>3, SameReads DEF Same
  <2> QED
    BY <1>5, <2>2, SelfReads
<1>6. CASE Forces(is, s)
  <2>1. Old(is) /\ Len(is) = Len(insts) /\ Further(s)
    BY <1>2, <1>6, FramesFurther DEF Forces
  <2> QED
    BY <1>3, <1>6, <2>1, SelfReads
<1>7. CASE Returns(is, s) \/ Stops(is, s) \/ Replaces(is, s)
  <2>1. Finishes(is) /\ Old(is) /\ Frames(s, Len(stack) - 1)
    BY <1>7 DEF Returns, Stops, Replaces, Finishes
  <2>2. Further(s)
    BY <1>2, <2>1, FramesFurther
  <2>3. i \in 1 .. Len(insts)
    <3>1. CASE Replaces(is, s)
      <4>1. /\ Len(is) = Len(insts) + 1 /\ is[Len(insts) + 1].cloneOf = modules[Post]
            /\ modules[Post] \in 1 .. Len(insts)
        BY <3>1 DEF Replaces, Copies
      <4>2. i # Len(insts) + 1
        BY <1>0, <4>1
      <4> QED
        BY <1>0, <4>1, <4>2
    <3> QED
      BY <1>7, <3>1 DEF Returns, Stops
  <2> QED
    BY <1>3, <2>1, <2>2, <2>3, SelfReads
<1>8. ASSUME NEW src, NEW op, Aliases(is, s, src, op)
      PROVE  Reads(is[i])
  <2>1. /\ Old(is) /\ AllSame(is) /\ Len(is) = Len(insts) + 1 /\ src \in 1 .. Len(insts)
        /\ is[Len(insts) + 1].cloneOf = src /\ Frames(s, Len(stack))
    BY <1>8 DEF Aliases, Copies
  <2>2. i # Len(insts) + 1
    BY <1>0, <2>1
  <2>3. i \in 1 .. Len(insts)
    BY <1>0, <2>1, <2>2
  <2> QED
    BY <1>2, <1>3, <2>1, <2>3, FramesFurther
<1>9. ASSUME NEW op, Calls(is, s, op)
      PROVE  Reads(is[i])
  <2>1. /\ Old(is) /\ AllSame(is) /\ Len(is) = Len(insts) + 1 /\ Len(s) = Len(stack) + 1
        /\ \A k \in 1 .. Len(stack) : s[k] = stack[k]
        /\ s[Len(s)].inst = Len(insts) + 1 /\ s[Len(s)].pc = 0
        /\ is[Len(insts) + 1].done = FALSE
    BY <1>9 DEF Calls
  <2>2. \A k \in 1 .. Len(s) : k \in 1 .. Len(stack) \/ k = Len(s)
    BY <1>2, <2>1
  <2>3. \A k \in 1 .. Len(stack) : stack[k].inst \in 1 .. Len(insts)
    BY DEF SealInv, Linked
  <2>4. Further(s)
    BY <2>1, <2>2 DEF Further
  <2>5. i # Len(insts) + 1
    BY <1>0, <2>1, <2>2, <2>3 DEF Began
  <2>6. i \in 1 .. Len(insts)
    BY <1>0, <2>1, <2>5
  <2> QED
    BY <1>3, <2>1, <2>4, <2>6
<1> QED
  BY <1>4, <1>5, <1>6, <1>7, <1>8, <1>9, Zenon DEF Moves

-----------------------------------------------------------------------------
(* Where later calls are led. *)

LEMMA BindsRefer ==
    ASSUME SealInv, NEW k, NEW v, Binds(modules, modJ, k, v)
    PROVE  v \in 1 .. Len(insts)
BY DEF SealInv, Refs, RefDict, RefJournals, Binds

\* A finished instance stays what it is.
LEMMA DoneStays ==
    ASSUME ScopeInv, SealInv, DedupInv, NEW is, NEW s, Moves(is, s),
           NEW v \in 1 .. Len(insts), insts[v].done = TRUE
    PROVE  Ident(is[v], insts[v]) /\ Same(is[v], insts[v])
<1>1. CASE Rests(is, s)
  BY <1>1 DEF Rests, Old, AllSame
<1>2. CASE ~Rests(is, s)
  <2>1. stack # <<>> /\ Old(is)
    BY <1>2, Zenon DEF Moves, Starts, Forces, Aliases, Calls, Returns, Replaces, Stops, Gives, Finishes
  <2>2. Me.done = FALSE /\ Me = insts[Self]
    BY <2>1, SelfWorks
  <2>3. v # Self
    BY <2>2
  <2> QED
    BY <2>1, <2>3 DEF Old
<1> QED
  BY <1>1, <1>2

LEMMA SpelledStays ==
    ASSUME ScopeInv, SealInv, DedupInv, Moves(insts', stack'), cfg' = cfg,
           NEW v \in 1 .. Len(insts), NEW k, Spelled(insts[v], k)
    PROVE  Spelled(insts[v], k)'
<1>1. \A q : SubtreeSig(q)' = SubtreeSig(q)
  BY CfgSame
<1>2. insts[v].done \in BOOLEAN
  BY DEF DedupInv, Tree
<1>3. Ident(insts'[v], insts[v]) /\ Same(insts'[v], insts[v])
  BY <1>2, DoneStays DEF Spelled
<1> QED
  BY <1>1, <1>3 DEF Spelled, Ident, Same, Ran

\* A child that returns, under what its call gave or what it came to.
LEMMA EarnedSpelled ==
    ASSUME ScopeInv, SealInv, DedupInv, cfg' = cfg, Returns(insts', stack'), NEW me, me = Self
    PROVE  /\ me \in 1 .. Len(insts) /\ me # 1
           /\ \A k : Earned(k) => Spelled(insts[me], k)'
           /\ insts'[me].done = TRUE /\ insts'[me].cloneOf = 0 /\ insts'[me].cls = Me.cls
           /\ insts'[me].eff = Me.eff /\ SubtreeSig(insts[me].path)' = Frame.sig
<1>1. \A q : SubtreeSig(q)' = SubtreeSig(q)
  BY CfgSame
<1>2. /\ stack # <<>> /\ Old(insts') /\ Len(stack) > 1
      /\ insts'[me].val = Me.val /\ insts'[me].done = TRUE
  BY DEF Returns, Finishes
<1>3. /\ me \in 1 .. Len(insts) /\ me # 1 /\ Me = insts[me] /\ Me.cloneOf = 0
      /\ Frame.sig = SubtreeSig(Me.path)
  BY <1>2, SelfWorks
<1>4. Ident(insts'[me], Me)
  BY <1>2, <1>3 DEF Old
<1>5. SubtreeSig(insts[me].path)' = Frame.sig
  BY <1>1, <1>3, <1>4 DEF Ident
<1>6. ASSUME NEW k, Earned(k)
      PROVE  Spelled(insts[me], k)'
  BY <1>2, <1>3, <1>4, <1>5, <1>6 DEF Spelled, Earned, Ident
<1> QED
  BY <1>2, <1>3, <1>4, <1>5, <1>6 DEF Ident

LEMMA KeysWay ==
    ASSUME ScopeInv, SealInv, DedupInv, Moves(insts', stack'), cfg' = cfg,
           NEW k, NEW v, Binds(modules, modJ, k, v)
    PROVE  v # 1 /\ Spelled(insts[v], k)'
<1>1. v \in 1 .. Len(insts)
  BY BindsRefer
<1>2. v # 1 /\ Spelled(insts[v], k)
  BY DEF DedupInv, Ways
<1> QED
  BY <1>1, <1>2, SpelledStays

LEMMA NamesWay ==
    ASSUME ScopeInv, SealInv, DedupInv, Moves(insts', stack'), cfg' = cfg,
           NEW c \in DOMAIN ununiq, c \in DOMAIN ununiq', ununiq'[c] = ununiq[c]
    PROVE  ununiq'[c].inst # 1 /\ Registered(c)'
<1>1. PICK v : v = ununiq[c].inst
  OBVIOUS
<1>2. v \in 1 .. Len(insts) /\ v # 1 /\ Registered(c)
  BY <1>1 DEF SealInv, Refs, RefNames, DedupInv, Ways
<1>3. insts[v].done \in BOOLEAN
  BY <1>2 DEF DedupInv, Tree
<1>4. insts[v].done = TRUE
  BY <1>1, <1>2, <1>3 DEF Registered
<1>5. Ident(insts'[v], insts[v]) /\ Same(insts'[v], insts[v])
  BY <1>2, <1>4, DoneStays
<1>6. \A q : SubtreeSig(q)' = SubtreeSig(q)
  BY CfgSame
<1>7. SubtreeSig(insts[v].path)' = SubtreeSig(insts[v].path)
  BY <1>5, <1>6 DEF Ident
<1> QED
  BY <1>1, <1>2, <1>5, <1>7 DEF Registered, Ident, Same

LEMMA MovesWays ==
    ASSUME ScopeInv, SealInv, DedupInv, Moves(insts', stack'), cfg' = cfg
    PROVE  Ways'
<1>1. CASE KeepsKeys
  BY <1>1, KeysWay, NamesWay DEF KeepsKeys, BindsNew, Ways
<1>2. CASE Returns(insts', stack')
  <2>1. PICK me : me = Self
    OBVIOUS
  <2>2. /\ me \in 1 .. Len(insts) /\ me # 1
        /\ \A k : Earned(k) => Spelled(insts[me], k)'
        /\ insts'[me].done = TRUE /\ insts'[me].cloneOf = 0 /\ insts'[me].cls = Me.cls
        /\ insts'[me].eff = Me.eff /\ SubtreeSig(insts[me].path)' = Frame.sig
    BY <1>2, <2>1, EarnedSpelled
  <2>3. PICK K : (\A k \in K : IsDedupKey(k) => Earned(k)) /\ BindsNew(K)
    BY <1>2 DEF Returns
  <2>4. ASSUME NEW k, NEW v, Binds(modules', modJ', k, v)
        PROVE  v # 1 /\ Spelled(insts[v], k)'
    <3>1. CASE Binds(modules, modJ, k, v)
      BY <3>1, KeysWay
    <3>2. CASE k \in K /\ v = Self
      BY <2>1, <2>2, <2>3, <2>4, <3>2 DEF Binds
    <3> QED
      BY <2>3, <2>4, <3>1, <3>2 DEF BindsNew
  <2>5. ASSUME NEW c \in DOMAIN ununiq'
        PROVE  ununiq'[c].inst # 1 /\ Registered(c)'
    <3> DEFINE e == [inst |-> Self, eff |-> Me.eff, sig |-> Frame.sig]
    <3>1. CASE c \in DOMAIN ununiq /\ ununiq'[c] = ununiq[c]
      BY <2>5, <3>1, NamesWay
    <3>2. CASE c = Me.cls /\ ununiq'[c] = e
      <4>1. ununiq'[c].inst = me /\ ununiq'[c].eff = Me.eff /\ ununiq'[c].sig = Frame.sig
        BY <2>1, <3>2
      <4> QED
        BY <2>2, <3>2, <4>1 DEF Registered
    <3>3. ununiq' = ununiq \/ ununiq' = Put(ununiq, Me.cls, e)
      BY <1>2 DEF Returns
    <3> HIDE DEF e
    <3> QED
      BY <2>5, <3>1, <3>2, <3>3 DEF Put
  <2> QED
    BY <2>4, <2>5 DEF Ways
<1> QED
  BY <1>1, <1>2, Zenon DEF Moves, Rests, Starts, Forces, Aliases, Calls, Replaces, Stops, Gives

-----------------------------------------------------------------------------
(* What is shared. *)

\* What Shares says of a clone r of src, at the forces is.
SharesOne(is, r, src) ==
    /\ r.cloneOf # 1 /\ src.cloneOf = 0 /\ r.cls = src.cls
    /\ SubtreeSig(r.path) = SubtreeSig(src.path)
    /\ Declared(is) => ParamValue(r.cls, r.path, EffParams(r.path, r.kw)) = r.start

LEMMA SharesIs ==
    ASSUME NEW is
    PROVE  Shares(is) <=> \A i \in 1 .. Len(is) :
               is[i].cloneOf # 0 /\ is[i].by # "clone" => SharesOne(is, is[i], is[is[i].cloneOf])
BY DEF Shares, SharesOne

\* No step takes a force back.
LEMMA DeclaredBefore ==
    ASSUME ScopeInv, SealInv, DedupInv, NEW is, NEW s, Moves(is, s), Declared(is)
    PROVE  Declared(insts)
<1> SUFFICES ASSUME NEW i \in 1 .. Len(insts), insts[i].forced = TRUE
             PROVE  ForcedAt[insts[i].cls] # None
  BY DEF Declared
<1>0. Len(insts) \in Nat /\ Len(is) \in {Len(insts), Len(insts) + 1} /\ Old(is)
  <2>1. Grows(is)
    BY MovesGrow
  <2> QED
    BY <2>1, InstsAre DEF Grows, Arrives
<1>1. is[i].forced = TRUE
  <2>1. CASE i # Self
    BY <1>0, <2>1 DEF Old, Same, Ran
  <2>2. CASE AllSame(is)
    BY <2>2 DEF AllSame, Same, Ran
  <2>3. CASE i = Self /\ Starts(is, s)
    <3>1. Frame.pc = 0 /\ stack # <<>>
      BY <2>3 DEF Starts
    <3>2. /\ Len(stack) \in 1 .. Len(stack) /\ Frame = stack[Len(stack)] /\ Self = stack[Len(stack)].inst
      BY <3>1, SelfWorks
    <3>3. Works(insts, stack, Len(stack))
      BY <3>2, WorkingIs DEF DedupInv
    <3> QED
      BY <2>3, <3>1, <3>2, <3>3 DEF Works
  <2>4. CASE i = Self /\ Forces(is, s)
    BY <2>4 DEF Forces
  <2>5. CASE i = Self /\ Finishes(is)
    <3>1. Me.forced = TRUE
      BY <2>5 DEF Me
    <3> QED
      BY <2>5, <3>1 DEF Finishes
  <2> QED
    BY <2>1, <2>2, <2>3, <2>4, <2>5, Zenon
       DEF Moves, Rests, Aliases, Calls, Returns, Replaces, Stops, Gives
<1>2. i \in 1 .. Len(is)
  BY <1>0
<1> QED
  BY <1>0, <1>1, <1>2 DEF Declared, Old, Ident

\* A finished original that is not the top is read at its path as any
\* instance of its class and signature would be.
LEMMA FoundShares ==
    ASSUME ClassAssumption, SealInv, DedupInv, NEW src \in 1 .. Len(insts), src # 1,
           insts[src].done, insts[src].cloneOf = 0,
           NEW p, NEW kw, IsSeq(p), SubtreeSig(p) = SubtreeSig(insts[src].path),
           insts[src].eff = EffParams(p, kw)
    PROVE  ParamValue(insts[src].cls, p, EffParams(p, kw)) = insts[src].start
<1>1. /\ IsSeq(insts[src].path) /\ insts[src].done \in BOOLEAN
      /\ insts[src].eff = EffParams(insts[src].path, insts[src].kw)
  BY DEF DedupInv, Tree
<1>2. Reads(insts[src])
  <2>1. Began(insts, stack, src)
    BY <1>1 DEF Began
  <2> QED
    BY <2>1, ReadOnceIs DEF DedupInv
<1>3. PICK q : q = insts[src].path
  OBVIOUS
<1>4. PICK c, j : c = insts[src].cls /\ j = insts[src].kw
  OBVIOUS
<1>5. Read(p) = Read(q)
  BY <1>1, <1>3, SigReads DEF DedupInv
<1>6. EffParams(p, kw) = EffParams(q, j)
  BY <1>1, <1>3, <1>4
<1>7. ParamValue(c, p, EffParams(p, kw)) = ParamValue(c, q, EffParams(q, j))
  BY <1>5, <1>6, GivenAlike
<1> QED
  BY <1>1, <1>2, <1>3, <1>4, <1>7 DEF Reads

LEMMA AliasShares ==
    ASSUME ClassAssumption, ScopeInv, SealInv, DedupInv, NEW is, NEW s, NEW src, NEW op,
           Aliases(is, s, src, op), is[Len(insts) + 1].by # "clone"
    PROVE  SharesOne(is, is[Len(insts) + 1], is[src])
<1> DEFINE r == is[Len(insts) + 1]
<1>1. /\ Old(is) /\ stack # <<>> /\ src \in 1 .. Len(insts) /\ Copies(r, src)
      /\ Placed(r, Self, op.iname, ChildPath(op), op.kw, op.op)
      /\ FoundKey(src, op) \/ FoundName(src, op) \/ FoundOther(src, op)
  BY DEF Aliases
<1>2. ~FoundOther(src, op)
  BY <1>1 DEF FoundOther, Placed
<1>3. /\ src # 1 /\ insts[src].done /\ insts[src].cloneOf = 0 /\ insts[src].cls = op.cls
      /\ insts[src].eff = Eff(op) /\ SubtreeSig(insts[src].path) = Sig(op)
  <2>1. CASE FoundKey(src, op)
    <3>1. PICK k \in DOMAIN modules : /\ IsDedupKey(k) /\ k[1] # "post" /\ modules[k] = src
                              /\ k[2] = op.cls /\ k[3] = Eff(op) /\ k[4] = Sig(op)
      BY <2>1 DEF FoundKey
    <3>2. Binds(modules, modJ, k, src)
      BY <3>1 DEF Binds
    <3>3. src # 1 /\ Spelled(insts[src], k)
      BY <3>2 DEF DedupInv, Ways
    <3> QED
      BY <3>1, <3>3 DEF Spelled
  <2>2. CASE FoundName(src, op)
    BY <2>2 DEF FoundName, DedupInv, Ways, Registered
  <2> QED
    BY <1>1, <1>2, <2>1, <2>2
<1>4. IsSeq(ChildPath(op))
  <2>1. IsSeq(Me.path)
    BY <1>1, SelfWorks DEF DedupInv, Tree
  <2> QED
    BY <2>1, AppendIs DEF ChildPath
<1>5. PICK p : p = ChildPath(op)
  OBVIOUS
<1>6. r.path = p /\ r.kw = op.kw /\ r.cls = insts[src].cls /\ r.start = insts[src].start /\ r.cloneOf = src
  BY <1>1, <1>5 DEF Placed, Copies, Ran
<1>7. SubtreeSig(p) = SubtreeSig(insts[src].path) /\ insts[src].eff = EffParams(p, op.kw) /\ IsSeq(p)
  BY <1>3, <1>4, <1>5 DEF Sig, Eff
<1>8. ParamValue(insts[src].cls, p, EffParams(p, op.kw)) = insts[src].start
  BY <1>1, <1>3, <1>7, FoundShares
<1>9. Ident(is[src], insts[src])
  BY <1>1 DEF Old
<1> HIDE DEF r
<1>10. SharesOne(is, r, is[src])
  BY <1>3, <1>6, <1>7, <1>8, <1>9 DEF SharesOne, Ident
<1> QED
  BY <1>10 DEF r

LEMMA ReplaceShares ==
    ASSUME ClassAssumption, ScopeInv, SealInv, DedupInv, NEW is, NEW s, Moves(is, s), Replaces(is, s)
    PROVE  SharesOne(is, is[Len(insts) + 1], is[modules[Post]])
<1> DEFINE r == is[Len(insts) + 1]
           src == modules[Post]
<1>1. /\ Finishes(is) /\ Len(stack) > 1 /\ Post \in DOMAIN modules /\ src \in 1 .. Len(insts)
      /\ Copies(r, src) /\ Placed(r, Me.parent, Me.iname, Me.path, Me.kw, Me.by)
  BY DEF Replaces
<1>2. stack # <<>> /\ Old(is) /\ Frame.pc > 0
  BY <1>1 DEF Finishes
<1>3. src # 1 /\ Spelled(insts[src], Post)
  <2>1. IsDedupKey(Post)
    BY DEF Post, PostKey, IsDedupKey
  <2>2. Binds(modules, modJ, Post, src)
    BY <1>1, <2>1 DEF Binds
  <2> QED
    BY <2>2 DEF DedupInv, Ways
<1>4. /\ insts[src].done /\ insts[src].cloneOf = 0 /\ insts[src].cls = Me.cls /\ insts[src].val = Me.val
      /\ SubtreeSig(insts[src].path) = Frame.sig
  BY <1>3 DEF Spelled, Post, PostKey
<1>5. /\ Me = insts[Self] /\ Self \in 1 .. Len(insts) /\ Me.cloneOf = 0 /\ Self # 1
      /\ Frame.sig = SubtreeSig(Me.path)
  BY <1>1, <1>2, SelfWorks
<1>6. Reads(Me) /\ Me.eff = EffParams(Me.path, Me.kw) /\ Me.forced \in BOOLEAN
  BY <1>2, <1>5, SelfBegan DEF DedupInv, Tree
<1>7. Reads(insts[src]) /\ insts[src].forced \in BOOLEAN
  <2>1. insts[src].done \in BOOLEAN /\ insts[src].forced \in BOOLEAN
    BY <1>1 DEF DedupInv, Tree
  <2>2. Began(insts, stack, src)
    BY <1>4, <2>1 DEF Began
  <2> QED
    BY <1>1, <1>4, <2>1, <2>2, ReadOnceIs DEF DedupInv
<1>8. ASSUME Declared(is)
      PROVE  Me.val = Me.start /\ insts[src].val = insts[src].start
  <2>1. Declared(insts)
    BY <1>8, DeclaredBefore
  <2> QED
    BY <1>1, <1>5, <1>6, <1>7, <2>1 DEF Declared, Reads
<1>9. /\ r.cls = insts[src].cls /\ r.start = insts[src].start /\ r.cloneOf = src
      /\ r.path = Me.path /\ r.kw = Me.kw
  BY <1>1 DEF Placed, Copies, Ran
<1>10. Ident(is[src], insts[src])
  BY <1>1, <1>2 DEF Old
<1> HIDE DEF r, src
<1>11. SharesOne(is, r, is[src])
  BY <1>3, <1>4, <1>5, <1>6, <1>8, <1>9, <1>10 DEF SharesOne, Ident, Reads
<1> QED
  BY <1>11 DEF r, src

LEMMA MovesShare ==
    ASSUME ClassAssumption, ScopeInv, SealInv, DedupInv, NEW is, NEW s, Moves(is, s)
    PROVE  Shares(is)
<1> SUFFICES ASSUME NEW i \in 1 .. Len(is), is[i].cloneOf # 0, is[i].by # "clone"
             PROVE  SharesOne(is, is[i], is[is[i].cloneOf])
  BY SharesIs
<1>0. Len(insts) \in Nat /\ Old(is) /\ (Len(is) = Len(insts) \/ Len(is) = Len(insts) + 1)
  <2>1. Grows(is)
    BY MovesGrow
  <2> QED
    BY <2>1, InstsAre DEF Grows, Arrives
<1>1. CASE i \in 1 .. Len(insts)
  <2>1. Ident(is[i], insts[i])
    BY <1>0, <1>1 DEF Old
  <2>2. SharesOne(insts, insts[i], insts[insts[i].cloneOf]) /\ insts[i].cloneOf \in 1 .. Len(insts)
    <3>1. insts[i].cloneOf \in Nat /\ insts[i].cloneOf < i /\ insts[i].cloneOf # 0
      BY <1>1, <2>1 DEF DedupInv, Tree, Ident
    <3> QED
      BY <1>0, <1>1, <2>1, <3>1, SharesIs DEF DedupInv, Ident
  <2>3. Ident(is[insts[i].cloneOf], insts[insts[i].cloneOf])
    BY <1>0, <2>2 DEF Old
  <2>4. is[i].start = insts[i].start
    <3>1. CASE Rests(is, s)
      BY <1>1, <3>1 DEF Rests, AllSame, Same, Ran
    <3>2. CASE ~Rests(is, s)
      <4>1. stack # <<>>
        BY <3>2, Zenon DEF Moves, Starts, Forces, Aliases, Calls, Returns, Replaces, Stops, Gives, Finishes
      <4>2. Me.cloneOf = 0 /\ Me = insts[Self]
        BY <4>1, SelfWorks
      <4>3. i # Self
        BY <2>1, <4>2 DEF Ident
      <4> QED
        BY <1>0, <1>1, <4>3 DEF Old, Same, Ran
    <3> QED
      BY <3>1, <3>2
  <2>5. Declared(is) => Declared(insts)
    BY DeclaredBefore
  <2> QED
    BY <2>1, <2>2, <2>3, <2>4, <2>5 DEF SharesOne, Ident
<1>2. CASE i \notin 1 .. Len(insts)
  <2>1. i = Len(insts) + 1 /\ Len(is) = Len(insts) + 1 /\ Len(is) # Len(insts)
    BY <1>0, <1>2
  <2>2. ASSUME NEW src, NEW op, Aliases(is, s, src, op)
        PROVE  SharesOne(is, is[i], is[is[i].cloneOf])
    <3>1. is[i].cloneOf = src
      BY <2>1, <2>2 DEF Aliases, Copies
    <3> QED
      BY <2>1, <2>2, <3>1, AliasShares
  <2>3. CASE Replaces(is, s)
    <3>1. is[i].cloneOf = modules[Post]
      BY <2>1, <2>3 DEF Replaces, Copies
    <3> QED
      BY <2>1, <2>3, <3>1, ReplaceShares
  <2>4. ASSUME NEW op, Calls(is, s, op)
        PROVE  FALSE
    BY <2>1, <2>4 DEF Calls
  <2> QED
    BY <2>1, <2>2, <2>3, <2>4, Zenon DEF Moves, Rests, Starts, Forces, Returns, Stops, Gives
<1> QED
  BY <1>1, <1>2

-----------------------------------------------------------------------------
(* The invariant is one. *)

LEMMA DedupPrimed ==
    ASSUME cfg' = cfg, NEW is, NEW s
    PROVE  /\ Tree(is) => Tree(is)'
           /\ Working(is, s) => Working(is, s)'
           /\ ReadOnce(is, s) => ReadOnce(is, s)'
           /\ Shares(is) => Shares(is)'
<1>1. \A q : SubtreeSig(q)' = SubtreeSig(q)
  BY CfgSame
<1>2. \A q, e : EffParams(q, e)' = EffParams(q, e)
  BY CfgSame
<1>3. \A c, q, e : ParamValue(c, q, e)' = ParamValue(c, q, e)
  BY CfgSame
<1>4. Tree(is) => Tree(is)'
  BY <1>2 DEF Tree, IsSeq
<1>5. Working(is, s) => Working(is, s)'
  BY <1>1 DEF Working
<1>6. ReadOnce(is, s) => ReadOnce(is, s)'
  BY <1>3 DEF ReadOnce, Began
<1>7. Shares(is) => Shares(is)'
  BY <1>1, <1>2, <1>3 DEF Shares, Declared
<1> QED
  BY <1>4, <1>5, <1>6, <1>7

LEMMA DedupNext ==
    ASSUME ClassAssumption, ScopeInv, SealInv, DedupInv, [Next]_vars
    PROVE  DedupInv'
<1>1. Moves(insts', stack') /\ cfg' = cfg
  BY NextMoves
<1>2. PICK is, s : is = insts' /\ s = stack'
  OBVIOUS
<1>3. Tree(is) /\ Working(is, s) /\ ReadOnce(is, s) /\ Shares(is) /\ Len(is) > 0
  <2>1. Moves(is, s)
    BY <1>1, <1>2
  <2>2. Grows(is)
    BY <2>1, MovesGrow
  <2>3. Len(insts) \in Nat /\ Len(insts) > 0
    BY InstsAre DEF DedupInv
  <2>4. Tree(is)
    BY <2>2, TreeGrows DEF DedupInv
  <2>5. Len(is) > 0
    BY <2>2, <2>3 DEF Grows, Arrives
  <2> QED
    BY <2>1, <2>4, <2>5, MovesWork, MovesRead, MovesShare
<1>4. Ways'
  BY <1>1, MovesWays
<1>5. Tree(is)' /\ Working(is, s)' /\ ReadOnce(is, s)' /\ Shares(is)'
  BY <1>1, <1>3, DedupPrimed
<1>6. Tree(insts)' /\ Working(insts, stack)' /\ ReadOnce(insts, stack)' /\ Shares(insts)'
  BY <1>2, <1>5
<1>7. (cfg \in Settings)' /\ (Len(insts) > 0)'
  BY <1>1, <1>2, <1>3 DEF DedupInv
<1> QED
  BY <1>4, <1>6, <1>7 DEF DedupInv

LEMMA DedupInit ==
    ASSUME Init
    PROVE  DedupInv
<1> DEFINE r == NewInst(TopClass, 0, TopClass, <<TopClass>>, None, None, <<TopClass>>, "top")
           f == [inst |-> 1, pc |-> 0, kind |-> "top", sig |-> {}, popen |-> FALSE, prev |-> 0]
<1>1. /\ insts = <<r>> /\ stack = <<f>> /\ modJ = <<>> /\ ununiq = Empty /\ cfg \in Settings
      /\ modules = Put(Empty, NameKey(<<TopClass>>), 1)
  BY Zenon DEF Init
<1>2. /\ r.parent = 0 /\ r.cloneOf = 0 /\ r.done = FALSE /\ r.forced = FALSE /\ r.eff = None
      /\ r.path = <<TopClass>> /\ r.subs = Empty /\ f.inst = 1 /\ f.pc = 0
  BY DEF NewInst
<1> HIDE DEF r, f
<1>3. Len(insts) = 1 /\ insts[1] = r /\ Len(stack) = 1 /\ stack[1] = f /\ Len(modJ) = 0
  BY <1>1
<1>4. IsSeq(r.path)
  <2>1. <<TopClass>> \in Seq({TopClass})
    OBVIOUS
  <2> QED
    BY <1>2, <2>1 DEF IsSeq
<1>5. Tree(insts)
  <2>1. DOMAIN r.subs = {}
    BY <1>2 DEF Empty
  <2>2. ASSUME NEW i \in 1 .. Len(insts)
        PROVE  i = 1 /\ insts[i] = r
    BY <1>3
  <2>3. r.parent \in Nat /\ r.parent < 1 /\ r.cloneOf \in Nat /\ r.cloneOf < 1
    BY <1>2
  <2>4. r.done \in BOOLEAN /\ r.forced \in BOOLEAN
    BY <1>2
  <2> QED
    BY <1>2, <1>4, <2>1, <2>2, <2>3, <2>4 DEF Tree
<1>6. Working(insts, stack)
  BY <1>2, <1>3 DEF Working
<1>7. ReadOnce(insts, stack) /\ Shares(insts)
  BY <1>2, <1>3 DEF ReadOnce, Began, Shares
<1>8. Ways
  <2>1. ~IsDedupKey(NameKey(<<TopClass>>))
    BY DEF IsDedupKey, NameKey
  <2>2. DOMAIN modules = {NameKey(<<TopClass>>)} /\ DOMAIN ununiq = {}
    BY <1>1 DEF Put, Empty
  <2> QED
    BY <1>3, <2>1, <2>2 DEF Ways, Binds
<1> QED
  BY <1>1, <1>3, <1>5, <1>6, <1>7, <1>8 DEF DedupInv

LEMMA DedupHonest ==
    ASSUME DedupInv
    PROVE  KeysHonest
BY DEF DedupInv, Ways, Binds, KeysHonest, DedupKeys

\* Whatever the templates do, a dedup key and the registry of bare names lead
\* to an instance that finished its body, of the class and the value the key
\* spells: no call is given one that raised or that changed since, also after
\* post-elaboration rollbacks put earlier bindings back.
THEOREM KeysHonestAlways == Spec => []KeysHonest
<1> DEFINE IInv == ScopeInv /\ SealInv /\ DedupInv
<1>1. Init => IInv
  BY ScopeInit, SealInit, DedupInit
<1>2. IInv /\ [Next]_vars => IInv'
  BY ClassAssumption, ScopeNext, SealNext, DedupNext DEF SealStep
<1>3. IInv => KeysHonest
  BY DedupHonest
<1> QED
  BY <1>1, <1>2, <1>3, PTL DEF Spec

-----------------------------------------------------------------------------
(* The hierarchy, clones unrolled. *)

\* Induction over the natural numbers, for a set of them.
LEMMA AllNat ==
    ASSUME NEW S, 0 \in S, \A k \in Nat : k \in S => k + 1 \in S
    PROVE  \A k \in Nat : k \in S
<1> SUFFICES ASSUME Nat \ S # {} PROVE FALSE
  OBVIOUS
<1> DEFINE R == OpToRel(<, Nat)
<1>1. OpToRel(<, Nat) = {ss \in Nat \X Nat : ss[1] < ss[2]}
  BY DEF OpToRel
<1>2. IsWellFoundedOn(R, Nat)
  BY NatLessThanWellFounded
<1>3. PICK T : T = Nat \ S
  OBVIOUS
<1>4. PICK m \in T : \A k \in T : ~ (<<k, m>> \in R)
  <2> HIDE DEF R
  <2>1. T \subseteq Nat /\ T # {}
    BY <1>3
  <2> QED
    BY <1>2, <2>1, WFMin
<1>5. m \in Nat /\ m # 0
  BY <1>3, <1>4
<1>6. m - 1 \in Nat /\ m - 1 < m /\ (m - 1) + 1 = m
  BY <1>5
<1>7. m - 1 \in T
  BY <1>3, <1>4, <1>5, <1>6
<1>8. <<m - 1, m>> \notin {ss \in Nat \X Nat : ss[1] < ss[2]}
  BY <1>1, <1>4, <1>7
<1> QED
  BY <1>5, <1>6, <1>8

-----------------------------------------------------------------------------
(* The hierarchy as emitted, level by level. *)

Below(n) == {<<SubsOf(n[1])[x], Append(n[2], x)>> : x \in DOMAIN SubsOf(n[1])}
Deeper(L) == {m \in UNION {Below(n) : n \in L} : insts[m[1]].by # "clone"}
IsLevels(f, d) ==
    f = [e \in 0 .. d |-> IF e = 0 THEN {<<1, insts[1].path>>} ELSE Deeper(f[e - 1])]

LEMMA LevelsExist ==
    \A d \in Nat : \E f : IsLevels(f, d)
<1> DEFINE S == {d \in Nat : \E f : IsLevels(f, d)}
<1>1. 0 \in S
  <2>1. PICK f : f = [e \in 0 .. 0 |-> {<<1, insts[1].path>>}]
    OBVIOUS
  <2>2. IsLevels(f, 0)
    BY <2>1 DEF IsLevels
  <2> QED
    BY <2>2
<1>2. ASSUME NEW d \in Nat, NEW f, IsLevels(f, d)
      PROVE  \E g : IsLevels(g, d + 1)
  <2>1. PICK g : g = [e \in 0 .. d + 1 |-> IF e = 0 THEN {<<1, insts[1].path>>} ELSE Deeper(f[e - 1])]
    OBVIOUS
  <2>2. ASSUME NEW e \in 0 .. d
        PROVE  g[e] = f[e]
    <3>1. f[e] = IF e = 0 THEN {<<1, insts[1].path>>} ELSE Deeper(f[e - 1])
      BY <1>2 DEF IsLevels
    <3>2. e \in 0 .. d + 1
      OBVIOUS
    <3> QED
      BY <2>1, <3>1, <3>2
  <2>3. \A e \in 0 .. d + 1 : e # 0 => e - 1 \in 0 .. d
    OBVIOUS
  <2>4. IsLevels(g, d + 1)
    BY <2>1, <2>2, <2>3 DEF IsLevels
  <2> QED
    BY <2>4
<1>3. \A k \in Nat : k \in S => k + 1 \in S
  BY <1>2
<1> HIDE DEF S
<1>4. \A k \in Nat : k \in S
  BY <1>1, <1>3, AllNat
<1> QED
  BY <1>4 DEF S

LEMMA UnrolledIs ==
    ASSUME ClassAssumption
    PROVE  \E f : /\ IsLevels(f, MaxDepth)
                  /\ Unrolled = UNION {f[d] : d \in 0 .. MaxDepth}
<1> DEFINE level[d \in 0 .. MaxDepth] == IF d = 0 THEN {<<1, insts[1].path>>} ELSE Deeper(level[d - 1])
<1>0. MaxDepth \in Nat
  BY DEF ClassAssumption
<1>1. Unrolled = UNION {level[d] : d \in 0 .. MaxDepth}
  BY Zenon DEF Unrolled, Below, Deeper
<1>2. level = CHOOSE f : IsLevels(f, MaxDepth)
  BY Zenon DEF IsLevels
<1>3. IsLevels(level, MaxDepth)
  <2> HIDE DEF level
  <2> QED
    BY <1>0, <1>2, LevelsExist
<1> QED
  BY <1>1, <1>3

-----------------------------------------------------------------------------
(* The recursive functions over instances, unfolded once. *)

IsOrigins(f, d) ==
    f = [n \in 1 .. d |-> IF insts[n].cloneOf = 0 THEN n ELSE f[insts[n].cloneOf]]

LEMMA OriginsExist ==
    ASSUME SealInv, Tree(insts)
    PROVE  \A d \in Nat : d <= Len(insts) => \E f : IsOrigins(f, d)
<1> DEFINE S == {d \in Nat : d <= Len(insts) => \E f : IsOrigins(f, d)}
<1>0. Len(insts) \in Nat
  BY InstsAre
<1>1. 0 \in S
  <2>1. PICK f : f = [n \in 1 .. 0 |-> 0]
    OBVIOUS
  <2>2. IsOrigins(f, 0)
    BY <2>1 DEF IsOrigins
  <2> QED
    BY <2>2
<1>2. ASSUME NEW d \in Nat, d + 1 <= Len(insts), NEW f, IsOrigins(f, d)
      PROVE  \E g : IsOrigins(g, d + 1)
  <2>1. PICK g : g = [n \in 1 .. d + 1 |-> IF insts[n].cloneOf = 0 THEN n ELSE f[insts[n].cloneOf]]
    OBVIOUS
  <2>2. ASSUME NEW n \in 1 .. d
        PROVE  g[n] = f[n]
    <3>1. f[n] = IF insts[n].cloneOf = 0 THEN n ELSE f[insts[n].cloneOf]
      BY <1>2 DEF IsOrigins
    <3>2. n \in 1 .. d + 1
      OBVIOUS
    <3> QED
      BY <2>1, <3>1, <3>2
  <2>3. ASSUME NEW n \in 1 .. d + 1, insts[n].cloneOf # 0
        PROVE  insts[n].cloneOf \in 1 .. d
    <3>1. n \in 1 .. Len(insts)
      BY <1>0, <1>2
    <3> QED
      BY <2>3, <3>1 DEF Tree
  <2>4. IsOrigins(g, d + 1)
    BY <2>1, <2>2, <2>3 DEF IsOrigins
  <2> QED
    BY <2>4
<1>3. \A k \in Nat : k \in S => k + 1 \in S
  BY <1>0, <1>2
<1> HIDE DEF S
<1>4. \A k \in Nat : k \in S
  BY <1>1, <1>3, AllNat
<1> QED
  BY <1>4 DEF S

LEMMA OriginIs ==
    ASSUME SealInv, Tree(insts), NEW i \in 1 .. Len(insts)
    PROVE  Origin(i) = IF insts[i].cloneOf = 0 THEN i ELSE Origin(insts[i].cloneOf)
<1> DEFINE source[n \in 1 .. Len(insts)] ==
              IF insts[n].cloneOf = 0 THEN n ELSE source[insts[n].cloneOf]
<1>0. Len(insts) \in Nat /\ Len(insts) <= Len(insts)
  BY InstsAre
<1>1. \A n : Origin(n) = source[n]
  BY Zenon DEF Origin
<1>2. source = CHOOSE f : IsOrigins(f, Len(insts))
  BY Zenon DEF IsOrigins
<1> HIDE DEF source
<1>3. IsOrigins(source, Len(insts))
  BY <1>0, <1>2, OriginsExist
<1> QED
  BY <1>1, <1>3 DEF IsOrigins

LEMMA OriginAll ==
    SealInv /\ Tree(insts) =>
        \A i \in 1 .. Len(insts) :
            Origin(i) = IF insts[i].cloneOf = 0 THEN i ELSE Origin(insts[i].cloneOf)
BY OriginIs

LEMMA OriginFound ==
    ASSUME SealInv, Tree(insts)
    PROVE  \A i \in 1 .. Len(insts) :
              /\ Origin(i) \in 1 .. Len(insts) /\ Origin(i) <= i /\ insts[Origin(i)].cloneOf = 0
<1> DEFINE P(i) == Origin(i) \in 1 .. Len(insts) /\ Origin(i) <= i /\ insts[Origin(i)].cloneOf = 0
           S == {d \in Nat : \A i \in 1 .. Len(insts) : i <= d => P(i)}
<1>0. Len(insts) \in Nat
  BY InstsAre
<1>1. 0 \in S
  OBVIOUS
<1>2. ASSUME NEW d \in Nat, d \in S, NEW i \in 1 .. Len(insts), i <= d + 1
      PROVE  P(i)
  <2>1. CASE insts[i].cloneOf = 0
    BY <2>1, OriginIs
  <2>2. CASE insts[i].cloneOf # 0
    <3>1. insts[i].cloneOf \in 1 .. Len(insts) /\ insts[i].cloneOf <= d /\ insts[i].cloneOf < i
      BY <1>0, <1>2, <2>2 DEF Tree
    <3>2. P(insts[i].cloneOf) /\ Origin(i) = Origin(insts[i].cloneOf)
      BY <1>2, <2>2, <3>1, OriginIs
    <3> QED
      BY <1>0, <3>1, <3>2
  <2> QED
    BY <2>1, <2>2
<1>3. \A k \in Nat : k \in S => k + 1 \in S
  BY <1>2
<1> HIDE DEF S
<1>4. Len(insts) \in S
  BY <1>0, <1>1, <1>3, AllNat
<1> QED
  BY <1>0, <1>4 DEF S

-----------------------------------------------------------------------------
(* The hierarchy, clones unrolled. *)

\* An occurrence of an instance whose path has the signature of its own.
Fits(n) ==
    /\ n[1] \in 1 .. Len(insts) /\ IsSeq(n[2])
    /\ SubtreeSig(n[2]) = SubtreeSig(insts[n[1]].path)
    /\ n[1] = 1 => n[2] = insts[1].path
    /\ n[1] # 1 => insts[n[1]].by # "clone"

LEMMA BelowFits ==
    ASSUME ClassAssumption, SealInv, DedupInv, NEW n, Fits(n), NEW m \in Below(n),
           insts[m[1]].by # "clone"
    PROVE  Fits(m)
<1>0. Tree(insts) /\ n[1] \in 1 .. Len(insts)
  BY DEF DedupInv, Fits
<1>1. PICK o : o = Origin(n[1])
  OBVIOUS
<1>2. /\ o \in 1 .. Len(insts) /\ IsSeq(insts[o].path)
      /\ SubtreeSig(insts[o].path) = SubtreeSig(n[2])
  <2>1. o \in 1 .. Len(insts)
    BY <1>0, <1>1, OriginFound
  <2>2. CASE insts[n[1]].cloneOf = 0
    BY <1>0, <1>1, <2>2, OriginIs DEF Fits, Tree
  <2>3. CASE insts[n[1]].cloneOf # 0
    <3>1. n[1] # 1
      BY <1>0, <2>3 DEF Tree
    <3>2. SharesOne(insts, insts[n[1]], insts[insts[n[1]].cloneOf])
      BY <1>0, <2>3, <3>1, SharesIs DEF DedupInv, Fits
    <3>3. insts[n[1]].cloneOf \in 1 .. Len(insts)
      BY <1>0, <2>3, InstsAre DEF Tree
    <3>4. o = insts[n[1]].cloneOf
      BY <1>0, <1>1, <2>3, <3>2, <3>3, OriginIs DEF SharesOne
    <3> QED
      BY <1>0, <2>1, <3>2, <3>4 DEF SharesOne, Fits, Tree
  <2> QED
    BY <2>1, <2>2, <2>3
<1>3. PICK x \in DOMAIN insts[o].subs : m = <<insts[o].subs[x], Append(n[2], x)>>
  BY <1>1 DEF Below, SubsOf
<1>4. PICK j : j = insts[o].subs[x]
  OBVIOUS
<1>5. j \in 1 .. Len(insts) /\ insts[j].parent = o /\ insts[j].iname = x
  BY <1>0, <1>2, <1>4 DEF SealInv, Shaped, Tree
<1>6. j # 1 /\ insts[j].path = Append(insts[o].path, x)
  BY <1>0, <1>2, <1>5 DEF Tree
<1>7. IsSeq(Append(n[2], x))
  BY AppendIs DEF Fits
<1>8. SubtreeSig(Append(n[2], x)) = SubtreeSig(insts[j].path)
  <2>1. PICK p, q : p = n[2] /\ q = insts[o].path
    OBVIOUS
  <2>2. SubtreeSig(Append(p, x)) = SubtreeSig(Append(q, x))
    BY <1>2, <2>1, SigBelow DEF DedupInv, Fits
  <2> QED
    BY <1>6, <2>1, <2>2
<1> QED
  BY <1>3, <1>4, <1>5, <1>6, <1>7, <1>8 DEF Fits

LEMMA UnrolledFits ==
    ASSUME ClassAssumption, SealInv, DedupInv
    PROVE  \A n \in Unrolled : Fits(n)
<1>1. PICK f : IsLevels(f, MaxDepth) /\ Unrolled = UNION {f[d] : d \in 0 .. MaxDepth}
  BY UnrolledIs
<1>2. MaxDepth \in Nat
  BY DEF ClassAssumption
<1>3. \A d \in 0 .. MaxDepth : f[d] = IF d = 0 THEN {<<1, insts[1].path>>} ELSE Deeper(f[d - 1])
  BY <1>1 DEF IsLevels
<1> DEFINE S == {d \in Nat : d <= MaxDepth => \A n \in f[d] : Fits(n)}
<1>4. 0 \in S
  <2>1. f[0] = {<<1, insts[1].path>>}
    BY <1>2, <1>3
  <2>2. 1 \in 1 .. Len(insts) /\ IsSeq(insts[1].path)
    BY InstsAre DEF DedupInv, Tree
  <2> QED
    BY <2>1, <2>2 DEF Fits
<1>5. ASSUME NEW d \in Nat, d \in S, d + 1 <= MaxDepth, NEW m \in f[d + 1]
      PROVE  Fits(m)
  <2>1. f[d + 1] = Deeper(f[d]) /\ d <= MaxDepth
    <3>1. d + 1 \in 0 .. MaxDepth /\ d + 1 # 0 /\ (d + 1) - 1 = d
      BY <1>2, <1>5
    <3> QED
      BY <1>2, <1>3, <3>1
  <2>2. PICK n \in f[d] : m \in Below(n) /\ insts[m[1]].by # "clone"
    BY <1>5, <2>1 DEF Deeper
  <2>3. Fits(n)
    BY <1>5, <2>1
  <2> QED
    BY <2>2, <2>3, BelowFits
<1>6. \A k \in Nat : k \in S => k + 1 \in S
  BY <1>5
<1> HIDE DEF S
<1>7. \A k \in Nat : k \in S
  BY <1>4, <1>6, AllNat
<1>8. \A d \in 0 .. MaxDepth : \A n \in f[d] : Fits(n)
  BY <1>2, <1>7 DEF S
<1> QED
  BY <1>1, <1>8

\* A finished occurrence has the value that would be read there.
LEMMA FitHonours ==
    ASSUME ClassAssumption, SealInv, DedupInv, OneScale, Declared(insts),
           NEW n, Fits(n), insts[n[1]].done
    PROVE  Honours(n[1], n[2])
<1>0. PICK i, p : i = n[1] /\ p = n[2]
  OBVIOUS
<1>1. PICK q, c, k : q = insts[i].path /\ c = insts[i].cls /\ k = insts[i].kw
  OBVIOUS
<1>2. /\ i \in 1 .. Len(insts) /\ IsSeq(p) /\ IsSeq(q) /\ SubtreeSig(p) = SubtreeSig(q)
      /\ i = 1 => p = q
      /\ i # 1 => insts[i].by # "clone"
      /\ insts[i].done = TRUE /\ (insts[i].parent = 0 <=> i = 1)
  BY <1>0, <1>1 DEF Fits, DedupInv, Tree
<1>3. Read(p) = Read(q)
  BY <1>2, SigReads DEF DedupInv
<1>4. ParamValue(c, p, EffParams(p, k)) = ParamValue(c, q, EffParams(q, k))
  BY <1>3, ReadAlike
<1>5. ASSUME insts[i].cloneOf = 0
      PROVE  /\ insts[i].start = ParamValue(c, q, insts[i].eff)
             /\ insts[i].eff = IF i = 1 THEN None ELSE EffParams(q, k)
  <2>1. Began(insts, stack, i)
    BY <1>2 DEF Began
  <2>2. Reads(insts[i])
    BY <1>2, <1>5, <2>1, ReadOnceIs DEF DedupInv
  <2> QED
    BY <1>1, <1>2, <1>5, <2>2 DEF Reads, DedupInv, Tree
<1>6. CASE i = 1
  <2>1. insts[i].cloneOf = 0
    BY <1>2, <1>6 DEF DedupInv, Tree
  <2> QED
    BY <1>0, <1>1, <1>2, <1>5, <1>6, <2>1 DEF Honours
<1>7. CASE i # 1 /\ insts[i].cloneOf = 0
  BY <1>0, <1>1, <1>2, <1>4, <1>5, <1>7 DEF Honours
<1>8. CASE i # 1 /\ insts[i].cloneOf # 0
  <2>1. SharesOne(insts, insts[i], insts[insts[i].cloneOf])
    BY <1>2, <1>8, SharesIs DEF DedupInv
  <2>2. ParamValue(c, q, EffParams(q, k)) = insts[i].start
    BY <1>1, <2>1 DEF SharesOne
  <2> QED
    BY <1>0, <1>1, <1>2, <1>4, <1>8, <2>2 DEF Honours
<1> QED
  BY <1>6, <1>7, <1>8

LEMMA DedupIsSound ==
    ASSUME ClassAssumption, SealInv, DedupInv
    PROVE  DedupSound
<1> SUFFICES ASSUME OnlyDeclaredForces, OneScale, NEW n \in Unrolled, insts[n[1]].done
             PROVE  Honours(n[1], n[2])
  BY DEF DedupSound
<1>1. Declared(insts)
  BY InstsAre DEF OnlyDeclaredForces, Declared
<1>2. Fits(n)
  BY UnrolledFits
<1> QED
  BY <1>1, <1>2, FitHonours

\* For every hierarchy and every set of overrides: sharing changes no value.
\* Wherever an elaboration occurs, also below clones, however often one is
\* reused, its parameter is what an elaboration of that very path would have
\* read, as long as only templates force parameters and bare values do not
\* rank between the scoped ones.
THEOREM DedupSoundAlways == Spec => []DedupSound
<1> DEFINE IInv == ScopeInv /\ SealInv /\ DedupInv
<1>1. Init => IInv
  BY ScopeInit, SealInit, DedupInit
<1>2. IInv /\ [Next]_vars => IInv'
  BY ClassAssumption, ScopeNext, SealNext, DedupNext DEF SealStep
<1>3. IInv => DedupSound
  BY ClassAssumption, DedupIsSound
<1> QED
  BY <1>1, <1>2, <1>3, PTL DEF Spec

-----------------------------------------------------------------------------
(* The modules an instance is in. *)

IsAbove(f, d) ==
    f = [n \in 0 .. d |-> IF n = 0 THEN {} ELSE {Origin(n)} \cup f[insts[n].parent]]

LEMMA AboveExist ==
    ASSUME SealInv, Tree(insts)
    PROVE  \A d \in Nat : d <= Len(insts) => \E f : IsAbove(f, d)
<1> DEFINE S == {d \in Nat : d <= Len(insts) => \E f : IsAbove(f, d)}
<1>0. Len(insts) \in Nat
  BY InstsAre
<1>1. 0 \in S
  <2>1. PICK f : f = [n \in 0 .. 0 |-> {}]
    OBVIOUS
  <2>2. IsAbove(f, 0)
    BY <2>1 DEF IsAbove
  <2> QED
    BY <2>2
<1>2. ASSUME NEW d \in Nat, d + 1 <= Len(insts), NEW f, IsAbove(f, d)
      PROVE  \E g : IsAbove(g, d + 1)
  <2>1. PICK g : g = [n \in 0 .. d + 1 |-> IF n = 0 THEN {} ELSE {Origin(n)} \cup f[insts[n].parent]]
    OBVIOUS
  <2>2. ASSUME NEW n \in 0 .. d
        PROVE  g[n] = f[n]
    <3>1. f[n] = IF n = 0 THEN {} ELSE {Origin(n)} \cup f[insts[n].parent]
      BY <1>2 DEF IsAbove
    <3>2. n \in 0 .. d + 1
      OBVIOUS
    <3> QED
      BY <2>1, <3>1, <3>2
  <2>3. ASSUME NEW n \in 0 .. d + 1, n # 0
        PROVE  insts[n].parent \in 0 .. d
    <3>1. n \in 1 .. Len(insts)
      BY <1>0, <1>2, <2>3
    <3> QED
      BY <2>3, <3>1 DEF Tree
  <2>4. IsAbove(g, d + 1)
    BY <2>1, <2>2, <2>3 DEF IsAbove
  <2> QED
    BY <2>4
<1>3. \A k \in Nat : k \in S => k + 1 \in S
  BY <1>0, <1>2
<1> HIDE DEF S
<1>4. \A k \in Nat : k \in S
  BY <1>1, <1>3, AllNat
<1> QED
  BY <1>4 DEF S

LEMMA WithinIs ==
    ASSUME SealInv, Tree(insts)
    PROVE  /\ Within(0) = {}
           /\ \A i \in 1 .. Len(insts) : Within(i) = {Origin(i)} \cup Within(insts[i].parent)
<1> DEFINE up[n \in 0 .. Len(insts)] ==
              IF n = 0 THEN {} ELSE {Origin(n)} \cup up[insts[n].parent]
<1>0. Len(insts) \in Nat /\ Len(insts) <= Len(insts)
  BY InstsAre
<1>1. \A n : Within(n) = up[n]
  BY Zenon DEF Within
<1>2. up = CHOOSE f : IsAbove(f, Len(insts))
  BY Zenon DEF IsAbove
<1> HIDE DEF up
<1>3. IsAbove(up, Len(insts))
  BY <1>0, <1>2, AboveExist
<1>4. \A n \in 0 .. Len(insts) : up[n] = IF n = 0 THEN {} ELSE {Origin(n)} \cup up[insts[n].parent]
  BY <1>3 DEF IsAbove
<1>5. 0 \in 0 .. Len(insts) /\ \A i \in 1 .. Len(insts) : i \in 0 .. Len(insts) /\ i # 0
  BY <1>0
<1> QED
  BY <1>1, <1>4, <1>5

\* The bodies under execution are in one another.
LEMMA StackWithin ==
    ASSUME ScopeInv, SealInv, DedupInv
    PROVE  \A k \in 1 .. Len(stack) : Within(stack[k].inst) = {stack[j].inst : j \in 1 .. k}
<1> DEFINE P(k) == Within(stack[k].inst) = {stack[j].inst : j \in 1 .. k}
           S == {k \in Nat : k \in 1 .. Len(stack) => P(k)}
<1>0. Tree(insts) /\ Len(stack) \in Nat
  BY SeqIs DEF DedupInv, ScopeInv, Formed
<1>1. ASSUME NEW k \in 1 .. Len(stack)
      PROVE  /\ stack[k].inst \in 1 .. Len(insts) /\ Origin(stack[k].inst) = stack[k].inst
             /\ Within(stack[k].inst) = {stack[k].inst} \cup Within(insts[stack[k].inst].parent)
             /\ k = 1 => insts[stack[k].inst].parent = 0
             /\ k > 1 => insts[stack[k].inst].parent = stack[k - 1].inst
  <2>1. stack[k].inst \in 1 .. Len(insts) /\ (k > 1 => insts[stack[k].inst].parent = stack[k - 1].inst)
    BY DEF SealInv, Linked
  <2>2. Works(insts, stack, k)
    BY WorkingIs DEF DedupInv
  <2>3. Origin(stack[k].inst) = stack[k].inst
    BY <1>0, <2>1, <2>2, OriginIs DEF Works
  <2>4. k = 1 => insts[stack[k].inst].parent = 0
    BY <1>0, <2>1, <2>2 DEF Works, Tree
  <2> QED
    BY <1>0, <2>1, <2>3, <2>4, WithinIs
<1>2. 0 \in S
  OBVIOUS
<1>3. ASSUME NEW k \in Nat, k \in S, k + 1 \in 1 .. Len(stack)
      PROVE  P(k + 1)
  <2>1. CASE k = 0
    <3>1. Within(stack[1].inst) = {stack[1].inst}
      BY <1>0, <1>1, <1>3, <2>1, WithinIs
    <3>2. 1 .. k + 1 = {1} /\ k + 1 = 1
      BY <2>1
    <3> QED
      BY <3>1, <3>2
  <2>2. CASE k # 0
    <3>1. k \in 1 .. Len(stack) /\ k + 1 > 1 /\ (k + 1) - 1 = k
      BY <1>0, <1>3, <2>2
    <3>2. Within(stack[k + 1].inst) = {stack[k + 1].inst} \cup {stack[j].inst : j \in 1 .. k}
      BY <1>1, <1>3, <3>1
    <3>3. \A j : j \in 1 .. k + 1 <=> j \in 1 .. k \/ j = k + 1
      OBVIOUS
    <3> QED
      BY <3>2, <3>3
  <2> QED
    BY <2>1, <2>2
<1> HIDE DEF P
<1>4. \A k \in Nat : k \in S => k + 1 \in S
  BY <1>3
<1> HIDE DEF S
<1>5. \A k \in Nat : k \in S
  BY <1>2, <1>4, AllNat
<1>6. \A k \in 1 .. Len(stack) : P(k)
  BY <1>0, <1>5 DEF S
<1> QED
  BY <1>6 DEF P

-----------------------------------------------------------------------------
(* No module contains itself. *)

Loopless == \A i \in 1 .. Len(insts) :
    insts[i].cloneOf # 0 => Origin(i) \notin Within(insts[i].parent)

\* clone_inst compares module names: until its source is finished, a clone has
\* the name of its source.
NamedAlike == \A i \in 1 .. Len(insts) :
    insts[Origin(i)].done = TRUE \/ insts[i].uname = insts[Origin(i)].uname

LoopInv == Loopless /\ NamedAlike

\* What the two functions say of the instances there are stays.
LEMMA OriginStays ==
    ASSUME SealInv, Tree(insts), SealInv', Tree(insts)', Old(insts')
    PROVE  \A i \in 1 .. Len(insts) : Origin(i)' = Origin(i)
<1> DEFINE S == {d \in Nat : \A i \in 1 .. Len(insts) : i <= d => Origin(i)' = Origin(i)}
<1>0. Len(insts) \in Nat /\ Len(insts') \in Nat /\ Len(insts') >= Len(insts)
  <2>1. Len(insts) \in Nat
    BY InstsAre
  <2> QED
    BY <2>1, SeqIs DEF Old, Shaped
<1>1. \A i \in 1 .. Len(insts) : Origin(i) = IF insts[i].cloneOf = 0 THEN i ELSE Origin(insts[i].cloneOf)
  BY OriginIs
<1>2. (\A i \in 1 .. Len(insts) : Origin(i) = IF insts[i].cloneOf = 0 THEN i ELSE Origin(insts[i].cloneOf))'
  BY OriginAll, PTL
<1>3. 0 \in S
  OBVIOUS
<1>4. ASSUME NEW d \in Nat, d \in S, NEW i \in 1 .. Len(insts), i <= d + 1
      PROVE  Origin(i)' = Origin(i)
  <2>1. insts'[i].cloneOf = insts[i].cloneOf /\ i \in 1 .. Len(insts')
    BY <1>0 DEF Old, Ident
  <2>2. CASE insts[i].cloneOf = 0
    BY <1>1, <1>2, <2>1, <2>2
  <2>3. CASE insts[i].cloneOf # 0
    <3>1. PICK c : c = insts[i].cloneOf
      OBVIOUS
    <3>2. c \in 1 .. Len(insts) /\ c <= d
      BY <1>0, <1>4, <2>3, <3>1 DEF Tree
    <3>3. Origin(c)' = Origin(c)
      BY <1>4, <3>2
    <3>4. Origin(i) = Origin(c) /\ Origin(i)' = Origin(c)'
      BY <1>1, <1>2, <2>1, <2>3, <3>1
    <3> QED
      BY <3>3, <3>4
  <2> QED
    BY <2>2, <2>3
<1>5. \A k \in Nat : k \in S => k + 1 \in S
  BY <1>4
<1> HIDE DEF S
<1>6. Len(insts) \in S
  BY <1>0, <1>3, <1>5, AllNat
<1> QED
  BY <1>0, <1>6 DEF S

LEMMA WithinAll ==
    SealInv /\ Tree(insts) =>
        /\ Within(0) = {}
        /\ \A i \in 1 .. Len(insts) : Within(i) = {Origin(i)} \cup Within(insts[i].parent)
BY WithinIs

LEMMA WithinStays ==
    ASSUME SealInv, Tree(insts), SealInv', Tree(insts)', Old(insts')
    PROVE  \A i \in 0 .. Len(insts) : Within(i)' = Within(i)
<1> DEFINE S == {d \in Nat : \A i \in 0 .. Len(insts) : i <= d => Within(i)' = Within(i)}
<1>0. Len(insts) \in Nat /\ Len(insts') \in Nat /\ Len(insts') >= Len(insts)
  <2>1. Len(insts) \in Nat
    BY InstsAre
  <2> QED
    BY <2>1, SeqIs DEF Old, Shaped
<1>1. /\ Within(0) = {}
      /\ \A i \in 1 .. Len(insts) : Within(i) = {Origin(i)} \cup Within(insts[i].parent)
  BY WithinAll
<1>2. (/\ Within(0) = {}
       /\ \A i \in 1 .. Len(insts) : Within(i) = {Origin(i)} \cup Within(insts[i].parent))'
  BY WithinAll, PTL
<1>3. \A i \in 1 .. Len(insts) : Origin(i)' = Origin(i)
  BY OriginStays
<1>4. 0 \in S
  <2>1. Within(0)' = Within(0)
    BY <1>1, <1>2
  <2>2. \A i \in 0 .. Len(insts) : i <= 0 => i = 0
    OBVIOUS
  <2> QED
    BY <2>1, <2>2
<1>5. ASSUME NEW d \in Nat, d \in S, NEW i \in 0 .. Len(insts), i <= d + 1
      PROVE  Within(i)' = Within(i)
  <2>1. CASE i = 0
    BY <1>1, <1>2, <2>1
  <2>2. CASE i # 0
    <3>1. PICK p : p = insts[i].parent
      OBVIOUS
    <3>2. i \in 1 .. Len(insts) /\ i \in 1 .. Len(insts')
      BY <1>0, <2>2
    <3>3. p \in 0 .. Len(insts) /\ p <= d /\ insts'[i].parent = p
      BY <1>0, <1>5, <3>1, <3>2 DEF Tree, Old, Ident
    <3>4. Within(i) = {Origin(i)} \cup Within(p) /\ Within(i)' = {Origin(i)'} \cup Within(p)'
      BY <1>1, <1>2, <3>1, <3>2, <3>3
    <3>5. Within(p)' = Within(p)
      BY <1>5, <3>3
    <3> QED
      BY <1>3, <3>2, <3>4, <3>5
  <2> QED
    BY <2>1, <2>2
<1>6. \A k \in Nat : k \in S => k + 1 \in S
  BY <1>5
<1> HIDE DEF S
<1>7. Len(insts) \in S
  BY <1>0, <1>4, <1>6, AllNat
<1> QED
  BY <1>0, <1>7 DEF S

\* An instance whose source is unfinished keeps the source's name.
LEMMA NameStays ==
    ASSUME ScopeInv, SealInv, DedupInv, NEW is, NEW s, Moves(is, s),
           NEW i \in 1 .. Len(insts), NEW o \in 1 .. Len(insts), i = Self => o = i,
           insts[o].done = TRUE \/ insts[i].uname = insts[o].uname
    PROVE  is[o].done = TRUE \/ is[i].uname = is[o].uname
<1>1. CASE insts[o].done = TRUE
  BY <1>1, DoneStays DEF Same
<1>2. CASE AllSame(is)
  BY <1>2 DEF AllSame, Same
<1>3. CASE i = o
  BY <1>3
<1>4. ASSUME i # o, insts[i].uname = insts[o].uname, Old(is), is[Self].done = TRUE \/ is[Self].uname = Me.uname
      PROVE  is[o].done = TRUE \/ is[i].uname = is[o].uname
  <2>1. i # Self
    BY <1>4
  <2>2. is[i].uname = insts[i].uname
    BY <1>4, <2>1 DEF Old, Same
  <2>3. CASE o = Self
    BY <1>4, <2>2, <2>3 DEF Me
  <2>4. CASE o # Self
    BY <1>4, <2>2, <2>4 DEF Old, Same
  <2> QED
    BY <2>3, <2>4
<1> QED
  BY <1>1, <1>2, <1>3, <1>4, Zenon
     DEF Moves, Rests, Starts, Forces, Aliases, Calls, Returns, Replaces, Stops, Gives, Finishes

\* A new clone: what it stands for is not under execution.
LEMMA CloneClear ==
    ASSUME ScopeInv, SealInv, DedupInv, LoopInv, NEW src \in 1 .. Len(insts),
           \/ insts[src].done = TRUE /\ insts[src].cloneOf = 0
           \/ \A a \in Ancestors : insts[a].uname # insts[src].uname
    PROVE  \A j \in 1 .. Len(stack) : Origin(src) # stack[j].inst
<1> SUFFICES ASSUME NEW j \in 1 .. Len(stack), Origin(src) = stack[j].inst
             PROVE  FALSE
  OBVIOUS
<1>1. insts[stack[j].inst].done = FALSE
  BY DEF DedupInv, Working
<1>2. CASE insts[src].done = TRUE /\ insts[src].cloneOf = 0
  <2>1. Origin(src) = src
    BY <1>2, OriginIs DEF DedupInv
  <2> QED
    BY <1>1, <1>2, <2>1
<1>3. CASE \A a \in Ancestors : insts[a].uname # insts[src].uname
  <2>1. stack[j].inst \in Ancestors
    BY SeqIs DEF Ancestors, ScopeInv, Formed
  <2>2. insts[Origin(src)].done = TRUE \/ insts[src].uname = insts[Origin(src)].uname
    BY DEF LoopInv, NamedAlike
  <2> QED
    BY <1>1, <1>3, <2>1, <2>2
<1> QED
  BY <1>2, <1>3

\* The clones a step may bring, their sources and where they hang.
LEMMA NewClone ==
    ASSUME ScopeInv, SealInv, DedupInv, LoopInv, NEW is, NEW s, Moves(is, s),
           NEW i \in 1 .. Len(is), i \notin 1 .. Len(insts), is[i].cloneOf # 0
    PROVE  /\ is[i].cloneOf \in 1 .. Len(insts) /\ is[i].uname = insts[is[i].cloneOf].uname
           /\ \E k \in 1 .. Len(stack) : is[i].parent = stack[k].inst
           /\ \A j \in 1 .. Len(stack) : Origin(is[i].cloneOf) # stack[j].inst
           /\ \A o \in 1 .. Len(insts) : is[o].uname = insts[o].uname
<1>0. Len(insts) \in Nat
  BY InstsAre
<1>1. ASSUME NEW src, NEW op, Aliases(is, s, src, op)
      PROVE  /\ is[i].cloneOf \in 1 .. Len(insts) /\ is[i].uname = insts[is[i].cloneOf].uname
             /\ \E k \in 1 .. Len(stack) : is[i].parent = stack[k].inst
             /\ \A j \in 1 .. Len(stack) : Origin(is[i].cloneOf) # stack[j].inst
             /\ \A o \in 1 .. Len(insts) : is[o].uname = insts[o].uname
  <2>1. i = Len(insts) + 1 /\ src \in 1 .. Len(insts) /\ stack # <<>>
    BY <1>0, <1>1 DEF Aliases
  <2>2. is[i].cloneOf = src /\ is[i].uname = insts[src].uname /\ is[i].parent = Self
    BY <1>1, <2>1 DEF Aliases, Copies, Placed
  <2>3. \/ insts[src].done = TRUE /\ insts[src].cloneOf = 0
        \/ \A a \in Ancestors : insts[a].uname # insts[src].uname
    <3>1. insts[src].done \in BOOLEAN
      BY <2>1 DEF DedupInv, Tree
    <3>2. CASE FoundKey(src, op)
      <4>1. PICK k \in DOMAIN modules : IsDedupKey(k) /\ modules[k] = src
        BY <3>2 DEF FoundKey
      <4>2. Spelled(insts[src], k)
        BY <4>1 DEF DedupInv, Ways, Binds
      <4> QED
        BY <3>1, <4>2 DEF Spelled
    <3>3. CASE FoundName(src, op)
      BY <3>1, <3>3 DEF FoundName, DedupInv, Ways, Registered
    <3> QED
      BY <1>1, <3>2, <3>3 DEF Aliases, FoundOther
  <2>4. Self = stack[Len(stack)].inst /\ Len(stack) \in 1 .. Len(stack)
    BY <2>1, SelfWorks
  <2>5. \A o \in 1 .. Len(insts) : is[o].uname = insts[o].uname
    BY <1>1 DEF Aliases, AllSame, Same
  <2> QED
    BY <2>1, <2>2, <2>3, <2>4, <2>5, CloneClear
<1>2. ASSUME Replaces(is, s)
      PROVE  /\ is[i].cloneOf \in 1 .. Len(insts) /\ is[i].uname = insts[is[i].cloneOf].uname
             /\ \E k \in 1 .. Len(stack) : is[i].parent = stack[k].inst
             /\ \A j \in 1 .. Len(stack) : Origin(is[i].cloneOf) # stack[j].inst
             /\ \A o \in 1 .. Len(insts) : is[o].uname = insts[o].uname
  <2>1. /\ i = Len(insts) + 1 /\ modules[Post] \in 1 .. Len(insts) /\ stack # <<>> /\ Len(stack) > 1
        /\ Post \in DOMAIN modules
    BY <1>0, <1>2 DEF Replaces, Finishes
  <2>2. PICK src : src = modules[Post]
    OBVIOUS
  <2>3. is[i].cloneOf = src /\ is[i].uname = insts[src].uname /\ is[i].parent = Me.parent
    BY <1>2, <2>1, <2>2 DEF Replaces, Copies, Placed
  <2>4. insts[src].done = TRUE /\ insts[src].cloneOf = 0
    <3>1. insts[src].done \in BOOLEAN
      BY <2>1, <2>2 DEF DedupInv, Tree
    <3>2. IsDedupKey(Post)
      BY DEF Post, PostKey, IsDedupKey
    <3>3. Spelled(insts[src], Post)
      BY <2>1, <2>2, <3>2 DEF DedupInv, Ways, Binds
    <3> QED
      BY <3>1, <3>3 DEF Spelled
  <2>5. Me.parent = stack[Len(stack) - 1].inst /\ Len(stack) - 1 \in 1 .. Len(stack)
    BY <2>1, SelfWorks
  <2>6. \A o \in 1 .. Len(insts) : is[o].uname = insts[o].uname
    <3>1. Old(is) /\ is[Self].uname = Me.uname
      BY <1>2 DEF Replaces, Finishes
    <3> QED
      BY <3>1 DEF Old, Same, Me
  <2> QED
    BY <2>1, <2>2, <2>3, <2>4, <2>5, <2>6, CloneClear
<1>3. ASSUME NEW op, Calls(is, s, op)
      PROVE  FALSE
  <2>1. i = Len(insts) + 1
    BY <1>0, <1>3 DEF Calls
  <2> QED
    BY <1>3, <2>1 DEF Calls
<1>4. CASE Len(is) = Len(insts)
  BY <1>4
<1> QED
  BY <1>1, <1>2, <1>3, <1>4, Zenon DEF Moves, Rests, Starts, Forces, Returns, Stops, Gives

LEMMA LoopNext ==
    ASSUME ClassAssumption, ScopeInv, SealInv, DedupInv, LoopInv, [Next]_vars
    PROVE  LoopInv'
<1>1. Moves(insts', stack') /\ SealInv' /\ DedupInv'
  BY NextMoves, SealNext, DedupNext DEF SealStep
<1>2. PICK is, s : is = insts' /\ s = stack'
  OBVIOUS
<1>3. Moves(is, s) /\ Grows(is) /\ Old(is) /\ Len(insts) \in Nat
  <2>1. Moves(is, s)
    BY <1>1, <1>2
  <2> QED
    BY <2>1, MovesGrow, InstsAre DEF Grows
<1>4. Tree(insts) /\ Tree(insts)' /\ Old(insts')
  BY <1>1, <1>2, <1>3 DEF DedupInv
<1>5. /\ \A i \in 1 .. Len(insts) : Origin(i)' = Origin(i)
      /\ \A i \in 0 .. Len(insts) : Within(i)' = Within(i)
  BY <1>1, <1>4, OriginStays, WithinStays
<1>6. \A i \in 1 .. Len(insts) : Origin(i) \in 1 .. Len(insts)
  BY <1>4, OriginFound
<1>7. (\A i \in 1 .. Len(insts) : Origin(i) = IF insts[i].cloneOf = 0 THEN i ELSE Origin(insts[i].cloneOf))'
  BY <1>1, <1>4, OriginAll, PTL
<1>8. ASSUME NEW i \in 1 .. Len(insts)
      PROVE  /\ is[i].cloneOf # 0 => Origin(i)' \notin Within(is[i].parent)'
             /\ is[Origin(i)'].done = TRUE \/ is[i].uname = is[Origin(i)'].uname
  <2>1. PICK p, o : p = insts[i].parent /\ o = Origin(i)
    OBVIOUS
  <2>2. p \in 0 .. Len(insts) /\ o \in 1 .. Len(insts) /\ is[i].parent = p /\ is[i].cloneOf = insts[i].cloneOf
    BY <1>3, <1>4, <1>6, <2>1 DEF Tree, Old, Ident
  <2>3. insts[i].cloneOf # 0 => o \notin Within(p)
    BY <2>1 DEF LoopInv, Loopless
  <2>4. insts[o].done = TRUE \/ insts[i].uname = insts[o].uname
    BY <2>1 DEF LoopInv, NamedAlike
  <2>5. is[o].done = TRUE \/ is[i].uname = is[o].uname
    <3>1. CASE i = Self /\ stack # <<>>
      <4>1. o = i
        BY <1>4, <2>1, <3>1, SelfWorks, OriginIs
      <4> QED
        BY <4>1
    <3>2. CASE i # Self
      BY <1>3, <2>2, <2>4, <3>2, NameStays
    <3>3. CASE stack = <<>>
      <4>1. Rests(is, s)
        BY <1>3, <3>3, Zenon DEF Moves, Starts, Forces, Aliases, Calls, Returns, Replaces, Stops, Gives, Finishes
      <4> QED
        BY <2>2, <2>4, <4>1 DEF Rests, AllSame, Same
    <3> QED
      BY <3>1, <3>2, <3>3
  <2>6. Origin(i)' = o /\ Within(p)' = Within(p)
    BY <1>5, <2>1, <2>2
  <2> QED
    BY <2>2, <2>3, <2>5, <2>6
<1>9. ASSUME NEW i \in 1 .. Len(is), i \notin 1 .. Len(insts)
      PROVE  /\ is[i].cloneOf # 0 => Origin(i)' \notin Within(is[i].parent)'
             /\ is[Origin(i)'].done = TRUE \/ is[i].uname = is[Origin(i)'].uname
  <2>1. CASE is[i].cloneOf = 0
    <3>1. Origin(i)' = i
      BY <1>2, <1>7, <1>9, <2>1
    <3> QED
      BY <2>1, <3>1
  <2>2. CASE is[i].cloneOf # 0
    <3>1. /\ is[i].cloneOf \in 1 .. Len(insts) /\ is[i].uname = insts[is[i].cloneOf].uname
          /\ \E k \in 1 .. Len(stack) : is[i].parent = stack[k].inst
          /\ \A j \in 1 .. Len(stack) : Origin(is[i].cloneOf) # stack[j].inst
          /\ \A a \in 1 .. Len(insts) : is[a].uname = insts[a].uname
      BY <1>3, <1>9, <2>2, NewClone
    <3>2. PICK src, o : src = is[i].cloneOf /\ o = Origin(src)
      OBVIOUS
    <3>3. Origin(i)' = o /\ o \in 1 .. Len(insts)
      <4>1. Origin(i)' = Origin(src)'
        BY <1>2, <1>7, <1>9, <2>2, <3>2
      <4> QED
        BY <1>5, <1>6, <3>1, <3>2, <4>1
    <3>4. PICK k \in 1 .. Len(stack) : is[i].parent = stack[k].inst
      BY <3>1
    <3>5. PICK p : p = stack[k].inst
      OBVIOUS
    <3>6. p \in 0 .. Len(insts)
      BY <1>3, <3>5 DEF SealInv, Linked
    <3>7. Within(p) = {stack[j].inst : j \in 1 .. k} /\ Within(p)' = Within(p)
      BY <1>5, <3>5, <3>6, StackWithin
    <3>8. o \notin Within(p)
      <4>1. \A j \in 1 .. k : j \in 1 .. Len(stack)
        BY StackIs DEF ScopeInv, Formed
      <4> QED
        BY <3>1, <3>2, <3>7, <4>1
    <3>9. insts[o].done = TRUE \/ insts[src].uname = insts[o].uname
      BY <3>1, <3>2 DEF LoopInv, NamedAlike
    <3>10. is[o].done = TRUE \/ is[i].uname = is[o].uname
      <4>1. CASE insts[o].done = TRUE
        BY <1>3, <3>3, <4>1, DoneStays DEF Same
      <4>2. CASE insts[src].uname = insts[o].uname
        BY <3>1, <3>2, <3>3, <4>2
      <4> QED
        BY <3>9, <4>1, <4>2
    <3> QED
      BY <3>3, <3>4, <3>5, <3>7, <3>8, <3>10
  <2> QED
    BY <2>1, <2>2
<1>10. ASSUME NEW i \in 1 .. Len(insts')
       PROVE  /\ insts'[i].cloneOf # 0 => Origin(i)' \notin Within(insts[i].parent)'
              /\ insts'[Origin(i)'].done = TRUE \/ insts'[i].uname = insts'[Origin(i)'].uname
  BY <1>2, <1>8, <1>9
<1> QED
  BY <1>10 DEF LoopInv, Loopless, NamedAlike

LEMMA LoopInit ==
    ASSUME Init
    PROVE  LoopInv
<1>1. SealInv /\ Tree(insts)
  BY SealInit, DedupInit DEF DedupInv
<1> DEFINE r == NewInst(TopClass, 0, TopClass, <<TopClass>>, None, None, <<TopClass>>, "top")
<1>2. insts = <<r>> /\ r.cloneOf = 0
  BY Zenon DEF Init, NewInst
<1> HIDE DEF r
<1>3. Len(insts) = 1 /\ insts[1].cloneOf = 0
  BY <1>2
<1>4. Origin(1) = 1
  BY <1>1, <1>3, OriginIs
<1>5. \A i \in 1 .. Len(insts) : i = 1
  BY <1>3
<1> QED
  BY <1>3, <1>4, <1>5 DEF LoopInv, Loopless, NamedAlike

\* No module comes to contain an instance of itself, by whatever mixture of
\* recursion, aliasing, clone_inst and post-elaboration hits: the hierarchy
\* the emitted modules describe is finite.
THEOREM AcyclicAlways == Spec => []Acyclic
<1> DEFINE IInv == ScopeInv /\ SealInv /\ DedupInv /\ LoopInv
<1>1. Init => IInv
  BY ScopeInit, SealInit, DedupInit, LoopInit
<1>2. IInv /\ [Next]_vars => IInv'
  BY ClassAssumption, ScopeNext, SealNext, DedupNext, LoopNext DEF SealStep
<1>3. IInv => Acyclic
  BY Zenon DEF LoopInv, Loopless, Acyclic, Live
<1> QED
  BY <1>1, <1>2, <1>3, PTL DEF Spec

-----------------------------------------------------------------------------
(* What still hangs off the top. *)

Hangs(i) ==
    LET p == insts[i].parent
    IN  insts[i].iname \in DOMAIN insts[p].subs /\ insts[p].subs[insts[i].iname] = i

IsAttached(f, d) ==
    f = [i \in 1 .. d |-> \/ insts[i].parent = 0
                          \/ LET p == insts[i].parent
                             IN  /\ f[p]
                                 /\ insts[i].iname \in DOMAIN insts[p].subs
                                 /\ insts[p].subs[insts[i].iname] = i]

LEMMA AttachedExist ==
    ASSUME SealInv, Tree(insts)
    PROVE  \A d \in Nat : d <= Len(insts) => \E f : IsAttached(f, d)
<1> DEFINE S == {d \in Nat : d <= Len(insts) => \E f : IsAttached(f, d)}
<1>0. Len(insts) \in Nat
  BY InstsAre
<1>1. 0 \in S
  <2>1. PICK f : f = [n \in 1 .. 0 |-> FALSE]
    OBVIOUS
  <2>2. IsAttached(f, 0)
    BY <2>1 DEF IsAttached
  <2> QED
    BY <2>2
<1>2. ASSUME NEW d \in Nat, d + 1 <= Len(insts), NEW f, IsAttached(f, d)
      PROVE  \E g : IsAttached(g, d + 1)
  <2> DEFINE Q(h, n) == \/ insts[n].parent = 0
                        \/ LET p == insts[n].parent
                           IN  /\ h[p]
                               /\ insts[n].iname \in DOMAIN insts[p].subs
                               /\ insts[p].subs[insts[n].iname] = n
  <2>1. PICK g : g = [n \in 1 .. d + 1 |-> Q(f, n)]
    OBVIOUS
  <2>2. f = [n \in 1 .. d |-> Q(f, n)]
    BY <1>2, Zenon DEF IsAttached
  <2>3. ASSUME NEW n \in 1 .. d + 1, insts[n].parent # 0
        PROVE  insts[n].parent \in 1 .. d
    <3>1. n \in 1 .. Len(insts)
      BY <1>0, <1>2
    <3> QED
      BY <2>3, <3>1 DEF Tree
  <2>4. ASSUME NEW n \in 1 .. d
        PROVE  g[n] = f[n]
    <3>1. n \in 1 .. d + 1
      OBVIOUS
    <3>2. g[n] = Q(f, n)
      BY <2>1, <3>1, Zenon
    <3>3. f[n] = Q(f, n)
      BY <2>2, Zenon
    <3> QED
      BY <3>2, <3>3, Zenon
  <2>5. ASSUME NEW n \in 1 .. d + 1
        PROVE  Q(g, n) = Q(f, n)
    <3>1. CASE insts[n].parent = 0
      BY <3>1, Zenon
    <3>2. CASE insts[n].parent # 0
      <4>1. g[insts[n].parent] = f[insts[n].parent]
        BY <2>3, <2>4, <3>2
      <4> QED
        BY <4>1, Zenon
    <3> QED
      BY <3>1, <3>2
  <2>6. g = [n \in 1 .. d + 1 |-> Q(g, n)]
    BY <2>1, <2>5, Zenon
  <2>7. IsAttached(g, d + 1)
    BY <2>6, Zenon DEF IsAttached
  <2> QED
    BY <2>7
<1>3. \A k \in Nat : k \in S => k + 1 \in S
  BY <1>0, <1>2
<1> HIDE DEF S
<1>4. \A k \in Nat : k \in S
  BY <1>1, <1>3, AllNat
<1> QED
  BY <1>4 DEF S

LEMMA LiveIs ==
    ASSUME SealInv, Tree(insts)
    PROVE  /\ Live \subseteq 1 .. Len(insts)
           /\ \A i \in 1 .. Len(insts) :
                 i \in Live <=> insts[i].parent = 0 \/ (insts[i].parent \in Live /\ Hangs(i))
<1> DEFINE attached[i \in 1 .. Len(insts)] ==
                \/ insts[i].parent = 0
                \/ LET p == insts[i].parent
                   IN  /\ attached[p]
                       /\ insts[i].iname \in DOMAIN insts[p].subs
                       /\ insts[p].subs[insts[i].iname] = i
<1>0. Len(insts) \in Nat /\ Len(insts) <= Len(insts)
  BY InstsAre
<1>1. Live = {i \in 1 .. Len(insts) : attached[i]}
  BY Zenon DEF Live
<1>2. attached = CHOOSE f : IsAttached(f, Len(insts))
  BY Zenon DEF IsAttached
<1> HIDE DEF attached
<1>3. IsAttached(attached, Len(insts))
  BY <1>0, <1>2, AttachedExist
<1>4. ASSUME NEW i \in 1 .. Len(insts)
      PROVE  attached[i] = \/ insts[i].parent = 0
                           \/ LET p == insts[i].parent
                              IN  /\ attached[p]
                                  /\ insts[i].iname \in DOMAIN insts[p].subs
                                  /\ insts[p].subs[insts[i].iname] = i
  BY <1>3, Zenon DEF IsAttached
<1>5. ASSUME NEW i \in 1 .. Len(insts)
      PROVE  insts[i].parent = 0 \/ insts[i].parent \in 1 .. Len(insts)
  BY <1>0 DEF Tree
<1>6. ASSUME NEW i \in 1 .. Len(insts)
      PROVE  i \in Live <=> insts[i].parent = 0 \/ (insts[i].parent \in Live /\ Hangs(i))
  BY <1>1, <1>4, <1>5, Zenon DEF Hangs
<1> QED
  BY <1>1, <1>6

LEMMA LiveAll ==
    SealInv /\ Tree(insts) =>
        /\ Live \subseteq 1 .. Len(insts)
        /\ \A i \in 1 .. Len(insts) :
              i \in Live <=> insts[i].parent = 0 \/ (insts[i].parent \in Live /\ Hangs(i))
BY LiveIs

\* An instance that hangs on after a step did before.
LEMMA HangsBefore ==
    ASSUME SealInv, Tree(insts), NEW is, Grows(is), NEW i \in 1 .. Len(insts), insts[i].parent # 0,
           is[i].iname \in DOMAIN is[is[i].parent].subs,
           is[is[i].parent].subs[is[i].iname] = i
    PROVE  Hangs(i)
<1>0. Len(insts) \in Nat
  BY InstsAre
<1>1. PICK p, x : p = insts[i].parent /\ x = insts[i].iname
  OBVIOUS
<1>2. p \in 1 .. Len(insts) /\ is[i].parent = p /\ is[i].iname = x
  BY <1>0, <1>1 DEF Tree, Grows, Old, Ident
<1>3. x \in DOMAIN is[p].subs /\ is[p].subs[x] = i
  BY <1>2
<1>4. x \in DOMAIN insts[p].subs /\ insts[p].subs[x] = i
  <2>1. CASE SubsKept(is)
    BY <1>2, <1>3, <2>1 DEF SubsKept
  <2>2. CASE \E q, y : SubsDrop(is, q, y)
    BY <1>2, <1>3, <2>2 DEF SubsDrop, Drop
  <2>3. ASSUME NEW q, Arrives(is, q)
        PROVE  x \in DOMAIN insts[p].subs /\ insts[p].subs[x] = i
    <3>1. PICK y : SubsPut(is, q, y, Len(insts) + 1)
      BY <2>3 DEF Arrives
    <3>2. i # Len(insts) + 1
      BY <1>0
    <3>3. CASE p = q
      <4>1. is[p].subs = Put(insts[p].subs, y, Len(insts) + 1)
        BY <1>2, <3>1, <3>3 DEF SubsPut
      <4> QED
        BY <1>3, <3>2, <4>1 DEF Put
    <3>4. CASE p # q
      BY <1>2, <1>3, <3>1, <3>4 DEF SubsPut
    <3> QED
      BY <3>3, <3>4
  <2> QED
    BY <2>1, <2>2, <2>3 DEF Grows
<1> QED
  BY <1>1, <1>4 DEF Hangs

\* No step brings an instance back that dropped off.
LEMMA LiveBefore ==
    ASSUME SealInv, Tree(insts), SealInv', Tree(insts)', Grows(insts')
    PROVE  \A i \in 1 .. Len(insts) : i \in Live' => i \in Live
<1> DEFINE S == {d \in Nat : \A i \in 1 .. Len(insts) : i <= d /\ i \in Live' => i \in Live}
<1>0. Len(insts) \in Nat /\ Len(insts') \in Nat /\ Len(insts') >= Len(insts)
  <2>1. Len(insts) \in Nat
    BY InstsAre
  <2> QED
    BY <2>1, SeqIs DEF Grows, Old, Shaped
<1>1. (/\ Live \subseteq 1 .. Len(insts)
       /\ \A i \in 1 .. Len(insts) :
             i \in Live <=> insts[i].parent = 0 \/ (insts[i].parent \in Live /\ Hangs(i)))'
  BY LiveAll, PTL
<1>2. PICK is, L : is = insts' /\ L = Live'
  OBVIOUS
<1>3. \A i \in 1 .. Len(is) : i \in L <=>
          is[i].parent = 0 \/ (is[i].parent \in L /\ is[i].iname \in DOMAIN is[is[i].parent].subs
                                                  /\ is[is[i].parent].subs[is[i].iname] = i)
  BY <1>1, <1>2 DEF Hangs
<1>4. 0 \in S
  OBVIOUS
<1>5. ASSUME NEW d \in Nat, d \in S, NEW i \in 1 .. Len(insts), i <= d + 1, i \in Live'
      PROVE  i \in Live
  <2>1. PICK p : p = insts[i].parent
    OBVIOUS
  <2>2. i \in 1 .. Len(is) /\ is[i].parent = p /\ p \in Nat /\ p < i
    BY <1>0, <1>2, <2>1 DEF Grows, Old, Ident, Tree
  <2>3. CASE p = 0
    BY <2>1, <2>3, LiveIs
  <2>4. CASE p # 0
    <3>1. p \in L /\ is[i].iname \in DOMAIN is[p].subs /\ is[p].subs[is[i].iname] = i
      BY <1>2, <1>3, <1>5, <2>2, <2>4
    <3>2. Hangs(i)
      BY <1>2, <2>1, <2>2, <2>4, <3>1, HangsBefore
    <3>3. p \in 1 .. Len(insts) /\ p <= d
      BY <1>0, <1>5, <2>2, <2>4
    <3>4. p \in Live
      BY <1>2, <1>5, <3>1, <3>3
    <3> QED
      BY <2>1, <3>2, <3>4, LiveIs
  <2> QED
    BY <2>3, <2>4
<1>6. \A k \in Nat : k \in S => k + 1 \in S
  BY <1>5
<1> HIDE DEF S
<1>7. Len(insts) \in S
  BY <1>0, <1>4, <1>6, AllNat
<1> QED
  BY <1>0, <1>7 DEF S

-----------------------------------------------------------------------------
(* Which keys of final parameters a step binds, unbinds or notes. *)

IsPost(k) == k[1] = "post"
KeptKey(k) == k \in DOMAIN modules => k \in DOMAIN modules' /\ modules'[k] = modules[k]
Unnoted(k) == \A r \in 1 .. Len(modJ') :
    k \in DOMAIN modJ'[r] => r \in 1 .. Len(modJ) /\ k \in DOMAIN modJ[r]

Quiet == \A k : IsPost(k) => KeptKey(k) /\ Unnoted(k)

\* unique_inst keeps the child, under a key that was free ...
Stores == /\ Frame.kind = "unique" /\ Post \notin DOMAIN modules
          /\ Post \in DOMAIN modules' /\ modules'[Post] = Self
          /\ \A k : IsPost(k) /\ k # Post => KeptKey(k) /\ Unnoted(k)

\* ... or rolls back to the state the scope was entered in.
RollsBack == /\ Journaled(Frame)
             /\ modules' = Undone(modules, Last(modJ)) /\ modJ' = Front(modJ)

LEMMA SameQuiet ==
    ASSUME UNCHANGED <<modules, modJ>>
    PROVE  Quiet
BY DEF Quiet, KeptKey, Unnoted

LEMMA OpenedQuiet ==
    ASSUME ScopeInv, modules' = modules, OpenJournals \/ KeepJournals
    PROVE  Quiet
<1>1. CASE modJ' = modJ
  BY <1>1, SameQuiet
<1>2. CASE modJ' = Append(modJ, Empty)
  <2>1. /\ Len(modJ') = Len(modJ) + 1 /\ modJ'[Len(modJ) + 1] = Empty /\ Len(modJ) \in Nat
        /\ \A i \in 1 .. Len(modJ) : modJ'[i] = modJ[i]
    BY <1>2, AppendIs, SeqIs DEF ScopeInv, Closes
  <2> QED
    BY <2>1 DEF Quiet, KeptKey, Unnoted, Empty
<1> QED
  BY <1>1, <1>2 DEF OpenJournals, KeepJournals

LEMMA ClosedQuiet ==
    ASSUME ScopeInv, stack # <<>>, Journaled(Frame), modules' = modules, modJ' = Front(modJ)
    PROVE  Quiet
<1>1. IsSeq(modJ) /\ modJ # <<>>
  BY ScopeJournals
<1>2. /\ Len(modJ) \in Nat \ {0} /\ Len(modJ') = Len(modJ) - 1
      /\ \A i \in 1 .. Len(modJ) - 1 : modJ'[i] = modJ[i]
  BY <1>1, FrontIs
<1> QED
  BY <1>2 DEF Quiet, KeptKey, Unnoted

\* Journals noting a write to the keys K.
LEMMA NotedQuiet ==
    ASSUME ScopeInv, stack # <<>>, NEW js, NEW K, Register(js, K),
           js = modJ \/ (Journaled(Frame) /\ js = Front(modJ)),
           NEW k, k \notin K
    PROVE  KeptKey(k) /\ Unnoted(k)
<1>1. /\ IsSeq(modJ) /\ Len(modJ) \in Nat /\ IsSeq(js) /\ Len(js) \in Nat /\ DOMAIN js = 1 .. Len(js)
      /\ Len(js) <= Len(modJ) /\ \A i \in 1 .. Len(js) : js[i] = modJ[i]
  <2>1. IsSeq(modJ) /\ Len(modJ) \in Nat
    BY SeqIs DEF ScopeInv, Closes
  <2>2. CASE js = modJ
    BY <2>1, <2>2, SeqIs
  <2>3. CASE Journaled(Frame) /\ js = Front(modJ)
    <3>1. modJ # <<>>
      BY <2>3, ScopeJournals
    <3> QED
      BY <2>1, <2>3, <3>1, FrontIs, SeqIs
  <2> QED
    BY <2>2, <2>3
<1>2. modJ' = RecordedAll(js, modules, K) /\ modules' = PutAll(modules, K, Self)
  BY DEF Register
<1>3. Len(modJ') = Len(js) /\ \A r \in 1 .. Len(js) : DOMAIN modJ'[r] = DOMAIN js[r] \cup K
  BY <1>1, <1>2, RecordedIs DEF RecordedAll
<1>4. KeptKey(k)
  BY <1>2 DEF KeptKey, PutAll
<1>5. Unnoted(k)
  BY <1>1, <1>3 DEF Unnoted
<1> QED
  BY <1>4, <1>5

LEMMA NamedQuiet ==
    ASSUME ScopeInv, NEW y, modJ' = Recorded(modJ, modules, NameKey(y)),
           modules' = Put(modules, NameKey(y), Self)
    PROVE  Quiet
<1>1. Len(modJ) \in Nat /\ DOMAIN modJ = 1 .. Len(modJ) /\ Len(modJ') = Len(modJ)
  BY SeqIs, RecordedIs DEF ScopeInv, Closes
<1>2. \A k : IsPost(k) => k # NameKey(y)
  BY DEF IsPost, NameKey
<1>3. \A r \in 1 .. Len(modJ) : \A k \in DOMAIN modJ'[r] : k = NameKey(y) \/ k \in DOMAIN modJ[r]
  BY <1>1 DEF Recorded, FirstTouch, Put
<1>4. \A k : k # NameKey(y) => KeptKey(k)
  BY DEF KeptKey, Put
<1> QED
  BY <1>1, <1>2, <1>3, <1>4 DEF Quiet, Unnoted

\* Who finishes: the body under execution, or nobody.
Ends(is) == stack # <<>> /\ is[Self].done = TRUE /\ Frame.kind = "unique"

LEMMA MovesEnd ==
    ASSUME ScopeInv, SealInv, DedupInv, NEW is, NEW s,
           \/ Rests(is, s)   \/ Starts(is, s)  \/ Forces(is, s) \/ Gives(is, s)
           \/ \E src, op : Aliases(is, s, src, op)
           \/ \E op : Calls(is, s, op)
    PROVE  ~Ends(is)
<1> SUFFICES ASSUME stack # <<>>
             PROVE  is[Self].done = FALSE
  BY DEF Ends
<1>1. Self \in 1 .. Len(insts) /\ Me.done = FALSE /\ Me = insts[Self]
  BY SelfWorks
<1>2. AllSame(is) \/ is[Self].done = Me.done
  BY DEF Rests, Starts, Forces, Gives, Aliases, Calls
<1> QED
  BY <1>1, <1>2 DEF AllSame, Same

LEMMA StepKeys ==
    ASSUME InStep, SealInv, DedupInv, Shaped(insts'), Frame.pc > 0, NEW op, Step(op), ~cfg.nocache
    PROVE  \/ Quiet /\ ~Ends(insts')
           \/ Stores /\ Returns(insts', stack')
           \/ RollsBack /\ Replaces(insts', stack')
<1>0. ScopeInv /\ stack # <<>>
  BY DEF InStep
<1>1. CASE \/ UnunqConflict(op) \/ CloneRefused(op) \/ NameTaken(op)
           \/ ForceRefused(op) \/ TemplateError(op)
  <2>1. Raises
    BY <1>1, Zenon DEF UnunqConflict, CloneRefused, NameTaken, ForceRefused, TemplateError
  <2>2. Rests(insts', stack') /\ Quiet
    BY <1>0, <2>1, SameRests, SameQuiet DEF Raises, caches
  <2> QED
    BY <1>0, <2>2, MovesEnd
<1>2. CASE UniqueHit(op) \/ ParamHit(op) \/ UnunqAlias(op) \/ CloneInst(op)
  <2>1. \E src : Alias(src, op)
    BY <1>2, Zenon DEF UniqueHit, ParamHit, UnunqAlias, CloneInst
  <2>2. Quiet
    BY <2>1, SameQuiet DEF Alias, caches
  <2>3. \E src : Aliases(insts', stack', src, op)
    BY <1>2, HitAliases
  <2> QED
    BY <1>0, <2>2, <2>3, MovesEnd
<1>3. CASE UniqueMiss(op) \/ ParamMiss(op) \/ UnunqFirst(op) \/ UnunqAgain(op)
  <2>1. modules' = modules /\ (OpenJournals \/ KeepJournals)
    BY <1>3, Zenon DEF UniqueMiss, ParamMiss, UnunqFirst, UnunqAgain, Elaborate
  <2>2. Quiet
    BY <1>0, <2>1, OpenedQuiet
  <2>3. Calls(insts', stack', op)
    BY <1>3, MissCalls
  <2> QED
    BY <1>0, <2>2, <2>3, MovesEnd
<1>4. CASE Synonym(op)
  <2>1. \/ UNCHANGED <<modules, modJ>>
        \/ /\ modJ' = Recorded(modJ, modules, NameKey(op.name))
           /\ modules' = Put(modules, NameKey(op.name), Self)
    BY <1>4, Zenon DEF Synonym, caches
  <2>2. Quiet
    BY <1>0, <2>1, SameQuiet, NamedQuiet
  <2>3. Rests(insts', stack')
    BY <1>4, SynonymRests
  <2> QED
    BY <1>0, <2>2, <2>3, MovesEnd
<1>5. CASE ForceParam(op)
  <2>1. UNCHANGED <<modules, modJ>>
    BY <1>5, Zenon DEF ForceParam, caches
  <2>2. Forces(insts', stack')
    BY <1>5, ForceForces
  <2> QED
    BY <1>0, <2>1, <2>2, SameQuiet, MovesEnd
<1>6. CASE FinishTop(op) \/ AgainDiffers(op) \/ AgainSame(op)
  <2>1. UNCHANGED <<modules, modJ>> /\ Frame.kind # "unique"
    BY <1>6, Zenon DEF FinishTop, AgainDiffers, AgainSame, Finish
  <2> QED
    BY <2>1, SameQuiet DEF Ends
<1>7. CASE UniqueKept(op)
  <2> DEFINE K == {PreKey(Me.cls, Me.eff, Frame.sig), Post, NameKey(Me.uname)}
  <2>1. /\ Frame.kind = "unique" /\ Post \notin DOMAIN modules
        /\ Register(Front(modJ), K)
    BY <1>7, Zenon DEF UniqueKept, Finish, HasTwin
  <2>2. Returns(insts', stack')
    BY <1>7, KeptReturns
  <2>3. Journaled(Frame)
    BY <2>1 DEF Journaled
  <2>4. \A k : IsPost(k) /\ k # Post => k \notin K
    BY DEF IsPost, PreKey, NameKey
  <2>5. Post \in K
    OBVIOUS
  <2> HIDE DEF K
  <2>6. \A k : IsPost(k) /\ k # Post => KeptKey(k) /\ Unnoted(k)
    BY <1>0, <2>1, <2>3, <2>4, NotedQuiet
  <2>7. Post \in DOMAIN modules' /\ modules'[Post] = Self
    BY <2>1, <2>5 DEF Register, PutAll
  <2> QED
    BY <2>1, <2>2, <2>6, <2>7 DEF Stores
<1>8. CASE UniqueDup(op)
  <2>1. Frame.kind = "unique" /\ modules' = Undone(modules, Last(modJ)) /\ modJ' = Front(modJ)
    BY <1>8, Zenon DEF UniqueDup, Finish
  <2>2. Replaces(insts', stack')
    BY <1>8, DupReplaces
  <2> QED
    BY <2>1, <2>2 DEF RollsBack, Journaled
<1>9. CASE ParamKept(op) \/ UnunqKept(op)
  <2>1. /\ Frame.kind # "unique"
        /\ \E K : Register(modJ, K) /\ K \subseteq {NameKey(Me.uname), ParamKey(Me.cls, Me.eff, Frame.sig)}
    <3>1. CASE ParamKept(op)
      <4>1. /\ Frame.kind = "param"
            /\ Register(modJ, {NameKey(Me.uname)} \cup
                      IF cfg.nocache THEN {} ELSE {ParamKey(Me.cls, Me.eff, Frame.sig)})
        BY <3>1, Zenon DEF ParamKept, Finish
      <4> QED
        BY <4>1
    <3>2. CASE UnunqKept(op)
      <4>1. Frame.kind = "ununq" /\ Register(modJ, {NameKey(Me.uname)})
        BY <3>2, Zenon DEF UnunqKept, Finish
      <4> QED
        BY <4>1
    <3> QED
      BY <1>9, <3>1, <3>2
  <2>2. PICK K : Register(modJ, K) /\ K \subseteq {NameKey(Me.uname), ParamKey(Me.cls, Me.eff, Frame.sig)}
    BY <2>1
  <2>3. \A k : IsPost(k) => k \notin K
    BY <2>2 DEF IsPost, NameKey, ParamKey
  <2>4. Quiet
    BY <1>0, <2>2, <2>3, NotedQuiet DEF Quiet
  <2> QED
    BY <2>1, <2>4 DEF Ends
<1> QED
  BY <1>1, <1>2, <1>3, <1>4, <1>5, <1>6, <1>7, <1>8, <1>9, Zenon DEF Step

LEMMA NextKeys ==
    ASSUME ClassAssumption, ScopeInv, SealInv, DedupInv, [Next]_vars, ~cfg.nocache
    PROVE  \/ Quiet /\ ~Ends(insts')
           \/ Stores /\ Returns(insts', stack')
           \/ RollsBack /\ Replaces(insts', stack')
<1>0. Shaped(insts')
  BY SealNext DEF SealStep, Evolves
<1>1. CASE Begin
  <2>1. Starts(insts', stack') /\ UNCHANGED <<modules, modJ>>
    BY <1>0, <1>1, BeginStarts, Zenon DEF Begin
  <2> QED
    BY <2>1, SameQuiet, MovesEnd
<1>2. CASE TooDeep
  <2>1. Rests(insts', stack') /\ UNCHANGED <<modules, modJ>>
    BY <1>2, SameRests DEF TooDeep, Raises, caches
  <2> QED
    BY <2>1, SameQuiet, MovesEnd
<1>3. ASSUME NEW op, InBody, Perform(op), Step(op)
      PROVE  \/ Quiet /\ ~Ends(insts')
             \/ Stores /\ Returns(insts', stack')
             \/ RollsBack /\ Replaces(insts', stack')
  <2>1. InStep /\ Frame.pc > 0
    BY <1>3 DEF InStep, InBody, Perform
  <2> QED
    BY <1>0, <1>3, <2>1, StepKeys
<1>4. CASE Catch
  <2>1. /\ stack' = Advance(stack) /\ UNCHANGED <<insts, modules, modJ, ununiq>> /\ Frame.pc > 0
    BY <1>4, Zenon DEF Catch, Guarded, caches
  <2>2. stack = <<>> => Advance(stack) = stack
    BY DEF Advance
  <2>3. Rests(insts', stack')
    BY <2>1, <2>2, SameRests
  <2> QED
    BY <2>1, <2>3, SameQuiet, MovesEnd
<1>5. CASE Unwind
  <2>1. /\ Gives(insts', stack') /\ modules' = modules
        /\ modJ' = modJ \/ (Journaled(Frame) /\ modJ' = Front(modJ))
    BY <1>0, <1>5, UnwindGives, Zenon DEF Unwind, CloseScope, KeepJournals
  <2>2. stack # <<>>
    BY <2>1 DEF Gives
  <2>3. Quiet
    BY <2>1, <2>2, SameQuiet, ClosedQuiet
  <2> QED
    BY <2>1, <2>3, MovesEnd
<1>6. CASE Fail
  <2>1. Gives(insts', stack') /\ UNCHANGED <<modules, modJ>>
    BY <1>6, FailGives, Zenon DEF Fail, caches
  <2> QED
    BY <2>1, SameQuiet, MovesEnd
<1>7. CASE UNCHANGED vars
  <2>1. stack' = stack /\ UNCHANGED <<insts, modules, modJ, ununiq>>
    BY <1>7 DEF vars
  <2>2. Rests(insts', stack')
    BY <2>1, SameRests
  <2> QED
    BY <2>1, <2>2, SameQuiet, MovesEnd
<1> QED
  BY <1>1, <1>2, <1>3, <1>4, <1>5, <1>6, <1>7, Zenon DEF Next

-----------------------------------------------------------------------------
(* Journals and the frames they belong to. *)

\* The journal of a frame is the one after those of the frames below it.
Rank(s, k) == Cardinality({j \in 1 .. k : Journaled(s[j])})

LEMMA RankIs ==
    ScopeInv =>
        \A k \in 1 .. Len(stack) : Journaled(stack[k]) =>
            /\ Rank(stack, k) \in 1 .. Len(modJ)
            /\ k = Len(stack) => Rank(stack, k) = Len(modJ)
            /\ k < Len(stack) /\ Journaled(stack[Len(stack)]) => Rank(stack, k) < Len(modJ)
<1> SUFFICES ASSUME ScopeInv, NEW k \in 1 .. Len(stack), Journaled(stack[k])
             PROVE  /\ Rank(stack, k) \in 1 .. Len(modJ)
                    /\ k = Len(stack) => Rank(stack, k) = Len(modJ)
                    /\ k < Len(stack) /\ Journaled(stack[Len(stack)]) => Rank(stack, k) < Len(modJ)
  OBVIOUS
<1> DEFINE n == Len(stack)
           T == {j \in 1 .. k : Journaled(stack[j])}
<1>1. n \in Nat /\ Len(modJ) = Cardinality(Scopes(stack)) /\ IsFiniteSet(Scopes(stack))
  BY SeqIs, ScopesFinite DEF ScopeInv, Formed, Closes
<1>2. T \subseteq Scopes(stack) /\ k \in T
  BY <1>1 DEF Scopes
<1>3. IsFiniteSet(T) /\ Cardinality(T) \in Nat /\ Cardinality(T) <= Len(modJ)
  BY <1>1, <1>2, FS_Subset, FS_CardinalityType
<1>4. Cardinality(T) # 0
  BY <1>2, <1>3, FS_EmptySet
<1>5. Len(modJ) \in Nat
  BY <1>1, FS_CardinalityType
<1>6. ASSUME k = n
      PROVE  T = Scopes(stack)
  BY <1>6 DEF Scopes
<1>7. ASSUME k < n, Journaled(stack[n])
      PROVE  Cardinality(T) < Len(modJ)
  <2>1. n \notin T /\ n \in Scopes(stack)
    BY <1>1, <1>7 DEF Scopes
  <2>2. T \cup {n} \subseteq Scopes(stack)
    BY <1>2, <2>1
  <2>3. Cardinality(T \cup {n}) = Cardinality(T) + 1
    BY <1>3, <2>1, FS_AddElement
  <2>4. Cardinality(T \cup {n}) <= Len(modJ)
    BY <1>1, <2>2, FS_Subset
  <2> QED
    BY <1>3, <1>5, <2>3, <2>4
<1>8. Rank(stack, k) = Cardinality(T)
  BY DEF Rank
<1> HIDE DEF T
<1> QED
  BY <1>1, <1>3, <1>4, <1>5, <1>6, <1>7, <1>8

\* A call has no journal from before.
LEMMA RankNew ==
    ASSUME ScopeInv, NEW s, NEW j \in Nat, j = Cardinality(Scopes(s)), IsSeq(s),
           Len(s) = Len(stack) + 1, \A k \in 1 .. Len(stack) : s[k] = stack[k], Journaled(s[Len(s)])
    PROVE  j > Len(modJ)
<1>1. Len(stack) \in Nat /\ Len(modJ) = Cardinality(Scopes(stack)) /\ IsFiniteSet(Scopes(stack))
  BY SeqIs, ScopesFinite DEF ScopeInv, Formed, Closes
<1>2. Len(s) \notin Scopes(stack) /\ Scopes(s) = Scopes(stack) \cup {Len(s)}
  BY <1>1 DEF Scopes
<1>3. Cardinality(Scopes(stack) \cup {Len(s)}) = Cardinality(Scopes(stack)) + 1
  BY <1>1, <1>2, FS_AddElement
<1>4. Cardinality(Scopes(stack)) \in Nat
  BY <1>1, FS_CardinalityType
<1> QED
  BY <1>1, <1>2, <1>3, <1>4

-----------------------------------------------------------------------------
(* unique_inst keeps no twins. *)

\* Which frames are those of unique_inst, and in which bodies instances were
\* made since one began.
Kinds(is, s) ==
    \A k \in 1 .. Len(s) : s[k].kind = "unique" <=> is[s[k].inst].by = "unique"
MadeSince(is, s) ==
    \A k \in 1 .. Len(s) : \A i \in 1 .. Len(is) : i > s[k].inst => is[i].parent >= s[k].inst

\* What unique_inst kept, and the key of its final parameters: the key leads
\* to it, and no call under way that began later noted the key.
Unique(i) == /\ i \in Live /\ insts[i].done = TRUE
             /\ insts[i].by = "unique" /\ insts[i].cloneOf = 0
KeyOf(i) == PostKey(insts[i].cls, insts[i].val, SubtreeSig(insts[i].path))
Filed == \A i \in 1 .. Len(insts) :
    Unique(i) => KeyOf(i) \in DOMAIN modules /\ modules[KeyOf(i)] = i
Unmarked ==
    \A k \in 1 .. Len(stack) : Journaled(stack[k]) =>
        \A i \in 1 .. Len(insts) :
            Unique(i) /\ i < stack[k].inst => KeyOf(i) \notin DOMAIN modJ[Rank(stack, k)]

TwinInv == /\ Kinds(insts, stack) /\ MadeSince(insts, stack)
           /\ ~cfg.nocache => Filed /\ Unmarked

\* The frames a move leaves as they are, and the instance it makes.
LEMMA MovesMake ==
    ASSUME ScopeInv, SealInv, DedupInv, NEW is, NEW s, Moves(is, s)
    PROVE  /\ Old(is) /\ Len(s) \in Nat
           /\ Len(is) = Len(insts) \/ Len(is) = Len(insts) + 1
           /\ \A k \in 1 .. Len(s) :
                 \/ k \in 1 .. Len(stack) /\ s[k].inst = stack[k].inst /\ s[k].kind = stack[k].kind
                 \/ /\ k = Len(stack) + 1 /\ Len(s) = k /\ s[k].inst = Len(insts) + 1
                    /\ IsSeq(s) /\ \A j \in 1 .. Len(stack) : s[j] = stack[j]
                    /\ s[k].kind = "unique" <=> is[s[k].inst].by = "unique"
           /\ Len(is) = Len(insts) + 1 =>
                 /\ is[Len(is)].cloneOf # 0 \/ is[Len(is)].done = FALSE
                 /\ \A k \in 1 .. Len(s) : k \in 1 .. Len(stack) => is[Len(is)].parent >= s[k].inst
<1>0. Len(stack) \in Nat /\ Len(insts) \in Nat
  BY InstsAre, SeqIs DEF ScopeInv, Formed
<1>1. Old(is) /\ (Len(is) = Len(insts) \/ Len(is) = Len(insts) + 1)
  BY MovesGrow DEF Grows, Arrives
<1>2. ASSUME NEW m, m = Len(stack) \/ (m = Len(stack) - 1 /\ stack # <<>>), Frames(s, m)
      PROVE  /\ Len(s) = m /\ Len(s) \in Nat
             /\ \A k \in 1 .. Len(s) :
                  k \in 1 .. Len(stack) /\ s[k].inst = stack[k].inst /\ s[k].kind = stack[k].kind
  <2>1. Len(s) = m /\ m \in Nat /\ m <= Len(stack)
    BY <1>0, <1>2, StackIs DEF Frames
  <2>2. \A k \in 1 .. m : s[k].inst = stack[k].inst /\ s[k].kind = stack[k].kind
    BY <1>2 DEF Frames
  <2> QED
    BY <1>0, <2>1, <2>2
<1>3. ASSUME stack # <<>>
      PROVE  \A k \in 1 .. Len(stack) : Self >= stack[k].inst
                                        /\ (k < Len(stack) => Me.parent >= stack[k].inst)
  <2> TAKE k \in 1 .. Len(stack)
  <2>1. /\ Len(stack) \in 1 .. Len(stack) /\ Self = stack[Len(stack)].inst /\ Self \in 1 .. Len(insts)
        /\ stack[k].inst \in 1 .. Len(insts)
        /\ Len(stack) > 1 => Me.parent = stack[Len(stack) - 1].inst /\ Me.parent \in 1 .. Len(insts)
    BY <1>3, SelfWorks DEF SealInv, Linked
  <2>2. \A a, b \in 1 .. Len(stack) : a < b => stack[a].inst < stack[b].inst
    <3> TAKE a, b \in 1 .. Len(stack)
    <3>1. Works(insts, stack, b)
      BY WorkingIs DEF DedupInv
    <3>2. a < b => a \in 1 .. b - 1
      BY <1>0
    <3> QED
      BY <3>1, <3>2 DEF Works
  <2>3. CASE k = Len(stack)
    BY <1>0, <2>1, <2>3
  <2>4. CASE k < Len(stack)
    <3>1. Self > stack[k].inst
      BY <2>1, <2>2, <2>4
    <3>2. Len(stack) > 1 /\ Len(stack) - 1 \in 1 .. Len(stack)
      BY <1>0, <2>4
    <3>3. k = Len(stack) - 1 \/ k < Len(stack) - 1
      BY <1>0, <2>4
    <3>4. Me.parent >= stack[k].inst
      BY <1>0, <2>1, <2>2, <3>2, <3>3
    <3> QED
      BY <1>0, <2>1, <3>1, <3>4
  <2> QED
    BY <1>0, <2>3, <2>4
<1>4. CASE Rests(is, s) \/ Forces(is, s) \/ Returns(is, s) \/ Stops(is, s) \/ Gives(is, s)
  <2>1. \E m : (m = Len(stack) \/ (m = Len(stack) - 1 /\ stack # <<>>)) /\ Frames(s, m)
    BY <1>4 DEF Rests, Forces, Returns, Stops, Gives, Finishes
  <2>2. Len(is) = Len(insts)
    BY <1>4 DEF Rests, Forces, Returns, Stops, Gives
  <2>3. Len(is) # Len(insts) + 1
    BY <1>0, <2>2
  <2> QED
    BY <1>1, <1>2, <2>1, <2>3
<1>5. CASE Starts(is, s)
  <2>1. stack # <<>> /\ s = Advance(stack) /\ Len(is) = Len(insts) /\ Formed(stack)
    BY <1>5 DEF Starts, ScopeInv
  <2>2. /\ Len(s) = Len(stack)
        /\ \A k \in 1 .. Len(stack) : s[k].inst = stack[k].inst /\ s[k].kind = stack[k].kind
    BY <2>1, AdvancedIs
  <2>3. Len(is) # Len(insts) + 1
    BY <1>0, <2>1
  <2> QED
    BY <1>0, <1>1, <2>2, <2>3
<1>6. ASSUME NEW src, NEW op, Aliases(is, s, src, op)
      PROVE  /\ Frames(s, Len(stack)) /\ stack # <<>> /\ Len(is) = Len(insts) + 1
             /\ is[Len(is)].cloneOf # 0 /\ is[Len(is)].parent = Self
  BY <1>0, <1>6 DEF Aliases, Copies, Placed
<1>7. CASE \E src, op : Aliases(is, s, src, op)
  BY <1>0, <1>1, <1>2, <1>3, <1>6, <1>7
<1>8. ASSUME NEW op, Calls(is, s, op)
      PROVE  /\ Len(s) = Len(stack) + 1 /\ IsSeq(s) /\ stack # <<>> /\ Len(is) = Len(insts) + 1
             /\ \A k \in 1 .. Len(stack) : s[k] = stack[k]
             /\ is[Len(is)].done = FALSE /\ is[Len(is)].parent = Self
             /\ s[Len(s)].inst = Len(is)
             /\ s[Len(s)].kind = "unique" <=> is[Len(is)].by = "unique"
  BY <1>8 DEF Calls, Placed
<1>9. CASE \E op : Calls(is, s, op)
  <2>1. PICK op : Calls(is, s, op)
    BY <1>9
  <2>2. /\ Len(s) = Len(stack) + 1 /\ IsSeq(s) /\ stack # <<>> /\ Len(is) = Len(insts) + 1
        /\ \A k \in 1 .. Len(stack) : s[k] = stack[k]
        /\ is[Len(is)].done = FALSE /\ is[Len(is)].parent = Self
        /\ s[Len(s)].inst = Len(is)
        /\ s[Len(s)].kind = "unique" <=> is[Len(is)].by = "unique"
    BY <1>8, <2>1, Zenon
  <2>3. \A k \in 1 .. Len(s) : k \in 1 .. Len(stack) \/ k = Len(stack) + 1
    BY <1>0, <2>2
  <2> QED
    BY <1>0, <1>1, <1>3, <2>2, <2>3
<1>10. CASE Replaces(is, s)
  <2>1. /\ Frames(s, Len(stack) - 1) /\ stack # <<>> /\ Len(stack) > 1
        /\ Len(is) = Len(insts) + 1
        /\ is[Len(insts) + 1].cloneOf = modules[Post] /\ modules[Post] \in 1 .. Len(insts)
        /\ is[Len(insts) + 1].parent = Me.parent
    BY <1>10 DEF Replaces, Finishes, Copies, Placed
  <2>2. is[Len(insts) + 1].cloneOf # 0
    BY <1>0, <2>1
  <2>3. \A k \in 1 .. Len(s) : k < Len(stack)
    BY <1>0, <1>2, <2>1
  <2> QED
    BY <1>1, <1>2, <1>3, <2>1, <2>2, <2>3
<1> QED
  BY <1>4, <1>5, <1>7, <1>9, <1>10, Zenon DEF Moves

LEMMA MovesTwins ==
    ASSUME ScopeInv, SealInv, DedupInv, NEW is, NEW s, Moves(is, s),
           Kinds(insts, stack), MadeSince(insts, stack)
    PROVE  Kinds(is, s) /\ MadeSince(is, s)
<1>0. Len(insts) \in Nat /\ Len(stack) \in Nat
  BY InstsAre, SeqIs DEF ScopeInv, Formed
<1>1. /\ Old(is) /\ Len(s) \in Nat
      /\ Len(is) = Len(insts) \/ Len(is) = Len(insts) + 1
      /\ \A k \in 1 .. Len(s) :
            \/ k \in 1 .. Len(stack) /\ s[k].inst = stack[k].inst /\ s[k].kind = stack[k].kind
            \/ /\ k = Len(stack) + 1 /\ Len(s) = k /\ s[k].inst = Len(insts) + 1
               /\ s[k].kind = "unique" <=> is[s[k].inst].by = "unique"
      /\ Len(is) = Len(insts) + 1 =>
            \A k \in 1 .. Len(s) : k \in 1 .. Len(stack) => is[Len(is)].parent >= s[k].inst
  BY MovesMake
<1>2. \A i \in 1 .. Len(insts) : is[i].by = insts[i].by /\ is[i].parent = insts[i].parent
  BY <1>1 DEF Old, Ident
<1>3. \A k \in 1 .. Len(stack) : stack[k].inst \in 1 .. Len(insts)
  BY DEF SealInv, Linked
<1>4. Kinds(is, s)
  BY <1>1, <1>2, <1>3 DEF Kinds
<1>5. ASSUME NEW k \in 1 .. Len(s), NEW i \in 1 .. Len(is), i > s[k].inst
      PROVE  is[i].parent >= s[k].inst
  <2>1. i \in 1 .. Len(insts) \/ (i = Len(is) /\ Len(is) = Len(insts) + 1)
    BY <1>0, <1>1
  <2>2. CASE k \in 1 .. Len(stack) /\ s[k].inst = stack[k].inst
    BY <1>1, <1>2, <1>5, <2>1, <2>2 DEF MadeSince
  <2>3. CASE s[k].inst = Len(insts) + 1
    BY <1>0, <1>1, <1>5, <2>3
  <2> QED
    BY <1>1, <2>2, <2>3
<1>6. MadeSince(is, s)
  BY <1>5 DEF MadeSince
<1> QED
  BY <1>4, <1>6

\* What is unique after a step was before, unless it has just been finished.
LEMMA UniqueBefore ==
    ASSUME ClassAssumption, ScopeInv, SealInv, DedupInv, TwinInv, [Next]_vars,
           NEW i \in 1 .. Len(insts'), Unique(i)'
    PROVE  /\ i \in 1 .. Len(insts) /\ i \in Live
           /\ \/ Unique(i) /\ KeyOf(i)' = KeyOf(i)
              \/ i = Self /\ Ends(insts')
<1>1. Moves(insts', stack') /\ cfg' = cfg /\ SealInv' /\ DedupInv'
  BY NextMoves, SealNext, DedupNext DEF SealStep
<1>2. PICK is, s : is = insts' /\ s = stack'
  OBVIOUS
<1>3. /\ Moves(is, s) /\ Grows(is) /\ Old(is) /\ Len(insts) \in Nat
      /\ i \in Live' /\ is[i].done = TRUE /\ is[i].by = "unique" /\ is[i].cloneOf = 0
  <2>1. Moves(is, s)
    BY <1>1, <1>2
  <2>2. i \in Live' /\ is[i].done = TRUE /\ is[i].by = "unique" /\ is[i].cloneOf = 0
    BY <1>2 DEF Unique
  <2> QED
    BY <2>1, <2>2, MovesGrow, InstsAre DEF Grows
<1>4. i \in 1 .. Len(insts)
  <2>1. /\ Len(is) = Len(insts) \/ Len(is) = Len(insts) + 1
        /\ Len(is) = Len(insts) + 1 => is[Len(is)].cloneOf # 0 \/ is[Len(is)].done = FALSE
    BY <1>3, MovesMake
  <2>2. i \in 1 .. Len(is)
    BY <1>2
  <2>3. i \in 1 .. Len(insts) \/ (i = Len(is) /\ Len(is) = Len(insts) + 1)
    BY <1>3, <2>1, <2>2
  <2> QED
    BY <1>3, <2>1, <2>3
<1>5. i \in Live
  BY <1>1, <1>2, <1>3, <1>4, LiveBefore DEF DedupInv
<1>6. insts[i].by = "unique" /\ insts[i].cloneOf = 0
  BY <1>3, <1>4 DEF Old, Ident
<1>7. CASE insts[i].done = TRUE
  <2>1. Ident(is[i], insts[i]) /\ Same(is[i], insts[i])
    BY <1>3, <1>4, <1>7, DoneStays
  <2>2. PICK p : p = insts[i].path
    OBVIOUS
  <2>3. SubtreeSig(p)' = SubtreeSig(p)
    BY <1>1, CfgSame
  <2>4. insts'[i].path = p /\ insts'[i].cls = insts[i].cls /\ insts'[i].val = insts[i].val
    BY <1>2, <2>1, <2>2 DEF Ident, Same, Ran
  <2>5. KeyOf(i)' = KeyOf(i)
    BY <2>2, <2>3, <2>4 DEF KeyOf, PostKey
  <2> QED
    BY <1>4, <1>5, <1>6, <1>7, <2>5 DEF Unique
<1>8. CASE insts[i].done # TRUE
  <2>1. ~Same(is[i], insts[i])
    BY <1>3, <1>8 DEF Same
  <2>2. i = Self /\ stack # <<>>
    <3>1. i = Self
      BY <1>3, <1>4, <2>1 DEF Old
    <3>2. ~Rests(is, s)
      BY <1>4, <2>1 DEF Rests, AllSame
    <3>3. stack # <<>>
      BY <1>3, <3>2, Zenon DEF Moves, Starts, Forces, Aliases, Calls, Returns, Replaces, Stops, Gives, Finishes
    <3> QED
      BY <3>1, <3>3
  <2>3. Frame.kind = "unique"
    <3>1. Len(stack) \in 1 .. Len(stack) /\ Frame = stack[Len(stack)] /\ Self = stack[Len(stack)].inst
      BY <2>2, SelfWorks
    <3> QED
      BY <1>6, <2>2, <3>1 DEF TwinInv, Kinds
  <2>4. Ends(is)
    BY <1>3, <2>2, <2>3 DEF Ends
  <2> QED
    BY <1>2, <1>4, <1>5, <2>2, <2>4
<1> QED
  BY <1>7, <1>8

\* A rollback leaves nothing of the discarded child and what it made.
LEMMA Discards ==
    ASSUME ScopeInv, SealInv, DedupInv, SealInv', DedupInv', TwinInv, Replaces(insts', stack')
    PROVE  \A i \in 1 .. Len(insts) : i >= Self => i \notin Live'
<1> DEFINE S == {d \in Nat : \A i \in 1 .. Len(insts) : i <= d /\ i >= Self => i \notin Live'}
<1>0. PICK is, L, me : is = insts' /\ L = Live' /\ me = Self
  OBVIOUS
<1>1. /\ Old(is) /\ stack # <<>> /\ Len(stack) > 1 /\ Len(is) = Len(insts) + 1
      /\ SubsPut(is, Me.parent, Me.iname, Len(insts) + 1)
  BY <1>0 DEF Replaces, Finishes
<1>2. (/\ Live \subseteq 1 .. Len(insts)
       /\ \A i \in 1 .. Len(insts) :
             i \in Live <=> insts[i].parent = 0 \/ (insts[i].parent \in Live /\ Hangs(i)))'
  <2>1. SealInv' /\ Tree(insts)'
    BY DEF DedupInv
  <2> QED
    BY <2>1, LiveAll, PTL
<1>3. \A i \in 1 .. Len(is) : i \in L <=>
          is[i].parent = 0 \/ (is[i].parent \in L /\ is[i].iname \in DOMAIN is[is[i].parent].subs
                                                  /\ is[is[i].parent].subs[is[i].iname] = i)
  BY <1>0, <1>2 DEF Hangs
<1>4. /\ me \in 1 .. Len(insts) /\ Me = insts[me] /\ Me.parent \in 1 .. Len(insts)
      /\ me = stack[Len(stack)].inst /\ Len(stack) \in 1 .. Len(stack) /\ Len(insts) \in Nat
  BY <1>0, <1>1, SelfWorks
<1>5. me \notin L
  <2>1. is[me].parent = Me.parent /\ is[me].iname = Me.iname /\ me \in 1 .. Len(is)
    BY <1>1, <1>4 DEF Old, Ident
  <2>2. is[Me.parent].subs = Put(insts[Me.parent].subs, Me.iname, Len(insts) + 1)
    BY <1>1, <1>4 DEF SubsPut
  <2>3. is[Me.parent].subs[Me.iname] = Len(insts) + 1
    BY <2>2 DEF Put
  <2>4. Len(insts) + 1 # me /\ Me.parent # 0
    BY <1>4
  <2> QED
    BY <1>3, <2>1, <2>3, <2>4
<1>6. ASSUME NEW d \in Nat, d \in S, NEW i \in 1 .. Len(insts), i <= d + 1, i >= me
      PROVE  i \notin L
  <2>1. CASE i = me
    BY <1>5, <2>1
  <2>2. CASE i > me
    <3>1. PICK p : p = insts[i].parent
      OBVIOUS
    <3>2. p >= me /\ p < i /\ p \in Nat
      <4>1. p >= me
        BY <1>4, <2>2, <3>1 DEF TwinInv, MadeSince
      <4> QED
        BY <3>1, <4>1 DEF DedupInv, Tree
    <3>3. p \in 1 .. Len(insts) /\ p <= d /\ p # 0
      BY <1>4, <1>6, <3>2
    <3>4. p \notin L
      BY <1>0, <1>6, <3>2, <3>3
    <3>5. is[i].parent = p /\ i \in 1 .. Len(is)
      BY <1>1, <1>4, <3>1 DEF Old, Ident
    <3> QED
      BY <1>3, <3>3, <3>4, <3>5
  <2> QED
    BY <1>4, <1>6, <2>1, <2>2
<1>7. 0 \in S
  OBVIOUS
<1>8. \A k \in Nat : k \in S => k + 1 \in S
  BY <1>0, <1>6
<1> HIDE DEF S
<1>9. Len(insts) \in S
  BY <1>4, <1>7, <1>8, AllNat
<1> QED
  BY <1>4, <1>9 DEF S

\* A unique_inst child is under its final key once it is finished.
LEMMA FiledNext ==
    ASSUME ClassAssumption, ScopeInv, SealInv, DedupInv, TwinInv, [Next]_vars, ~cfg.nocache
    PROVE  Filed'
<1>1. Moves(insts', stack') /\ cfg' = cfg /\ SealInv' /\ DedupInv'
  BY NextMoves, SealNext, DedupNext DEF SealStep
<1> SUFFICES ASSUME NEW i \in 1 .. Len(insts'), Unique(i)'
             PROVE  KeyOf(i)' \in DOMAIN modules' /\ modules'[KeyOf(i)'] = i
  BY DEF Filed
<1>2. /\ i \in 1 .. Len(insts) /\ i \in Live
      /\ \/ Unique(i) /\ KeyOf(i)' = KeyOf(i)
         \/ i = Self /\ Ends(insts')
  BY UniqueBefore
<1>3. IsPost(KeyOf(i))
  BY DEF IsPost, KeyOf, PostKey
<1>4. Unique(i) => KeyOf(i) \in DOMAIN modules /\ modules[KeyOf(i)] = i
  BY <1>2 DEF TwinInv, Filed
<1>5. CASE Quiet /\ ~Ends(insts')
  BY <1>2, <1>3, <1>4, <1>5 DEF Quiet, KeptKey
<1>6. CASE Stores /\ Returns(insts', stack')
  <2>1. CASE Unique(i) /\ KeyOf(i)' = KeyOf(i)
    <3>1. KeyOf(i) # Post
      BY <1>4, <1>6, <2>1 DEF Stores
    <3> QED
      BY <1>3, <1>4, <1>6, <2>1, <3>1 DEF Stores, KeptKey
  <2>2. CASE i = Self
    <3>1. Finishes(insts') /\ Len(stack) > 1 /\ stack # <<>>
      BY <1>6 DEF Returns, Finishes
    <3>2. /\ Self \in 1 .. Len(insts) /\ Me = insts[Self] /\ Frame.sig = SubtreeSig(Me.path)
      BY <3>1, SelfWorks
    <3>3. PICK p, me : p = Me.path /\ me = Self
      OBVIOUS
    <3>4. insts'[me].cls = Me.cls /\ insts'[me].val = Me.val /\ insts'[me].path = p
      BY <3>1, <3>2, <3>3 DEF Finishes, Old, Ident
    <3>5. SubtreeSig(p)' = SubtreeSig(p)
      BY <1>1, CfgSame
    <3>6. KeyOf(me)' = PostKey(Me.cls, Me.val, Frame.sig)
      BY <3>2, <3>3, <3>4, <3>5 DEF KeyOf, PostKey
    <3>7. Post \in DOMAIN modules' /\ modules'[Post] = me
      BY <1>6, <3>3 DEF Stores
    <3> QED
      BY <2>2, <3>3, <3>6, <3>7 DEF Post
  <2> QED
    BY <1>2, <2>1, <2>2
<1>7. CASE RollsBack /\ Replaces(insts', stack')
  <2>1. stack # <<>>
    BY <1>7 DEF Replaces, Finishes
  <2>2. /\ Len(stack) \in 1 .. Len(stack) /\ Frame = stack[Len(stack)] /\ Self = stack[Len(stack)].inst
        /\ Self \in 1 .. Len(insts) /\ Len(insts) \in Nat
    BY <2>1, SelfWorks
  <2>3. i \in Live' /\ i < Self
    <3>1. i \in Live'
      BY DEF Unique
    <3>2. ~(i >= Self)
      BY <1>1, <1>2, <1>7, <3>1, Discards
    <3> QED
      BY <1>2, <2>2, <3>1, <3>2
  <2>4. Unique(i) /\ KeyOf(i)' = KeyOf(i)
    BY <1>2, <2>2, <2>3
  <2>5. KeyOf(i) \notin DOMAIN Last(modJ)
    <3>1. Journaled(stack[Len(stack)])
      BY <1>7, <2>2 DEF RollsBack
    <3>2. Rank(stack, Len(stack)) = Len(modJ)
      BY <2>2, <3>1, RankIs
    <3>3. KeyOf(i) \notin DOMAIN modJ[Rank(stack, Len(stack))]
      BY <1>2, <2>2, <2>3, <2>4, <3>1 DEF TwinInv, Unmarked
    <3> QED
      BY <3>2, <3>3 DEF Last
  <2>6. KeyOf(i) \in DOMAIN modules' /\ modules'[KeyOf(i)] = modules[KeyOf(i)]
    BY <1>4, <1>7, <2>4, <2>5 DEF RollsBack, Undone
  <2> QED
    BY <1>4, <2>4, <2>6
<1> QED
  BY <1>5, <1>6, <1>7, NextKeys

\* And no rollback will take the key back while the child is in the tree.
LEMMA UnmarkedNext ==
    ASSUME ClassAssumption, ScopeInv, SealInv, DedupInv, TwinInv, [Next]_vars, ~cfg.nocache
    PROVE  Unmarked'
<1>1. Moves(insts', stack') /\ cfg' = cfg /\ ScopeInv' /\ SealInv' /\ DedupInv'
  BY NextMoves, ScopeNext, SealNext, DedupNext DEF SealStep
<1>2. PICK is, s, mj : is = insts' /\ s = stack' /\ mj = modJ'
  OBVIOUS
<1>3. (\A k \in 1 .. Len(stack) : Journaled(stack[k]) =>
            /\ Rank(stack, k) \in 1 .. Len(modJ)
            /\ k = Len(stack) => Rank(stack, k) = Len(modJ)
            /\ k < Len(stack) /\ Journaled(stack[Len(stack)]) => Rank(stack, k) < Len(modJ))'
  BY <1>1, RankIs, PTL
<1>4. \A f : Journaled(f)' <=> Journaled(f)
  BY <1>1 DEF Journaled
<1>5. \A t, k : Rank(t, k)' = Rank(t, k)
  BY <1>4 DEF Rank
<1> SUFFICES ASSUME NEW k \in 1 .. Len(s), Journaled(s[k]), NEW i \in 1 .. Len(insts'), Unique(i)',
                    i < s[k].inst, KeyOf(i)' \in DOMAIN mj[Rank(s, k)]
             PROVE  FALSE
  BY <1>2, <1>4, <1>5 DEF Unmarked
<1>6. /\ i \in 1 .. Len(insts) /\ i \in Live
      /\ \/ Unique(i) /\ KeyOf(i)' = KeyOf(i)
         \/ i = Self /\ Ends(insts')
  BY UniqueBefore
<1>7. IsPost(KeyOf(i))
  BY DEF IsPost, KeyOf, PostKey
<1>8. /\ Len(s) \in Nat /\ Len(stack) \in Nat
      /\ \/ k \in 1 .. Len(stack) /\ s[k].inst = stack[k].inst /\ s[k].kind = stack[k].kind
         \/ /\ k = Len(stack) + 1 /\ Len(s) = k /\ s[k].inst = Len(insts) + 1
            /\ IsSeq(s) /\ \A j \in 1 .. Len(stack) : s[j] = stack[j]
  <2>1. Moves(is, s)
    BY <1>1, <1>2
  <2>2. Len(stack) \in Nat
    BY SeqIs DEF ScopeInv, Formed
  <2>3. /\ Len(s) \in Nat
        /\ \A m \in 1 .. Len(s) :
              \/ m \in 1 .. Len(stack) /\ s[m].inst = stack[m].inst /\ s[m].kind = stack[m].kind
              \/ /\ m = Len(stack) + 1 /\ Len(s) = m /\ s[m].inst = Len(insts) + 1
                 /\ IsSeq(s) /\ \A j \in 1 .. Len(stack) : s[j] = stack[j]
    <3>1. Len(s) \in Nat
      BY <2>1, MovesMake
    <3> SUFFICES ASSUME NEW m \in 1 .. Len(s),
                        ~(m \in 1 .. Len(stack) /\ s[m].inst = stack[m].inst /\ s[m].kind = stack[m].kind)
                 PROVE  /\ m = Len(stack) + 1 /\ Len(s) = m /\ s[m].inst = Len(insts) + 1
                        /\ IsSeq(s) /\ \A j \in 1 .. Len(stack) : s[j] = stack[j]
      BY <3>1
    <3>6. Len(s) = m
      BY <2>1, MovesMake
    <3>7. Len(stack) + 1 = m
      BY <2>1, <2>2, <3>1, MovesMake
    <3>2. m = Len(stack) + 1 /\ Len(s) = m
      BY <3>6, <3>7
    <3>4. s[m].inst = Len(insts) + 1
      BY <2>1, MovesMake
    <3>5. IsSeq(s)
      BY <2>1, MovesMake
    <3>3. ASSUME NEW j \in 1 .. Len(stack)
          PROVE  s[j] = stack[j]
      BY <2>1, MovesMake
    <3> QED
      BY <3>2, <3>3, <3>4, <3>5
  <2> QED
    BY <2>2, <2>3
<1>9. Rank(s, k) \in 1 .. Len(mj)
  BY <1>2, <1>3, <1>4, <1>5
<1>10. ASSUME k \in 1 .. Len(stack)
       PROVE  Rank(s, k) = Rank(stack, k) /\ Journaled(stack[k]) /\ s[k].inst = stack[k].inst
  <2>1. Moves(is, s)
    BY <1>1, <1>2
  <2>2. \A j \in 1 .. k : s[j].kind = stack[j].kind
    <3> TAKE j \in 1 .. k
    <3>1. j \in 1 .. Len(s) /\ j # Len(stack) + 1
      BY <1>8, <1>10
    <3> QED
      BY <2>1, <3>1, MovesMake
  <2>3. \A j \in 1 .. k : Journaled(s[j]) <=> Journaled(stack[j])
    BY <2>2 DEF Journaled
  <2>4. Rank(s, k) = Rank(stack, k)
    BY <2>3 DEF Rank
  <2> QED
    BY <1>8, <1>10, <2>3, <2>4
<1>11. ASSUME Unique(i), k \in 1 .. Len(stack)
       PROVE  KeyOf(i) \notin DOMAIN modJ[Rank(s, k)]
  BY <1>6, <1>10, <1>11 DEF TwinInv, Unmarked
<1>12. ASSUME Unique(i), KeyOf(i)' = KeyOf(i), Unnoted(KeyOf(i))
       PROVE  FALSE
  <2>1. Rank(s, k) \in 1 .. Len(modJ) /\ KeyOf(i) \in DOMAIN modJ[Rank(s, k)]
    BY <1>2, <1>9, <1>12 DEF Unnoted
  <2>2. CASE k \in 1 .. Len(stack)
    BY <1>11, <1>12, <2>1, <2>2
  <2>3. CASE k = Len(stack) + 1 /\ IsSeq(s) /\ Len(s) = k /\ \A j \in 1 .. Len(stack) : s[j] = stack[j]
    <3>1. Len(mj) = Cardinality(Scopes(s)) /\ Len(mj) \in Nat /\ Rank(s, k) = Len(mj)
      <4>1. (Len(modJ) = Cardinality(Scopes(stack)) /\ Len(modJ) \in Nat)'
        BY <1>1, SeqIs DEF ScopeInv, Closes
      <4>2. Scopes(s)' = Scopes(s)
        BY <1>4 DEF Scopes
      <4>3. Len(mj) = Cardinality(Scopes(s)) /\ Len(mj) \in Nat
        BY <1>2, <4>1, <4>2
      <4> QED
        BY <1>2, <1>3, <1>4, <1>5, <2>3, <4>3
    <3>2. Len(mj) > Len(modJ)
      BY <2>3, <3>1, RankNew
    <3>3. Len(modJ) \in Nat
      BY SeqIs DEF ScopeInv, Closes
    <3> QED
      BY <2>1, <3>1, <3>2, <3>3
  <2> QED
    BY <1>8, <2>2, <2>3
<1>13. CASE Quiet /\ ~Ends(insts')
  BY <1>6, <1>7, <1>12, <1>13 DEF Quiet
<1>14. CASE Stores /\ Returns(insts', stack')
  <2>1. stack # <<>> /\ k \in 1 .. Len(stack) - 1 /\ k \in 1 .. Len(stack)
    <3>1. stack # <<>> /\ Len(s) = Len(stack) - 1
      BY <1>2, <1>14 DEF Returns, Finishes, Frames
    <3> QED
      BY <1>8, <3>1
  <2>2. i # Self
    <3>1. Self = stack[Len(stack)].inst /\ Len(stack) \in 1 .. Len(stack) /\ Self \in 1 .. Len(insts)
      BY <2>1, SelfWorks
    <3>2. stack[k].inst < Self
      <4>1. Works(insts, stack, Len(stack))
        BY <3>1, WorkingIs DEF DedupInv
      <4> QED
        BY <2>1, <3>1, <4>1 DEF Works
    <3>3. stack[k].inst \in 1 .. Len(insts)
      BY <2>1 DEF SealInv, Linked
    <3> QED
      BY <1>10, <2>1, <3>1, <3>2, <3>3
  <2>3. Unique(i) /\ KeyOf(i)' = KeyOf(i)
    BY <1>6, <2>2
  <2>4. KeyOf(i) # Post
    BY <1>6, <1>14, <2>3 DEF Stores, TwinInv, Filed
  <2> QED
    BY <1>7, <1>12, <1>14, <2>3, <2>4 DEF Stores
<1>15. CASE RollsBack /\ Replaces(insts', stack')
  <2>1. stack # <<>> /\ k \in 1 .. Len(stack)
    <3>1. stack # <<>> /\ Len(s) = Len(stack) - 1
      BY <1>2, <1>15 DEF Replaces, Finishes, Frames
    <3> QED
      BY <1>8, <3>1
  <2>2. i # Self
    <3>1. i \in Live'
      BY DEF Unique
    <3>2. Self \in 1 .. Len(insts)
      BY <2>1, SelfWorks
    <3> QED
      BY <1>1, <1>6, <1>15, <3>1, <3>2, Discards
  <2>3. Unique(i) /\ KeyOf(i)' = KeyOf(i)
    BY <1>6, <2>2
  <2>4. Unnoted(KeyOf(i))
    <3>1. IsSeq(modJ) /\ modJ # <<>> /\ modJ' = Front(modJ)
      BY <1>15, <2>1, ScopeJournals DEF RollsBack
    <3>2. /\ Len(modJ) \in Nat \ {0} /\ Len(modJ') = Len(modJ) - 1
          /\ \A r \in 1 .. Len(modJ) - 1 : modJ'[r] = modJ[r]
      BY <3>1, FrontIs
    <3> QED
      BY <3>2 DEF Unnoted
  <2> QED
    BY <1>12, <2>3, <2>4
<1> QED
  BY <1>13, <1>14, <1>15, NextKeys

LEMMA TwinNext ==
    ASSUME ClassAssumption, ScopeInv, SealInv, DedupInv, TwinInv, [Next]_vars
    PROVE  TwinInv'
<1>1. Moves(insts', stack') /\ cfg' = cfg
  BY NextMoves
<1>2. PICK is, s : is = insts' /\ s = stack'
  OBVIOUS
<1>3. Kinds(is, s) /\ MadeSince(is, s)
  BY <1>1, <1>2, MovesTwins DEF TwinInv
<1>4. ~cfg.nocache => Filed' /\ Unmarked'
  BY FiledNext, UnmarkedNext
<1>5. Kinds(insts, stack)' /\ MadeSince(insts, stack)'
  BY <1>2, <1>3 DEF Kinds, MadeSince
<1> QED
  BY <1>1, <1>4, <1>5 DEF TwinInv

LEMMA TwinInit ==
    ASSUME Init
    PROVE  TwinInv
<1> DEFINE r == NewInst(TopClass, 0, TopClass, <<TopClass>>, None, None, <<TopClass>>, "top")
           f == [inst |-> 1, pc |-> 0, kind |-> "top", sig |-> {}, popen |-> FALSE, prev |-> 0]
<1>1. insts = <<r>> /\ stack = <<f>>
  BY Zenon DEF Init
<1>2. r.by = "top" /\ f.inst = 1 /\ f.kind = "top"
  BY DEF NewInst
<1> HIDE DEF r, f
<1>3. Len(insts) = 1 /\ insts[1] = r /\ Len(stack) = 1 /\ stack[1] = f
  BY <1>1
<1>4. \A i \in 1 .. Len(insts) : ~Unique(i)
  BY <1>2, <1>3 DEF Unique
<1>5. Kinds(insts, stack) /\ MadeSince(insts, stack)
  BY <1>2, <1>3 DEF Kinds, MadeSince
<1> QED
  BY <1>4, <1>5 DEF TwinInv, Filed, Unmarked

LEMMA NoTwinsIs ==
    ASSUME DedupInv, TwinInv
    PROVE  NoTwins
<1> SUFFICES ASSUME ~cfg.nocache, NEW i \in Elaborated, NEW j \in Elaborated,
                    {insts[i].by, insts[j].by} = {"unique"},
                    insts[i].cloneOf = 0, insts[j].cloneOf = 0,
                    insts[i].cls = insts[j].cls, insts[i].val = insts[j].val,
                    SubtreeSig(insts[i].path) = SubtreeSig(insts[j].path)
             PROVE  i = j
  BY DEF NoTwins
<1>1. ASSUME NEW n \in Elaborated, insts[n].by = "unique", insts[n].cloneOf = 0
      PROVE  modules[KeyOf(n)] = n
  <2>1. n \in Live /\ n \in 1 .. Len(insts) /\ insts[n].done
    BY Zenon DEF Elaborated, Live
  <2>2. insts[n].done \in BOOLEAN
    BY <2>1 DEF DedupInv, Tree
  <2>3. insts[n].done = TRUE
    BY <2>1, <2>2
  <2> QED
    BY <1>1, <2>1, <2>3 DEF TwinInv, Filed, Unique
<1>2. KeyOf(i) = KeyOf(j)
  BY DEF KeyOf
<1>3. insts[i].by = "unique" /\ insts[j].by = "unique"
  OBVIOUS
<1>4. modules[KeyOf(i)] = i
  BY <1>1, <1>3
<1>5. modules[KeyOf(j)] = j
  BY <1>1, <1>3
<1> QED
  BY <1>2, <1>4, <1>5

\* NoTwins for every program: with the dedup cache on, unique_inst never leaves
\* two elaborated modules of one base class with the same parameter values and
\* the same overrides under them (unique_module.py:744-767): the second is made
\* a clone of the first, whatever was created, renamed or rolled back between
\* them.
THEOREM NoTwinsAlways == Spec => []NoTwins
<1> DEFINE IInv == ScopeInv /\ SealInv /\ DedupInv /\ TwinInv
<1>1. Init => IInv
  BY ScopeInit, SealInit, DedupInit, TwinInit
<1>2. IInv /\ [Next]_vars => IInv'
  BY ClassAssumption, ScopeNext, SealNext, DedupNext, TwinNext DEF SealStep
<1>3. IInv => NoTwins
  BY NoTwinsIs
<1> QED
  BY <1>1, <1>2, <1>3, PTL DEF Spec
=============================================================================

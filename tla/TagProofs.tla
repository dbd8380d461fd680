------------------------------ MODULE TagProofs ------------------------------
(***************************************************************************)
(* For any number of instances, any tree of them without clones of clones  *)
(* and any --synth-top: the walk of _collect_prod_list puts each module on *)
(* the sides it occurs on, and the order made of its list is bottom-up.    *)
(*                                                                         *)
(* Trees.  Whatever Grown makes is a tree (IsTree), and in a tree a module *)
(* finishes after those it has instances of (Before): a body ends after    *)
(* those it runs, and what it aliases is done, or the alias would be below *)
(* its own module.  So no module is below itself, and the hierarchy is no  *)
(* deeper than the number of instances, which makes it the least set       *)
(* closed under going down (OccurrenceInduction).                          *)
(*                                                                         *)
(* BottomUp.  Walk says what the stack, the list and the two sets of files *)
(* seen have to do with one another; a file that was seen on either side   *)
(* and is met again is on the list already, since what is under way is     *)
(* above it (SeenTold).  Compiled says of the order what BottomUp does, of *)
(* what has been handled so far.                                           *)
(*                                                                         *)
(* TagsExact.  Sided says that what is behind the walk was seen on the     *)
(* side it is on, that an entry of the list stands for an occurrence on    *)
(* its side below which this is so, and that --synth-top was got to or has *)
(* still to be (OnWay): that is why the way to it must not be pruned.      *)
(* TagOf says the tags are the sides of what was handled.                  *)
(***************************************************************************)
EXTENDS ProductTags, SequenceTheorems, FiniteSetTheorems, WellFoundedInduction, TLAPS

\* Induction over the natural numbers, for a set of them.
LEMMA AllNat ==
    ASSUME NEW S, 0 \in S, \A k \in Nat : k \in S => k + 1 \in S
    PROVE  \A k \in Nat : k \in S
<1> SUFFICES ASSUME Nat \ S # {} PROVE FALSE
  OBVIOUS
<1> DEFINE R == OpToRel(<, Nat)
<1>1. OpToRel(<, Nat) = {ss \in Nat \X Nat : ss[1] < ss[2]}
  BY DEF OpToRel
<1>2. IsWellFoundedOn(R, Nat)
  BY NatLessThanWellFounded
<1>3. PICK T : T = Nat \ S
  OBVIOUS
<1>4. PICK m \in T : \A k \in T : ~ (<<k, m>> \in R)
  <2> HIDE DEF R
  <2>1. T \subseteq Nat /\ T # {}
    BY <1>3
  <2> QED
    BY <1>2, <2>1, WFMin
<1>5. m \in Nat /\ m # 0
  BY <1>3, <1>4
<1>6. m - 1 \in Nat /\ m - 1 < m /\ (m - 1) + 1 = m
  BY <1>5
<1>7. m - 1 \in T
  BY <1>3, <1>4, <1>5, <1>6
<1>8. <<m - 1, m>> \notin {ss \in Nat \X Nat : ss[1] < ss[2]}
  BY <1>1, <1>4, <1>7
<1> QED
  BY <1>5, <1>6, <1>8

\* A set of numbers that is not empty has a smallest.
LEMMA Smallest ==
    ASSUME NEW S, S \subseteq Nat, S # {}
    PROVE  Min(S) \in S /\ \A k \in S : Min(S) <= k
<1> DEFINE R == OpToRel(<, Nat)
<1>1. OpToRel(<, Nat) = {ss \in Nat \X Nat : ss[1] < ss[2]}
  BY DEF OpToRel
<1>2. IsWellFoundedOn(R, Nat)
  BY NatLessThanWellFounded
<1>3. PICK m \in S : \A k \in S : ~ (<<k, m>> \in R)
  <2> HIDE DEF R
  <2> QED  BY <1>2, WFMin
<1>4. \A k \in S : m <= k
  <2>1. SUFFICES ASSUME NEW k \in S PROVE m <= k
    OBVIOUS
  <2>2. <<k, m>> \notin {ss \in Nat \X Nat : ss[1] < ss[2]}
    BY <1>1, <1>3
  <2> QED  BY <2>2
<1> QED
  BY <1>4, Zenon DEF Min

-----------------------------------------------------------------------------
(* Trees: ancestors and origins, unfolded once. *)

Instance == [parent : Nat, cloneOf : Nat]
Numbered(t) ==
    /\ t \in Seq(Instance)
    /\ \A n \in 1 .. Len(t) : t[n].parent < n /\ t[n].cloneOf < n

LEMMA NumberedIs ==
    ASSUME NEW t, Numbered(t)
    PROVE  /\ Len(t) \in Nat /\ DOMAIN t = 1 .. Len(t)
           /\ \A n \in 1 .. Len(t) :
                 /\ t[n] \in Instance /\ t[n].parent \in Nat /\ t[n].cloneOf \in Nat
                 /\ t[n].parent < n /\ t[n].cloneOf < n
<1>1. t \in Seq(Instance)
  BY DEF Numbered
<1>2. Len(t) \in Nat /\ DOMAIN t = 1 .. Len(t) /\ \A n \in 1 .. Len(t) : t[n] \in Instance
  BY <1>1
<1>3. \A x \in Instance : x.parent \in Nat /\ x.cloneOf \in Nat
  BY DEF Instance
<1>4. \A n \in 1 .. Len(t) : t[n].parent < n /\ t[n].cloneOf < n
  BY DEF Numbered
<1> QED
  BY <1>2, <1>3, <1>4

IsUps(t, f, d) ==
    f = [n \in 0 .. d |-> IF n = 0 THEN {} ELSE {n} \cup f[t[n].parent]]
IsOrigins(t, f, d) ==
    f = [n \in 1 .. d |-> IF t[n].cloneOf = 0 THEN n ELSE f[t[n].cloneOf]]

LEMMA UpsExist ==
    ASSUME NEW t, Numbered(t)
    PROVE  \A d \in Nat : d <= Len(t) => \E f : IsUps(t, f, d)
<1> DEFINE S == {d \in Nat : d <= Len(t) => \E f : IsUps(t, f, d)}
<1>1. 0 \in S
  <2>1. PICK f : f = [n \in 0 .. 0 |-> {}]
    OBVIOUS
  <2>2. IsUps(t, f, 0)
    BY <2>1 DEF IsUps
  <2> QED
    BY <2>2
<1>2. ASSUME NEW d \in Nat, d + 1 <= Len(t), NEW f, IsUps(t, f, d)
      PROVE  \E g : IsUps(t, g, d + 1)
  <2>1. PICK g : g = [n \in 0 .. d + 1 |-> IF n = 0 THEN {} ELSE {n} \cup f[t[n].parent]]
    OBVIOUS
  <2>2. ASSUME NEW n \in 0 .. d
        PROVE  g[n] = f[n]
    <3>1. f[n] = IF n = 0 THEN {} ELSE {n} \cup f[t[n].parent]
      BY <1>2 DEF IsUps
    <3>2. n \in 0 .. d + 1
      OBVIOUS
    <3> QED
      BY <2>1, <3>1, <3>2
  <2>3. ASSUME NEW n \in 0 .. d + 1, n # 0
        PROVE  t[n].parent \in 0 .. d
    <3>1. n \in 1 .. Len(t)
      BY <1>2, <2>3, NumberedIs
    <3>2. t[n].parent \in Nat /\ t[n].parent < n
      BY <3>1, NumberedIs
    <3> QED
      BY <3>2
  <2>4. IsUps(t, g, d + 1)
    BY <2>1, <2>2, <2>3 DEF IsUps
  <2> QED
    BY <2>4
<1>3. \A k \in Nat : k \in S => k + 1 \in S
  BY <1>2, NumberedIs
<1> HIDE DEF S
<1>4. \A k \in Nat : k \in S
  BY <1>1, <1>3, AllNat
<1> QED
  BY <1>4 DEF S

LEMMA OriginsExist ==
    ASSUME NEW t, Numbered(t)
    PROVE  \A d \in Nat : d <= Len(t) => \E f : IsOrigins(t, f, d)
<1> DEFINE S == {d \in Nat : d <= Len(t) => \E f : IsOrigins(t, f, d)}
<1>1. 0 \in S
  <2>1. PICK f : f = [n \in 1 .. 0 |-> 0]
    OBVIOUS
  <2>2. IsOrigins(t, f, 0)
    BY <2>1 DEF IsOrigins
  <2> QED
    BY <2>2
<1>2. ASSUME NEW d \in Nat, d + 1 <= Len(t), NEW f, IsOrigins(t, f, d)
      PROVE  \E g : IsOrigins(t, g, d + 1)
  <2>1. PICK g : g = [n \in 1 .. d + 1 |-> IF t[n].cloneOf = 0 THEN n ELSE f[t[n].cloneOf]]
    OBVIOUS
  <2>2. ASSUME NEW n \in 1 .. d
        PROVE  g[n] = f[n]
    <3>1. f[n] = IF t[n].cloneOf = 0 THEN n ELSE f[t[n].cloneOf]
      BY <1>2 DEF IsOrigins
    <3>2. n \in 1 .. d + 1
      OBVIOUS
    <3> QED
      BY <2>1, <3>1, <3>2
  <2>3. ASSUME NEW n \in 1 .. d + 1, t[n].cloneOf # 0
        PROVE  t[n].cloneOf \in 1 .. d
    <3>1. n \in 1 .. Len(t)
      BY <1>2, <2>3, NumberedIs
    <3>2. t[n].cloneOf \in Nat /\ t[n].cloneOf < n
      BY <3>1, NumberedIs
    <3> QED
      BY <2>3, <3>2
  <2>4. IsOrigins(t, g, d + 1)
    BY <2>1, <2>2, <2>3 DEF IsOrigins
  <2> QED
    BY <2>4
<1>3. \A k \in Nat : k \in S => k + 1 \in S
  BY <1>2, NumberedIs
<1> HIDE DEF S
<1>4. \A k \in Nat : k \in S
  BY <1>1, <1>3, AllNat
<1> QED
  BY <1>4 DEF S

LEMMA UpIs ==
    ASSUME NEW t, Numbered(t)
    PROVE  \A n \in 1 .. Len(t) :
              Up(t, n) = {n} \cup IF t[n].parent = 0 THEN {} ELSE Up(t, t[n].parent)
<1> DEFINE up[n \in 0 .. Len(t)] == IF n = 0 THEN {} ELSE {n} \cup up[t[n].parent]
<1>1. \A n : Up(t, n) = up[n]
  BY Zenon DEF Up
<1>2. up = CHOOSE f : IsUps(t, f, Len(t))
  BY Zenon DEF IsUps
<1> HIDE DEF up
<1>3. IsUps(t, up, Len(t))
  <2>1. Len(t) \in Nat /\ Len(t) <= Len(t)
    BY NumberedIs
  <2> QED
    BY <1>2, <2>1, UpsExist
<1>4. ASSUME NEW n \in 0 .. Len(t)
      PROVE  up[n] = IF n = 0 THEN {} ELSE {n} \cup up[t[n].parent]
  BY <1>3 DEF IsUps
<1>5. up[0] = {}
  <2>1. 0 \in 0 .. Len(t)
    BY NumberedIs
  <2> QED
    BY <1>4, <2>1
<1>6. \A n \in 1 .. Len(t) : n \in 0 .. Len(t) /\ n # 0
  BY NumberedIs
<1>7. \A n \in 1 .. Len(t) : up[n] = {n} \cup up[t[n].parent]
  BY <1>4, <1>6
<1> QED
  BY <1>1, <1>5, <1>7, Zenon

LEMMA OriginIs ==
    ASSUME NEW t, Numbered(t)
    PROVE  \A n \in 1 .. Len(t) :
              OriginIn(t, n) = IF t[n].cloneOf = 0 THEN n ELSE OriginIn(t, t[n].cloneOf)
<1> DEFINE source[n \in 1 .. Len(t)] == IF t[n].cloneOf = 0 THEN n ELSE source[t[n].cloneOf]
<1>1. \A n : OriginIn(t, n) = source[n]
  BY Zenon DEF OriginIn
<1>2. source = CHOOSE f : IsOrigins(t, f, Len(t))
  BY Zenon DEF IsOrigins
<1> HIDE DEF source
<1>3. IsOrigins(t, source, Len(t))
  <2>1. Len(t) \in Nat /\ Len(t) <= Len(t)
    BY NumberedIs
  <2> QED
    BY <1>2, <2>1, OriginsExist
<1> QED
  BY <1>1, <1>3 DEF IsOrigins

\* Ancestors have lower numbers, and theirs are ancestors too.
LEMMA UpWithin ==
    ASSUME NEW t, Numbered(t)
    PROVE  \A n \in 1 .. Len(t) :
              /\ n \in Up(t, n)
              /\ \A a \in Up(t, n) : a \in 1 .. n /\ Up(t, a) \subseteq Up(t, n)
<1> DEFINE P(n) == /\ n \in Up(t, n)
                   /\ \A a \in Up(t, n) : a \in 1 .. n /\ Up(t, a) \subseteq Up(t, n)
           S == {d \in Nat : \A n \in 1 .. Len(t) : n <= d => P(n)}
<1>1. 0 \in S
  OBVIOUS
<1>2. ASSUME NEW d \in Nat, d \in S, NEW n \in 1 .. Len(t), n <= d + 1
      PROVE  P(n)
  <2>1. Up(t, n) = {n} \cup IF t[n].parent = 0 THEN {} ELSE Up(t, t[n].parent)
    BY UpIs
  <2>2. CASE t[n].parent = 0
    BY <2>1, <2>2
  <2>3. CASE t[n].parent # 0
    <3>1. PICK p : p = t[n].parent
      OBVIOUS
    <3>2. p \in 1 .. Len(t) /\ p <= d /\ p < n
      BY <1>2, <2>3, <3>1, NumberedIs
    <3>3. P(p)
      BY <1>2, <3>2
    <3>4. Up(t, n) = {n} \cup Up(t, p)
      BY <2>1, <2>3, <3>1
    <3>5. \A a \in Up(t, p) : a \in 1 .. n /\ Up(t, a) \subseteq Up(t, n)
      BY <3>2, <3>3, <3>4
    <3> QED
      BY <3>4, <3>5
  <2> QED
    BY <2>2, <2>3
<1>3. \A k \in Nat : k \in S => k + 1 \in S
  BY <1>2
<1> HIDE DEF S
<1>4. Len(t) \in S
  BY <1>1, <1>3, AllNat, NumberedIs
<1> QED
  BY <1>4, NumberedIs DEF S

LEMMA OriginFound ==
    ASSUME NEW t, Numbered(t)
    PROVE  \A n \in 1 .. Len(t) :
              /\ OriginIn(t, n) \in 1 .. n
              /\ t[OriginIn(t, n)].cloneOf = 0
<1> DEFINE P(n) == OriginIn(t, n) \in 1 .. n /\ t[OriginIn(t, n)].cloneOf = 0
           S == {d \in Nat : \A n \in 1 .. Len(t) : n <= d => P(n)}
<1>1. 0 \in S
  OBVIOUS
<1>2. ASSUME NEW d \in Nat, d \in S, NEW n \in 1 .. Len(t), n <= d + 1
      PROVE  P(n)
  <2>1. OriginIn(t, n) = IF t[n].cloneOf = 0 THEN n ELSE OriginIn(t, t[n].cloneOf)
    BY OriginIs
  <2>2. CASE t[n].cloneOf = 0
    BY <2>1, <2>2
  <2>3. CASE t[n].cloneOf # 0
    <3>1. PICK c : c = t[n].cloneOf
      OBVIOUS
    <3>2. c \in 1 .. Len(t) /\ c <= d /\ c < n
      BY <1>2, <2>3, <3>1, NumberedIs
    <3>3. P(c)
      BY <1>2, <3>2
    <3> QED
      BY <2>1, <2>3, <3>1, <3>2, <3>3
  <2> QED
    BY <2>2, <2>3
<1>3. \A k \in Nat : k \in S => k + 1 \in S
  BY <1>2
<1> HIDE DEF S
<1>4. Len(t) \in S
  BY <1>1, <1>3, AllNat, NumberedIs
<1> QED
  BY <1>4, NumberedIs DEF S

-----------------------------------------------------------------------------
(* What elaboration leaves behind. *)

IsTree(t) ==
    /\ Numbered(t) /\ Len(t) # 0
    /\ \A n \in 2 .. Len(t) :
          /\ t[n].parent # 0 /\ t[n].parent \in Up(t, n - 1)
          /\ t[t[n].parent].cloneOf = 0
          /\ t[n].cloneOf # 0 =>
                /\ OriginIn(t, t[n].cloneOf) \notin Up(t, t[n].parent)
                /\ CloneOfClone \/ t[t[n].cloneOf].cloneOf = 0

\* A further instance changes nothing about those there are.
Further(t, e, s) == e.parent <= Len(t) /\ e.cloneOf <= Len(t) /\ s = Append(t, e)

LEMMA FurtherKeeps ==
    ASSUME NEW t, Numbered(t), NEW e \in Instance, NEW s, Further(t, e, s)
    PROVE  /\ Numbered(s) /\ Len(s) = Len(t) + 1 /\ s[Len(t) + 1] = e
           /\ \A n \in 1 .. Len(t) :
                 s[n] = t[n] /\ Up(s, n) = Up(t, n) /\ OriginIn(s, n) = OriginIn(t, n)
<1>0. /\ Len(t) \in Nat /\ t \in Seq(Instance)
      /\ e.parent <= Len(t) /\ e.cloneOf <= Len(t) /\ s = Append(t, e)
  BY NumberedIs DEF Numbered, Further
<1>1. /\ s \in Seq(Instance) /\ Len(s) = Len(t) + 1 /\ s[Len(t) + 1] = e
      /\ \A n \in 1 .. Len(t) : s[n] = t[n]
  BY <1>0
<1>2. Numbered(s)
  <2>1. ASSUME NEW n \in 1 .. Len(s)
        PROVE  s[n].parent < n /\ s[n].cloneOf < n
    <3>1. CASE n \in 1 .. Len(t)
      BY <1>1, <3>1 DEF Numbered
    <3>2. CASE n = Len(t) + 1
      <4>1. e.parent \in Nat /\ e.cloneOf \in Nat
        BY DEF Instance
      <4> QED
        BY <1>0, <1>1, <3>2, <4>1
    <3> QED
      BY <1>0, <1>1, <3>1, <3>2
  <2> QED
    BY <1>1, <2>1 DEF Numbered
<1> DEFINE P(n) == Up(s, n) = Up(t, n) /\ OriginIn(s, n) = OriginIn(t, n)
           S == {d \in Nat : \A n \in 1 .. Len(t) : n <= d => P(n)}
<1>3. 0 \in S
  OBVIOUS
<1>4. ASSUME NEW d \in Nat, d \in S, NEW n \in 1 .. Len(t), n <= d + 1
      PROVE  P(n)
  <2>1. n \in 1 .. Len(s) /\ s[n] = t[n]
    BY <1>0, <1>1
  <2>2. /\ Up(t, n) = {n} \cup IF t[n].parent = 0 THEN {} ELSE Up(t, t[n].parent)
        /\ Up(s, n) = {n} \cup IF t[n].parent = 0 THEN {} ELSE Up(s, t[n].parent)
    <3>1. Up(s, n) = {n} \cup IF s[n].parent = 0 THEN {} ELSE Up(s, s[n].parent)
      BY <1>2, <2>1, UpIs
    <3> QED
      BY <2>1, <3>1, UpIs
  <2>3. /\ OriginIn(t, n) = IF t[n].cloneOf = 0 THEN n ELSE OriginIn(t, t[n].cloneOf)
        /\ OriginIn(s, n) = IF t[n].cloneOf = 0 THEN n ELSE OriginIn(s, t[n].cloneOf)
    <3>1. OriginIn(s, n) = IF s[n].cloneOf = 0 THEN n ELSE OriginIn(s, s[n].cloneOf)
      BY <1>2, <2>1, OriginIs
    <3> QED
      BY <2>1, <3>1, OriginIs
  <2>4. t[n].parent # 0 => t[n].parent \in 1 .. Len(t) /\ t[n].parent <= d
    BY <1>4, NumberedIs
  <2>5. t[n].cloneOf # 0 => t[n].cloneOf \in 1 .. Len(t) /\ t[n].cloneOf <= d
    BY <1>4, NumberedIs
  <2>6. Up(s, n) = Up(t, n)
    BY <1>4, <2>2, <2>4
  <2>7. OriginIn(s, n) = OriginIn(t, n)
    BY <1>4, <2>3, <2>5
  <2> QED
    BY <2>6, <2>7
<1>5. \A k \in Nat : k \in S => k + 1 \in S
  <2> HIDE DEF P
  <2> QED
    BY <1>4
<1> HIDE DEF S
<1>6. Len(t) \in S
  BY <1>0, <1>3, <1>5, AllNat
<1>7. \A n \in 1 .. Len(t) : P(n)
  <2> HIDE DEF P
  <2> QED
    BY <1>0, <1>6 DEF S
<1> QED
  BY <1>1, <1>2, <1>7

LEMMA GrownTree ==
    ASSUME NEW t, IsTree(t), NEW s \in Grown(t)
    PROVE  IsTree(s) /\ Len(s) = Len(t) + 1
<1>0. Numbered(t) /\ Len(t) \in Nat /\ Len(t) # 0 /\ Len(t) \in 1 .. Len(t)
  BY NumberedIs DEF IsTree
<1>8. PICK q \in Up(t, Len(t)) :
         t[q].cloneOf = 0 /\ \E r \in Sources(t, q) : s = Append(t, [parent |-> q, cloneOf |-> r])
  BY Zenon DEF Grown
<1>1. PICK r \in Sources(t, q) : s = Append(t, [parent |-> q, cloneOf |-> r])
  BY <1>8
<1>2. PICK e : e = [parent |-> q, cloneOf |-> r]
  OBVIOUS
<1>3. q \in 1 .. Len(t) /\ r \in 0 .. Len(t)
  BY <1>0, <1>8, UpWithin DEF Sources
<1>4. e \in Instance /\ e.parent = q /\ e.cloneOf = r /\ q <= Len(t) /\ r <= Len(t)
  BY <1>0, <1>2, <1>3 DEF Instance
<1>5. /\ Numbered(s) /\ Len(s) = Len(t) + 1 /\ s[Len(t) + 1] = e
      /\ \A n \in 1 .. Len(t) :
            s[n] = t[n] /\ Up(s, n) = Up(t, n) /\ OriginIn(s, n) = OriginIn(t, n)
  <2>1. s = Append(t, e)
    BY <1>1, <1>2
  <2>2. e.parent <= Len(t) /\ e.cloneOf <= Len(t)
    BY <1>4
  <2>3. Further(t, e, s)
    BY <2>1, <2>2 DEF Further
  <2> QED
    BY <1>0, <1>4, <2>3, FurtherKeeps, Zenon
<1>6. r # 0 => OriginIn(t, r) \notin Up(t, q) /\ (CloneOfClone \/ t[r].cloneOf = 0)
  BY <1>1 DEF Sources
<1>7. ASSUME NEW n \in 2 .. Len(s)
      PROVE  /\ s[n].parent # 0 /\ s[n].parent \in Up(s, n - 1)
             /\ s[s[n].parent].cloneOf = 0
             /\ s[n].cloneOf # 0 =>
                   /\ OriginIn(s, s[n].cloneOf) \notin Up(s, s[n].parent)
                   /\ CloneOfClone \/ s[s[n].cloneOf].cloneOf = 0
  <2>1. CASE n \in 2 .. Len(t)
    <3>1. n \in 1 .. Len(t) /\ n - 1 \in 1 .. Len(t) /\ s[n] = t[n]
      BY <1>0, <1>5, <2>1
    <3>2. /\ t[n].parent \in Nat /\ t[n].cloneOf \in Nat
          /\ t[n].parent < n /\ t[n].cloneOf < n
      BY <1>0, <3>1, NumberedIs
    <3>3. t[n].parent # 0
      BY <2>1 DEF IsTree
    <3>4. t[n].parent \in 1 .. Len(t) /\ t[n].cloneOf \in 0 .. Len(t)
      BY <1>0, <3>1, <3>2, <3>3
    <3>5. /\ t[n].parent \in Up(t, n - 1) /\ t[t[n].parent].cloneOf = 0
          /\ t[n].cloneOf # 0 =>
                /\ OriginIn(t, t[n].cloneOf) \notin Up(t, t[n].parent)
                /\ CloneOfClone \/ t[t[n].cloneOf].cloneOf = 0
      BY <2>1 DEF IsTree
    <3>6. t[n].cloneOf # 0 => t[n].cloneOf \in 1 .. Len(t)
      BY <3>4
    <3> QED
      BY <1>5, <3>1, <3>3, <3>4, <3>5, <3>6
  <2>2. CASE n = Len(t) + 1
    <3>1. s[n] = e /\ n - 1 = Len(t)
      BY <1>0, <1>5, <2>2
    <3>2. r # 0 => r \in 1 .. Len(t)
      BY <1>3
    <3>3. s[n].parent = q /\ s[n].cloneOf = r /\ q # 0
      BY <1>3, <1>4, <3>1
    <3>4. q \in Up(s, n - 1) /\ s[q].cloneOf = 0
      BY <1>0, <1>8, <1>3, <1>5, <3>1
    <3>5. r # 0 => OriginIn(s, r) \notin Up(s, q) /\ (CloneOfClone \/ s[r].cloneOf = 0)
      BY <1>3, <1>5, <1>6, <3>2
    <3> QED
      BY <3>3, <3>4, <3>5
  <2> QED
    BY <1>0, <1>5, <2>1, <2>2
<1> QED
  BY <1>0, <1>5, <1>7 DEF IsTree

Root == <<[parent |-> 0, cloneOf |-> 0]>>
IsForests(f, d) == f = [n \in 1 .. d |-> IF n = 1 THEN {Root} ELSE UNION {Grown(t) : t \in f[n - 1]}]

LEMMA ForestsExist ==
    \A d \in Nat : \E f : IsForests(f, d)
<1> DEFINE S == {d \in Nat : \E f : IsForests(f, d)}
<1>1. 0 \in S
  <2>1. PICK f : f = [n \in 1 .. 0 |-> {}]
    OBVIOUS
  <2>2. IsForests(f, 0)
    BY <2>1 DEF IsForests
  <2> QED
    BY <2>2
<1>2. ASSUME NEW d \in Nat, NEW f, IsForests(f, d)
      PROVE  \E g : IsForests(g, d + 1)
  <2>1. PICK g : g = [n \in 1 .. d + 1 |-> IF n = 1 THEN {Root} ELSE UNION {Grown(t) : t \in f[n - 1]}]
    OBVIOUS
  <2>2. ASSUME NEW n \in 1 .. d
        PROVE  g[n] = f[n]
    <3>1. f[n] = IF n = 1 THEN {Root} ELSE UNION {Grown(t) : t \in f[n - 1]}
      BY <1>2 DEF IsForests
    <3>2. n \in 1 .. d + 1
      OBVIOUS
    <3> QED
      BY <2>1, <3>1, <3>2
  <2>3. \A n \in 1 .. d + 1 : n # 1 => n - 1 \in 1 .. d
    OBVIOUS
  <2>4. IsForests(g, d + 1)
    BY <2>1, <2>2, <2>3 DEF IsForests
  <2> QED
    BY <2>4
<1>3. \A k \in Nat : k \in S => k + 1 \in S
  BY <1>2
<1> HIDE DEF S
<1>4. \A k \in Nat : k \in S
  BY <1>1, <1>3, AllNat
<1> QED
  BY <1>4 DEF S

LEMMA RootTree == IsTree(Root)
<1>1. PICK e : e = [parent |-> 0, cloneOf |-> 0]
  OBVIOUS
<1>2. e \in Instance /\ e.parent = 0 /\ e.cloneOf = 0
  BY <1>1 DEF Instance
<1>3. Root = <<e>>
  BY <1>1 DEF Root
<1>4. Root \in Seq(Instance) /\ Len(Root) = 1 /\ Root[1] = e
  BY <1>2, <1>3
<1>5. Numbered(Root)
  BY <1>2, <1>4 DEF Numbered
<1>6. 2 .. Len(Root) = {}
  BY <1>4
<1> QED
  BY <1>4, <1>5, <1>6 DEF IsTree

\* The tree of any behaviour is one elaboration can leave behind.
LEMMA TreesAre ==
    \A t \in Trees : IsTree(t)
<1> DEFINE grown[n \in 1 .. MaxObjs] == IF n = 1 THEN {Root} ELSE UNION {Grown(t) : t \in grown[n - 1]}
<1>0. MaxObjs \in Nat /\ MaxObjs # 0
  BY BoundAssumption
<1>1. Trees = grown[MaxObjs]
  BY Zenon DEF Trees, Root
<1>2. grown = CHOOSE f : IsForests(f, MaxObjs)
  BY Zenon DEF IsForests
<1> HIDE DEF grown
<1>3. IsForests(grown, MaxObjs)
  BY <1>0, <1>2, ForestsExist
<1>4. ASSUME NEW n \in 1 .. MaxObjs
      PROVE  grown[n] = IF n = 1 THEN {Root} ELSE UNION {Grown(t) : t \in grown[n - 1]}
  BY <1>3 DEF IsForests
<1> DEFINE S == {n \in Nat : n \in 1 .. MaxObjs => \A t \in grown[n] : IsTree(t)}
<1>5. 0 \in S
  OBVIOUS
<1>6. ASSUME NEW n \in Nat, n \in S, n + 1 \in 1 .. MaxObjs, NEW t \in grown[n + 1]
      PROVE  IsTree(t)
  <2>1. CASE n = 0
    <3>1. 1 \in 1 .. MaxObjs /\ n + 1 = 1
      BY <1>0, <2>1
    <3>2. grown[1] = {Root}
      BY <1>4, <3>1
    <3> QED
      BY <1>6, <3>1, <3>2, RootTree
  <2>2. CASE n # 0
    <3>1. n \in 1 .. MaxObjs /\ n + 1 # 1 /\ (n + 1) - 1 = n
      BY <1>0, <1>6, <2>2
    <3>2. grown[n + 1] = UNION {Grown(u) : u \in grown[n]}
      BY <1>4, <1>6, <3>1
    <3>3. PICK u \in grown[n] : t \in Grown(u)
      BY <1>6, <3>2
    <3>4. IsTree(u)
      BY <1>6, <3>1, <3>3
    <3> QED
      BY <3>3, <3>4, GrownTree
  <2> QED
    BY <2>1, <2>2
<1>7. \A k \in Nat : k \in S => k + 1 \in S
  BY <1>6
<1> HIDE DEF S
<1>8. MaxObjs \in S
  BY <1>0, <1>5, <1>7, AllNat
<1> QED
  BY <1>0, <1>1, <1>8 DEF S

-----------------------------------------------------------------------------
(* The order in which bodies finish. *)

\* An instance is an ancestor of all that stand between it and a descendant.
LEMMA Contiguous ==
    ASSUME NEW t, IsTree(t)
    PROVE  \A m \in 1 .. Len(t) : \A a \in Up(t, m) : \A b \in a .. m : a \in Up(t, b)
<1> DEFINE P(m) == \A a \in Up(t, m) : \A b \in a .. m : a \in Up(t, b)
           S == {d \in Nat : \A m \in 1 .. Len(t) : m <= d => P(m)}
<1>0. Numbered(t) /\ Len(t) \in Nat
  BY NumberedIs DEF IsTree
<1>1. 0 \in S
  OBVIOUS
<1>2. ASSUME NEW d \in Nat, d \in S, NEW m \in 1 .. Len(t), m <= d + 1,
             NEW a \in Up(t, m), NEW b \in a .. m
      PROVE  a \in Up(t, b)
  <2>1. a \in 1 .. m
    BY <1>0, UpWithin
  <2>2. CASE b = m
    BY <2>2
  <2>3. CASE b # m
    <3>1. a # m /\ m \in 2 .. Len(t) /\ m - 1 \in 1 .. Len(t) /\ m - 1 <= d /\ b \in a .. m - 1
      BY <1>0, <1>2, <2>1, <2>3
    <3>2. t[m].parent # 0 /\ t[m].parent \in Up(t, m - 1)
      BY <3>1 DEF IsTree
    <3>3. Up(t, m) = {m} \cup Up(t, t[m].parent)
      BY <1>0, <3>2, UpIs
    <3>4. Up(t, t[m].parent) \subseteq Up(t, m - 1)
      BY <1>0, <3>1, <3>2, UpWithin
    <3>5. a \in Up(t, m - 1)
      BY <3>1, <3>3, <3>4
    <3>6. P(m - 1)
      BY <1>2, <3>1
    <3> QED
      BY <3>1, <3>5, <3>6
  <2> QED
    BY <2>2, <2>3
<1>3. \A k \in Nat : k \in S => k + 1 \in S
  BY <1>2
<1> HIDE DEF S
<1>4. Len(t) \in S
  BY <1>0, <1>1, <1>3, AllNat
<1> QED
  BY <1>0, <1>4 DEF S

\* The body of a finishes before that of b.
Before(t, a, b) == \/ a # b /\ b \in Up(t, a)
                   \/ a < b /\ a \notin Up(t, b)

LEMMA BeforeOrder ==
    ASSUME NEW t, IsTree(t), NEW a \in 1 .. Len(t), NEW b \in 1 .. Len(t), NEW c \in 1 .. Len(t)
    PROVE  /\ ~Before(t, a, a)
           /\ Before(t, a, b) /\ Before(t, b, c) => Before(t, a, c)
<1>0. Numbered(t) /\ Len(t) \in Nat
  BY NumberedIs DEF IsTree
<1>1. a \in Up(t, a) /\ b \in Up(t, b) /\ c \in Up(t, c)
  BY <1>0, UpWithin
<1>2. \A x, y \in {a, b, c} : x \in Up(t, y) => x <= y /\ Up(t, x) \subseteq Up(t, y)
  BY <1>0, UpWithin
<1>3. \A x, y, z \in {a, b, c} : x \in Up(t, z) /\ x <= y /\ y <= z => x \in Up(t, y)
  <2>1. SUFFICES ASSUME NEW x \in {a, b, c}, NEW y \in {a, b, c}, NEW z \in {a, b, c},
                        x \in Up(t, z), x <= y, y <= z
                 PROVE  x \in Up(t, y)
    OBVIOUS
  <2>2. z \in 1 .. Len(t) /\ y \in x .. z
    BY <1>0, <2>1
  <2> QED
    BY <2>1, <2>2, Contiguous
<1>4. ~Before(t, a, a)
  BY <1>1 DEF Before
<1>5. ASSUME Before(t, a, b), Before(t, b, c)
      PROVE  Before(t, a, c)
  <2>1. CASE b \in Up(t, a) /\ a # b /\ c \in Up(t, b) /\ b # c
    <3>1. c \in Up(t, a)
      BY <1>2, <2>1
    <3>2. a # c
      <4>1. b <= a /\ c <= b
        BY <1>2, <2>1
      <4> QED
        BY <2>1, <4>1
    <3> QED
      BY <3>1, <3>2 DEF Before
  <2>2. CASE b \in Up(t, a) /\ a # b /\ b < c /\ b \notin Up(t, c)
    <3>1. b < a
      BY <1>2, <2>2
    <3>2. a \notin Up(t, c)
      BY <1>2, <2>2
    <3>3. ~(c <= a)
      BY <1>3, <2>2
    <3> QED
      BY <3>2, <3>3 DEF Before
  <2>3. CASE a < b /\ a \notin Up(t, b) /\ c \in Up(t, b) /\ b # c
    <3>1. c < b
      BY <1>2, <2>3
    <3>2. a \notin Up(t, c)
      BY <1>2, <2>3
    <3>3. c <= a => c \in Up(t, a)
      BY <1>3, <2>3
    <3>4. a # c
      BY <2>3
    <3> QED
      BY <3>2, <3>3, <3>4 DEF Before
  <2>4. CASE a < b /\ a \notin Up(t, b) /\ b < c /\ b \notin Up(t, c)
    <3>1. a \notin Up(t, c)
      BY <1>3, <2>4
    <3> QED
      BY <2>4, <3>1 DEF Before
  <2> QED
    BY <1>5, <2>1, <2>2, <2>3, <2>4 DEF Before
<1> QED
  BY <1>4, <1>5

\* What a module instantiates was finished before it.
LEMMA BelowBefore ==
    ASSUME NEW t, IsTree(t), NEW n \in 1 .. Len(t), t[n].parent # 0
    PROVE  /\ t[n].parent \in 1 .. Len(t) /\ t[t[n].parent].cloneOf = 0 /\ n \in 2 .. Len(t)
           /\ OriginIn(t, n) \in 1 .. Len(t)
           /\ Before(t, OriginIn(t, n), t[n].parent)
<1>0. Numbered(t) /\ Len(t) \in Nat
  BY NumberedIs DEF IsTree
<1>1. PICK f : f = t[n].parent
  OBVIOUS
<1>2. PICK g : g = OriginIn(t, n)
  OBVIOUS
<1>3. f \in 1 .. Len(t) /\ f < n /\ n \in 2 .. Len(t) /\ n - 1 \in 1 .. Len(t)
  BY <1>0, <1>1, NumberedIs
<1>4. g \in 1 .. n /\ g \in 1 .. Len(t)
  BY <1>0, <1>2, OriginFound
<1>5. f \in Up(t, n - 1) /\ t[f].cloneOf = 0
  BY <1>1, <1>3 DEF IsTree
<1>6. CASE t[n].cloneOf = 0
  <2>1. g = n
    BY <1>0, <1>2, <1>6, OriginIs
  <2>2. f \in Up(t, n)
    <3>1. Up(t, n) = {n} \cup Up(t, f)
      BY <1>0, <1>1, <1>3, UpIs
    <3>2. f \in Up(t, f)
      BY <1>0, <1>3, UpWithin
    <3> QED
      BY <3>1, <3>2
  <2>3. n # f
    BY <1>3
  <2>4. Before(t, g, f)
    BY <2>1, <2>2, <2>3, Zenon DEF Before
  <2> QED
    BY <1>1, <1>2, <1>3, <1>4, <1>5, <2>4
<1>7. CASE t[n].cloneOf # 0
  <2>1. g = OriginIn(t, t[n].cloneOf)
    BY <1>0, <1>2, <1>7, OriginIs
  <2>2. g \notin Up(t, f)
    BY <1>1, <1>3, <1>7, <2>1 DEF IsTree
  <2>3. g # n /\ g <= n - 1 /\ g \in Nat
    <3>1. t[n].cloneOf \in 1 .. Len(t) /\ t[n].cloneOf < n
      BY <1>0, <1>7, NumberedIs
    <3>2. g \in 1 .. t[n].cloneOf
      BY <1>0, <2>1, <3>1, OriginFound
    <3> QED
      BY <1>3, <3>1, <3>2
  <2>4. f # g
    BY <1>0, <1>3, <2>2, UpWithin
  <2>5. f <= g => f \in Up(t, g)
    <3>1. f <= g => g \in f .. n - 1
      BY <1>3, <2>3
    <3> QED
      BY <1>3, <1>5, <3>1, Contiguous
  <2>6. Before(t, g, f)
    BY <1>3, <2>2, <2>3, <2>4, <2>5 DEF Before
  <2> QED
    BY <1>1, <1>2, <1>3, <1>4, <1>5, <2>6
<1> QED
  BY <1>6, <1>7

-----------------------------------------------------------------------------
(* The hierarchy the files describe. *)

Under(t, u) == {<<OriginIn(t, n), Append(u[2], n)>> : n \in {m \in DOMAIN t : t[m].parent = u[1]}}
First == <<1, <<1>>>>
IsLevels(t, f, d) ==
    f = [e \in 1 .. d |-> IF e = 1 THEN {First} ELSE UNION {Under(t, u) : u \in f[e - 1]}]

LEMMA LevelsExist ==
    ASSUME NEW t
    PROVE  \A d \in Nat : \E f : IsLevels(t, f, d)
<1> DEFINE S == {d \in Nat : \E f : IsLevels(t, f, d)}
<1>1. 0 \in S
  <2>1. PICK f : f = [n \in 1 .. 0 |-> {}]
    OBVIOUS
  <2>2. IsLevels(t, f, 0)
    BY <2>1 DEF IsLevels
  <2> QED
    BY <2>2
<1>2. ASSUME NEW d \in Nat, NEW f, IsLevels(t, f, d)
      PROVE  \E g : IsLevels(t, g, d + 1)
  <2>1. PICK g : g = [e \in 1 .. d + 1 |-> IF e = 1 THEN {First} ELSE UNION {Under(t, u) : u \in f[e - 1]}]
    OBVIOUS
  <2>2. ASSUME NEW e \in 1 .. d
        PROVE  g[e] = f[e]
    <3>1. f[e] = IF e = 1 THEN {First} ELSE UNION {Under(t, u) : u \in f[e - 1]}
      BY <1>2 DEF IsLevels
    <3>2. e \in 1 .. d + 1
      OBVIOUS
    <3> QED
      BY <2>1, <3>1, <3>2
  <2>3. \A e \in 1 .. d + 1 : e # 1 => e - 1 \in 1 .. d
    OBVIOUS
  <2>4. IsLevels(t, g, d + 1)
    BY <2>1, <2>2, <2>3 DEF IsLevels
  <2> QED
    BY <2>4
<1>3. \A k \in Nat : k \in S => k + 1 \in S
  BY <1>2
<1> HIDE DEF S
<1>4. \A k \in Nat : k \in S
  BY <1>1, <1>3, AllNat
<1> QED
  BY <1>4 DEF S

LEMMA HierarchyIs ==
    ASSUME NEW t, Len(t) \in Nat
    PROVE  \E f : IsLevels(t, f, Len(t)) /\ Hierarchy(t) = UNION {f[d] : d \in 1 .. Len(t)}
<1> DEFINE level[d \in 1 .. Len(t)] ==
              IF d = 1 THEN {First} ELSE UNION {Under(t, u) : u \in level[d - 1]}
<1>1. Hierarchy(t) = UNION {level[d] : d \in 1 .. Len(t)}
  BY Zenon DEF Hierarchy, Under, First
<1>2. level = CHOOSE f : IsLevels(t, f, Len(t))
  BY Zenon DEF IsLevels
<1> HIDE DEF level
<1>3. IsLevels(t, level, Len(t))
  BY <1>2, LevelsExist
<1> QED
  BY <1>1, <1>3

\* How many bodies finish before that of b.
Rank(t, b) == Cardinality({a \in 1 .. Len(t) : Before(t, a, b)})

LEMMA RankOrder ==
    ASSUME NEW t, IsTree(t), NEW b \in 1 .. Len(t)
    PROVE  /\ Rank(t, b) \in Nat /\ Rank(t, b) < Len(t)
           /\ \A a \in 1 .. Len(t) : Before(t, a, b) => Rank(t, a) < Rank(t, b)
<1>0. Len(t) \in Nat
  BY NumberedIs DEF IsTree
<1> DEFINE E(x) == {a \in 1 .. Len(t) : Before(t, a, x)}
           N == 1 .. Len(t)
<1>1. IsFiniteSet(N) /\ Cardinality(N) = Len(t)
  <2>1. 1 \in Int /\ Len(t) \in Int
    BY <1>0
  <2>2. IsFiniteSet(N) /\ Cardinality(N) = IF 1 > Len(t) THEN 0 ELSE Len(t) - 1 + 1
    BY <2>1, FS_Interval, Zenon
  <2> HIDE DEF N
  <2> QED
    BY <1>0, <2>2
<1>2. \A x : IsFiniteSet(E(x))
  <2>1. \A x : E(x) \in SUBSET N
    OBVIOUS
  <2> HIDE DEF E, N
  <2> QED
    BY <1>1, <2>1, FS_Subset
<1>3. Rank(t, b) = Cardinality(E(b))
  BY DEF Rank
<1>4. Rank(t, b) \in Nat /\ Rank(t, b) < Len(t)
  <2>1. E(b) \in SUBSET N /\ E(b) # N
    <3>1. b \notin E(b)
      BY BeforeOrder
    <3> QED
      BY <3>1
  <2> HIDE DEF E, N
  <2>2. /\ Cardinality(E(b)) \in Nat /\ Cardinality(E(b)) <= Cardinality(N)
        /\ Cardinality(E(b)) # Cardinality(N)
    BY <1>1, <1>2, <2>1, FS_Subset, FS_CardinalityType
  <2> QED
    BY <1>0, <1>1, <1>3, <2>2
<1>5. ASSUME NEW a \in 1 .. Len(t), Before(t, a, b)
      PROVE  Rank(t, a) < Rank(t, b)
  <2>1. E(a) \in SUBSET E(b)
    BY <1>5, BeforeOrder
  <2>2. a \in E(b) /\ a \notin E(a)
    BY <1>5, BeforeOrder
  <2>3. Rank(t, a) = Cardinality(E(a))
    BY DEF Rank
  <2> HIDE DEF E
  <2>4. /\ Cardinality(E(a)) \in Nat /\ Cardinality(E(b)) \in Nat
        /\ Cardinality(E(a)) <= Cardinality(E(b)) /\ Cardinality(E(a)) # Cardinality(E(b))
    BY <1>2, <2>1, <2>2, FS_Subset, FS_CardinalityType
  <2> QED
    BY <1>3, <2>3, <2>4
<1> QED
  BY <1>4, <1>5

\* What holds at the top and below wherever it holds, holds of every occurrence.
LEMMA OccurrenceInduction ==
    ASSUME NEW t, Len(t) \in Nat, NEW P, First \in P,
           \A u \in Hierarchy(t) : u \in P => Under(t, u) \subseteq P
    PROVE  Hierarchy(t) \subseteq P
<1>1. PICK f : IsLevels(t, f, Len(t)) /\ Hierarchy(t) = UNION {f[d] : d \in 1 .. Len(t)}
  BY HierarchyIs
<1>2. ASSUME NEW e \in 1 .. Len(t)
      PROVE  f[e] = IF e = 1 THEN {First} ELSE UNION {Under(t, u) : u \in f[e - 1]}
  BY <1>1 DEF IsLevels
<1> DEFINE S == {d \in Nat : d \in 1 .. Len(t) => f[d] \subseteq P}
<1>3. 0 \in S
  OBVIOUS
<1>4. ASSUME NEW d \in Nat, d \in S, d + 1 \in 1 .. Len(t)
      PROVE  f[d + 1] \subseteq P
  <2>1. CASE d = 0
    <3>1. d + 1 = 1 /\ 1 \in 1 .. Len(t)
      BY <1>4, <2>1
    <3>2. f[1] = {First}
      BY <1>2, <3>1
    <3> QED
      BY <3>1, <3>2
  <2>2. CASE d # 0
    <3>1. d \in 1 .. Len(t) /\ d + 1 # 1 /\ (d + 1) - 1 = d
      BY <1>4, <2>2
    <3>2. f[d + 1] = UNION {Under(t, u) : u \in f[d]}
      BY <1>2, <1>4, <3>1
    <3>3. f[d] \subseteq P /\ f[d] \subseteq Hierarchy(t)
      BY <1>1, <1>4, <3>1
    <3> QED
      BY <3>2, <3>3
  <2> QED
    BY <2>1, <2>2
<1>5. \A k \in Nat : k \in S => k + 1 \in S
  BY <1>4
<1> HIDE DEF S
<1>6. \A k \in Nat : k \in S
  BY <1>3, <1>5, AllNat
<1> QED
  BY <1>1, <1>6 DEF S

\* An occurrence has a module, and no more above it than there are bodies that
\* finish later.
LEMMA OccurrencesAre ==
    ASSUME NEW t, IsTree(t)
    PROVE  /\ First \in Hierarchy(t)
           /\ \A u \in Hierarchy(t) :
                 /\ u = <<u[1], u[2]>> /\ u[1] \in 1 .. Len(t) /\ t[u[1]].cloneOf = 0
                 /\ u[2] \in Seq(1 .. Len(t)) /\ Len(u[2]) # 0
                 /\ u[1] = OriginIn(t, Last(u[2]))
                 /\ Under(t, u) \subseteq Hierarchy(t)
<1>0. Numbered(t) /\ Len(t) \in Nat /\ Len(t) # 0 /\ DOMAIN t = 1 .. Len(t)
  BY NumberedIs DEF IsTree
<1>1. PICK f : IsLevels(t, f, Len(t)) /\ Hierarchy(t) = UNION {f[d] : d \in 1 .. Len(t)}
  BY <1>0, HierarchyIs
<1>2. ASSUME NEW e \in 1 .. Len(t)
      PROVE  f[e] = IF e = 1 THEN {First} ELSE UNION {Under(t, u) : u \in f[e - 1]}
  BY <1>1 DEF IsLevels
<1>3. First \in Hierarchy(t)
  <2>1. 1 \in 1 .. Len(t)
    BY <1>0
  <2>2. f[1] = {First}
    BY <1>2, <2>1
  <2> QED
    BY <1>1, <2>1, <2>2
<1> DEFINE Q(u) == /\ u = <<u[1], u[2]>> /\ u[1] \in 1 .. Len(t) /\ t[u[1]].cloneOf = 0
                   /\ u[2] \in Seq(1 .. Len(t)) /\ Len(u[2]) # 0
                   /\ u[1] = OriginIn(t, Last(u[2]))
           R(u, d) == Q(u) /\ d + Rank(t, u[1]) <= Len(t)
           S == {d \in Nat : d \in 1 .. Len(t) => \A u \in f[d] : R(u, d)}
<1>4. R(First, 1)
  <2>1. 1 \in 1 .. Len(t)
    BY <1>0
  <2>2. Rank(t, 1) \in Nat /\ Rank(t, 1) < Len(t)
    BY <2>1, RankOrder
  <2>3. t[1].cloneOf = 0
    <3>1. t[1].cloneOf \in Nat /\ t[1].cloneOf < 1
      BY <1>0, <2>1, NumberedIs
    <3> QED
      BY <3>1
  <2>4. OriginIn(t, 1) = 1
    BY <1>0, <2>1, <2>3, OriginIs
  <2>5. First[1] = 1 /\ First[2] = <<1>> /\ First = <<First[1], First[2]>>
    BY DEF First
  <2>6. <<1>> \in Seq(1 .. Len(t)) /\ Len(<<1>>) = 1 /\ Last(<<1>>) = 1
    BY <2>1 DEF Last
  <2>7. Q(First)
    BY <2>1, <2>3, <2>4, <2>5, <2>6
  <2>8. 1 + Rank(t, 1) <= Len(t)
    BY <1>0, <2>2
  <2> QED
    BY <2>5, <2>7, <2>8
<1>5. ASSUME NEW d \in 1 .. Len(t), NEW u, R(u, d), NEW v \in Under(t, u)
      PROVE  R(v, d + 1) /\ d + 1 <= Len(t)
  <2>1. PICK n \in 1 .. Len(t) : t[n].parent = u[1] /\ v = <<OriginIn(t, n), Append(u[2], n)>>
    BY <1>0 DEF Under
  <2>2. PICK g : g = OriginIn(t, n)
    OBVIOUS
  <2>3. g \in 1 .. Len(t) /\ Before(t, g, u[1])
    BY <1>0, <1>5, <2>1, <2>2, BelowBefore
  <2>4. g \in 1 .. Len(t) /\ t[g].cloneOf = 0
    BY <1>0, <2>2, <2>3, OriginFound
  <2>5. PICK r : r = Rank(t, u[1])
    OBVIOUS
  <2>6. PICK q : q = Rank(t, g)
    OBVIOUS
  <2>7. r \in Nat /\ q \in Nat /\ q < r
    BY <1>5, <2>3, <2>5, <2>6, RankOrder
  <2>8. (d + 1) + q <= Len(t) /\ d + 1 <= Len(t)
    <3>1. d + r <= Len(t)
      BY <1>5, <2>5
    <3> QED
      BY <1>0, <2>7, <3>1
  <2>9. PICK p : p = Append(u[2], n)
    OBVIOUS
  <2>10. p \in Seq(1 .. Len(t)) /\ Len(p) # 0 /\ Last(p) = n
    BY <1>5, <2>1, <2>9 DEF Last
  <2>11. v[1] = g /\ v[2] = p /\ v = <<v[1], v[2]>>
    BY <2>1, <2>2, <2>9
  <2>12. Q(v)
    BY <2>2, <2>4, <2>10, <2>11
  <2> QED
    BY <2>6, <2>8, <2>11, <2>12
<1>6. 0 \in S
  OBVIOUS
<1>7. ASSUME NEW d \in Nat, d \in S, d + 1 \in 1 .. Len(t), NEW v \in f[d + 1]
      PROVE  R(v, d + 1)
  <2>1. CASE d = 0
    <3>1. d + 1 = 1 /\ 1 \in 1 .. Len(t)
      BY <1>7, <2>1
    <3>2. f[1] = {First}
      BY <1>2, <3>1
    <3>3. v = First
      BY <1>7, <3>1, <3>2
    <3> HIDE DEF R
    <3> QED
      BY <1>4, <3>1, <3>3
  <2>2. CASE d # 0
    <3>1. d \in 1 .. Len(t) /\ d + 1 # 1 /\ (d + 1) - 1 = d
      BY <1>7, <2>2
    <3>2. f[d + 1] = UNION {Under(t, u) : u \in f[d]}
      BY <1>2, <1>7, <3>1
    <3>3. PICK u \in f[d] : v \in Under(t, u)
      BY <1>7, <3>2
    <3> HIDE DEF R
    <3>4. R(u, d)
      BY <1>7, <3>1, <3>3
    <3> QED
      BY <1>5, <3>1, <3>3, <3>4
  <2> QED
    BY <2>1, <2>2
<1>8. \A k \in Nat : k \in S => k + 1 \in S
  <2> HIDE DEF R
  <2> QED
    BY <1>7
<1>9. \A k \in Nat : k \in S
  <2> HIDE DEF S
  <2> QED
    BY <1>6, <1>8, AllNat
<1>10. ASSUME NEW u \in Hierarchy(t)
       PROVE  Q(u) /\ Under(t, u) \subseteq Hierarchy(t)
  <2>1. PICK d \in 1 .. Len(t) : u \in f[d]
    BY <1>1
  <2>2. R(u, d)
    BY <1>9, <2>1
  <2>3. ASSUME NEW v \in Under(t, u)
        PROVE  v \in Hierarchy(t)
    <3> HIDE DEF R
    <3>1. d + 1 \in 1 .. Len(t)
      BY <1>0, <1>5, <2>2, <2>3
    <3>2. d + 1 # 1 /\ (d + 1) - 1 = d
      OBVIOUS
    <3>3. f[d + 1] = UNION {Under(t, w) : w \in f[d]}
      BY <1>2, <3>1, <3>2
    <3>4. v \in f[d + 1]
      BY <2>1, <2>3, <3>3
    <3> QED
      BY <1>1, <3>1, <3>4
  <2> QED
    BY <2>2, <2>3
<1> QED
  BY <1>3, <1>10

-----------------------------------------------------------------------------
(* Paths. *)

LEMMA PrefixIs ==
    ASSUME NEW s \in Seq(Nat), NEW t \in Seq(Nat)
    PROVE  IsPrefix(s, t) <=> Len(s) <= Len(t) /\ \A i \in 1 .. Len(s) : s[i] = t[i]
<1>0. Len(s) \in Nat /\ Len(t) \in Nat
  OBVIOUS
<1>1. CASE Len(s) <= Len(t)
  <2>1. /\ SubSeq(s, 1, Len(s)) \in Seq(Nat) /\ Len(SubSeq(s, 1, Len(s))) = Len(s)
        /\ \A i \in 1 .. Len(s) : SubSeq(s, 1, Len(s))[i] = s[i]
    BY <1>0
  <2>2. /\ SubSeq(t, 1, Len(s)) \in Seq(Nat) /\ Len(SubSeq(t, 1, Len(s))) = Len(s)
        /\ \A i \in 1 .. Len(s) : SubSeq(t, 1, Len(s))[i] = t[i]
    BY <1>0, <1>1
  <2>3. PICK a : a = SubSeq(s, 1, Len(s))
    OBVIOUS
  <2>4. PICK b : b = SubSeq(t, 1, Len(s))
    OBVIOUS
  <2>5. a = b <=> \A i \in 1 .. Len(s) : a[i] = b[i]
    BY <2>1, <2>2, <2>3, <2>4, SeqEqual
  <2> QED
    BY <1>1, <2>1, <2>2, <2>3, <2>4, <2>5 DEF IsPrefix
<1>2. CASE ~(Len(s) <= Len(t))
  BY <1>2 DEF IsPrefix
<1> QED
  BY <1>1, <1>2

\* Where a path is one instance longer, what it is below grows by itself.
LEMMA ConeBelow ==
    ASSUME NEW q \in Seq(Nat), NEW n \in Nat, NEW p, p = Append(q, n), synthTop \in Seq(Nat)
    PROVE  /\ InCone(q) => InCone(p)
           /\ InCone(p) /\ ~InCone(q) => p = synthTop /\ IsStrictPrefix(q, synthTop)
           /\ IsPrefix(p, synthTop) => IsStrictPrefix(q, synthTop) /\ synthTop[Len(q) + 1] = n
           /\ IsStrictPrefix(q, synthTop) /\ synthTop[Len(q) + 1] = n => IsPrefix(p, synthTop)
<1>0. /\ p \in Seq(Nat) /\ Len(q) \in Nat /\ Len(synthTop) \in Nat /\ Len(p) = Len(q) + 1
      /\ p[Len(q) + 1] = n /\ \A i \in 1 .. Len(q) : p[i] = q[i]
  OBVIOUS
<1>1. PICK l : l = Len(q)
  OBVIOUS
<1>2. PICK m : m = Len(synthTop)
  OBVIOUS
<1>3. l \in Nat /\ m \in Nat /\ Len(p) = l + 1
  BY <1>0, <1>1, <1>2
<1>4. IsPrefix(synthTop, q) <=> m <= l /\ \A i \in 1 .. m : synthTop[i] = q[i]
  BY <1>1, <1>2, PrefixIs
<1>5. IsPrefix(synthTop, p) <=> m <= l + 1 /\ \A i \in 1 .. m : synthTop[i] = p[i]
  BY <1>0, <1>2, <1>3, PrefixIs
<1>6. IsPrefix(q, synthTop) <=> l <= m /\ \A i \in 1 .. l : q[i] = synthTop[i]
  BY <1>1, <1>2, PrefixIs
<1>7. IsPrefix(p, synthTop) <=> l + 1 <= m /\ \A i \in 1 .. l + 1 : p[i] = synthTop[i]
  BY <1>0, <1>2, <1>3, PrefixIs
<1>8. q = synthTop => l = m
  BY <1>1, <1>2
<1>9. l = m /\ (\A i \in 1 .. l : q[i] = synthTop[i]) => q = synthTop
  BY <1>1, <1>2, SeqEqual
<1>10. l + 1 = m /\ (\A i \in 1 .. l + 1 : p[i] = synthTop[i]) => p = synthTop
  BY <1>0, <1>2, <1>3, SeqEqual
<1>11. p[l + 1] = n /\ \A i \in 1 .. l : p[i] = q[i]
  BY <1>0, <1>1
<1>12. InCone(q) => InCone(p)
  BY <1>3, <1>4, <1>5, <1>11 DEF InCone
<1>13. ASSUME IsPrefix(synthTop, p), ~IsPrefix(synthTop, q)
       PROVE  p = synthTop /\ IsStrictPrefix(q, synthTop)
  <2>1. m = l + 1
    BY <1>3, <1>4, <1>5, <1>11, <1>13
  <2>2. p = synthTop
    BY <1>3, <1>5, <1>10, <1>13, <2>1
  <2>3. IsPrefix(q, synthTop) /\ q # synthTop
    BY <1>3, <1>5, <1>6, <1>8, <1>11, <1>13, <2>1
  <2> QED
    BY <2>2, <2>3 DEF IsStrictPrefix
<1>14. ASSUME IsPrefix(p, synthTop)
       PROVE  IsStrictPrefix(q, synthTop) /\ synthTop[l + 1] = n
  <2>1. l + 1 <= m /\ \A i \in 1 .. l + 1 : p[i] = synthTop[i]
    BY <1>7, <1>14
  <2>2. l + 1 \in 1 .. l + 1 /\ \A i \in 1 .. l : i \in 1 .. l + 1
    BY <1>3
  <2>3. synthTop[l + 1] = n
    BY <1>11, <2>1, <2>2
  <2>4. IsPrefix(q, synthTop)
    BY <1>3, <1>6, <1>11, <2>1, <2>2
  <2> QED
    BY <1>3, <1>8, <2>1, <2>3, <2>4 DEF IsStrictPrefix
<1>15. ASSUME IsStrictPrefix(q, synthTop), synthTop[l + 1] = n
       PROVE  IsPrefix(p, synthTop)
  <2>1. l <= m /\ (\A i \in 1 .. l : q[i] = synthTop[i]) /\ q # synthTop
    BY <1>6, <1>15 DEF IsStrictPrefix
  <2>2. l + 1 <= m
    BY <1>3, <1>9, <2>1
  <2>3. \A i \in 1 .. l + 1 : i \in 1 .. l \/ i = l + 1
    BY <1>3
  <2>4. \A i \in 1 .. l + 1 : p[i] = synthTop[i]
    BY <1>11, <1>15, <2>1, <2>3
  <2> QED
    BY <1>7, <2>2, <2>4
<1> QED
  BY <1>1, <1>12, <1>13, <1>14, <1>15 DEF InCone

-----------------------------------------------------------------------------
(* What the walk descends into. *)

Children(f) == {n \in Objs : tree[n].parent = f}

LEMMA FilesAre ==
    ASSUME IsTree(tree), NEW i \in Objs
    PROVE  File(i) \in Objs /\ tree[File(i)].cloneOf = 0
<1>0. Numbered(tree) /\ Len(tree) \in Nat /\ Objs = 1 .. Len(tree)
  BY NumberedIs DEF IsTree, Objs
<1> QED
  BY <1>0, OriginFound DEF File

\* Only instances of the module of i, and under ~CloneOfClone all of them.
LEMMA DescendIs ==
    ASSUME IsTree(tree), NEW i \in Objs
    PROVE  /\ Descend(i) \subseteq Children(File(i))
           /\ ~CloneOfClone => Descend(i) = Children(File(i))
<1>0. Numbered(tree) /\ Len(tree) \in Nat /\ Objs = 1 .. Len(tree)
  BY NumberedIs DEF IsTree, Objs
<1>1. tree[i].cloneOf \in Nat /\ tree[i].cloneOf < i /\ i \in 1 .. Len(tree)
  BY <1>0, NumberedIs
<1>2. \A j \in Objs : File(j) = IF tree[j].cloneOf = 0 THEN j ELSE File(tree[j].cloneOf)
  BY <1>0, OriginIs DEF File
<1>3. \A j \in Objs : OwnSubs(j) # {} => tree[j].cloneOf = 0
  <2>1. SUFFICES ASSUME NEW j \in Objs, NEW n \in Objs, tree[n].parent = j
                 PROVE  tree[j].cloneOf = 0
    BY DEF OwnSubs
  <2>2. j # 0 /\ n \in 1 .. Len(tree)
    BY <1>0
  <2> QED
    BY <2>1, <2>2, BelowBefore
<1>4. \A j \in Objs : OwnSubs(j) = Children(j)
  BY DEF OwnSubs, Children
<1>5. CASE tree[i].cloneOf = 0
  BY <1>2, <1>4, <1>5 DEF Descend
<1>6. CASE tree[i].cloneOf # 0
  <2>1. PICK c : c = tree[i].cloneOf
    OBVIOUS
  <2>2. c \in Objs /\ i \in 2 .. Len(tree)
    BY <1>0, <1>1, <1>6, <2>1
  <2>3. OwnSubs(i) = {}
    BY <1>3, <1>6
  <2>4. Descend(i) = Children(c)
    BY <1>4, <1>6, <2>1, <2>2, <2>3 DEF Descend
  <2>5. Children(c) # {} => tree[c].cloneOf = 0
    BY <1>3, <1>4, <2>2
  <2>6. File(i) = File(c)
    BY <1>2, <1>6, <2>1
  <2>7. ~CloneOfClone => tree[c].cloneOf = 0
    BY <1>6, <2>1, <2>2 DEF IsTree
  <2>8. tree[c].cloneOf = 0 => File(i) = c
    BY <1>2, <2>2, <2>6
  <2> QED
    BY <2>4, <2>5, <2>7, <2>8
<1> QED
  BY <1>5, <1>6

\* A module finishes after those it has instances of.
LEMMA ChildrenBefore ==
    ASSUME IsTree(tree), NEW f \in Objs, NEW n \in Children(f)
    PROVE  /\ n \in Objs /\ n # 1 /\ Before(tree, File(n), f)
           /\ \A p : <<f, p>> \in Occurrences => <<File(n), Append(p, n)>> \in Occurrences
<1>0. Numbered(tree) /\ Len(tree) \in Nat /\ Objs = 1 .. Len(tree)
  BY NumberedIs DEF IsTree, Objs
<1>1. n \in 1 .. Len(tree) /\ tree[n].parent = f /\ f # 0
  BY <1>0 DEF Children
<1>2. n \in 2 .. Len(tree) /\ Before(tree, File(n), f)
  BY <1>1, BelowBefore DEF File
<1>3. ASSUME NEW p, <<f, p>> \in Occurrences
      PROVE  <<File(n), Append(p, n)>> \in Occurrences
  <2>1. PICK u : u = <<f, p>>
    OBVIOUS
  <2>2. u[1] = f /\ u[2] = p
    BY <2>1
  <2>3. <<File(n), Append(p, n)>> \in Under(tree, u)
    BY <1>0, <1>1, <2>2 DEF Under, File
  <2> QED
    BY <1>3, <2>1, <2>3, OccurrencesAre DEF Occurrences
<1> QED
  BY <1>0, <1>1, <1>2, <1>3

-----------------------------------------------------------------------------
(* The walk.  Its invariant is stated of any stack, list and sets of files, *)
(* so that a step is from some of them to others.                           *)

Frame == [inst : Objs, path : Seq(Nat), todo : SUBSET Objs]

Shape(st, rs, sf, vf) ==
    /\ st \in Seq(Frame) /\ rs \in Seq(Objs \X BOOLEAN)
    /\ sf \subseteq Objs /\ vf \subseteq Objs

\* A frame is of an instance below that of the frame before it.
Chain(st) ==
    \A k \in 1 .. Len(st) :
        /\ k = 1 => st[k].inst = 1 /\ st[k].path = <<1>>
        /\ k # 1 => /\ st[k].inst \in Descend(st[k - 1].inst) \ st[k - 1].todo
                    /\ st[k].path = Append(st[k - 1].path, st[k].inst)
        /\ st[k].todo \subseteq Descend(st[k].inst)
        /\ <<File(st[k].inst), st[k].path>> \in Occurrences

Told(rs, f) == \E j \in 1 .. Len(rs) : File(rs[j][1]) = f

\* What a frame has gone past is on the list, or is the frame after it.
PastTold(st, rs) ==
    \A k \in 1 .. Len(st) : \A n \in Descend(st[k].inst) \ st[k].todo :
        \/ k < Len(st) /\ st[k + 1].inst = n
        \/ Told(rs, File(n))

\* A file was seen on a side if an instance of its module is under way or was
\* listed on it.
Seen(st, rs, sf, vf) ==
    \A f \in Objs :
        /\ f \in sf <=> \/ \E j \in 1 .. Len(rs) : File(rs[j][1]) = f /\ rs[j][2] = TRUE
                        \/ \E k \in 1 .. Len(st) : File(st[k].inst) = f /\ IsSynth(st[k].path)
        /\ f \in vf <=> \/ \E j \in 1 .. Len(rs) : File(rs[j][1]) = f /\ rs[j][2] = FALSE
                        \/ \E k \in 1 .. Len(st) : File(st[k].inst) = f /\ ~IsSynth(st[k].path)

\* The list has a module after those it has instances of.
ListBottomUp(rs) ==
    \A j \in 1 .. Len(rs) : \A n \in Children(File(rs[j][1])) :
        \E i \in 1 .. Len(rs) : i < j /\ File(rs[i][1]) = File(n)

Walk(st, rs, sf, vf) ==
    /\ Shape(st, rs, sf, vf)
    /\ Chain(st)
    /\ PastTold(st, rs)
    /\ Seen(st, rs, sf, vf)
    /\ ListBottomUp(rs)

LEMMA ShapeIs ==
    ASSUME NEW st, NEW rs, NEW sf, NEW vf, Shape(st, rs, sf, vf)
    PROVE  /\ Len(st) \in Nat /\ Len(rs) \in Nat
           /\ DOMAIN st = 1 .. Len(st) /\ DOMAIN rs = 1 .. Len(rs)
           /\ \A k \in 1 .. Len(st) :
                 /\ st[k] \in Frame /\ st[k].inst \in Objs /\ st[k].path \in Seq(Nat)
                 /\ st[k].todo \subseteq Objs
                 /\ st[k] = [inst |-> st[k].inst, path |-> st[k].path, todo |-> st[k].todo]
           /\ \A j \in 1 .. Len(rs) :
                 rs[j] \in Objs \X BOOLEAN /\ rs[j][1] \in Objs /\ rs[j][2] \in BOOLEAN
<1>1. st \in Seq(Frame) /\ rs \in Seq(Objs \X BOOLEAN)
  BY DEF Shape
<1>2. /\ Len(st) \in Nat /\ Len(rs) \in Nat
      /\ DOMAIN st = 1 .. Len(st) /\ DOMAIN rs = 1 .. Len(rs)
      /\ \A k \in 1 .. Len(st) : st[k] \in Frame
      /\ \A j \in 1 .. Len(rs) : rs[j] \in Objs \X BOOLEAN
  BY <1>1
<1>3. \A x \in Frame : /\ x.inst \in Objs /\ x.path \in Seq(Nat) /\ x.todo \subseteq Objs
                       /\ x = [inst |-> x.inst, path |-> x.path, todo |-> x.todo]
  BY DEF Frame
<1>4. \A x \in Objs \X BOOLEAN : x[1] \in Objs /\ x[2] \in BOOLEAN
  OBVIOUS
<1> QED
  BY <1>2, <1>3, <1>4

\* The frames are of modules that finish one before the other.
LEMMA ChainOrder ==
    ASSUME IsTree(tree), NEW st, NEW rs, NEW sf, NEW vf, Shape(st, rs, sf, vf), Chain(st)
    PROVE  \A k \in 1 .. Len(st) : \A j \in 1 .. Len(st) :
              j < k => Before(tree, File(st[k].inst), File(st[j].inst))
<1>0. Len(st) \in Nat /\ \A k \in 1 .. Len(st) : st[k].inst \in Objs
  BY ShapeIs
<1> DEFINE F(k) == File(st[k].inst)
           P(k) == \A j \in 1 .. Len(st) : j < k => Before(tree, F(k), F(j))
           S == {d \in Nat : \A k \in 1 .. Len(st) : k <= d => P(k)}
<1>1. 0 \in S
  OBVIOUS
<1>2. ASSUME NEW d \in Nat, d \in S, NEW k \in 1 .. Len(st), k <= d + 1, NEW j \in 1 .. Len(st), j < k
      PROVE  Before(tree, F(k), F(j))
  <2>1. PICK i : i = k - 1
    OBVIOUS
  <2>2. i \in 1 .. Len(st) /\ i <= d /\ j <= i /\ k # 1
    BY <1>0, <1>2, <2>1
  <2>3. F(k) \in Objs /\ F(i) \in Objs /\ F(j) \in Objs
    BY <1>0, <2>2, FilesAre
  <2>4. Before(tree, F(k), F(i))
    <3>1. st[k].inst \in Descend(st[i].inst)
      BY <2>1, <2>2 DEF Chain
    <3>2. st[k].inst \in Children(F(i))
      BY <1>0, <2>2, <3>1, DescendIs
    <3> HIDE DEF F
    <3>3. Before(tree, File(st[k].inst), F(i))
      BY <2>3, <3>2, ChildrenBefore
    <3> QED
      BY <3>3 DEF F
  <2>5. j # i => Before(tree, F(i), F(j))
    BY <1>2, <2>2
  <2>6. Objs = 1 .. Len(tree)
    BY NumberedIs DEF IsTree, Objs
  <2> HIDE DEF F
  <2> QED
    BY <2>3, <2>4, <2>5, <2>6, BeforeOrder
<1>3. \A k \in Nat : k \in S => k + 1 \in S
  <2> HIDE DEF F
  <2> QED
    BY <1>2
<1> HIDE DEF S
<1>4. Len(st) \in S
  BY <1>0, <1>1, <1>3, AllNat
<1> QED
  BY <1>0, <1>4 DEF S

\* What was seen and is below the last frame is on the list, not under way.
LEMMA SeenTold ==
    ASSUME IsTree(tree), NEW st, NEW rs, NEW sf, NEW vf, Walk(st, rs, sf, vf), Len(st) # 0,
           NEW n \in Descend(st[Len(st)].inst), File(n) \in sf \cup vf
    PROVE  Told(rs, File(n))
<1>6. Shape(st, rs, sf, vf) /\ Chain(st) /\ Seen(st, rs, sf, vf)
  BY DEF Walk
<1>0. /\ Shape(st, rs, sf, vf) /\ Chain(st) /\ Seen(st, rs, sf, vf)
      /\ Len(st) \in Nat /\ Len(st) \in 1 .. Len(st)
      /\ \A k \in 1 .. Len(st) : st[k].inst \in Objs
  <2>1. Len(st) \in Nat /\ \A k \in 1 .. Len(st) : st[k].inst \in Objs
    BY <1>6, ShapeIs
  <2> QED
    BY <1>6, <2>1
<1>1. PICK f : f = File(st[Len(st)].inst)
  OBVIOUS
<1>2. f \in Objs /\ n \in Children(f)
  BY <1>0, <1>1, FilesAre, DescendIs
<1>3. n \in Objs /\ Before(tree, File(n), f) /\ File(n) \in Objs
  BY <1>2, ChildrenBefore, FilesAre
<1>4. Objs = 1 .. Len(tree)
  BY NumberedIs DEF IsTree, Objs
<1>5. ASSUME NEW k \in 1 .. Len(st)
      PROVE  File(st[k].inst) # File(n)
  <2>1. PICK g : g = File(st[k].inst)
    OBVIOUS
  <2>2. g \in Objs
    BY <1>0, <2>1, FilesAre
  <2>3. k # Len(st) => Before(tree, f, g)
    BY <1>0, <1>1, <2>1, ChainOrder
  <2>4. k = Len(st) => f = g
    BY <1>1, <2>1
  <2>5. Before(tree, File(n), g)
    BY <1>2, <1>3, <1>4, <2>2, <2>3, <2>4, BeforeOrder
  <2> QED
    BY <1>3, <1>4, <2>1, <2>2, <2>5, BeforeOrder
<1> QED
  BY <1>0, <1>3, <1>5 DEF Seen, Told

-----------------------------------------------------------------------------
(* The steps of the walk. *)

\* A frame for n goes on the stack, and n off what its parent still has to do.
Pushes(st, n, p, st2) ==
    /\ st2 \in Seq(Frame) /\ Len(st2) = Len(st) + 1
    /\ st2[Len(st) + 1] = [inst |-> n, path |-> p, todo |-> Descend(n)]
    /\ \A k \in 1 .. Len(st) :
          /\ st2[k].inst = st[k].inst /\ st2[k].path = st[k].path
          /\ st2[k].todo = IF k = Len(st) THEN st[k].todo \ {n} ELSE st[k].todo

\* The file of n was seen on the side its path is on.
Marks(n, p, sf, vf, sf2, vf2) ==
    IF IsSynth(p) THEN sf2 = sf \cup {File(n)} /\ vf2 = vf
    ELSE vf2 = vf \cup {File(n)} /\ sf2 = sf

\* n is what the last frame does next, or the top of the hierarchy.
NextIs(st, n, p) ==
    /\ n \in Objs /\ p \in Seq(Nat)
    /\ Len(st) = 0 => n = 1 /\ p = <<1>>
    /\ Len(st) # 0 => n \in st[Len(st)].todo /\ p = Append(st[Len(st)].path, n)

LEMMA PushChain ==
    ASSUME IsTree(tree), NEW st, NEW rs, NEW sf, NEW vf, Walk(st, rs, sf, vf),
           NEW n, NEW p, NextIs(st, n, p), NEW st2, Pushes(st, n, p, st2)
    PROVE  Chain(st2)
<1>1. Shape(st, rs, sf, vf) /\ Chain(st)
  BY DEF Walk
<1>2. PICK l : l = Len(st)
  OBVIOUS
<1>3. l \in Nat /\ Len(st2) = l + 1 /\ n \in Objs
  BY <1>1, <1>2, ShapeIs DEF Pushes, NextIs
<1>4. ASSUME NEW k \in 1 .. l
      PROVE  /\ k = 1 => st2[k].inst = 1 /\ st2[k].path = <<1>>
             /\ k # 1 => /\ st2[k].inst \in Descend(st2[k - 1].inst) \ st2[k - 1].todo
                         /\ st2[k].path = Append(st2[k - 1].path, st2[k].inst)
             /\ st2[k].todo \subseteq Descend(st2[k].inst)
             /\ <<File(st2[k].inst), st2[k].path>> \in Occurrences
  <2>1. /\ st2[k].inst = st[k].inst /\ st2[k].path = st[k].path
        /\ st2[k].todo \subseteq st[k].todo
    BY <1>2 DEF Pushes
  <2>2. k # 1 => k - 1 \in 1 .. l /\ k - 1 # l
    BY <1>3
  <2>3. k # 1 => /\ st2[k - 1].inst = st[k - 1].inst /\ st2[k - 1].path = st[k - 1].path
                 /\ st2[k - 1].todo = st[k - 1].todo
    BY <1>2, <2>2 DEF Pushes
  <2>4. /\ k = 1 => st[k].inst = 1 /\ st[k].path = <<1>>
        /\ k # 1 => /\ st[k].inst \in Descend(st[k - 1].inst) \ st[k - 1].todo
                    /\ st[k].path = Append(st[k - 1].path, st[k].inst)
        /\ st[k].todo \subseteq Descend(st[k].inst)
        /\ <<File(st[k].inst), st[k].path>> \in Occurrences
    BY <1>1, <1>2 DEF Chain
  <2>5. st2[k].todo \subseteq Descend(st2[k].inst)
    BY <2>1, <2>4
  <2>6. <<File(st2[k].inst), st2[k].path>> \in Occurrences
    BY <2>1, <2>4
  <2>7. k = 1 => st2[k].inst = 1 /\ st2[k].path = <<1>>
    BY <2>1, <2>4
  <2>8. k # 1 => /\ st2[k].inst \in Descend(st2[k - 1].inst) \ st2[k - 1].todo
                 /\ st2[k].path = Append(st2[k - 1].path, st2[k].inst)
    BY <2>1, <2>3, <2>4
  <2> QED
    BY <2>5, <2>6, <2>7, <2>8
<1>5. st2[l + 1].inst = n /\ st2[l + 1].path = p /\ st2[l + 1].todo = Descend(n)
  BY <1>2 DEF Pushes
<1>6. CASE l = 0
  <2>1. n = 1 /\ p = <<1>> /\ l + 1 = 1
    BY <1>2, <1>3, <1>6 DEF NextIs
  <2>2. Numbered(tree) /\ 1 \in 1 .. Len(tree)
    BY <1>3, <2>1, NumberedIs DEF IsTree, Objs
  <2>3. OriginIn(tree, 1) \in 1 .. 1
    BY <2>2, OriginFound
  <2>4. <<File(1), <<1>>>> \in Occurrences
    BY <2>3, OccurrencesAre DEF First, Occurrences, File
  <2>5. \A k \in 1 .. l + 1 : k = l + 1
    BY <1>6
  <2> QED
    BY <1>3, <1>5, <2>1, <2>4, <2>5 DEF Chain
<1>7. CASE l # 0
  <2>1. l \in 1 .. l /\ n \in st[l].todo /\ p = Append(st[l].path, n) /\ (l + 1) - 1 = l
    BY <1>2, <1>3, <1>7 DEF NextIs
  <2>2. /\ st2[l].inst = st[l].inst /\ st2[l].path = st[l].path
        /\ st2[l].todo = st[l].todo \ {n}
    BY <1>2, <2>1 DEF Pushes
  <2>3. st[l].inst \in Objs /\ n \in Descend(st[l].inst)
    BY <1>1, <1>2, <2>1, ShapeIs DEF Chain
  <2>4. PICK f : f = File(st[l].inst)
    OBVIOUS
  <2>5. f \in Objs /\ n \in Children(f)
    BY <2>3, <2>4, FilesAre, DescendIs
  <2>6. <<f, st[l].path>> \in Occurrences
    BY <1>1, <1>2, <2>1, <2>4 DEF Chain
  <2>7. <<File(n), p>> \in Occurrences
    BY <2>1, <2>5, <2>6, ChildrenBefore
  <2>8. ASSUME NEW k \in 1 .. Len(st2)
        PROVE  /\ k = 1 => st2[k].inst = 1 /\ st2[k].path = <<1>>
               /\ k # 1 => /\ st2[k].inst \in Descend(st2[k - 1].inst) \ st2[k - 1].todo
                           /\ st2[k].path = Append(st2[k - 1].path, st2[k].inst)
               /\ st2[k].todo \subseteq Descend(st2[k].inst)
               /\ <<File(st2[k].inst), st2[k].path>> \in Occurrences
    <3>1. CASE k \in 1 .. l
      BY <1>4, <3>1
    <3>2. CASE k = l + 1
      <4>1. k # 1 /\ k - 1 = l
        BY <1>3, <1>7, <3>2
      <4>2. n \in Descend(st2[l].inst) \ st2[l].todo
        BY <2>2, <2>3
      <4> QED
        BY <1>5, <2>1, <2>2, <2>7, <3>2, <4>1, <4>2
    <3> QED
      BY <1>3, <3>1, <3>2
  <2> QED
    BY <2>8 DEF Chain
<1> QED
  BY <1>6, <1>7

LEMMA PushWalk ==
    ASSUME IsTree(tree), NEW st, NEW rs, NEW sf, NEW vf, Walk(st, rs, sf, vf),
           NEW n, NEW p, NextIs(st, n, p), NEW st2, Pushes(st, n, p, st2),
           NEW sf2, NEW vf2, Marks(n, p, sf, vf, sf2, vf2)
    PROVE  Walk(st2, rs, sf2, vf2)
<1>1. /\ Shape(st, rs, sf, vf) /\ Chain(st) /\ PastTold(st, rs) /\ Seen(st, rs, sf, vf)
      /\ ListBottomUp(rs)
  BY DEF Walk
<1>2. PICK l : l = Len(st)
  OBVIOUS
<1>3. l \in Nat /\ Len(st2) = l + 1 /\ n \in Objs /\ File(n) \in Objs
  BY <1>1, <1>2, ShapeIs, FilesAre DEF Pushes, NextIs
<1>4. \A k \in 1 .. l : /\ st2[k].inst = st[k].inst /\ st2[k].path = st[k].path
                        /\ st2[k].todo = IF k = l THEN st[k].todo \ {n} ELSE st[k].todo
  BY <1>2, Zenon DEF Pushes
<1>5. st2[l + 1].inst = n /\ st2[l + 1].path = p /\ st2[l + 1].todo = Descend(n)
  BY <1>2 DEF Pushes
<1>6. Shape(st2, rs, sf2, vf2)
  BY <1>1, <1>3 DEF Shape, Pushes, Marks
<1>7. PastTold(st2, rs)
  <2>1. SUFFICES ASSUME NEW k \in 1 .. l + 1, NEW m \in Descend(st2[k].inst) \ st2[k].todo
                 PROVE  (k < l + 1 /\ st2[k + 1].inst = m) \/ Told(rs, File(m))
    BY <1>3, Zenon DEF PastTold
  <2>2. CASE k = l + 1
    BY <1>5, <2>1, <2>2
  <2>3. CASE k # l + 1 /\ m = n /\ k = l
    BY <1>3, <1>5, <2>3
  <2>4. CASE k # l + 1 /\ ~(m = n /\ k = l)
    <3>4. k \in 1 .. l
      BY <1>3, <2>4
    <3>5. st2[k].inst = st[k].inst /\ st2[k].todo = IF k = l THEN st[k].todo \ {n} ELSE st[k].todo
      BY <1>4, <3>4
    <3>1. k \in 1 .. l /\ m \in Descend(st[k].inst) \ st[k].todo
      BY <2>1, <2>4, <3>4, <3>5
    <3>2. (k < l /\ st[k + 1].inst = m) \/ Told(rs, File(m))
      BY <1>1, <1>2, <3>1 DEF PastTold
    <3>3. k < l => k + 1 \in 1 .. l /\ k < l + 1
      BY <1>3, <3>1
    <3> QED
      BY <1>4, <3>2, <3>3
  <2> QED
    BY <2>2, <2>3, <2>4
<1>8. Seen(st2, rs, sf2, vf2)
  <2>1. SUFFICES ASSUME NEW f \in Objs
                 PROVE  /\ f \in sf2 <=> \/ \E j \in 1 .. Len(rs) : File(rs[j][1]) = f /\ rs[j][2] = TRUE
                                         \/ \E k \in 1 .. l + 1 : File(st2[k].inst) = f /\ IsSynth(st2[k].path)
                        /\ f \in vf2 <=> \/ \E j \in 1 .. Len(rs) : File(rs[j][1]) = f /\ rs[j][2] = FALSE
                                         \/ \E k \in 1 .. l + 1 : File(st2[k].inst) = f /\ ~IsSynth(st2[k].path)
    BY <1>3, Zenon DEF Seen
  <2>2. /\ f \in sf <=> \/ \E j \in 1 .. Len(rs) : File(rs[j][1]) = f /\ rs[j][2] = TRUE
                        \/ \E k \in 1 .. l : File(st[k].inst) = f /\ IsSynth(st[k].path)
        /\ f \in vf <=> \/ \E j \in 1 .. Len(rs) : File(rs[j][1]) = f /\ rs[j][2] = FALSE
                        \/ \E k \in 1 .. l : File(st[k].inst) = f /\ ~IsSynth(st[k].path)
    BY <1>1, <1>2, Zenon DEF Seen
  <2>3. /\ \A k \in 1 .. l + 1 : k \in 1 .. l \/ k = l + 1
        /\ \A k \in 1 .. l : k \in 1 .. l + 1
        /\ l + 1 \in 1 .. l + 1
    BY <1>3
  <2>4. /\ (\E k \in 1 .. l + 1 : File(st2[k].inst) = f /\ IsSynth(st2[k].path))
              <=> \/ \E k \in 1 .. l : File(st[k].inst) = f /\ IsSynth(st[k].path)
                  \/ File(n) = f /\ IsSynth(p)
        /\ (\E k \in 1 .. l + 1 : File(st2[k].inst) = f /\ ~IsSynth(st2[k].path))
              <=> \/ \E k \in 1 .. l : File(st[k].inst) = f /\ ~IsSynth(st[k].path)
                  \/ File(n) = f /\ ~IsSynth(p)
    BY <1>4, <1>5, <2>3
  <2>5. f \in sf2 <=> f \in sf \/ (f = File(n) /\ IsSynth(p))
    BY DEF Marks
  <2>6. f \in vf2 <=> f \in vf \/ (f = File(n) /\ ~IsSynth(p))
    BY DEF Marks
  <2> QED
    BY <2>2, <2>4, <2>5, <2>6, Zenon
<1> QED
  BY <1>1, <1>6, <1>7, <1>8, PushChain DEF Walk

\* n is passed over.
Drops(st, n, st2) ==
    /\ st2 \in Seq(Frame) /\ Len(st2) = Len(st)
    /\ \A k \in 1 .. Len(st) :
          /\ st2[k].inst = st[k].inst /\ st2[k].path = st[k].path
          /\ st2[k].todo = IF k = Len(st) THEN st[k].todo \ {n} ELSE st[k].todo

LEMMA DropWalk ==
    ASSUME IsTree(tree), NEW st, NEW rs, NEW sf, NEW vf, Walk(st, rs, sf, vf),
           NEW n, NEW st2, Drops(st, n, st2), Told(rs, File(n))
    PROVE  Walk(st2, rs, sf, vf)
<1>1. /\ Shape(st, rs, sf, vf) /\ Chain(st) /\ PastTold(st, rs) /\ Seen(st, rs, sf, vf)
      /\ ListBottomUp(rs)
  BY DEF Walk
<1>2. PICK l : l = Len(st)
  OBVIOUS
<1>3. l \in Nat /\ Len(st2) = l
  BY <1>1, <1>2, ShapeIs DEF Drops
<1>4. \A k \in 1 .. l : /\ st2[k].inst = st[k].inst /\ st2[k].path = st[k].path
                        /\ st2[k].todo = IF k = l THEN st[k].todo \ {n} ELSE st[k].todo
  BY <1>2, Zenon DEF Drops
<1>5. Shape(st2, rs, sf, vf)
  BY <1>1 DEF Shape, Drops
<1>6. Chain(st2)
  <2>1. SUFFICES ASSUME NEW k \in 1 .. l
                 PROVE  /\ k = 1 => st2[k].inst = 1 /\ st2[k].path = <<1>>
                        /\ k # 1 => /\ st2[k].inst \in Descend(st2[k - 1].inst) \ st2[k - 1].todo
                                    /\ st2[k].path = Append(st2[k - 1].path, st2[k].inst)
                        /\ st2[k].todo \subseteq Descend(st2[k].inst)
                        /\ <<File(st2[k].inst), st2[k].path>> \in Occurrences
    BY <1>3, Zenon DEF Chain
  <2>2. /\ st2[k].inst = st[k].inst /\ st2[k].path = st[k].path
        /\ st2[k].todo \subseteq st[k].todo
    BY <1>4
  <2>3. k # 1 => k - 1 \in 1 .. l
    BY <1>3
  <2>4. k # 1 => /\ st2[k - 1].inst = st[k - 1].inst /\ st2[k - 1].path = st[k - 1].path
                 /\ st2[k - 1].todo \subseteq st[k - 1].todo
    BY <1>4, <2>3
  <2>5. /\ k = 1 => st[k].inst = 1 /\ st[k].path = <<1>>
        /\ k # 1 => /\ st[k].inst \in Descend(st[k - 1].inst) \ st[k - 1].todo
                    /\ st[k].path = Append(st[k - 1].path, st[k].inst)
        /\ st[k].todo \subseteq Descend(st[k].inst)
        /\ <<File(st[k].inst), st[k].path>> \in Occurrences
    BY <1>1, <1>2 DEF Chain
  <2>6. st2[k].todo \subseteq Descend(st2[k].inst)
    BY <2>2, <2>5
  <2>7. k # 1 => /\ st2[k].inst \in Descend(st2[k - 1].inst) \ st2[k - 1].todo
                 /\ st2[k].path = Append(st2[k - 1].path, st2[k].inst)
    BY <2>2, <2>4, <2>5
  <2> QED
    BY <2>2, <2>5, <2>6, <2>7
<1>7. PastTold(st2, rs)
  <2>1. SUFFICES ASSUME NEW k \in 1 .. l, NEW m \in Descend(st2[k].inst) \ st2[k].todo
                 PROVE  (k < l /\ st2[k + 1].inst = m) \/ Told(rs, File(m))
    BY <1>3, Zenon DEF PastTold
  <2>2. st2[k].inst = st[k].inst /\ st2[k].todo = IF k = l THEN st[k].todo \ {n} ELSE st[k].todo
    BY <1>4
  <2>3. CASE m = n
    BY <2>3
  <2>4. CASE m # n
    <3>1. m \in Descend(st[k].inst) \ st[k].todo
      BY <2>1, <2>2, <2>4
    <3>2. (k < l /\ st[k + 1].inst = m) \/ Told(rs, File(m))
      BY <1>1, <1>2, <3>1 DEF PastTold
    <3>3. k < l => k + 1 \in 1 .. l
      BY <1>3
    <3> QED
      BY <1>4, <3>2, <3>3
  <2> QED
    BY <2>3, <2>4
<1>8. Seen(st2, rs, sf, vf)
  <2>1. SUFFICES ASSUME NEW f \in Objs
                 PROVE  /\ f \in sf <=> \/ \E j \in 1 .. Len(rs) : File(rs[j][1]) = f /\ rs[j][2] = TRUE
                                        \/ \E k \in 1 .. l : File(st2[k].inst) = f /\ IsSynth(st2[k].path)
                        /\ f \in vf <=> \/ \E j \in 1 .. Len(rs) : File(rs[j][1]) = f /\ rs[j][2] = FALSE
                                        \/ \E k \in 1 .. l : File(st2[k].inst) = f /\ ~IsSynth(st2[k].path)
    BY <1>3, Zenon DEF Seen
  <2>2. /\ f \in sf <=> \/ \E j \in 1 .. Len(rs) : File(rs[j][1]) = f /\ rs[j][2] = TRUE
                        \/ \E k \in 1 .. l : File(st[k].inst) = f /\ IsSynth(st[k].path)
        /\ f \in vf <=> \/ \E j \in 1 .. Len(rs) : File(rs[j][1]) = f /\ rs[j][2] = FALSE
                        \/ \E k \in 1 .. l : File(st[k].inst) = f /\ ~IsSynth(st[k].path)
    BY <1>1, <1>2, Zenon DEF Seen
  <2> QED
    BY <1>4, <2>2, Zenon
<1> QED
  BY <1>1, <1>5, <1>6, <1>7, <1>8 DEF Walk

\* The last frame is done, and goes on the list.
Pops(st, rs, st2, rs2) ==
    /\ Len(st) # 0
    /\ st2 \in Seq(Frame) /\ Len(st2) = Len(st) - 1
    /\ \A k \in 1 .. Len(st) - 1 : st2[k] = st[k]
    /\ rs2 = Append(rs, <<st[Len(st)].inst, IsSynth(st[Len(st)].path)>>)

LEMMA PopWalk ==
    ASSUME IsTree(tree), NEW st, NEW rs, NEW sf, NEW vf, Walk(st, rs, sf, vf),
           NEW st2, NEW rs2, Pops(st, rs, st2, rs2), st[Len(st)].todo = {},
           \/ Descend(st[Len(st)].inst) = Children(File(st[Len(st)].inst))
           \/ Told(rs, File(st[Len(st)].inst))
    PROVE  Walk(st2, rs2, sf, vf)
<1>1. /\ Shape(st, rs, sf, vf) /\ Chain(st) /\ PastTold(st, rs) /\ Seen(st, rs, sf, vf)
      /\ ListBottomUp(rs)
  BY DEF Walk
<1>2. PICK l : l = Len(st)
  OBVIOUS
<1>3. PICK i : i = st[l].inst
  OBVIOUS
<1>4. PICK p : p = st[l].path
  OBVIOUS
<1>5. PICK m : m = Len(rs)
  OBVIOUS
<1>6. /\ l \in Nat /\ l # 0 /\ l \in 1 .. l /\ Len(st2) = l - 1 /\ m \in Nat
      /\ i \in Objs /\ IsSynth(p) \in BOOLEAN
  <2>1. l \in Nat /\ l # 0 /\ l \in 1 .. l /\ Len(st2) = l - 1 /\ m \in Nat
    BY <1>1, <1>2, <1>5, ShapeIs DEF Pops
  <2>2. i \in Objs
    BY <1>1, <1>2, <1>3, <2>1, ShapeIs
  <2> QED
    BY <2>1, <2>2 DEF IsSynth, InCone, IsPrefix
<1>7. \A k \in 1 .. l - 1 : st2[k] = st[k]
  BY <1>2, Zenon DEF Pops
<1>8. rs2 \in Seq(Objs \X BOOLEAN) /\ Len(rs2) = m + 1 /\ rs2[m + 1] = <<i, IsSynth(p)>>
      /\ \A j \in 1 .. m : rs2[j] = rs[j]
  <2>1. rs \in Seq(Objs \X BOOLEAN) /\ rs2 = Append(rs, <<i, IsSynth(p)>>)
    BY <1>1, <1>2, <1>3, <1>4 DEF Pops, Shape
  <2>2. PICK e : e = <<i, IsSynth(p)>>
    OBVIOUS
  <2>3. e \in Objs \X BOOLEAN
    BY <1>6, <2>2
  <2>4. /\ Append(rs, e) \in Seq(Objs \X BOOLEAN) /\ Len(Append(rs, e)) = m + 1
        /\ Append(rs, e)[m + 1] = e /\ \A j \in 1 .. m : Append(rs, e)[j] = rs[j]
    BY <1>5, <2>1, <2>3
  <2> QED
    BY <2>1, <2>2, <2>4
<1>9. /\ rs2[m + 1][1] = i /\ rs2[m + 1][2] = IsSynth(p)
      /\ \A j \in 1 .. m : j \in 1 .. m + 1
      /\ \A j \in 1 .. m + 1 : j \in 1 .. m \/ j = m + 1
      /\ m + 1 \in 1 .. m + 1
  BY <1>6, <1>8
<1>10. \A f : Told(rs2, f) <=> Told(rs, f) \/ f = File(i)
  BY <1>5, <1>8, <1>9 DEF Told
<1>11. Shape(st2, rs2, sf, vf)
  BY <1>1, <1>8 DEF Shape, Pops
<1>12. Chain(st2)
  <2>1. SUFFICES ASSUME NEW k \in 1 .. l - 1
                 PROVE  /\ k = 1 => st2[k].inst = 1 /\ st2[k].path = <<1>>
                        /\ k # 1 => /\ st2[k].inst \in Descend(st2[k - 1].inst) \ st2[k - 1].todo
                                    /\ st2[k].path = Append(st2[k - 1].path, st2[k].inst)
                        /\ st2[k].todo \subseteq Descend(st2[k].inst)
                        /\ <<File(st2[k].inst), st2[k].path>> \in Occurrences
    BY <1>6, Zenon DEF Chain
  <2>2. k \in 1 .. l /\ (k # 1 => k - 1 \in 1 .. l - 1)
    BY <1>6
  <2>3. st2[k] = st[k] /\ (k # 1 => st2[k - 1] = st[k - 1])
    BY <1>7, <2>2
  <2> QED
    BY <1>1, <1>2, <2>2, <2>3 DEF Chain
<1>13. PastTold(st2, rs2)
  <2>1. SUFFICES ASSUME NEW k \in 1 .. l - 1, NEW n \in Descend(st2[k].inst) \ st2[k].todo
                 PROVE  (k < l - 1 /\ st2[k + 1].inst = n) \/ Told(rs2, File(n))
    BY <1>6, Zenon DEF PastTold
  <2>2. k \in 1 .. l /\ st2[k] = st[k]
    BY <1>6, <1>7
  <2>3. (k < l /\ st[k + 1].inst = n) \/ Told(rs, File(n))
    BY <1>1, <1>2, <2>1, <2>2 DEF PastTold
  <2>4. CASE Told(rs, File(n))
    BY <1>10, <2>4
  <2>5. CASE k < l - 1 /\ st[k + 1].inst = n
    <3>1. k + 1 \in 1 .. l - 1
      BY <1>6, <2>5
    <3> QED
      BY <1>7, <2>5, <3>1
  <2>6. CASE ~(k < l - 1) /\ k < l /\ st[k + 1].inst = n
    <3>1. k + 1 = l
      BY <1>6, <2>6
    <3> QED
      BY <1>3, <1>10, <2>6, <3>1
  <2> QED
    BY <2>3, <2>4, <2>5, <2>6
<1>14. Seen(st2, rs2, sf, vf)
  <2>1. SUFFICES ASSUME NEW f \in Objs
                 PROVE  /\ f \in sf <=> \/ \E j \in 1 .. m + 1 : File(rs2[j][1]) = f /\ rs2[j][2] = TRUE
                                        \/ \E k \in 1 .. l - 1 : File(st2[k].inst) = f /\ IsSynth(st2[k].path)
                        /\ f \in vf <=> \/ \E j \in 1 .. m + 1 : File(rs2[j][1]) = f /\ rs2[j][2] = FALSE
                                        \/ \E k \in 1 .. l - 1 : File(st2[k].inst) = f /\ ~IsSynth(st2[k].path)
    BY <1>6, <1>8, Zenon DEF Seen
  <2>2. /\ f \in sf <=> \/ \E j \in 1 .. m : File(rs[j][1]) = f /\ rs[j][2] = TRUE
                        \/ \E k \in 1 .. l : File(st[k].inst) = f /\ IsSynth(st[k].path)
        /\ f \in vf <=> \/ \E j \in 1 .. m : File(rs[j][1]) = f /\ rs[j][2] = FALSE
                        \/ \E k \in 1 .. l : File(st[k].inst) = f /\ ~IsSynth(st[k].path)
    BY <1>1, <1>2, <1>5, Zenon DEF Seen
  <2>3. /\ (\E j \in 1 .. m + 1 : File(rs2[j][1]) = f /\ rs2[j][2] = TRUE)
              <=> \/ \E j \in 1 .. m : File(rs[j][1]) = f /\ rs[j][2] = TRUE
                  \/ File(i) = f /\ IsSynth(p)
        /\ (\E j \in 1 .. m + 1 : File(rs2[j][1]) = f /\ rs2[j][2] = FALSE)
              <=> \/ \E j \in 1 .. m : File(rs[j][1]) = f /\ rs[j][2] = FALSE
                  \/ File(i) = f /\ ~IsSynth(p)
    BY <1>6, <1>8, <1>9
  <2>4. /\ \A k \in 1 .. l : k \in 1 .. l - 1 \/ k = l
        /\ \A k \in 1 .. l - 1 : k \in 1 .. l
    BY <1>6
  <2>5. /\ (\E k \in 1 .. l : File(st[k].inst) = f /\ IsSynth(st[k].path))
              <=> \/ \E k \in 1 .. l - 1 : File(st2[k].inst) = f /\ IsSynth(st2[k].path)
                  \/ File(i) = f /\ IsSynth(p)
        /\ (\E k \in 1 .. l : File(st[k].inst) = f /\ ~IsSynth(st[k].path))
              <=> \/ \E k \in 1 .. l - 1 : File(st2[k].inst) = f /\ ~IsSynth(st2[k].path)
                  \/ File(i) = f /\ ~IsSynth(p)
    BY <1>3, <1>4, <1>6, <1>7, <2>4, Zenon
  <2> QED
    BY <2>2, <2>3, <2>5, Zenon
<1>15. ListBottomUp(rs2)
  <2>1. SUFFICES ASSUME NEW j \in 1 .. m + 1, NEW n \in Children(File(rs2[j][1]))
                 PROVE  \E h \in 1 .. m + 1 : h < j /\ File(rs2[h][1]) = File(n)
    BY <1>8, Zenon DEF ListBottomUp
  <2>2. CASE j \in 1 .. m
    <3>1. PICK h \in 1 .. m : h < j /\ File(rs[h][1]) = File(n)
      BY <1>1, <1>5, <1>8, <2>1, <2>2 DEF ListBottomUp
    <3> QED
      BY <1>8, <1>9, <3>1
  <2>3. CASE j = m + 1
    <3>1. n \in Children(File(i))
      BY <1>9, <2>1, <2>3
    <3>2. \E h \in 1 .. m : File(rs[h][1]) = File(n)
      <4>1. CASE Told(rs, File(i))
        <5>1. PICK g \in 1 .. m : File(rs[g][1]) = File(i)
          BY <1>5, <4>1 DEF Told
        <5> QED
          BY <1>1, <1>5, <3>1, <5>1 DEF ListBottomUp
      <4>2. CASE Descend(i) = Children(File(i))
        <5>1. n \in Descend(st[l].inst) \ st[l].todo
          BY <1>2, <1>3, <3>1, <4>2
        <5>2. Told(rs, File(n))
          BY <1>1, <1>2, <1>6, <5>1 DEF PastTold
        <5> QED
          BY <1>5, <5>2 DEF Told
      <4> QED
        BY <1>2, <1>3, <4>1, <4>2
    <3>3. PICK h \in 1 .. m : File(rs[h][1]) = File(n)
      BY <3>2
    <3>4. h < m + 1
      BY <1>6
    <3> QED
      BY <1>8, <1>9, <2>3, <3>3, <3>4
  <2> QED
    BY <1>9, <2>2, <2>3
<1> QED
  BY <1>11, <1>12, <1>13, <1>14, <1>15 DEF Walk

-----------------------------------------------------------------------------
(* The actions as such steps. *)

\* The tree is given: what is said of it before a step holds after it.
LEMMA WalkRigid ==
    ASSUME UNCHANGED given, Walk(stack', results', synthFiles', verifFiles')
    PROVE  Walk(stack, results, synthFiles, verifFiles)'
<1>1. tree' = tree /\ synthTop' = synthTop
  BY DEF given
<1>2. Shape(stack, results, synthFiles, verifFiles)'
  BY <1>1 DEF Walk, Shape, Frame, Objs
<1>3. Chain(stack)'
  BY <1>1 DEF Walk, Chain, File, Descend, OwnSubs, Objs, Occurrences
<1>4. PastTold(stack, results)'
  BY <1>1 DEF Walk, PastTold, Told, File, Descend, OwnSubs, Objs
<1>5. Seen(stack, results, synthFiles, verifFiles)'
  BY <1>1 DEF Walk, Seen, Objs, File, IsSynth, InCone
<1>6. ListBottomUp(results)'
  BY <1>1 DEF Walk, ListBottomUp, Children, File, Objs
<1> QED
  BY <1>2, <1>3, <1>4, <1>5, <1>6 DEF Walk

LEMMA LastFrame ==
    ASSUME NEW st, NEW rs, NEW sf, NEW vf, Walk(st, rs, sf, vf), st # <<>>
    PROVE  /\ Len(st) # 0 /\ Len(st) \in 1 .. Len(st) /\ Last(st) = st[Len(st)]
           /\ st[Len(st)].inst \in Objs /\ st[Len(st)].path \in Seq(Nat)
           /\ st[Len(st)].todo \subseteq Objs
           /\ st[Len(st)].todo \subseteq Descend(st[Len(st)].inst)
<1>1. Shape(st, rs, sf, vf) /\ Chain(st) /\ st \in Seq(Frame)
  BY DEF Walk, Shape
<1>2. Len(st) # 0
  BY <1>1
<1>3. Len(st) \in 1 .. Len(st)
  BY <1>1, <1>2, ShapeIs
<1> QED
  BY <1>1, <1>2, <1>3, ShapeIs DEF Last, Chain

LEMMA NextIsLeft ==
    ASSUME IsTree(tree), Walk(stack, results, synthFiles, verifFiles), stack # <<>>, Here.todo # {}
    PROVE  NextIs(stack, Next1, NextPath) /\ Next1 \in Descend(stack[Len(stack)].inst)
<1>1. PICK l : l = Len(stack)
  OBVIOUS
<1>2. /\ l # 0 /\ Here = stack[l] /\ stack[l].path \in Seq(Nat)
      /\ stack[l].todo \subseteq Objs /\ stack[l].todo \subseteq Descend(stack[l].inst)
  BY <1>1, LastFrame DEF Here
<1>3. Objs \subseteq Nat
  BY NumberedIs DEF IsTree, Objs
<1>4. Next1 \in stack[l].todo
  <2>1. PICK S : S = Here.todo
    OBVIOUS
  <2>2. S \subseteq Nat /\ S # {} /\ S = stack[l].todo
    BY <1>2, <1>3, <2>1
  <2>3. Min(S) \in S
    BY <2>2, Smallest
  <2> QED
    BY <2>1, <2>2, <2>3 DEF Next1
<1>5. PICK n : n = Next1
  OBVIOUS
<1>6. NextPath = Append(stack[l].path, n)
  BY <1>2, <1>5 DEF NextPath
<1>7. n \in Objs /\ n \in Nat /\ n \in stack[l].todo
  BY <1>2, <1>3, <1>4, <1>5
<1>8. Append(stack[l].path, n) \in Seq(Nat)
  BY <1>2, <1>7
<1> QED
  BY <1>1, <1>2, <1>5, <1>6, <1>7, <1>8 DEF NextIs

\* A stack whose last frame has n taken off what it has to do.
TakesOff(st, n, s) == s = [st EXCEPT ![Len(st)].todo = @ \ {n}]

LEMMA TakenOff ==
    ASSUME NEW st \in Seq(Frame), Len(st) # 0, NEW n, NEW s2, TakesOff(st, n, s2)
    PROVE  s2 \in Seq(Frame) /\ Drops(st, n, s2)
<1>1. PICK l : l = Len(st)
  OBVIOUS
<1>2. l \in Nat /\ l \in 1 .. l /\ DOMAIN st = 1 .. l /\ \A k \in 1 .. l : st[k] \in Frame
  BY <1>1
<1>3. PICK e : e = [st[l] EXCEPT !.todo = @ \ {n}]
  OBVIOUS
<1>4. /\ st[l].inst \in Objs /\ st[l].path \in Seq(Nat) /\ st[l].todo \in SUBSET Objs
      /\ st[l] = [inst |-> st[l].inst, path |-> st[l].path, todo |-> st[l].todo]
  BY <1>2 DEF Frame
<1>5. e = [inst |-> st[l].inst, path |-> st[l].path, todo |-> st[l].todo \ {n}]
  BY <1>3, <1>4
<1>6. /\ e \in Frame /\ e.inst = st[l].inst /\ e.path = st[l].path
      /\ e.todo = st[l].todo \ {n}
  BY <1>4, <1>5 DEF Frame
<1>7. PICK s : s = [st EXCEPT ![l] = e]
  OBVIOUS
<1>8. [st EXCEPT ![l].todo = @ \ {n}] = s
  BY <1>2, <1>3, <1>7
<1>9. s \in Seq(Frame) /\ Len(s) = l /\ \A k \in 1 .. l : s[k] = IF k = l THEN e ELSE st[k]
  BY <1>1, <1>2, <1>6, <1>7
<1>10. Drops(st, n, s)
  BY <1>1, <1>6, <1>9 DEF Drops
<1>11. s2 = s
  BY <1>1, <1>8 DEF TakesOff
<1> QED
  BY <1>9, <1>10, <1>11

LEMMA FrameIs ==
    ASSUME IsTree(tree), NEW n \in Objs, NEW p \in Seq(Nat)
    PROVE  [inst |-> n, path |-> p, todo |-> Descend(n)] \in Frame
<1>1. Descend(n) \subseteq Children(File(n))
  BY DescendIs
<1>2. Descend(n) \subseteq Objs
  BY <1>1 DEF Children
<1> QED
  BY <1>2 DEF Frame

LEMMA EnterIs ==
    ASSUME IsTree(tree), Walk(stack, results, synthFiles, verifFiles),
           NEW n, NEW p, NextIs(stack, n, p), Enter(n, p)
    PROVE  /\ Pushes(stack, n, p, stack')
           /\ Marks(n, p, synthFiles, verifFiles, synthFiles', verifFiles')
<1>1. PICK l : l = Len(stack)
  OBVIOUS
<1>2. PICK e : e = [inst |-> n, path |-> p, todo |-> Descend(n)]
  OBVIOUS
<1>3. e \in Frame /\ stack \in Seq(Frame) /\ l \in Nat
  BY <1>1, <1>2, FrameIs DEF NextIs, Walk, Shape
<1>4. stack' = Append(IF stack = <<>> THEN stack ELSE [stack EXCEPT ![l].todo = @ \ {n}], e)
  BY <1>1, <1>2, Zenon DEF Enter
<1>5. Marks(n, p, synthFiles, verifFiles, synthFiles', verifFiles')
  BY DEF Enter, Marks
<1>6. CASE stack = <<>>
  <2>4. stack' = Append(stack, e)
    BY <1>4, <1>6, Zenon
  <2>5. l = 0
    BY <1>1, <1>3, <1>6
  <2>1. l = 0 /\ stack' = Append(stack, e)
    BY <2>4, <2>5
  <2>2. stack' \in Seq(Frame) /\ Len(stack') = l + 1 /\ stack'[l + 1] = e
    BY <1>1, <1>3, <2>4
  <2>3. 1 .. l = {}
    BY <2>1
  <2> QED
    BY <1>1, <1>2, <1>5, <2>2, <2>3 DEF Pushes
<1>7. CASE stack # <<>>
  <2>1. PICK s : s = [stack EXCEPT ![l].todo = @ \ {n}]
    OBVIOUS
  <2>6. Len(stack) # 0 /\ l # 0
    BY <1>1, <1>3, <1>7
  <2>7. TakesOff(stack, n, s)
    BY <1>1, <2>1, Zenon DEF TakesOff
  <2>2. l # 0 /\ s \in Seq(Frame) /\ Drops(stack, n, s)
    BY <1>3, <2>6, <2>7, TakenOff
  <2>3. /\ Len(s) = l
        /\ \A k \in 1 .. l :
              /\ s[k].inst = stack[k].inst /\ s[k].path = stack[k].path
              /\ s[k].todo = IF k = l THEN stack[k].todo \ {n} ELSE stack[k].todo
    BY <1>1, <2>2, Zenon DEF Drops
  <2>4. stack' = Append(s, e)
    BY <1>4, <1>7, <2>1, Zenon
  <2>5. /\ stack' \in Seq(Frame) /\ Len(stack') = l + 1 /\ stack'[l + 1] = e
        /\ \A k \in 1 .. l : stack'[k] = s[k]
    BY <1>3, <2>2, <2>3, <2>4
  <2> QED
    BY <1>1, <1>2, <1>5, <2>3, <2>5 DEF Pushes
<1> QED
  BY <1>6, <1>7

LEMMA ListIs ==
    ASSUME Walk(stack, results, synthFiles, verifFiles), List
    PROVE  /\ Pops(stack, results, stack', results') /\ stack[Len(stack)].todo = {}
           /\ synthFiles' = synthFiles /\ verifFiles' = verifFiles
<1>1. PICK l : l = Len(stack)
  OBVIOUS
<1>2. stack \in Seq(Frame) /\ l \in Nat /\ stack # <<>> /\ l # 0
  BY <1>1 DEF Walk, Shape, List
<1>3. Here = stack[l]
  BY <1>1 DEF Here, Last
<1>4. stack' = SubSeq(stack, 1, l - 1)
  BY <1>1 DEF List, Front
<1>5. stack' \in Seq(Frame) /\ Len(stack') = l - 1 /\ \A k \in 1 .. l - 1 : stack'[k] = stack[k]
  BY <1>1, <1>2, <1>4
<1>6. /\ results' = Append(results, <<stack[l].inst, IsSynth(stack[l].path)>>)
      /\ stack[l].todo = {} /\ synthFiles' = synthFiles /\ verifFiles' = verifFiles
  BY <1>3 DEF List
<1> QED
  BY <1>1, <1>2, <1>5, <1>6 DEF Pops

LEMMA SkipTold ==
    ASSUME IsTree(tree), Walk(stack, results, synthFiles, verifFiles), stack # <<>>,
           Here.todo # {}, Skip(Next1, NextPath)
    PROVE  Told(results, File(Next1))
<1>1. PICK n : n = Next1
  OBVIOUS
<1>2. n \in Descend(stack[Len(stack)].inst)
  BY <1>1, NextIsLeft
<1>3. File(n) \in synthFiles \cup verifFiles
  BY <1>1 DEF Skip
<1>4. Len(stack) # 0
  BY LastFrame
<1>5. Told(results, File(n))
  BY <1>2, <1>3, <1>4, SeenTold
<1> QED
  BY <1>1, <1>5

LEMMA PruneIs ==
    ASSUME IsTree(tree), Walk(stack, results, synthFiles, verifFiles), Prune
    PROVE  /\ NextIs(stack, Next1, NextPath) /\ Skip(Next1, NextPath)
           /\ Drops(stack, Next1, stack')
           /\ results' = results /\ synthFiles' = synthFiles /\ verifFiles' = verifFiles
<1>1. PICK n : n = Next1
  OBVIOUS
<1>2. stack \in Seq(Frame) /\ Len(stack) # 0
  BY LastFrame DEF Walk, Shape, Prune
<1>3. TakesOff(stack, n, stack')
  BY <1>1, Zenon DEF TakesOff, Prune
<1>4. Drops(stack, n, stack')
  BY <1>2, <1>3, TakenOff
<1>5. NextIs(stack, Next1, NextPath)
  BY NextIsLeft DEF Prune
<1> QED
  BY <1>1, <1>4, <1>5 DEF Prune

\* Whatever comes next on the way down is entered, be it the top or not.
LEMMA StartIs ==
    ASSUME IsTree(tree), Walk(stack, results, synthFiles, verifFiles), Start
    PROVE  /\ NextIs(stack, 1, <<1>>) /\ Enter(1, <<1>>)
<1>1. Numbered(tree) /\ Objs = 1 .. Len(tree) /\ Len(tree) \in Nat /\ 1 \in 1 .. Len(tree)
  BY NumberedIs DEF IsTree, Objs
<1>2. 1 \in Objs /\ <<1>> \in Seq(Nat)
  BY <1>1
<1>3. stack = <<>>
  BY DEF Start
<1>4. Len(stack) = 0
  BY <1>3
<1> QED
  BY <1>2, <1>4 DEF NextIs, Start

\* What an action of the walk does to the walk.
LEMMA WalkNext ==
    ASSUME IsTree(tree), ~CloneOfClone,
           Walk(stack, results, synthFiles, verifFiles), [Next]_vars
    PROVE  Walk(stack, results, synthFiles, verifFiles)'
<1>1. UNCHANGED given
  BY DEF Next, vars, given, Start, Visit, Prune, List, Promote
<1>2. ASSUME NEW n, NEW p, NextIs(stack, n, p), Enter(n, p)
      PROVE  Walk(stack', results', synthFiles', verifFiles')
  <2>1. /\ Pushes(stack, n, p, stack')
        /\ Marks(n, p, synthFiles, verifFiles, synthFiles', verifFiles')
    BY <1>2, EnterIs
  <2>2. Walk(stack', results, synthFiles', verifFiles')
    BY <1>2, <2>1, PushWalk
  <2>3. results' = results
    BY <1>2 DEF Enter
  <2> QED
    BY <2>2, <2>3
<1>3. CASE Start
  <2>1. NextIs(stack, 1, <<1>>) /\ Enter(1, <<1>>)
    BY <1>3, StartIs
  <2>2. Walk(stack', results', synthFiles', verifFiles')
    BY <1>2, <2>1
  <2> QED
    BY <1>1, <2>2, WalkRigid
<1>4. CASE Visit
  <2>1. NextIs(stack, Next1, NextPath) /\ Enter(Next1, NextPath)
    BY <1>4, NextIsLeft DEF Visit
  <2>2. Walk(stack', results', synthFiles', verifFiles')
    BY <1>2, <2>1
  <2> QED
    BY <1>1, <2>2, WalkRigid
<1>5. CASE Prune
  <2>1. PICK n : n = Next1
    OBVIOUS
  <2>2. /\ Drops(stack, n, stack')
        /\ results' = results /\ synthFiles' = synthFiles /\ verifFiles' = verifFiles
    BY <1>5, <2>1, PruneIs
  <2>3. Told(results, File(n))
    BY <1>5, <2>1, SkipTold DEF Prune
  <2>4. Walk(stack', results, synthFiles, verifFiles)
    BY <2>2, <2>3, DropWalk
  <2> QED
    BY <1>1, <2>2, <2>4, WalkRigid
<1>6. CASE List
  <2>1. /\ Pops(stack, results, stack', results') /\ stack[Len(stack)].todo = {}
        /\ synthFiles' = synthFiles /\ verifFiles' = verifFiles
    BY <1>6, ListIs
  <2>2. stack[Len(stack)].inst \in Objs
    BY <1>6, LastFrame DEF List
  <2>3. Descend(stack[Len(stack)].inst) = Children(File(stack[Len(stack)].inst))
    BY <2>2, DescendIs
  <2>4. Walk(stack', results', synthFiles, verifFiles)
    BY <2>1, <2>3, PopWalk
  <2> QED
    BY <1>1, <2>1, <2>4, WalkRigid
<1>7. CASE Promote \/ UNCHANGED vars
  <2>1. /\ stack' = stack /\ results' = results
        /\ synthFiles' = synthFiles /\ verifFiles' = verifFiles
    BY <1>7 DEF vars, Promote
  <2>2. Walk(stack', results', synthFiles', verifFiles')
    BY <2>1
  <2> QED
    BY <1>1, <2>2, WalkRigid
<1> QED
  BY <1>3, <1>4, <1>5, <1>6, <1>7 DEF Next

LEMMA WalkInit ==
    ASSUME IsTree(tree), Init
    PROVE  Walk(stack, results, synthFiles, verifFiles)
<1>1. stack = <<>> /\ results = <<>> /\ synthFiles = {} /\ verifFiles = {}
  BY DEF Init
<1>2. Len(stack) = 0 /\ Len(results) = 0
  BY <1>1
<1>3. 1 .. 0 = {}
  OBVIOUS
<1>4. Shape(stack, results, synthFiles, verifFiles)
  BY <1>1 DEF Shape
<1>5. Chain(stack) /\ PastTold(stack, results) /\ ListBottomUp(results)
  BY <1>2, <1>3 DEF Chain, PastTold, ListBottomUp
<1>6. Seen(stack, results, synthFiles, verifFiles)
  BY <1>1, <1>2, <1>3 DEF Seen
<1> QED
  BY <1>4, <1>5, <1>6 DEF Walk

LEMMA TreeKept ==
    ASSUME IsTree(tree), [Next]_vars
    PROVE  IsTree(tree)'
<1>1. tree' = tree
  BY DEF Next, vars, given, Start, Visit, Prune, List, Promote
<1> QED
  BY <1>1 DEF IsTree, Numbered

-----------------------------------------------------------------------------
(* The order of the files. *)

FileNames == Objs \X {"v", "syn"}

\* A file is there once, after those of the modules it has instances of: of
\* what has been handled, and no more.
Compiled(od, T) ==
    /\ od \in Seq(FileNames) /\ IsInjective(od)
    /\ \A f \in T : f \in Objs /\ \E i \in 1 .. Len(od) : od[i] = <<f, "v">>
    /\ \A i \in 1 .. Len(od) :
          /\ od[i][1] \in T
          /\ \A n \in Children(od[i][1]) : \E j \in 1 .. Len(od) : j < i /\ od[j] = <<File(n), "v">>

Lists(name, od, od2) == od2 = Listed(name, od)

LEMMA ListedIs ==
    ASSUME NEW E, NEW od \in Seq(E), IsInjective(od), NEW name \in E, NEW od2, Lists(name, od, od2)
    PROVE  /\ od2 \in Seq(E) /\ IsInjective(od2) /\ Len(od) \in Nat /\ Len(od2) \in Nat
           /\ Len(od) <= Len(od2)
           /\ \A i \in 1 .. Len(od) : od2[i] = od[i]
           /\ \A i \in 1 .. Len(od2) : i \in 1 .. Len(od) \/ (od2[i] = name /\ i = Len(od) + 1)
           /\ \E i \in 1 .. Len(od2) : od2[i] = name
<1>1. PICK l : l = Len(od)
  OBVIOUS
<1>2. l \in Nat /\ DOMAIN od = 1 .. l
  BY <1>1
<1>3. CASE Contains(od, name)
  <2>1. od2 = od
    BY <1>3, Zenon DEF Lists, Listed
  <2>2. \E i \in 1 .. Len(od) : od[i] = name
    BY <1>3 DEF Contains
  <2> QED
    BY <1>1, <1>2, <2>1, <2>2
<1>4. CASE ~Contains(od, name)
  <2>1. od2 = Append(od, name)
    BY <1>4, Zenon DEF Lists, Listed
  <2>2. \A i \in 1 .. l : od[i] # name
    BY <1>1, <1>4 DEF Contains
  <2>3. od2 \in Seq(E) /\ Len(od2) = l + 1 /\ od2[l + 1] = name /\ \A i \in 1 .. l : od2[i] = od[i]
    BY <1>1, <2>1
  <2>4. \A i \in 1 .. l + 1 : i \in 1 .. l \/ i = l + 1
    BY <1>2
  <2>5. \A i, j \in 1 .. l : od[i] = od[j] => i = j
    BY <1>2 DEF IsInjective
  <2>6. \A i, j \in 1 .. l + 1 : od2[i] = od2[j] => i = j
    BY <2>2, <2>3, <2>4, <2>5
  <2>7. DOMAIN od2 = 1 .. l + 1
    BY <2>3
  <2>8. IsInjective(od2)
    BY <2>6, <2>7 DEF IsInjective
  <2>9. l + 1 \in 1 .. l + 1 /\ l <= l + 1
    BY <1>2
  <2> QED
    BY <1>1, <1>2, <2>3, <2>4, <2>8, <2>9
<1> QED
  BY <1>3, <1>4

LEMMA ListCompiled ==
    ASSUME NEW od, NEW T, Compiled(od, T), NEW f \in Objs, NEW k \in {"v", "syn"},
           k = "v" \/ f \in T, \A n \in Children(f) : File(n) \in T,
           NEW od2, Lists(<<f, k>>, od, od2)
    PROVE  Compiled(od2, T \cup {f})
<1>1. PICK name : name = <<f, k>>
  OBVIOUS
<1>2. name \in FileNames /\ name[1] = f
  BY <1>1 DEF FileNames
<1>3. /\ od2 \in Seq(FileNames) /\ IsInjective(od2) /\ Len(od) \in Nat /\ Len(od2) \in Nat
      /\ Len(od) <= Len(od2)
      /\ \A i \in 1 .. Len(od) : od2[i] = od[i]
      /\ \A i \in 1 .. Len(od2) : i \in 1 .. Len(od) \/ (od2[i] = name /\ i = Len(od) + 1)
      /\ \E i \in 1 .. Len(od2) : od2[i] = name
  <2>1. od \in Seq(FileNames) /\ IsInjective(od) /\ Lists(name, od, od2)
    BY <1>1 DEF Compiled
  <2> QED
    BY <1>2, <2>1, ListedIs
<1>4. PICK l : l = Len(od)
  OBVIOUS
<1>5. PICK m : m = Len(od2)
  OBVIOUS
<1>6. l \in Nat /\ m \in Nat /\ \A i \in 1 .. l : i \in 1 .. m
  BY <1>3, <1>4, <1>5
<1>7. /\ \A g \in T : g \in Objs /\ \E i \in 1 .. l : od[i] = <<g, "v">>
      /\ \A i \in 1 .. l :
            /\ od[i][1] \in T
            /\ \A n \in Children(od[i][1]) : \E j \in 1 .. l : j < i /\ od[j] = <<File(n), "v">>
  BY <1>4, Zenon DEF Compiled
<1>8. \A i \in 1 .. l : od2[i] = od[i]
  BY <1>3, <1>4
<1>9. \A i \in 1 .. m : i \in 1 .. l \/ (od2[i] = name /\ i = l + 1)
  BY <1>3, <1>4, <1>5
<1>10. ASSUME NEW g \in T \cup {f}
       PROVE  g \in Objs /\ \E i \in 1 .. m : od2[i] = <<g, "v">>
  <2>1. CASE g \in T
    BY <1>6, <1>7, <1>8, <2>1
  <2>2. CASE g \notin T
    <3>1. g = f /\ name = <<g, "v">>
      BY <1>1, <1>10, <2>2
    <3> QED
      BY <1>3, <1>5, <3>1
  <2> QED
    BY <2>1, <2>2
<1>11. ASSUME NEW i \in 1 .. m
       PROVE  /\ od2[i][1] \in T \cup {f}
              /\ \A n \in Children(od2[i][1]) : \E j \in 1 .. m : j < i /\ od2[j] = <<File(n), "v">>
  <2>1. CASE i \in 1 .. l
    BY <1>6, <1>7, <1>8, <2>1
  <2>2. CASE i \notin 1 .. l
    <3>1. od2[i][1] = f /\ i = l + 1
      BY <1>2, <1>9, <2>2
    <3>2. ASSUME NEW n \in Children(f)
          PROVE  \E j \in 1 .. m : j < i /\ od2[j] = <<File(n), "v">>
      <4>1. PICK j \in 1 .. l : od[j] = <<File(n), "v">>
        BY <1>7, <3>2
      <4>2. j < l + 1
        BY <1>6
      <4> QED
        BY <1>6, <1>8, <3>1, <4>1, <4>2
    <3> QED
      BY <3>1, <3>2
  <2> QED
    BY <2>1, <2>2
<1> QED
  BY <1>3, <1>5, <1>10, <1>11 DEF Compiled

Handled == {File(results[j][1]) : j \in 1 .. tagged}

OrderInv ==
    /\ tagged \in 0 .. Len(results)
    /\ Compiled(order, Handled)

LEMMA CompiledRigid ==
    ASSUME tree' = tree, NEW T, Compiled(order', T), Handled' = T
    PROVE  Compiled(order, Handled)'
BY DEF Compiled, FileNames, Objs, Children, File

\* What Promote does to the order, and to what has been handled.
LEMMA PromoteIs ==
    ASSUME IsTree(tree), Walk(stack, results, synthFiles, verifFiles), OrderInv, Promote
    PROVE  OrderInv'
<1>1. /\ tagged \in Nat /\ tagged < Len(results) /\ tagged + 1 \in 1 .. Len(results)
      /\ Len(results) \in Nat /\ Shape(stack, results, synthFiles, verifFiles)
      /\ ListBottomUp(results) /\ Compiled(order, Handled)
  BY ShapeIs DEF Promote, OrderInv, Walk
<1>2. PICK t : t = tagged
  OBVIOUS
<1>3. PICK i : i = results[t + 1][1]
  OBVIOUS
<1>4. i \in Objs /\ File(i) \in Objs
  BY <1>1, <1>2, <1>3, ShapeIs, FilesAre
<1>5. PICK f : f = File(i)
  OBVIOUS
<1>6. PICK od1 : od1 = Listed(<<f, "v">>, order)
  OBVIOUS
<1>7. /\ tree' = tree /\ results' = results /\ tagged' = t + 1
      /\ order' = IF f = synonymOf THEN Listed(<<f, "syn">>, od1) ELSE od1
  BY <1>2, <1>3, <1>5, <1>6, Zenon DEF Promote, given
<1>8. PICK T : T = Handled
  OBVIOUS
<1>9. T \subseteq Objs
  <2>1. \A j \in 1 .. tagged : results[j][1] \in Objs
    BY <1>1, ShapeIs
  <2> QED
    BY <1>8, <2>1, FilesAre DEF Handled
<1>10. \A n \in Children(f) : File(n) \in T
  <2>1. SUFFICES ASSUME NEW n \in Children(f) PROVE File(n) \in T
    OBVIOUS
  <2>2. PICK j \in 1 .. Len(results) : j < t + 1 /\ File(results[j][1]) = File(n)
    BY <1>1, <1>2, <1>3, <1>5 DEF ListBottomUp
  <2>3. j \in 1 .. tagged
    BY <1>1, <1>2, <2>2
  <2> QED
    BY <1>8, <2>2, <2>3 DEF Handled
<1>11. Compiled(od1, T \cup {f})
  <2>1. Lists(<<f, "v">>, order, od1)
    BY <1>6 DEF Lists
  <2> QED
    BY <1>1, <1>4, <1>5, <1>8, <1>9, <1>10, <2>1, ListCompiled
<1>12. Compiled(order', T \cup {f})
  <2>1. CASE f = synonymOf
    <3>1. PICK od2 : od2 = order'
      OBVIOUS
    <3>2. Lists(<<f, "syn">>, od1, od2)
      BY <1>7, <2>1, <3>1 DEF Lists
    <3>3. PICK T2 : T2 = T \cup {f}
      OBVIOUS
    <3>4. f \in T2 /\ \A n \in Children(f) : File(n) \in T2
      BY <1>10, <3>3
    <3>5. Compiled(od2, T2 \cup {f})
      BY <1>4, <1>5, <1>11, <3>2, <3>3, <3>4, ListCompiled
    <3>6. T2 \cup {f} = T \cup {f}
      BY <3>3
    <3> QED
      BY <3>1, <3>5, <3>6
  <2>2. CASE f # synonymOf
    BY <1>7, <1>11, <2>2
  <2> QED
    BY <2>1, <2>2
<1>13. Handled' = T \cup {f}
  <2>1. /\ Handled = {File(results[j][1]) : j \in 1 .. t}
        /\ Handled' = {File(results[j][1]) : j \in 1 .. t + 1}
    BY <1>2, <1>7 DEF Handled, File
  <2>2. \A j \in 1 .. t + 1 : j \in 1 .. t \/ j = t + 1
    BY <1>1, <1>2
  <2>3. (\A j \in 1 .. t : j \in 1 .. t + 1) /\ t + 1 \in 1 .. t + 1
    BY <1>1, <1>2
  <2>4. File(results[t + 1][1]) = f
    BY <1>3, <1>5
  <2>5. \A x : (\E j \in 1 .. t + 1 : x = File(results[j][1]))
                <=> (\E j \in 1 .. t : x = File(results[j][1])) \/ x = f
    BY <2>2, <2>3, <2>4, Zenon
  <2> QED
    BY <1>8, <2>1, <2>5
<1>14. Compiled(order, Handled)'
  BY <1>7, <1>12, <1>13, CompiledRigid
<1>15. (tagged \in 0 .. Len(results))'
  BY <1>1, <1>2, <1>7
<1> QED
  BY <1>14, <1>15 DEF OrderInv

LEMMA OrderNext ==
    ASSUME IsTree(tree), Walk(stack, results, synthFiles, verifFiles), OrderInv, [Next]_vars
    PROVE  OrderInv'
<1>1. CASE Promote
  BY <1>1, PromoteIs
<1>2. CASE List
  <2>1. tree' = tree /\ tagged' = tagged /\ order' = order
    BY <1>2 DEF List, given
  <2>2. PICK e : e = <<stack[Len(stack)].inst, IsSynth(stack[Len(stack)].path)>>
    OBVIOUS
  <2>3. results' = Append(results, e) /\ Len(results) \in Nat
    BY <1>2, <2>2, ListIs, ShapeIs DEF Pops, Walk
  <2>4. results \in Seq(Objs \X BOOLEAN)
    BY DEF Walk, Shape
  <2>5. Len(results') = Len(results) + 1 /\ \A j \in 1 .. Len(results) : results'[j] = results[j]
    BY <2>3, <2>4
  <2>6. tagged \in Nat /\ tagged <= Len(results)
    BY <2>3 DEF OrderInv
  <2>7. \A j \in 1 .. tagged : results'[j] = results[j]
    BY <2>3, <2>5, <2>6
  <2>8. Handled' = Handled
    BY <2>1, <2>7 DEF Handled, File
  <2>9. tagged' \in 0 .. Len(results')
    BY <2>1, <2>3, <2>5, <2>6
  <2> QED
    BY <2>1, <2>8, <2>9, CompiledRigid DEF OrderInv
<1>3. CASE Start \/ Visit \/ Prune \/ UNCHANGED vars
  <2>1. tree' = tree /\ results' = results /\ tagged' = tagged /\ order' = order
    BY <1>3 DEF Start, Visit, Prune, Enter, given, vars
  <2>2. Handled' = Handled
    BY <2>1 DEF Handled, File
  <2> QED
    BY <2>1, <2>2, CompiledRigid DEF OrderInv
<1> QED
  BY <1>1, <1>2, <1>3 DEF Next

LEMMA OrderInit ==
    ASSUME Init
    PROVE  OrderInv
<1>1. results = <<>> /\ tagged = 0 /\ order = <<>>
  BY DEF Init
<1>2. Len(results) = 0 /\ Len(order) = 0 /\ 1 .. 0 = {} /\ DOMAIN order = {} /\ order \in Seq(FileNames)
  BY <1>1
<1>3. Handled = {}
  BY <1>1, <1>2 DEF Handled
<1>4. IsInjective(order)
  BY <1>2 DEF IsInjective
<1> QED
  BY <1>1, <1>2, <1>3, <1>4 DEF OrderInv, Compiled

LEMMA OrderBottomUp ==
    ASSUME IsTree(tree), OrderInv
    PROVE  BottomUp
<1>1. Compiled(order, Handled)
  BY DEF OrderInv
<1>2. IsInjective(order) /\ DOMAIN order = 1 .. Len(order)
  BY <1>1 DEF Compiled
<1>3. ASSUME NEW i \in DOMAIN order, NEW j \in DOMAIN order, NEW n \in Objs,
             tree[n].parent = order[i][1], order[j] = <<File(n), "v">>
      PROVE  j < i
  <2>1. n \in Children(order[i][1])
    BY <1>3 DEF Children
  <2>2. PICK k \in 1 .. Len(order) : k < i /\ order[k] = <<File(n), "v">>
    BY <1>1, <1>2, <2>1 DEF Compiled
  <2>3. k = j
    BY <1>2, <1>3, <2>2 DEF IsInjective
  <2> QED
    BY <2>2, <2>3
<1> QED
  BY <1>2, <1>3 DEF BottomUp

-----------------------------------------------------------------------------
(* On which sides what is reached gets. *)

\* The file of n was seen on the side of its path q.
Reached(n, q, sf, vf) == IF IsSynth(q) THEN File(n) \in sf ELSE File(n) \in vf

PastReached(st, sf, vf) ==
    \A k \in 1 .. Len(st) : \A n \in Descend(st[k].inst) \ st[k].todo :
        Reached(n, Append(st[k].path, n), sf, vf)

\* An entry of the list stands for an occurrence on its side, below which all
\* was reached.
ListReached(rs, sf, vf) ==
    \A j \in 1 .. Len(rs) : \E p :
        /\ <<File(rs[j][1]), p>> \in Occurrences /\ IsSynth(p) = rs[j][2]
        /\ \A n \in Children(File(rs[j][1])) : Reached(n, Append(p, n), sf, vf)

Begun(st, rs) == Len(st) # 0 \/ Len(rs) # 0

RootReached(st, rs, sf, vf) == Begun(st, rs) => Reached(1, <<1>>, sf, vf)

\* A frame with an instance left that is on the way to --synth-top.
Leads(fr) == IsStrictPrefix(fr.path, synthTop) /\ synthTop[Len(fr.path) + 1] \in fr.todo

\* --synth-top was got to, or will be.
OnWay(st, rs, sf) ==
    Begun(st, rs) =>
        \A f \in Objs : <<f, synthTop>> \in Occurrences =>
            f \in sf \/ \E k \in 1 .. Len(st) : Leads(st[k])

Sided(st, rs, sf, vf) ==
    /\ PastReached(st, sf, vf)
    /\ ListReached(rs, sf, vf)
    /\ RootReached(st, rs, sf, vf)
    /\ OnWay(st, rs, sf)

Side(j) == IF results[j][2] THEN "synth" ELSE "verif"

TagOf ==
    /\ \A j \in 1 .. tagged : \A name \in Names(results[j][1]) :
          name \in DOMAIN tags /\ tags[name] \in {Side(j), "synth_and_verif"}
    /\ \A name \in DOMAIN tags :
          /\ tags[name] \in {"synth", "verif", "synth_and_verif"}
          /\ \A side \in {"synth", "verif"} :
                tags[name] \in {side, "synth_and_verif"} =>
                    \E j \in 1 .. tagged : name \in Names(results[j][1]) /\ Side(j) = side

\* A path goes from each instance to one of its module's body.
Steps(p) ==
    /\ p \in Seq(Nat) /\ Len(p) # 0 /\ p[1] = 1
    /\ \A k \in 1 .. Len(p) : p[k] \in Objs
    /\ \A k \in 1 .. Len(p) - 1 : p[k + 1] \in Children(File(p[k]))

LEMMA PathSteps ==
    ASSUME IsTree(tree)
    PROVE  \A u \in Occurrences : Steps(u[2]) /\ u[1] = File(u[2][Len(u[2])])
<1>0. Numbered(tree) /\ Len(tree) \in Nat /\ Objs = 1 .. Len(tree) /\ 1 \in 1 .. Len(tree)
  BY NumberedIs DEF IsTree, Objs
<1> DEFINE P == {u \in Hierarchy(tree) : Steps(u[2])}
<1>1. First \in P
  <2>1. PICK p : p = <<1>>
    OBVIOUS
  <2>2. p \in Seq(Nat) /\ Len(p) = 1 /\ p[1] = 1 /\ 1 \in Objs
    BY <1>0, <2>1
  <2>3. \A k \in 1 .. Len(p) : k = 1
    BY <2>2
  <2>4. 1 .. Len(p) - 1 = {}
    BY <2>2
  <2>5. Steps(p)
    BY <2>2, <2>3, <2>4 DEF Steps
  <2> QED
    BY <2>1, <2>5, OccurrencesAre DEF First
<1>2. ASSUME NEW u \in Hierarchy(tree), u \in P
      PROVE  Under(tree, u) \subseteq P
  <2>1. SUFFICES ASSUME NEW n \in DOMAIN tree, tree[n].parent = u[1],
                        NEW w, w = <<OriginIn(tree, n), Append(u[2], n)>>
                 PROVE  Steps(w[2])
    BY <1>2, OccurrencesAre DEF Under
  <2>2. PICK p : p = u[2]
    OBVIOUS
  <2>3. PICK l : l = Len(p)
    OBVIOUS
  <2>4. /\ p \in Seq(Nat) /\ l # 0 /\ l \in Nat /\ p[1] = 1
        /\ \A k \in 1 .. l : p[k] \in Objs
        /\ \A k \in 1 .. l - 1 : p[k + 1] \in Children(File(p[k]))
    BY <1>2, <2>2, <2>3 DEF Steps
  <2>5. n \in Nat /\ n \in Objs
    BY <1>0, <2>1 DEF Objs
  <2>6. n \in Children(File(p[l]))
    BY <1>2, <2>1, <2>2, <2>3, <2>5, OccurrencesAre DEF Children, File, Last
  <2>7. PICK q : q = Append(p, n)
    OBVIOUS
  <2>8. q \in Seq(Nat) /\ Len(q) = l + 1 /\ q[l + 1] = n /\ \A k \in 1 .. l : q[k] = p[k]
    BY <2>3, <2>4, <2>5, <2>7
  <2>9. l \in 1 .. l /\ 1 \in 1 .. l
    BY <2>4
  <2>10. ASSUME NEW k \in 1 .. l + 1
         PROVE  q[k] \in Objs
    <3>1. k \in 1 .. l \/ k = l + 1
      BY <2>4
    <3> QED
      BY <2>4, <2>5, <2>8, <3>1
  <2>11. ASSUME NEW k \in 1 .. l
         PROVE  q[k + 1] \in Children(File(q[k]))
    <3>1. k = l \/ (k \in 1 .. l - 1 /\ k + 1 \in 1 .. l)
      BY <2>4
    <3> QED
      BY <2>4, <2>6, <2>8, <3>1
  <2>12. (l + 1) - 1 = l
    BY <2>4
  <2>13. Steps(q)
    BY <2>4, <2>8, <2>9, <2>10, <2>11, <2>12 DEF Steps
  <2> QED
    BY <2>1, <2>2, <2>7, <2>13
<1>3. Hierarchy(tree) \subseteq P
  <2> HIDE DEF P
  <2> QED
    BY <1>0, <1>1, <1>2, OccurrenceInduction
<1> QED
  BY <1>3, OccurrencesAre DEF Occurrences, File, Last

\* What is got to at --synth-top or on the way to it leads on, or is it.
LEMMA Onward ==
    ASSUME IsTree(tree), ~CloneOfClone, NEW f, <<f, synthTop>> \in Occurrences,
           NEW n \in Objs, NEW p \in Seq(Nat), Len(p) # 0, p[Len(p)] = n, IsPrefix(p, synthTop)
    PROVE  \/ p = synthTop /\ IsSynth(p) /\ f = File(n)
           \/ ~IsSynth(p) /\ Leads([inst |-> n, path |-> p, todo |-> Descend(n)])
<1>1. PICK u : u = <<f, synthTop>>
  OBVIOUS
<1>2. Steps(synthTop) /\ f = File(synthTop[Len(synthTop)])
  <2>1. Steps(u[2]) /\ u[1] = File(u[2][Len(u[2])])
    BY <1>1, PathSteps
  <2> QED
    BY <1>1, <2>1
<1>3. PICK l : l = Len(p)
  OBVIOUS
<1>4. PICK m : m = Len(synthTop)
  OBVIOUS
<1>5. synthTop \in Seq(Nat) /\ l \in Nat /\ m \in Nat /\ l # 0 /\ m # 0 /\ synthTop # <<>>
  BY <1>2, <1>3, <1>4 DEF Steps
<1>6. l <= m /\ \A i \in 1 .. l : p[i] = synthTop[i]
  BY <1>3, <1>4, <1>5, PrefixIs
<1>7. CASE p = synthTop
  <2>1. IsPrefix(synthTop, p)
    BY <1>7
  <2>2. IsSynth(p)
    BY <1>5, <2>1 DEF IsSynth, InCone
  <2> QED
    BY <1>2, <1>7, <2>2
<1>8. CASE p # synthTop
  <2>1. l < m
    <3>1. ASSUME l = m
          PROVE  p = synthTop
      <4>1. /\ p = [i \in 1 .. l |-> p[i]]
            /\ synthTop = [i \in 1 .. m |-> synthTop[i]]
        BY <1>3, <1>4, <1>5
      <4>2. [i \in 1 .. l |-> p[i]] = [i \in 1 .. l |-> synthTop[i]]
        BY <1>6
      <4> QED
        BY <3>1, <4>1, <4>2
    <3> QED
      BY <1>5, <1>6, <1>8, <3>1
  <2>2. ~IsSynth(p)
    BY <1>3, <1>4, <1>5, <2>1, PrefixIs DEF IsSynth, InCone
  <2>3. l \in 1 .. l /\ l \in 1 .. m - 1
    BY <1>5, <2>1
  <2>4. synthTop[l + 1] \in Children(File(n))
    <3>1. synthTop[l] = n
      BY <1>3, <1>6, <2>3
    <3>2. synthTop[l + 1] \in Children(File(synthTop[l]))
      BY <1>2, <1>4, <2>3 DEF Steps
    <3> QED
      BY <3>1, <3>2
  <2>5. synthTop[l + 1] \in Descend(n)
    BY <2>4, DescendIs
  <2> QED
    BY <1>3, <1>8, <2>2, <2>5 DEF Leads, IsStrictPrefix
<1> QED
  BY <1>7, <1>8

LEMMA ReachedMore ==
    ASSUME NEW sf, NEW vf, NEW sf2, NEW vf2, sf \subseteq sf2, vf \subseteq vf2
    PROVE  /\ \A n, q : Reached(n, q, sf, vf) => Reached(n, q, sf2, vf2)
           /\ \A rs : ListReached(rs, sf, vf) => ListReached(rs, sf2, vf2)
<1>1. \A n, q : Reached(n, q, sf, vf) => Reached(n, q, sf2, vf2)
  BY DEF Reached
<1>2. ASSUME NEW rs, ListReached(rs, sf, vf), NEW j \in 1 .. Len(rs)
      PROVE  \E p :
                /\ <<File(rs[j][1]), p>> \in Occurrences /\ IsSynth(p) = rs[j][2]
                /\ \A n \in Children(File(rs[j][1])) : Reached(n, Append(p, n), sf2, vf2)
  <2>1. PICK p : /\ <<File(rs[j][1]), p>> \in Occurrences /\ IsSynth(p) = rs[j][2]
                 /\ \A n \in Children(File(rs[j][1])) : Reached(n, Append(p, n), sf, vf)
    BY <1>2, Zenon DEF ListReached
  <2> QED
    BY <1>1, <2>1, Zenon
<1> QED
  BY <1>1, <1>2, Zenon DEF ListReached

LEMMA MarksMore ==
    ASSUME NEW n, NEW p, NEW sf, NEW vf, NEW sf2, NEW vf2, Marks(n, p, sf, vf, sf2, vf2)
    PROVE  sf \subseteq sf2 /\ vf \subseteq vf2 /\ Reached(n, p, sf2, vf2)
BY DEF Marks, Reached

\* What the walk goes to next is on its way to --synth-top or not.
LEMMA NextLeads ==
    ASSUME IsTree(tree), synthTop \in Seq(Nat), NEW st, NEW rs, NEW sf, NEW vf,
           Walk(st, rs, sf, vf), NEW n, NEW p, NextIs(st, n, p), Len(st) # 0,
           NEW f, <<f, synthTop>> \in Occurrences
    PROVE  /\ Leads(st[Len(st)]) /\ synthTop[Len(st[Len(st)].path) + 1] = n => IsPrefix(p, synthTop)
           /\ Len(p) # 0 /\ p[Len(p)] = n
<1>1. PICK q : q = st[Len(st)].path
  OBVIOUS
<1>2. Shape(st, rs, sf, vf) /\ Len(st) \in Nat
  BY ShapeIs DEF Walk
<1>3. Len(st) \in 1 .. Len(st)
  BY <1>2
<1>4. q \in Seq(Nat)
  BY <1>1, <1>2, <1>3, ShapeIs
<1>5. p = Append(q, n) /\ n \in Nat
  <2>1. Numbered(tree) /\ Objs = 1 .. Len(tree) /\ Len(tree) \in Nat
    BY NumberedIs DEF IsTree, Objs
  <2>2. p = Append(q, n) /\ n \in Objs
    BY <1>1 DEF NextIs
  <2> QED
    BY <2>1, <2>2
<1>6. Len(p) # 0 /\ p[Len(p)] = n
  BY <1>4, <1>5
<1>7. IsStrictPrefix(q, synthTop) /\ synthTop[Len(q) + 1] = n => IsPrefix(p, synthTop)
  BY <1>4, <1>5, ConeBelow
<1> QED
  BY <1>1, <1>6, <1>7 DEF Leads

LEMMA PushSided ==
    ASSUME IsTree(tree), ~CloneOfClone, synthTop \in Seq(Nat), NEW st, NEW rs, NEW sf, NEW vf,
           Walk(st, rs, sf, vf), Sided(st, rs, sf, vf),
           NEW n, NEW p, NextIs(st, n, p), NEW st2, Pushes(st, n, p, st2),
           NEW sf2, NEW vf2, Marks(n, p, sf, vf, sf2, vf2)
    PROVE  Sided(st2, rs, sf2, vf2)
<1>1. /\ PastReached(st, sf, vf) /\ ListReached(rs, sf, vf) /\ RootReached(st, rs, sf, vf)
      /\ OnWay(st, rs, sf) /\ Shape(st, rs, sf, vf)
  BY DEF Sided, Walk
<1>2. PICK l : l = Len(st)
  OBVIOUS
<1>3. l \in Nat /\ Len(st2) = l + 1 /\ n \in Objs /\ p \in Seq(Nat)
  BY <1>1, <1>2, ShapeIs DEF Pushes, NextIs
<1>4. \A k \in 1 .. l : /\ st2[k].inst = st[k].inst /\ st2[k].path = st[k].path
                        /\ st2[k].todo = IF k = l THEN st[k].todo \ {n} ELSE st[k].todo
  BY <1>2, Zenon DEF Pushes
<1>5. PICK e : e = [inst |-> n, path |-> p, todo |-> Descend(n)]
  OBVIOUS
<1>6. st2[l + 1] = e /\ e.inst = n /\ e.path = p /\ e.todo = Descend(n)
  BY <1>2, <1>5 DEF Pushes
<1>7. sf \subseteq sf2 /\ vf \subseteq vf2 /\ Reached(n, p, sf2, vf2)
  BY MarksMore
<1>8. \A m, q : Reached(m, q, sf, vf) => Reached(m, q, sf2, vf2)
  BY <1>7, ReachedMore
<1>9. PastReached(st2, sf2, vf2)
  <2>1. SUFFICES ASSUME NEW k \in 1 .. l + 1, NEW m \in Descend(st2[k].inst) \ st2[k].todo
                 PROVE  Reached(m, Append(st2[k].path, m), sf2, vf2)
    BY <1>3, Zenon DEF PastReached
  <2>2. k # l + 1
    BY <1>6, <2>1
  <2>3. k \in 1 .. l
    BY <1>3, <2>2
  <2>4. CASE m \notin st[k].todo
    <3>1. m \in Descend(st[k].inst) \ st[k].todo
      BY <1>4, <2>1, <2>3, <2>4
    <3>2. Reached(m, Append(st[k].path, m), sf, vf)
      BY <1>1, <1>2, <2>3, <3>1, Zenon DEF PastReached
    <3> QED
      BY <1>4, <1>8, <2>3, <3>2
  <2>5. CASE m \in st[k].todo
    <3>1. k = l /\ m = n
      BY <1>4, <2>1, <2>3, <2>5
    <3>2. Len(st) # 0
      BY <1>2, <2>3, <3>1
    <3>3. p = Append(st[l].path, n)
      BY <1>2, <3>2 DEF NextIs
    <3> QED
      BY <1>4, <1>7, <2>3, <3>1, <3>3
  <2> QED
    BY <2>4, <2>5
<1>10. ListReached(rs, sf2, vf2)
  BY <1>1, <1>7, ReachedMore
<1>11. RootReached(st2, rs, sf2, vf2)
  <2>1. CASE Begun(st, rs)
    BY <1>1, <1>8, <2>1 DEF RootReached
  <2>2. CASE ~Begun(st, rs)
    <3>1. n = 1 /\ p = <<1>>
      BY <2>2 DEF Begun, NextIs
    <3> QED
      BY <1>7, <3>1 DEF RootReached
  <2> QED
    BY <2>1, <2>2
<1>12. ASSUME NEW f \in Objs, <<f, synthTop>> \in Occurrences
       PROVE  f \in sf2 \/ \E k \in 1 .. l + 1 : Leads(st2[k])
  <2>1. CASE Len(p) # 0 /\ p[Len(p)] = n /\ IsPrefix(p, synthTop)
    <3>1. \/ p = synthTop /\ IsSynth(p) /\ f = File(n)
          \/ ~IsSynth(p) /\ Leads(e)
      BY <1>3, <1>5, <1>12, <2>1, Onward
    <3>2. l + 1 \in 1 .. l + 1
      BY <1>3
    <3> QED
      BY <1>6, <1>7, <3>1, <3>2 DEF Reached
  <2>2. CASE Begun(st, rs) /\ ~(Len(p) # 0 /\ p[Len(p)] = n /\ IsPrefix(p, synthTop))
    <3>1. CASE f \in sf
      BY <1>7, <3>1
    <3>2. CASE f \notin sf
      <4>1. PICK k \in 1 .. l : Leads(st[k])
        BY <1>1, <1>2, <1>12, <2>2, <3>2 DEF OnWay
      <4>2. CASE k = l
        <5>1. Len(st) # 0
          BY <1>2, <1>3, <4>1, <4>2
        <5>2. synthTop[Len(st[l].path) + 1] # n
          BY <1>2, <1>12, <2>2, <4>1, <4>2, <5>1, NextLeads
        <5>3. st2[l].path = st[l].path /\ st2[l].todo = st[l].todo \ {n}
          BY <1>4, <4>1, <4>2
        <5>4. Leads(st2[l])
          BY <4>1, <4>2, <5>2, <5>3 DEF Leads
        <5> QED
          BY <1>3, <4>1, <4>2, <5>4
      <4>3. CASE k # l
        <5>1. st2[k].path = st[k].path /\ st2[k].todo = st[k].todo
          BY <1>4, <4>1, <4>3
        <5>2. Leads(st2[k]) /\ k \in 1 .. l + 1
          BY <1>3, <4>1, <5>1 DEF Leads
        <5> QED
          BY <5>2
      <4> QED
        BY <4>2, <4>3
    <3> QED
      BY <3>1, <3>2
  <2>3. CASE ~Begun(st, rs)
    <3>1. n = 1 /\ p = <<1>>
      BY <2>3 DEF Begun, NextIs
    <3>2. Len(p) = 1 /\ p[1] = 1 /\ Len(synthTop) \in Nat
      BY <3>1
    <3>3. PICK u : u = <<f, synthTop>>
      OBVIOUS
    <3>4. Steps(u[2])
      BY <1>12, <3>3, PathSteps
    <3>5. Len(synthTop) # 0 /\ synthTop[1] = 1
      BY <3>3, <3>4 DEF Steps
    <3>6. IsPrefix(p, synthTop)
      BY <1>3, <3>2, <3>5, PrefixIs
    <3> QED
      BY <2>1, <3>1, <3>2, <3>6
  <2> QED
    BY <2>1, <2>2, <2>3
<1>13. OnWay(st2, rs, sf2)
  BY <1>3, <1>12 DEF OnWay
<1> QED
  BY <1>9, <1>10, <1>11, <1>13 DEF Sided

\* n is skipped where the walk has been on that side, not on the way to --synth-top.
Passes(n, p, sf, vf) == Reached(n, p, sf, vf) /\ (OnSynthPath(p) => IsSynth(p))

LEMMA DropSided ==
    ASSUME IsTree(tree), ~CloneOfClone, synthTop \in Seq(Nat), NEW st, NEW rs, NEW sf, NEW vf,
           Walk(st, rs, sf, vf), Sided(st, rs, sf, vf), Len(st) # 0,
           NEW n, NEW p, NextIs(st, n, p), Passes(n, p, sf, vf), NEW st2, Drops(st, n, st2)
    PROVE  Sided(st2, rs, sf, vf)
<1>1. /\ PastReached(st, sf, vf) /\ ListReached(rs, sf, vf) /\ RootReached(st, rs, sf, vf)
      /\ OnWay(st, rs, sf) /\ Shape(st, rs, sf, vf)
  BY DEF Sided, Walk
<1>2. PICK l : l = Len(st)
  OBVIOUS
<1>3. l \in Nat /\ l # 0 /\ Len(st2) = l /\ n \in Objs /\ p \in Seq(Nat)
  BY <1>1, <1>2, ShapeIs DEF Drops, NextIs
<1>4. \A k \in 1 .. l : /\ st2[k].inst = st[k].inst /\ st2[k].path = st[k].path
                        /\ st2[k].todo = IF k = l THEN st[k].todo \ {n} ELSE st[k].todo
  BY <1>2, Zenon DEF Drops
<1>5. PICK e : e = [inst |-> n, path |-> p, todo |-> Descend(n)]
  OBVIOUS
<1>6. e.path = p
  BY <1>5
<1>7. PastReached(st2, sf, vf)
  <2>1. SUFFICES ASSUME NEW k \in 1 .. l, NEW m \in Descend(st2[k].inst) \ st2[k].todo
                 PROVE  Reached(m, Append(st2[k].path, m), sf, vf)
    BY <1>3, Zenon DEF PastReached
  <2>2. CASE m \notin st[k].todo
    <3>1. m \in Descend(st[k].inst) \ st[k].todo
      BY <1>4, <2>1, <2>2
    <3>2. Reached(m, Append(st[k].path, m), sf, vf)
      BY <1>1, <1>2, <3>1, Zenon DEF PastReached
    <3> QED
      BY <1>4, <3>2
  <2>3. CASE m \in st[k].todo
    <3>1. k = l /\ m = n
      BY <1>4, <2>1, <2>3
    <3>2. p = Append(st[l].path, n)
      BY <1>2 DEF NextIs
    <3> QED
      BY <1>4, <3>1, <3>2 DEF Passes
  <2> QED
    BY <2>2, <2>3
<1>8. RootReached(st2, rs, sf, vf)
  BY <1>1, <1>2, <1>3 DEF RootReached, Begun
<1>9. ASSUME NEW f \in Objs, <<f, synthTop>> \in Occurrences
      PROVE  f \in sf \/ \E k \in 1 .. l : Leads(st2[k])
  <2>1. CASE f \in sf
    BY <2>1
  <2>2. CASE f \notin sf
    <3>1. PICK k \in 1 .. l : Leads(st[k])
      BY <1>1, <1>2, <1>3, <1>9, <2>2 DEF OnWay, Begun
    <3>2. CASE k = l
      <4>1. ~IsPrefix(p, synthTop)
        <5>1. SUFFICES ASSUME IsPrefix(p, synthTop) PROVE FALSE
          OBVIOUS
        <5>2. Len(p) # 0 /\ p[Len(p)] = n
          BY <1>9, NextLeads
        <5>3. \/ p = synthTop /\ IsSynth(p) /\ f = File(n)
              \/ ~IsSynth(p) /\ Leads(e)
          BY <1>3, <1>5, <1>9, <5>1, <5>2, Onward
        <5>4. CASE p = synthTop /\ IsSynth(p) /\ f = File(n)
          BY <2>2, <5>4 DEF Passes, Reached
        <5>5. CASE ~IsSynth(p) /\ Leads(e)
          <6>1. IsStrictPrefix(p, synthTop)
            BY <1>6, <5>5 DEF Leads
          <6>2. synthTop # <<>>
            BY <1>3, <5>1, <5>2, PrefixIs
          <6> QED
            BY <5>5, <6>1, <6>2 DEF Passes, OnSynthPath
        <5> QED
          BY <5>3, <5>4, <5>5
      <4>2. synthTop[Len(st[l].path) + 1] # n
        BY <1>2, <1>9, <3>1, <3>2, <4>1, NextLeads
      <4>3. st2[l].path = st[l].path /\ st2[l].todo = st[l].todo \ {n}
        BY <1>4, <3>1, <3>2
      <4>4. Leads(st2[l])
        BY <3>1, <3>2, <4>2, <4>3 DEF Leads
      <4> QED
        BY <3>1, <3>2, <4>4
    <3>3. CASE k # l
      <4>1. st2[k].path = st[k].path /\ st2[k].todo = st[k].todo
        BY <1>4, <3>1, <3>3
      <4>2. Leads(st2[k])
        BY <3>1, <4>1 DEF Leads
      <4> QED
        BY <4>2
    <3> QED
      BY <3>2, <3>3
  <2> QED
    BY <2>1, <2>2
<1>10. OnWay(st2, rs, sf)
  BY <1>3, <1>9 DEF OnWay
<1> QED
  BY <1>1, <1>7, <1>8, <1>10 DEF Sided

LEMMA PopSided ==
    ASSUME IsTree(tree), ~CloneOfClone, NEW st, NEW rs, NEW sf, NEW vf,
           Walk(st, rs, sf, vf), Sided(st, rs, sf, vf),
           NEW st2, NEW rs2, Pops(st, rs, st2, rs2), st[Len(st)].todo = {}
    PROVE  Sided(st2, rs2, sf, vf)
<1>1. /\ PastReached(st, sf, vf) /\ ListReached(rs, sf, vf) /\ RootReached(st, rs, sf, vf)
      /\ OnWay(st, rs, sf) /\ Shape(st, rs, sf, vf) /\ Chain(st)
  BY DEF Sided, Walk
<1>2. PICK l : l = Len(st)
  OBVIOUS
<1>3. PICK i : i = st[l].inst
  OBVIOUS
<1>4. PICK p : p = st[l].path
  OBVIOUS
<1>5. PICK m : m = Len(rs)
  OBVIOUS
<1>6. /\ l \in Nat /\ l # 0 /\ l \in 1 .. l /\ Len(st2) = l - 1 /\ m \in Nat /\ i \in Objs
      /\ IsSynth(p) \in BOOLEAN
  <2>1. l \in Nat /\ l # 0 /\ l \in 1 .. l /\ Len(st2) = l - 1 /\ m \in Nat
    BY <1>1, <1>2, <1>5, ShapeIs DEF Pops
  <2>2. i \in Objs
    BY <1>1, <1>2, <1>3, <2>1, ShapeIs
  <2> QED
    BY <2>1, <2>2 DEF IsSynth, InCone, IsPrefix
<1>7. \A k \in 1 .. l - 1 : st2[k] = st[k] /\ k \in 1 .. l
  BY <1>2, <1>6 DEF Pops
<1>8. PICK e : e = <<i, IsSynth(p)>>
  OBVIOUS
<1>9. rs2 = Append(rs, e) /\ rs \in Seq(Objs \X BOOLEAN)
  BY <1>1, <1>2, <1>3, <1>4, <1>8 DEF Pops, Shape
<1>10. e \in Objs \X BOOLEAN
  BY <1>6, <1>8
<1>11. Len(rs2) = m + 1 /\ rs2[m + 1] = e /\ \A j \in 1 .. m : rs2[j] = rs[j]
  BY <1>5, <1>9, <1>10
<1>12. PastReached(st2, sf, vf)
  BY <1>1, <1>2, <1>6, <1>7 DEF PastReached
<1>13. ListReached(rs2, sf, vf)
  <2>1. SUFFICES ASSUME NEW j \in 1 .. m + 1
                 PROVE  \E q :
                           /\ <<File(rs2[j][1]), q>> \in Occurrences /\ IsSynth(q) = rs2[j][2]
                           /\ \A n \in Children(File(rs2[j][1])) : Reached(n, Append(q, n), sf, vf)
    BY <1>11, Zenon DEF ListReached
  <2>2. CASE j \in 1 .. m
    <3>1. rs2[j] = rs[j]
      BY <1>11, <2>2
    <3> QED
      BY <1>1, <1>5, <2>2, <3>1, Zenon DEF ListReached
  <2>3. CASE j \notin 1 .. m
    <3>1. rs2[j][1] = i /\ rs2[j][2] = IsSynth(p)
      BY <1>6, <1>8, <1>11, <2>3
    <3>2. <<File(i), p>> \in Occurrences
      BY <1>1, <1>2, <1>3, <1>4, <1>6 DEF Chain
    <3>3. ASSUME NEW n \in Children(File(i))
          PROVE  Reached(n, Append(p, n), sf, vf)
      <4>1. n \in Descend(st[l].inst) \ st[l].todo
        BY <1>2, <1>3, <1>6, <3>3, DescendIs
      <4>2. Reached(n, Append(st[l].path, n), sf, vf)
        BY <1>1, <1>2, <1>6, <4>1, Zenon DEF PastReached
      <4> QED
        BY <1>4, <4>2
    <3> QED
      BY <3>1, <3>2, <3>3, Zenon
  <2> QED
    BY <2>2, <2>3
<1>14. RootReached(st2, rs2, sf, vf)
  BY <1>1, <1>2, <1>6 DEF RootReached, Begun
<1>15. ASSUME NEW f \in Objs, <<f, synthTop>> \in Occurrences, f \notin sf
       PROVE  \E k \in 1 .. l - 1 : Leads(st2[k])
  <2>1. PICK k \in 1 .. l : Leads(st[k])
    BY <1>1, <1>2, <1>6, <1>15 DEF OnWay, Begun
  <2>2. k # l
    BY <1>2, <2>1 DEF Leads
  <2>3. k \in 1 .. l - 1
    BY <1>6, <2>2
  <2> QED
    BY <1>7, <2>1, <2>3
<1>16. OnWay(st2, rs2, sf)
  BY <1>6, <1>15 DEF OnWay
<1> QED
  BY <1>12, <1>13, <1>14, <1>16 DEF Sided

LEMMA SidedRigid ==
    ASSUME UNCHANGED given, Sided(stack', results', synthFiles', verifFiles')
    PROVE  Sided(stack, results, synthFiles, verifFiles)'
<1>1. tree' = tree /\ synthTop' = synthTop
  BY DEF given
<1>2. PastReached(stack, synthFiles, verifFiles)'
  BY <1>1 DEF Sided, PastReached, Reached, File, Descend, OwnSubs, Objs, IsSynth, InCone
<1>3. ListReached(results, synthFiles, verifFiles)'
  BY <1>1 DEF Sided, ListReached, Reached, File, Children, Objs, Occurrences, IsSynth, InCone
<1>4. RootReached(stack, results, synthFiles, verifFiles)'
  BY <1>1 DEF Sided, RootReached, Begun, Reached, File, IsSynth, InCone
<1>5. OnWay(stack, results, synthFiles)'
  BY <1>1 DEF Sided, OnWay, Begun, Leads, Objs, Occurrences
<1> QED
  BY <1>2, <1>3, <1>4, <1>5 DEF Sided

LEMMA SkipPasses ==
    ASSUME NEW n, NEW p, Skip(n, p)
    PROVE  Passes(n, p, synthFiles, verifFiles)
BY DEF Skip, Passes, Reached

LEMMA SidedNext ==
    ASSUME IsTree(tree), ~CloneOfClone, synthTop \in Seq(Nat),
           Walk(stack, results, synthFiles, verifFiles),
           Sided(stack, results, synthFiles, verifFiles), [Next]_vars
    PROVE  Sided(stack, results, synthFiles, verifFiles)'
<1>1. UNCHANGED given
  BY DEF Next, vars, given, Start, Visit, Prune, List, Promote
<1>2. ASSUME NEW n, NEW p, NextIs(stack, n, p), Enter(n, p)
      PROVE  Sided(stack', results', synthFiles', verifFiles')
  <2>1. /\ Pushes(stack, n, p, stack')
        /\ Marks(n, p, synthFiles, verifFiles, synthFiles', verifFiles')
    BY <1>2, EnterIs
  <2>2. Sided(stack', results, synthFiles', verifFiles')
    BY <1>2, <2>1, PushSided
  <2>3. results' = results
    BY <1>2 DEF Enter
  <2> QED
    BY <2>2, <2>3
<1>3. CASE Start
  <2>1. NextIs(stack, 1, <<1>>) /\ Enter(1, <<1>>)
    BY <1>3, StartIs
  <2>2. Sided(stack', results', synthFiles', verifFiles')
    BY <1>2, <2>1
  <2> QED
    BY <1>1, <2>2, SidedRigid
<1>4. CASE Visit
  <2>1. NextIs(stack, Next1, NextPath) /\ Enter(Next1, NextPath)
    BY <1>4, NextIsLeft DEF Visit
  <2>2. Sided(stack', results', synthFiles', verifFiles')
    BY <1>2, <2>1
  <2> QED
    BY <1>1, <2>2, SidedRigid
<1>5. CASE Prune
  <2>1. PICK n : n = Next1
    OBVIOUS
  <2>2. PICK p : p = NextPath
    OBVIOUS
  <2>3. /\ NextIs(stack, n, p) /\ Skip(n, p) /\ Drops(stack, n, stack')
        /\ results' = results /\ synthFiles' = synthFiles /\ verifFiles' = verifFiles
    BY <1>5, <2>1, <2>2, PruneIs
  <2>4. Passes(n, p, synthFiles, verifFiles)
    BY <2>3, SkipPasses
  <2>5. Len(stack) # 0
    BY <1>5, LastFrame DEF Prune
  <2>6. Sided(stack', results, synthFiles, verifFiles)
    BY <2>3, <2>4, <2>5, DropSided
  <2> QED
    BY <1>1, <2>3, <2>6, SidedRigid
<1>6. CASE List
  <2>1. /\ Pops(stack, results, stack', results') /\ stack[Len(stack)].todo = {}
        /\ synthFiles' = synthFiles /\ verifFiles' = verifFiles
    BY <1>6, ListIs
  <2>2. Sided(stack', results', synthFiles, verifFiles)
    BY <2>1, PopSided
  <2> QED
    BY <1>1, <2>1, <2>2, SidedRigid
<1>7. CASE Promote \/ UNCHANGED vars
  <2>1. /\ stack' = stack /\ results' = results
        /\ synthFiles' = synthFiles /\ verifFiles' = verifFiles
    BY <1>7 DEF vars, Promote
  <2>2. Sided(stack', results', synthFiles', verifFiles')
    BY <2>1
  <2> QED
    BY <1>1, <2>2, SidedRigid
<1> QED
  BY <1>3, <1>4, <1>5, <1>6, <1>7 DEF Next

LEMMA SidedInit ==
    ASSUME Init
    PROVE  Sided(stack, results, synthFiles, verifFiles)
<1>1. stack = <<>> /\ results = <<>>
  BY DEF Init
<1>2. Len(stack) = 0 /\ Len(results) = 0
  BY <1>1
<1>3. 1 .. 0 = {}
  OBVIOUS
<1>4. ~Begun(stack, results)
  BY <1>2 DEF Begun
<1> QED
  BY <1>2, <1>3, <1>4 DEF Sided, PastReached, ListReached, RootReached, OnWay

LEMMA TopInit ==
    ASSUME IsTree(tree), Init
    PROVE  synthTop \in Seq(Nat)
<1>1. synthTop \in {u[2] : u \in Hierarchy(tree)} \cup {<<>>, <<0>>}
  BY Zenon DEF Init
<1>2. \A u \in Hierarchy(tree) : u[2] \in Seq(Nat)
  BY PathSteps DEF Steps, Occurrences
<1>3. <<>> \in Seq(Nat) /\ <<0>> \in Seq(Nat)
  OBVIOUS
<1>4. CASE \E u \in Hierarchy(tree) : synthTop = u[2]
  BY <1>2, <1>4
<1>5. CASE synthTop = <<>> \/ synthTop = <<0>>
  BY <1>3, <1>5
<1> QED
  BY <1>1, <1>4, <1>5, Zenon

\* Both sides of the list, once the walk is over.
LEMMA AllReached ==
    ASSUME IsTree(tree), synthTop \in Seq(Nat),
           Walk(stack, results, synthFiles, verifFiles),
           Sided(stack, results, synthFiles, verifFiles), stack = <<>>, results # <<>>
    PROVE  /\ \A f \in InSynth : f \in synthFiles
           /\ SingleAbove => \A f \in InVerif : f \in verifFiles
<1>0. /\ ListReached(results, synthFiles, verifFiles)
      /\ RootReached(stack, results, synthFiles, verifFiles)
      /\ OnWay(stack, results, synthFiles) /\ Seen(stack, results, synthFiles, verifFiles)
      /\ Shape(stack, results, synthFiles, verifFiles)
  BY DEF Sided, Walk
<1>1. /\ Len(stack) = 0 /\ Len(results) \in Nat
      /\ \A j \in 1 .. Len(results) : results[j][2] \in BOOLEAN
  BY <1>0, ShapeIs
<1>2. Begun(stack, results) /\ \A k : k \notin 1 .. Len(stack)
  BY <1>0, <1>1 DEF Begun, Shape
<1>3. File(1) = 1 /\ 1 \in Objs
  <2>1. Numbered(tree) /\ Objs = 1 .. Len(tree) /\ Len(tree) \in Nat /\ 1 \in 1 .. Len(tree)
    BY NumberedIs DEF IsTree, Objs
  <2>2. OriginIn(tree, 1) \in 1 .. 1
    BY <2>1, OriginFound
  <2> QED
    BY <2>1, <2>2 DEF File
\* What was seen on a side has an occurrence there, with all below it reached.
<1>4. ASSUME NEW f \in Objs, f \in synthFiles
      PROVE  \E p : /\ <<f, p>> \in Occurrences /\ IsSynth(p)
                    /\ \A n \in Children(f) : Reached(n, Append(p, n), synthFiles, verifFiles)
  <2>1. PICK j \in 1 .. Len(results) : File(results[j][1]) = f /\ results[j][2] = TRUE
    BY <1>0, <1>2, <1>4 DEF Seen
  <2>2. PICK p : /\ <<f, p>> \in Occurrences /\ IsSynth(p) = results[j][2]
                 /\ \A n \in Children(f) : Reached(n, Append(p, n), synthFiles, verifFiles)
    BY <1>0, <2>1 DEF ListReached
  <2> QED
    BY <2>1, <2>2
<1>5. ASSUME NEW f \in Objs, f \in verifFiles
      PROVE  \E p : /\ <<f, p>> \in Occurrences /\ ~IsSynth(p)
                    /\ \A n \in Children(f) : Reached(n, Append(p, n), synthFiles, verifFiles)
  <2>1. PICK j \in 1 .. Len(results) : File(results[j][1]) = f /\ results[j][2] = FALSE
    BY <1>0, <1>2, <1>5 DEF Seen
  <2>2. PICK p : /\ <<f, p>> \in Occurrences /\ IsSynth(p) = results[j][2]
                 /\ \A n \in Children(f) : Reached(n, Append(p, n), synthFiles, verifFiles)
    BY <1>0, <2>1 DEF ListReached
  <2> QED
    BY <2>1, <2>2
<1>6. ASSUME NEW f \in Objs, <<f, synthTop>> \in Occurrences
      PROVE  f \in synthFiles
  BY <1>0, <1>2, <1>6 DEF OnWay
<1>7. ASSUME NEW u \in Occurrences
      PROVE  u = <<u[1], u[2]>> /\ u[1] \in Objs /\ u[2] \in Seq(Nat)
  BY <1>7, OccurrencesAre, PathSteps, NumberedIs DEF Occurrences, Steps, IsTree, Objs
\* One step down.
<1>8. ASSUME NEW u \in Occurrences, NEW w \in Under(tree, u)
      PROVE  \E n \in Children(u[1]) :
                /\ w[1] = File(n) /\ w[2] = Append(u[2], n) /\ n \in Nat
                /\ w \in Occurrences
                /\ InCone(u[2]) => InCone(w[2])
                /\ InCone(w[2]) /\ ~InCone(u[2]) => w[2] = synthTop
  <2>1. PICK n \in DOMAIN tree : tree[n].parent = u[1] /\ w = <<OriginIn(tree, n), Append(u[2], n)>>
    BY <1>8 DEF Under
  <2>2. DOMAIN tree \subseteq Nat
    BY NumberedIs DEF IsTree
  <2>3. PICK q : q = u[2]
    OBVIOUS
  <2>4. PICK p : p = Append(q, n)
    OBVIOUS
  <2>5. q \in Seq(Nat) /\ n \in Nat /\ w[2] = p
    BY <1>7, <2>1, <2>2, <2>3, <2>4
  <2>6. (InCone(q) => InCone(p)) /\ (InCone(p) /\ ~InCone(q) => p = synthTop)
    BY <2>4, <2>5, ConeBelow
  <2> QED
    BY <1>8, <2>1, <2>2, <2>3, <2>5, <2>6, OccurrencesAre DEF Children, File, Objs, Occurrences
<1> DEFINE P == {u \in Occurrences : InCone(u[2]) => u[1] \in synthFiles}
           Q == {u \in Occurrences : ~InCone(u[2]) => u[1] \in verifFiles}
<1>9. First \in Occurrences /\ First[1] = 1 /\ First[2] = <<1>> /\ Reached(1, <<1>>, synthFiles, verifFiles)
  BY <1>0, <1>2, OccurrencesAre DEF First, Occurrences, RootReached
<1>10. First \in P /\ First \in Q
  BY <1>3, <1>9 DEF Reached, IsSynth
<1>11. ASSUME NEW u \in Occurrences, u \in P, NEW w \in Under(tree, u)
       PROVE  w \in P
  <2>1. PICK n \in Children(u[1]) :
                /\ w[1] = File(n) /\ w[2] = Append(u[2], n) /\ n \in Nat
                /\ w \in Occurrences
                /\ InCone(u[2]) => InCone(w[2])
                /\ InCone(w[2]) /\ ~InCone(u[2]) => w[2] = synthTop
    BY <1>8, <1>11
  <2>2. SUFFICES ASSUME InCone(w[2]) PROVE File(n) \in synthFiles
    BY <2>1
  <2>3. CASE InCone(u[2])
    <3>1. PICK p : /\ <<u[1], p>> \in Occurrences /\ IsSynth(p)
                   /\ \A c \in Children(u[1]) : Reached(c, Append(p, c), synthFiles, verifFiles)
      BY <1>4, <1>7, <1>11, <2>3
    <3>2. p \in Seq(Nat)
      <4>1. PICK v : v = <<u[1], p>>
        OBVIOUS
      <4> QED
        BY <1>7, <3>1, <4>1
    <3>3. InCone(Append(p, n))
      BY <2>1, <3>1, <3>2, ConeBelow DEF IsSynth
    <3> QED
      BY <2>1, <3>1, <3>3 DEF Reached, IsSynth
  <2>4. CASE ~InCone(u[2])
    <3>1. w[2] = synthTop
      BY <2>1, <2>2, <2>4
    <3>2. <<w[1], synthTop>> \in Occurrences /\ w[1] \in Objs
      BY <1>7, <2>1, <3>1
    <3> QED
      BY <1>6, <2>1, <3>2
  <2> QED
    BY <2>3, <2>4
<1>12. Occurrences \subseteq P
  <2>1. Len(tree) \in Nat
    BY NumberedIs DEF IsTree
  <2> HIDE DEF P
  <2> QED
    BY <1>10, <1>11, <2>1, OccurrenceInduction DEF Occurrences
<1>13. ASSUME SingleAbove, NEW u \in Occurrences, u \in Q, NEW w \in Under(tree, u)
       PROVE  w \in Q
  <2>1. PICK n \in Children(u[1]) :
                /\ w[1] = File(n) /\ w[2] = Append(u[2], n) /\ n \in Nat
                /\ w \in Occurrences
                /\ InCone(u[2]) => InCone(w[2])
                /\ InCone(w[2]) /\ ~InCone(u[2]) => w[2] = synthTop
    BY <1>8, <1>13
  <2>2. SUFFICES ASSUME ~InCone(w[2]) PROVE File(n) \in verifFiles
    BY <2>1
  <2>3. ~InCone(u[2])
    BY <2>1, <2>2
  <2>4. PICK p : /\ <<u[1], p>> \in Occurrences /\ ~IsSynth(p)
                 /\ \A c \in Children(u[1]) : Reached(c, Append(p, c), synthFiles, verifFiles)
    BY <1>5, <1>7, <1>13, <2>3
  <2>5. PICK v : v = <<u[1], p>>
    OBVIOUS
  <2>6. v \in Occurrences /\ v[1] = u[1] /\ v[2] = p /\ p \in Seq(Nat)
    BY <1>7, <2>4, <2>5
  <2>7. ~InCone(Append(p, n))
    <3>1. SUFFICES ASSUME InCone(Append(p, n)) PROVE FALSE
      OBVIOUS
    <3>2. IsStrictPrefix(p, synthTop)
      BY <2>1, <2>4, <2>6, <3>1, ConeBelow DEF IsSynth
    <3>3. v = u
      BY <1>13, <2>6, <3>2 DEF SingleAbove
    <3> QED
      BY <2>1, <2>2, <2>6, <3>1, <3>3
  <2> QED
    BY <2>1, <2>4, <2>7 DEF Reached, IsSynth
<1>14. SingleAbove => Occurrences \subseteq Q
  <2>1. Len(tree) \in Nat
    BY NumberedIs DEF IsTree
  <2> HIDE DEF Q
  <2> QED
    BY <1>10, <1>13, <2>1, OccurrenceInduction DEF Occurrences
<1> QED
  BY <1>12, <1>14 DEF InSynth, InVerif

-----------------------------------------------------------------------------
(* The tags of what has been handled. *)

\* A name gets a further tag.
LEMMA PromotedIs ==
    ASSUME NEW name, NEW tag \in {"synth", "verif"},
           name \in DOMAIN tags => tags[name] \in {"synth", "verif", "synth_and_verif"}
    PROVE  /\ PromotedTag(name, tag) \in {tag, "synth_and_verif"}
           /\ \A side \in {"synth", "verif"} :
                 /\ PromotedTag(name, tag) \in {side, "synth_and_verif"} /\ side # tag
                       => name \in DOMAIN tags /\ tags[name] \in {side, "synth_and_verif"}
                 /\ name \in DOMAIN tags /\ tags[name] \in {side, "synth_and_verif"}
                       => PromotedTag(name, tag) \in {side, "synth_and_verif"}
<1>1. CASE name \in DOMAIN tags
  BY <1>1 DEF PromotedTag
<1>2. CASE name \notin DOMAIN tags
  BY <1>2 DEF PromotedTag
<1> QED
  BY <1>1, <1>2

LEMMA TagOfNext ==
    ASSUME TagOf, tagged \in Nat, Len(results) \in Nat, Promote
    PROVE  TagOf'
<1>1. PICK t : t = tagged
  OBVIOUS
<1>2. PICK i : i = results[t + 1][1]
  OBVIOUS
<1>3. PICK S : S = Names(i)
  OBVIOUS
<1>4. PICK tag : tag = Side(t + 1)
  OBVIOUS
<1>5. /\ UNCHANGED given /\ results' = results /\ tagged' = t + 1
      /\ tags' = [n \in DOMAIN tags \cup S |-> IF n \in S THEN PromotedTag(n, tag) ELSE tags[n]]
  BY <1>1, <1>2, <1>3, <1>4, Zenon DEF Promote, Side
<1>6. t \in Nat /\ tag \in {"synth", "verif"}
  BY <1>1, <1>4 DEF Side
<1>7. /\ \A j : Names(results[j][1])' = Names(results[j][1])
      /\ \A j : Side(j)' = Side(j)
  BY <1>5 DEF Names, File, given, Side
<1>8. /\ \A j \in 1 .. t + 1 : j \in 1 .. t \/ j = t + 1
      /\ \A j \in 1 .. t : j \in 1 .. t + 1
      /\ t + 1 \in 1 .. t + 1
  BY <1>6
<1>9. /\ DOMAIN tags' = DOMAIN tags \cup S
      /\ \A n \in S : tags'[n] = PromotedTag(n, tag)
      /\ \A n \in DOMAIN tags \ S : tags'[n] = tags[n]
  BY <1>5
<1>10. /\ \A j \in 1 .. t : \A name \in Names(results[j][1]) :
             name \in DOMAIN tags /\ tags[name] \in {Side(j), "synth_and_verif"}
       /\ \A name \in DOMAIN tags :
             /\ tags[name] \in {"synth", "verif", "synth_and_verif"}
             /\ \A side \in {"synth", "verif"} :
                   tags[name] \in {side, "synth_and_verif"} =>
                       \E j \in 1 .. t : name \in Names(results[j][1]) /\ Side(j) = side
  BY <1>1, Zenon DEF TagOf
<1>11. ASSUME NEW name
       PROVE  /\ PromotedTag(name, tag) \in {tag, "synth_and_verif"}
              /\ \A side \in {"synth", "verif"} :
                    /\ PromotedTag(name, tag) \in {side, "synth_and_verif"} /\ side # tag
                          => name \in DOMAIN tags /\ tags[name] \in {side, "synth_and_verif"}
                    /\ name \in DOMAIN tags /\ tags[name] \in {side, "synth_and_verif"}
                          => PromotedTag(name, tag) \in {side, "synth_and_verif"}
  BY <1>6, <1>10, PromotedIs
<1>12. ASSUME NEW j \in 1 .. t + 1, NEW name \in Names(results[j][1])
       PROVE  name \in DOMAIN tags' /\ tags'[name] \in {Side(j), "synth_and_verif"}
  <2>1. CASE j \in 1 .. t
    <3>1. name \in DOMAIN tags /\ tags[name] \in {Side(j), "synth_and_verif"}
      BY <1>10, <1>12, <2>1
    <3>2. Side(j) \in {"synth", "verif"}
      BY DEF Side
    <3>3. name \in S => tags'[name] \in {Side(j), "synth_and_verif"}
      BY <1>9, <1>11, <3>1, <3>2
    <3> QED
      BY <1>9, <3>1, <3>3
  <2>2. CASE j = t + 1
    <3>1. name \in S /\ tag = Side(j)
      BY <1>2, <1>3, <1>4, <1>12, <2>2
    <3> QED
      BY <1>9, <1>11, <3>1
  <2> QED
    BY <1>8, <2>1, <2>2
<1>13. ASSUME NEW name \in DOMAIN tags'
       PROVE  /\ tags'[name] \in {"synth", "verif", "synth_and_verif"}
              /\ \A side \in {"synth", "verif"} :
                    tags'[name] \in {side, "synth_and_verif"} =>
                        \E j \in 1 .. t + 1 : name \in Names(results[j][1]) /\ Side(j) = side
  <2>1. CASE name \notin S
    <3>1. name \in DOMAIN tags /\ tags'[name] = tags[name]
      BY <1>9, <2>1
    <3> QED
      BY <1>8, <1>10, <3>1
  <2>2. CASE name \in S
    <3>1. tags'[name] = PromotedTag(name, tag)
      BY <1>9, <2>2
    <3>2. tags'[name] \in {"synth", "verif", "synth_and_verif"}
      BY <1>6, <1>11, <3>1
    <3>3. ASSUME NEW side \in {"synth", "verif"}, tags'[name] \in {side, "synth_and_verif"}
          PROVE  \E j \in 1 .. t + 1 : name \in Names(results[j][1]) /\ Side(j) = side
      <4>1. CASE side = tag
        BY <1>2, <1>3, <1>4, <1>8, <2>2, <4>1
      <4>2. CASE side # tag
        <5>1. name \in DOMAIN tags /\ tags[name] \in {side, "synth_and_verif"}
          BY <1>11, <3>1, <3>3, <4>2
        <5> QED
          BY <1>8, <1>10, <5>1
      <4> QED
        BY <4>1, <4>2
    <3> QED
      BY <3>2, <3>3
  <2> QED
    BY <2>1, <2>2
<1>14. tagged' = t + 1
  BY <1>5
<1>15. /\ \A j \in 1 .. t + 1 : \A name \in Names(results[j][1])' :
             name \in DOMAIN tags' /\ tags'[name] \in {Side(j)', "synth_and_verif"}
       /\ \A name \in DOMAIN tags' :
             /\ tags'[name] \in {"synth", "verif", "synth_and_verif"}
             /\ \A side \in {"synth", "verif"} :
                   tags'[name] \in {side, "synth_and_verif"} =>
                       \E j \in 1 .. t + 1 : name \in Names(results[j][1])' /\ Side(j)' = side
  BY <1>7, <1>12, <1>13
<1> QED
  BY <1>14, <1>15, Zenon DEF TagOf

LEMMA TagOfKept ==
    ASSUME TagOf, UNCHANGED given, tagged' = tagged, tags' = tags,
           \A j \in 1 .. tagged : results'[j] = results[j]
    PROVE  TagOf'
<1>1. /\ \A j \in 1 .. tagged : Names(results[j][1])' = Names(results[j][1])
      /\ \A j \in 1 .. tagged : Side(j)' = Side(j)
  BY DEF Names, File, given, Side
<1> QED
  BY <1>1 DEF TagOf

LEMMA TagOfInit ==
    ASSUME Init
    PROVE  TagOf
<1>1. tagged = 0 /\ tags = <<>>
  BY DEF Init
<1>2. 1 .. 0 = {} /\ DOMAIN tags = {}
  BY <1>1
<1> QED
  BY <1>1, <1>2 DEF TagOf

-----------------------------------------------------------------------------

TagInv ==
    /\ IsTree(tree) /\ synthTop \in Seq(Nat)
    /\ Walk(stack, results, synthFiles, verifFiles)
    /\ Sided(stack, results, synthFiles, verifFiles)
    /\ OrderInv
    /\ TagOf

LEMMA TagInvNext ==
    ASSUME ~CloneOfClone, TagInv, [Next]_vars
    PROVE  TagInv'
<1>1. /\ IsTree(tree) /\ synthTop \in Seq(Nat)
      /\ Walk(stack, results, synthFiles, verifFiles)
      /\ Sided(stack, results, synthFiles, verifFiles)
      /\ OrderInv /\ TagOf
  BY DEF TagInv
<1>2. UNCHANGED given
  BY DEF Next, vars, given, Start, Visit, Prune, List, Promote
<1>3. tagged \in Nat /\ Len(results) \in Nat /\ tagged <= Len(results)
  <2>1. Len(results) \in Nat
    BY <1>1, ShapeIs DEF Walk
  <2> QED
    BY <1>1, <2>1 DEF OrderInv
<1>4. TagOf'
  <2>1. CASE Promote
    BY <1>1, <1>3, <2>1, TagOfNext
  <2>2. CASE List
    <3>1. PICK e : e = <<stack[Len(stack)].inst, IsSynth(stack[Len(stack)].path)>>
      OBVIOUS
    <3>2. results' = Append(results, e) /\ results \in Seq(Objs \X BOOLEAN)
      BY <1>1, <2>2, <3>1, ListIs DEF Pops, Walk, Shape
    <3>3. \A j \in 1 .. Len(results) : results'[j] = results[j]
      BY <3>2
    <3>4. \A j \in 1 .. tagged : results'[j] = results[j]
      BY <1>3, <3>3
    <3>5. tagged' = tagged /\ tags' = tags
      BY <2>2 DEF List
    <3> QED
      BY <1>1, <1>2, <3>4, <3>5, TagOfKept
  <2>3. CASE Start \/ Visit \/ Prune \/ UNCHANGED vars
    <3>1. results' = results /\ tagged' = tagged /\ tags' = tags
      BY <2>3 DEF Start, Visit, Prune, Enter, vars
    <3> QED
      BY <1>1, <1>2, <3>1, TagOfKept
  <2> QED
    BY <2>1, <2>2, <2>3 DEF Next
<1>5. IsTree(tree)'
  BY <1>1, TreeKept
<1>6. (synthTop \in Seq(Nat))'
  BY <1>1, <1>2 DEF given
<1>7. Walk(stack, results, synthFiles, verifFiles)'
  BY <1>1, WalkNext
<1>8. Sided(stack, results, synthFiles, verifFiles)'
  BY <1>1, SidedNext
<1>9. OrderInv'
  BY <1>1, OrderNext
<1> QED
  BY <1>4, <1>5, <1>6, <1>7, <1>8, <1>9 DEF TagInv

LEMMA TagInvExact ==
    ASSUME TagInv
    PROVE  TagsExact
<1>1. /\ IsTree(tree) /\ synthTop \in Seq(Nat)
      /\ Walk(stack, results, synthFiles, verifFiles)
      /\ Sided(stack, results, synthFiles, verifFiles)
      /\ TagOf
  BY DEF TagInv
<1>2. SUFFICES ASSUME Done
               PROVE  /\ \A f \in InSynth : Marked(f, "synth")
                      /\ SingleAbove => \A f \in InVerif : Marked(f, "verif")
                      /\ \A f \in Objs :
                            <<f, "v">> \in DOMAIN tags =>
                                /\ tags[<<f, "v">>] # "verif" => f \in InSynth
                                /\ tags[<<f, "v">>] # "synth" => f \in InVerif
  BY DEF TagsExact
<1>3. stack = <<>> /\ results # <<>> /\ tagged = Len(results)
  BY <1>2 DEF Done
<1>4. /\ \A f \in InSynth : f \in synthFiles
      /\ SingleAbove => \A f \in InVerif : f \in verifFiles
  BY <1>1, <1>3, AllReached
<1>5. \A f : f \in InSynth \cup InVerif => f \in Objs
  <2>1. \A u \in Occurrences : u[1] \in Objs
    BY <1>1, OccurrencesAre, NumberedIs DEF Occurrences, IsTree, Objs
  <2> QED
    BY <2>1 DEF InSynth, InVerif
<1>6. /\ Seen(stack, results, synthFiles, verifFiles)
      /\ ListReached(results, synthFiles, verifFiles)
      /\ Shape(stack, results, synthFiles, verifFiles)
  BY <1>1 DEF Walk, Sided
<1>7. \A k : k \notin 1 .. Len(stack)
  BY <1>3, <1>6 DEF Shape
<1>8. \A j \in 1 .. Len(results) : results[j][2] \in BOOLEAN
  BY <1>6, ShapeIs
<1>9. ASSUME NEW j \in 1 .. Len(results), NEW f, File(results[j][1]) = f
      PROVE  Marked(f, Side(j))
  <2>1. \A name \in Names(results[j][1]) :
            name \in DOMAIN tags /\ tags[name] \in {Side(j), "synth_and_verif"}
    BY <1>1, <1>3, <1>9 DEF TagOf
  <2>2. <<f, "v">> \in Names(results[j][1])
    BY <1>9 DEF Names
  <2>3. f = synonymOf => <<f, "syn">> \in Names(results[j][1])
    BY <1>9 DEF Names
  <2> QED
    BY <2>1, <2>2, <2>3 DEF Marked
<1>10. ASSUME NEW f \in InSynth
       PROVE  Marked(f, "synth")
  <2>1. PICK j \in 1 .. Len(results) : File(results[j][1]) = f /\ results[j][2] = TRUE
    BY <1>4, <1>5, <1>6, <1>7, <1>10 DEF Seen
  <2> QED
    BY <1>9, <2>1 DEF Side
<1>11. ASSUME SingleAbove, NEW f \in InVerif
       PROVE  Marked(f, "verif")
  <2>1. PICK j \in 1 .. Len(results) : File(results[j][1]) = f /\ results[j][2] = FALSE
    BY <1>4, <1>5, <1>6, <1>7, <1>11 DEF Seen
  <2> QED
    BY <1>9, <2>1 DEF Side
<1>12. ASSUME NEW f \in Objs, <<f, "v">> \in DOMAIN tags, NEW side \in {"synth", "verif"},
              tags[<<f, "v">>] \in {side, "synth_and_verif"}
       PROVE  \E p : <<f, p>> \in Occurrences /\ (InCone(p) <=> side = "synth")
  <2>1. PICK name : name = <<f, "v">>
    OBVIOUS
  <2>2. PICK j \in 1 .. Len(results) : name \in Names(results[j][1]) /\ Side(j) = side
    BY <1>1, <1>3, <1>12, <2>1 DEF TagOf
  <2>3. File(results[j][1]) = f
    BY <2>1, <2>2 DEF Names
  <2>4. results[j][2] <=> side = "synth"
    BY <1>8, <2>2 DEF Side
  <2>5. PICK p : <<f, p>> \in Occurrences /\ IsSynth(p) = results[j][2]
    BY <1>6, <2>3 DEF ListReached
  <2> QED
    BY <1>8, <2>4, <2>5 DEF IsSynth
<1>13. ASSUME NEW f \in Objs, <<f, "v">> \in DOMAIN tags
       PROVE  /\ tags[<<f, "v">>] # "verif" => f \in InSynth
              /\ tags[<<f, "v">>] # "synth" => f \in InVerif
  <2>1. tags[<<f, "v">>] \in {"synth", "verif", "synth_and_verif"}
    BY <1>1, <1>13 DEF TagOf
  <2>2. ASSUME tags[<<f, "v">>] # "verif"
        PROVE  f \in InSynth
    <3>1. PICK p : <<f, p>> \in Occurrences /\ InCone(p)
      BY <1>12, <1>13, <2>1, <2>2
    <3>2. PICK u : u = <<f, p>>
      OBVIOUS
    <3> QED
      BY <3>1, <3>2 DEF InSynth
  <2>3. ASSUME tags[<<f, "v">>] # "synth"
        PROVE  f \in InVerif
    <3>1. PICK p : <<f, p>> \in Occurrences /\ ~InCone(p)
      BY <1>12, <1>13, <2>1, <2>3
    <3>2. PICK u : u = <<f, p>>
      OBVIOUS
    <3> QED
      BY <3>1, <3>2 DEF InVerif
  <2> QED
    BY <2>2, <2>3
<1> QED
  BY <1>10, <1>11, <1>13

\* The walk, its list and what _populate_outfile_tags makes of it agree at every
\* step.  A clone's children are looked for once, where it was cloned from: clones
\* of clones are left out.
THEOREM TagInvAlways ==
    ASSUME ~CloneOfClone
    PROVE  Spec => []TagInv
<1>1. Init => TagInv
  <2>1. SUFFICES ASSUME Init PROVE TagInv
    OBVIOUS
  <2>2. IsTree(tree)
    BY <2>1, TreesAre DEF Init
  <2> QED
    BY <2>1, <2>2, WalkInit, OrderInit, SidedInit, TopInit, TagOfInit DEF TagInv
<1>2. TagInv /\ [Next]_vars => TagInv'
  BY TagInvNext
<1> QED
  BY <1>1, <1>2, PTL DEF Spec

\* OUTFILE_TAGS has a module for synthesis if and only if the hierarchy has it at
\* or below --synth-top, and for verification if and only if it has it outside,
\* however many clones lead to it and whatever the early returns pruned.
THEOREM TagsExactAlways ==
    ASSUME ~CloneOfClone
    PROVE  Spec => []TagsExact
<1>1. TagInv => TagsExact
  BY TagInvExact
<1> QED
  BY <1>1, TagInvAlways, PTL

\* OUTFILE_ORDER has a file once, after those of all modules it has instances of.
THEOREM BottomUpAlways ==
    ASSUME ~CloneOfClone
    PROVE  Spec => []BottomUp
<1>1. TagInv => BottomUp
  BY OrderBottomUp DEF TagInv
<1> QED
  BY <1>1, TagInvAlways, PTL
=============================================================================

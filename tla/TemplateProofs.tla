----------------------------- MODULE TemplateProofs -----------------------------
(***************************************************************************)
(* For any styles, lines of output, further lines and bounds: what Python  *)
(* makes of a template is what the author wrote.                           *)
(*                                                                         *)
(* Neither property is inductive.  TInv says how the scanners stand        *)
(* between two items: the genesis scanner's indent is the depth the author *)
(* is at, and Python has the author's blocks open, perhaps others inside   *)
(* them that a comment or a blank has not closed, or waits for the body of *)
(* the innermost (PyIs).  j2 is harder: a closing pops its stack, the      *)
(* other ways of leaving a block do not, and an opener pushes only when it *)
(* is deeper than the top.  Where nothing that has a keyword is closed     *)
(* without one, there is a level above which no block is closed by a       *)
(* keyword and below which every one is (Lowest).  Then the stack rises    *)
(* and has every block from that level to the author's depth, whatever is  *)
(* left of those above (StackIs), and a closing finds its own opener.      *)
(*                                                                         *)
(* The first part unfolds the scanners and Python line by line and token   *)
(* by token; a lemma per item, in each flavour, says what it leaves        *)
(* behind; the last part puts them together, action by action.             *)
(***************************************************************************)
EXTENDS Template, SequenceTheorems, WellFoundedInduction, TLAPS

\* Induction over the natural numbers, for a set of them.
LEMMA AllNat ==
    ASSUME NEW S, 0 \in S, \A k \in Nat : k \in S => k + 1 \in S
    PROVE  \A k \in Nat : k \in S
<1> SUFFICES ASSUME Nat \ S # {} PROVE FALSE
  OBVIOUS
<1> DEFINE R == OpToRel(<, Nat)
<1>1. OpToRel(<, Nat) = {ss \in Nat \X Nat : ss[1] < ss[2]}
  BY DEF OpToRel
<1>2. IsWellFoundedOn(R, Nat)
  BY NatLessThanWellFounded
<1>3. PICK T : T = Nat \ S
  OBVIOUS
<1>4. PICK m \in T : \A k \in T : ~ (<<k, m>> \in R)
  <2> HIDE DEF R
  <2>1. T \subseteq Nat /\ T # {}
    BY <1>3
  <2> QED
    BY <1>2, <2>1, WFMin
<1>5. m \in Nat /\ m # 0
  BY <1>3, <1>4
<1>6. m - 1 \in Nat /\ m - 1 < m /\ (m - 1) + 1 = m
  BY <1>5
<1>7. m - 1 \in T
  BY <1>3, <1>4, <1>5, <1>6
<1>8. <<m - 1, m>> \notin {ss \in Nat \X Nat : ss[1] < ss[2]}
  BY <1>1, <1>4, <1>7
<1> QED
  BY <1>5, <1>6, <1>8

-----------------------------------------------------------------------------
(* What is done line by line, unfolded once.                               *)

IsScan(f, s, ts, d) == f = [n \in 0 .. d |-> IF n = 0 THEN s ELSE J2Token(f[n - 1], ts[n])]

LEMMA ScansExist ==
    ASSUME NEW s, NEW ts
    PROVE  \A d \in Nat : \E f : IsScan(f, s, ts, d)
<1> DEFINE S == {d \in Nat : \E f : IsScan(f, s, ts, d)}
<1>1. 0 \in S
  <2>1. PICK f : f = [n \in 0 .. 0 |-> s]
    OBVIOUS
  <2>2. IsScan(f, s, ts, 0)
    BY <2>1 DEF IsScan
  <2> QED
    BY <2>2
<1>2. ASSUME NEW d \in Nat, NEW f, IsScan(f, s, ts, d)
      PROVE  \E g : IsScan(g, s, ts, d + 1)
  <2>1. PICK g : g = [n \in 0 .. d + 1 |-> IF n = 0 THEN s ELSE J2Token(f[n - 1], ts[n])]
    OBVIOUS
  <2>2. ASSUME NEW n \in 0 .. d
        PROVE  g[n] = f[n]
    <3>1. f[n] = IF n = 0 THEN s ELSE J2Token(f[n - 1], ts[n])
      BY <1>2 DEF IsScan
    <3>2. n \in 0 .. d + 1
      OBVIOUS
    <3> QED
      BY <2>1, <3>1, <3>2
  <2>3. \A n \in 0 .. d + 1 : n # 0 => n - 1 \in 0 .. d
    OBVIOUS
  <2>4. IsScan(g, s, ts, d + 1)
    BY <2>1, <2>2, <2>3 DEF IsScan
  <2> QED
    BY <2>4
<1>3. \A k \in Nat : k \in S => k + 1 \in S
  BY <1>2
<1> HIDE DEF S
<1>4. \A k \in Nat : k \in S
  BY <1>1, <1>3, AllNat
<1> QED
  BY <1>4 DEF S

LEMMA ScanIs ==
    ASSUME NEW s, NEW ts, Len(ts) \in Nat
    PROVE  \E f : /\ J2Tokens(s, ts) = f[Len(ts)] /\ f[0] = s
                  /\ \A n \in 1 .. Len(ts) : f[n] = J2Token(f[n - 1], ts[n])
<1> DEFINE after[n \in 0 .. Len(ts)] == IF n = 0 THEN s ELSE J2Token(after[n - 1], ts[n])
<1>1. J2Tokens(s, ts) = after[Len(ts)]
  BY Zenon DEF J2Tokens
<1>2. after = CHOOSE f : IsScan(f, s, ts, Len(ts))
  BY Zenon DEF IsScan
<1> HIDE DEF after
<1>3. IsScan(after, s, ts, Len(ts))
  BY <1>2, ScansExist
<1>4. after[0] = s /\ \A n \in 1 .. Len(ts) : after[n] = J2Token(after[n - 1], ts[n])
  BY <1>3 DEF IsScan
<1> QED
  BY <1>1, <1>4

IsLines(f, s, ts, d) == f = [n \in 0 .. d |-> IF n = 0 THEN s ELSE GenesisLine(f[n - 1], ts[n])]

LEMMA LinesExist ==
    ASSUME NEW s, NEW ts
    PROVE  \A d \in Nat : \E f : IsLines(f, s, ts, d)
<1> DEFINE S == {d \in Nat : \E f : IsLines(f, s, ts, d)}
<1>1. 0 \in S
  <2>1. PICK f : f = [n \in 0 .. 0 |-> s]
    OBVIOUS
  <2>2. IsLines(f, s, ts, 0)
    BY <2>1 DEF IsLines
  <2> QED
    BY <2>2
<1>2. ASSUME NEW d \in Nat, NEW f, IsLines(f, s, ts, d)
      PROVE  \E g : IsLines(g, s, ts, d + 1)
  <2>1. PICK g : g = [n \in 0 .. d + 1 |-> IF n = 0 THEN s ELSE GenesisLine(f[n - 1], ts[n])]
    OBVIOUS
  <2>2. ASSUME NEW n \in 0 .. d
        PROVE  g[n] = f[n]
    <3>1. f[n] = IF n = 0 THEN s ELSE GenesisLine(f[n - 1], ts[n])
      BY <1>2 DEF IsLines
    <3>2. n \in 0 .. d + 1
      OBVIOUS
    <3> QED
      BY <2>1, <3>1, <3>2
  <2>3. \A n \in 0 .. d + 1 : n # 0 => n - 1 \in 0 .. d
    OBVIOUS
  <2>4. IsLines(g, s, ts, d + 1)
    BY <2>1, <2>2, <2>3 DEF IsLines
  <2> QED
    BY <2>4
<1>3. \A k \in Nat : k \in S => k + 1 \in S
  BY <1>2
<1> HIDE DEF S
<1>4. \A k \in Nat : k \in S
  BY <1>1, <1>3, AllNat
<1> QED
  BY <1>4 DEF S

LEMMA LinesAre ==
    ASSUME NEW s, NEW ts, Len(ts) \in Nat
    PROVE  \E f : /\ GenesisLines(s, ts) = f[Len(ts)] /\ f[0] = s
                  /\ \A n \in 1 .. Len(ts) : f[n] = GenesisLine(f[n - 1], ts[n])
<1> DEFINE after[n \in 0 .. Len(ts)] == IF n = 0 THEN s ELSE GenesisLine(after[n - 1], ts[n])
<1>1. GenesisLines(s, ts) = after[Len(ts)]
  BY Zenon DEF GenesisLines
<1>2. after = CHOOSE f : IsLines(f, s, ts, Len(ts))
  BY Zenon DEF IsLines
<1> HIDE DEF after
<1>3. IsLines(after, s, ts, Len(ts))
  BY <1>2, LinesExist
<1>4. after[0] = s /\ \A n \in 1 .. Len(ts) : after[n] = GenesisLine(after[n - 1], ts[n])
  BY <1>3 DEF IsLines
<1> QED
  BY <1>1, <1>4

IsReading(f, s, ts, id, d) == f = [n \in 0 .. d |-> IF n = 0 THEN s ELSE Read(f[n - 1], ts[n], id)]

LEMMA ReadingsExist ==
    ASSUME NEW s, NEW ts, NEW id
    PROVE  \A d \in Nat : \E f : IsReading(f, s, ts, id, d)
<1> DEFINE S == {d \in Nat : \E f : IsReading(f, s, ts, id, d)}
<1>1. 0 \in S
  <2>1. PICK f : f = [n \in 0 .. 0 |-> s]
    OBVIOUS
  <2>2. IsReading(f, s, ts, id, 0)
    BY <2>1 DEF IsReading
  <2> QED
    BY <2>2
<1>2. ASSUME NEW d \in Nat, NEW f, IsReading(f, s, ts, id, d)
      PROVE  \E g : IsReading(g, s, ts, id, d + 1)
  <2>1. PICK g : g = [n \in 0 .. d + 1 |-> IF n = 0 THEN s ELSE Read(f[n - 1], ts[n], id)]
    OBVIOUS
  <2>2. ASSUME NEW n \in 0 .. d
        PROVE  g[n] = f[n]
    <3>1. f[n] = IF n = 0 THEN s ELSE Read(f[n - 1], ts[n], id)
      BY <1>2 DEF IsReading
    <3>2. n \in 0 .. d + 1
      OBVIOUS
    <3> QED
      BY <2>1, <3>1, <3>2
  <2>3. \A n \in 0 .. d + 1 : n # 0 => n - 1 \in 0 .. d
    OBVIOUS
  <2>4. IsReading(g, s, ts, id, d + 1)
    BY <2>1, <2>2, <2>3 DEF IsReading
  <2> QED
    BY <2>4
<1>3. \A k \in Nat : k \in S => k + 1 \in S
  BY <1>2
<1> HIDE DEF S
<1>4. \A k \in Nat : k \in S
  BY <1>1, <1>3, AllNat
<1> QED
  BY <1>4 DEF S

LEMMA ReadingIs ==
    ASSUME NEW s, NEW ts, NEW id, Len(ts) \in Nat
    PROVE  \E f : /\ Reading(s, ts, id) = f[Len(ts)] /\ f[0] = s
                  /\ \A n \in 1 .. Len(ts) : f[n] = Read(f[n - 1], ts[n], id)
<1> DEFINE after[n \in 0 .. Len(ts)] == IF n = 0 THEN s ELSE Read(after[n - 1], ts[n], id)
<1>1. Reading(s, ts, id) = after[Len(ts)]
  BY Zenon DEF Reading
<1>2. after = CHOOSE f : IsReading(f, s, ts, id, Len(ts))
  BY Zenon DEF IsReading
<1> HIDE DEF after
<1>3. IsReading(after, s, ts, id, Len(ts))
  BY <1>2, ReadingsExist
<1>4. after[0] = s /\ \A n \in 1 .. Len(ts) : after[n] = Read(after[n - 1], ts[n], id)
  BY <1>3 DEF IsReading
<1> QED
  BY <1>1, <1>4

IsEnds(f, ts, d) == f = [n \in 0 .. d |-> IF n = 0 THEN 0 ELSE f[n - 1] + ts[n].newlines]

LEMMA EndsExist ==
    ASSUME NEW ts
    PROVE  \A d \in Nat : \E f : IsEnds(f, ts, d)
<1> DEFINE S == {d \in Nat : \E f : IsEnds(f, ts, d)}
<1>1. 0 \in S
  <2>1. PICK f : f = [n \in 0 .. 0 |-> 0]
    OBVIOUS
  <2>2. IsEnds(f, ts, 0)
    BY <2>1 DEF IsEnds
  <2> QED
    BY <2>2
<1>2. ASSUME NEW d \in Nat, NEW f, IsEnds(f, ts, d)
      PROVE  \E g : IsEnds(g, ts, d + 1)
  <2>1. PICK g : g = [n \in 0 .. d + 1 |-> IF n = 0 THEN 0 ELSE f[n - 1] + ts[n].newlines]
    OBVIOUS
  <2>2. ASSUME NEW n \in 0 .. d
        PROVE  g[n] = f[n]
    <3>1. f[n] = IF n = 0 THEN 0 ELSE f[n - 1] + ts[n].newlines
      BY <1>2 DEF IsEnds
    <3>2. n \in 0 .. d + 1
      OBVIOUS
    <3> QED
      BY <2>1, <3>1, <3>2
  <2>3. \A n \in 0 .. d + 1 : n # 0 => n - 1 \in 0 .. d
    OBVIOUS
  <2>4. IsEnds(g, ts, d + 1)
    BY <2>1, <2>2, <2>3 DEF IsEnds
  <2> QED
    BY <2>4
<1>3. \A k \in Nat : k \in S => k + 1 \in S
  BY <1>2
<1> HIDE DEF S
<1>4. \A k \in Nat : k \in S
  BY <1>1, <1>3, AllNat
<1> QED
  BY <1>4 DEF S

LEMMA EndsAre ==
    ASSUME NEW ts, Len(ts) \in Nat
    PROVE  \E f : /\ Ends(ts) = f[Len(ts)] /\ f[0] = 0
                  /\ \A n \in 1 .. Len(ts) : f[n] = f[n - 1] + ts[n].newlines
<1> DEFINE after[n \in 0 .. Len(ts)] == IF n = 0 THEN 0 ELSE after[n - 1] + ts[n].newlines
<1>1. Ends(ts) = after[Len(ts)]
  BY Zenon DEF Ends
<1>2. after = CHOOSE f : IsEnds(f, ts, Len(ts))
  BY Zenon DEF IsEnds
<1> HIDE DEF after
<1>3. IsEnds(after, ts, Len(ts))
  BY <1>2, EndsExist
<1>4. after[0] = 0 /\ \A n \in 1 .. Len(ts) : after[n] = after[n - 1] + ts[n].newlines
  BY <1>3 DEF IsEnds
<1> QED
  BY <1>1, <1>4

-----------------------------------------------------------------------------
(* The inductive invariant.                                                *)

\* The scanners between two items.
G(e, m, l, o) == [emit |-> e, brackets |-> 0, stmt |-> m, line |-> l, out |-> o]
J(e, st, f, l, r, o) == [emit |-> e, stack |-> st, first |-> f, line |-> l, raised |-> r, out |-> o]

\* Python is in the blocks o, perhaps in others inside them; a block is due
\* where nothing stands in the last one yet.
Blocks == [indent : Nat, id : Nat]
PyIn(p, o) ==
    /\ p = [blocks |-> p.blocks, due |-> 0, failed |-> FALSE]
    /\ p.blocks \in Seq(Blocks)
    /\ \A n \in 1 .. Len(p.blocks) : p.blocks[n].indent = n
    /\ Len(o) <= Len(p.blocks)
    /\ \A n \in 1 .. Len(o) : p.blocks[n].id = o[n]
PyDue(p, o) ==
    /\ p = [blocks |-> p.blocks, due |-> o[Len(o)], failed |-> FALSE]
    /\ p.blocks \in Seq(Blocks)
    /\ \A n \in 1 .. Len(p.blocks) : p.blocks[n].indent = n
    /\ Len(o) = Len(p.blocks) + 1
    /\ \A n \in 1 .. Len(p.blocks) : p.blocks[n].id = o[n]
PyIs(p, o, b) == IF b THEN PyDue(p, o) ELSE PyIn(p, o)

\* The stack of j2 in the blocks of depth d, where the blocks of level low and
\* below are those that a keyword may close: it rises, and has every one of them.
StackIs(st, d, low) ==
    /\ st \in Seq(Nat)
    /\ \A m, n \in 1 .. Len(st) : m < n => st[m] < st[n]
    /\ \A n \in 1 .. Len(st) : st[n] < d \/ st[n] < low
    /\ \A e \in low .. d : \E n \in 1 .. Len(st) : st[n] = e - 1

\* Keywords close no block above level low, and nothing else one below it.
Lowest(sty, low) ==
    \A d \in 1 .. MaxDepth : /\ d < low => sty[d] \cap Keywords = {}
                             /\ d > low => sty[d] \subseteq Keywords

TypesOk(sty, o, b) ==
    /\ sty \in [1 .. MaxDepth -> SUBSET Closings]
    /\ o \in Seq(Nat \ {0}) /\ Len(o) <= MaxDepth
    /\ b \in BOOLEAN
GOk(s, p, kind, l, o, b) ==
    /\ s = G(Len(o), s.stmt, l, s.out)
    /\ l \in Nat
    /\ PyIs(p, o, b)
    /\ kind = "text" => Inside(p) = o
JShape(s, kind, l) ==
    /\ s = J(s.emit, s.stack, 0, s.line, s.raised, s.out)
    /\ s.raised \in BOOLEAN /\ s.line \in Nat /\ l \in Nat
    /\ s.raised \/ kind = "end" \/ s.line = l + 1
JOk(s, p, kind, o, b, low) ==
    /\ ~s.raised /\ s.emit = Len(o) /\ StackIs(s.stack, Len(o), low)
    /\ PyIs(p, o, b)
    /\ kind = "text" => Inside(p) = o

TInv ==
    /\ TypesOk(style, open, bodiless)
    /\ item.id \in Nat
    /\ GOk(scan["genesis"], python["genesis"], item.kind, item.last["genesis"], open, bodiless)
    /\ JShape(scan["j2"], item.kind, item.last["j2"])
    /\ \A low \in 1 .. MaxDepth + 1 :
          Lowest(style, low) => JOk(scan["j2"], python["j2"], item.kind, open, bodiless, low)
    /\ LinesTrue

-----------------------------------------------------------------------------
(* Python.                                                                 *)

LEMMA MaxIs ==
    ASSUME NEW k \in Nat
    PROVE  Max(0 .. k) = k
<1>1. \A x \in 0 .. k : (\A y \in 0 .. k : x >= y) <=> x = k
  OBVIOUS
<1>2. Max(0 .. k) = CHOOSE x \in 0 .. k : \A y \in 0 .. k : x >= y
  BY DEF Max
<1> QED
  BY <1>1, <1>2

LEMMA KeptIs ==
    ASSUME NEW bs \in Seq(Blocks), \A n \in 1 .. Len(bs) : bs[n].indent = n,
           NEW k \in Nat, k <= Len(bs)
    PROVE  /\ Kept(bs, k) \in Seq(Blocks)
           /\ Len(Kept(bs, k)) = k
           /\ \A n \in 1 .. k : Kept(bs, k)[n] = bs[n]
           /\ Level(Kept(bs, k)) = k
<1>1. Len(bs) \in Nat /\ DOMAIN bs = 1 .. Len(bs)
  OBVIOUS
<1>2. {0} \cup {n \in DOMAIN bs : bs[n].indent <= k} = 0 .. k
  BY <1>1
<1>3. Kept(bs, k) = SubSeq(bs, 1, k)
  BY <1>2, MaxIs DEF Kept
<1>4. PICK q : q = SubSeq(bs, 1, k)
  OBVIOUS
<1>5. q \in Seq(Blocks) /\ Len(q) = k /\ \A n \in 1 .. k : q[n] = bs[n]
  BY <1>1, <1>4
<1>6. Level(q) = k
  <2>1. CASE k = 0
    <3>1. q = <<>>
      BY <1>5, <2>1
    <3> QED
      BY <3>1, <2>1 DEF Level
  <2>2. CASE k # 0
    <3>1. q # <<>> /\ Last(q) = q[k] /\ k \in 1 .. k /\ k \in 1 .. Len(bs)
      BY <1>1, <1>5, <2>2 DEF Last
    <3>2. q[k].indent = k
      BY <1>5, <3>1
    <3> QED
      BY <3>1, <3>2 DEF Level
  <2> QED
    BY <2>1, <2>2
<1> QED
  BY <1>3, <1>4, <1>5, <1>6

LEMMA LevelIs ==
    ASSUME NEW bs \in Seq(Blocks), \A n \in 1 .. Len(bs) : bs[n].indent = n
    PROVE  Level(bs) = Len(bs)
<1>1. Len(bs) \in Nat
  OBVIOUS
<1>2. CASE Len(bs) = 0
  <2>1. bs = <<>>
    BY <1>2
  <2> QED
    BY <1>2, <2>1 DEF Level
<1>3. CASE Len(bs) # 0
  <2>1. bs # <<>> /\ Last(bs) = bs[Len(bs)] /\ Len(bs) \in 1 .. Len(bs)
    BY <1>1, <1>3 DEF Last
  <2> QED
    BY <2>1 DEF Level
<1> QED
  BY <1>2, <1>3

IsIn(z, cs) == z = [blocks |-> cs, due |-> 0, failed |-> FALSE]
Nested(cs, r, k) == \A n \in 1 .. k : cs[n].indent = n /\ cs[n].id = r[n]
LEMMA ReadTo ==
    ASSUME NEW cs \in Seq(Blocks), NEW r, NEW k \in Nat, Len(cs) = k, Len(r) = k,
           Nested(cs, r, k),
           NEW z, IsIn(z, cs)
    PROVE  PyIn(z, r) /\ Len(z.blocks) = k
<1>1. z.blocks = cs
  BY DEF IsIn
<1> QED
  BY <1>1 DEF PyIn, IsIn, Nested

\* The lines of a statement: its first, and its further one.
Starts(l, k) == l.indent = k /\ l.code = TRUE /\ l.starts = TRUE /\ l.opener = FALSE
StartsBlock(l, k) == l.indent = k /\ l.code = TRUE /\ l.starts = TRUE /\ l.opener = TRUE
Further(l) == l.code = TRUE /\ l.starts = FALSE /\ l.opener = FALSE
FurtherOpens(l) == l.code = TRUE /\ l.starts = FALSE /\ l.opener = TRUE

\* Block k, of those Python is in; nothing but the last can have a line due.
InBlock(p, o, k) == k \in 0 .. Len(o) /\ (PyIn(p, o) \/ (PyDue(p, o) /\ k = Len(o)))

\* A statement that starts in block k.
LEMMA ReadCode ==
    ASSUME NEW p, NEW o \in Seq(Nat \ {0}), NEW k, InBlock(p, o, k),
           NEW l, Starts(l, k), NEW id
    PROVE  PyIn(Read(p, l, id), SubSeq(o, 1, k)) /\ Len(Read(p, l, id).blocks) = k
<1>2. l.indent = k /\ l.code = TRUE /\ l.starts = TRUE /\ l.opener = FALSE
  BY DEF Starts
<1>3. PICK bs, u : bs = p.blocks /\ u = p.due
  OBVIOUS
<1>4. /\ p = [blocks |-> bs, due |-> u, failed |-> FALSE]
      /\ bs \in Seq(Blocks)
      /\ \A n \in 1 .. Len(bs) : bs[n].indent = n
  BY <1>3 DEF InBlock, PyIn, PyDue
<1>5. Len(o) \in Nat /\ Len(bs) \in Nat /\ k \in Nat /\ k <= Len(o)
  BY <1>4 DEF InBlock
<1>6. PICK r : r = SubSeq(o, 1, k)
  OBVIOUS
<1>7. r \in Seq(Nat \ {0}) /\ Len(r) = k /\ \A n \in 1 .. k : r[n] = o[n]
  BY <1>5, <1>6
<1>8. CASE PyDue(p, o) /\ k = Len(o)
  <2>1. Len(o) = Len(bs) + 1 /\ u = o[k] /\ \A n \in 1 .. Len(bs) : bs[n].id = o[n]
    BY <1>3, <1>8 DEF PyDue
  <2>2. k = Len(bs) + 1 /\ k \in 1 .. Len(o)
    BY <1>5, <1>8, <2>1
  <2>3. u \in Nat /\ u # 0
    BY <2>1, <2>2
  <2>4. PICK c : c = [indent |-> k, id |-> u]
    OBVIOUS
  <2>5. PICK cs : cs = Append(bs, c)
    OBVIOUS
  <2>6. c \in Blocks /\ c.indent = k /\ c.id = u
    BY <1>5, <2>3, <2>4 DEF Blocks
  <2>7. cs \in Seq(Blocks) /\ Len(cs) = k /\ cs[k] = c /\ \A n \in 1 .. Len(bs) : cs[n] = bs[n]
    BY <1>4, <1>5, <2>2, <2>5, <2>6
  <2>8. ~ (k <= Level(bs))
    BY <1>4, <1>5, <2>2, LevelIs
  <2>9. Read(p, l, id) = [blocks |-> cs, due |-> 0, failed |-> FALSE]
    <3>1. Read(p, l, id) = [p EXCEPT !.blocks = Append(@, c), !.due = 0, !.failed = @ \/ k <= Level(p.blocks)]
      BY <1>2, <1>3, <2>3, <2>4, Zenon DEF Read
    <3>2. p.blocks = bs /\ p.due = u /\ p.failed = FALSE
      BY <1>4
    <3>3. (p.failed \/ k <= Level(p.blocks)) = FALSE
      BY <2>8, <3>2
    <3>4. Read(p, l, id) = [p EXCEPT !.blocks = cs, !.due = 0, !.failed = FALSE]
      BY <2>5, <3>1, <3>2, <3>3, Zenon
    <3> QED
      BY <1>4, <3>4
  <2>10. Nested(cs, r, k)
    <3>1. ASSUME NEW n \in 1 .. k
          PROVE  cs[n].indent = n /\ cs[n].id = r[n]
      <4>1. CASE n = k
        BY <1>7, <2>1, <2>6, <2>7, <4>1
      <4>2. CASE n # k
        <5>1. n \in 1 .. Len(bs)
          BY <1>5, <2>2, <4>2
        <5> QED
          BY <1>4, <1>7, <2>1, <2>7, <5>1
      <4> QED
        BY <4>1, <4>2
    <3> QED
      BY <3>1 DEF Nested
  <2>11. PICK z : z = Read(p, l, id)
    OBVIOUS
  <2>12. PyIn(z, r) /\ Len(z.blocks) = k
    <3>1. IsIn(z, cs)
      BY <2>9, <2>11 DEF IsIn
    <3> QED
      <4>1. cs \in Seq(Blocks) /\ k \in Nat /\ Len(cs) = k /\ Len(r) = k
        BY <1>5, <1>7, <2>7
      <4> QED
        BY <2>10, <3>1, <4>1, ReadTo, Zenon
  <2> QED
    BY <1>6, <2>11, <2>12
<1>9. CASE PyIn(p, o)
  <2>1. u = 0 /\ Len(o) <= Len(bs) /\ \A n \in 1 .. Len(o) : bs[n].id = o[n]
    BY <1>3, <1>9 DEF PyIn
  <2>2. PICK cs : cs = Kept(bs, k)
    OBVIOUS
  <2>3. k <= Len(bs)
    BY <1>5, <2>1
  <2>4. cs \in Seq(Blocks) /\ Len(cs) = k /\ (\A n \in 1 .. k : cs[n] = bs[n]) /\ Level(cs) = k
    BY <1>4, <1>5, <2>2, <2>3, KeptIs
  <2>5. Read(p, l, id) = [blocks |-> cs, due |-> 0, failed |-> FALSE]
    <3>1. Read(p, l, id) = [p EXCEPT !.blocks = cs, !.failed = @ \/ Level(cs) # k]
      BY <1>2, <1>3, <2>1, <2>2, Zenon DEF Read
    <3>2. p.blocks = bs /\ p.due = u /\ p.failed = FALSE
      BY <1>4
    <3>3. (p.failed \/ Level(cs) # k) = FALSE
      BY <2>4, <3>2
    <3>4. Read(p, l, id) = [p EXCEPT !.blocks = cs, !.failed = FALSE]
      BY <3>1, <3>3, Zenon
    <3> QED
      BY <1>4, <2>1, <3>4
  <2>6. Nested(cs, r, k)
    <3>1. ASSUME NEW n \in 1 .. k
          PROVE  cs[n].indent = n /\ cs[n].id = r[n]
      <4>1. n \in 1 .. Len(bs) /\ n \in 1 .. Len(o)
        BY <1>5, <2>3
      <4> QED
        BY <1>4, <1>7, <2>1, <2>4, <4>1
    <3> QED
      BY <3>1 DEF Nested
  <2>11. PICK z : z = Read(p, l, id)
    OBVIOUS
  <2>12. PyIn(z, r) /\ Len(z.blocks) = k
    <3>1. IsIn(z, cs)
      BY <2>5, <2>11 DEF IsIn
    <3> QED
      <4>1. cs \in Seq(Blocks) /\ k \in Nat /\ Len(cs) = k /\ Len(r) = k
        BY <1>5, <1>7, <2>4
      <4> QED
        BY <2>6, <3>1, <4>1, ReadTo, Zenon
  <2> QED
    BY <1>6, <2>11, <2>12
<1> QED
  BY <1>8, <1>9 DEF InBlock

\* A block is due where a line opens one.
LEMMA DueTo ==
    ASSUME NEW q, NEW r \in Seq(Nat \ {0}), PyIn(q, r), Len(q.blocks) = Len(r), NEW id
    PROVE  PyDue([q EXCEPT !.due = id], Append(r, id))
<1>1. PICK k : k = Len(r)
  OBVIOUS
<1>2. k \in Nat
  BY <1>1
<1>3. PICK t : t = Append(r, id)
  OBVIOUS
<1>4. Len(t) = k + 1 /\ t[k + 1] = id /\ \A n \in 1 .. k : t[n] = r[n]
  BY <1>1, <1>2, <1>3
<1>5. PICK bs, u : bs = q.blocks /\ u = q.due
  OBVIOUS
<1>6. /\ q = [blocks |-> bs, due |-> 0, failed |-> FALSE]
      /\ bs \in Seq(Blocks)
      /\ \A n \in 1 .. Len(bs) : bs[n].indent = n
      /\ \A n \in 1 .. Len(r) : bs[n].id = r[n]
  BY <1>5 DEF PyIn
<1>7. PICK z : z = [blocks |-> bs, due |-> id, failed |-> FALSE]
  OBVIOUS
<1>8. [q EXCEPT !.due = id] = z
  <2>1. PICK y : y = [q EXCEPT !.due = id]
    OBVIOUS
  <2>2. PICK f : f = FALSE
    OBVIOUS
  <2>3. q = [blocks |-> bs, due |-> u, failed |-> f] /\ z = [blocks |-> bs, due |-> id, failed |-> f]
    <3>1. q = [blocks |-> bs, due |-> u, failed |-> FALSE]
      BY <1>5, <1>6
    <3>2. q = [blocks |-> bs, due |-> u, failed |-> f]
      BY <2>2, <3>1, Zenon
    <3>3. z = [blocks |-> bs, due |-> id, failed |-> f]
      BY <1>7, <2>2, Zenon
    <3> QED
      BY <3>2, <3>3
  <2>4. y = z
    BY <2>1, <2>3
  <2> QED
    BY <2>1, <2>4
<1>9. z.blocks = bs
  BY <1>7
<1>10. PyDue(z, t)
  BY <1>1, <1>2, <1>4, <1>5, <1>6, <1>7, <1>9 DEF PyDue
<1> QED
  BY <1>3, <1>8, <1>10

LEMMA ReadOpener ==
    ASSUME NEW p, NEW o \in Seq(Nat \ {0}), NEW k, InBlock(p, o, k),
           NEW m, StartsBlock(m, k), NEW id
    PROVE  PyDue(Read(p, m, id), Append(SubSeq(o, 1, k), id))
<1>2. PICK l1 : l1 = [indent |-> k, code |-> TRUE, starts |-> TRUE, opener |-> FALSE]
  OBVIOUS
<1>3. l1.indent = k /\ l1.code = TRUE /\ l1.starts = TRUE /\ l1.opener = FALSE
  BY <1>2
<1>4. m.indent = k /\ m.code = TRUE /\ m.starts = TRUE /\ m.opener = TRUE
  BY DEF StartsBlock
<1>5. PICK q : q = Read(p, l1, id)
  OBVIOUS
<1>6. Read(p, m, id) = [q EXCEPT !.due = id]
  BY <1>3, <1>4, <1>5, Zenon DEF Read
<1>7. Starts(l1, k)
  BY <1>3 DEF Starts
<1>8. PyIn(q, SubSeq(o, 1, k)) /\ Len(q.blocks) = k
  BY <1>5, <1>7, ReadCode
<1>9. PICK r : r = SubSeq(o, 1, k)
  OBVIOUS
<1>10. Len(o) \in Nat /\ k \in Nat /\ k <= Len(o)
  BY DEF InBlock
<1>11. r \in Seq(Nat \ {0}) /\ Len(r) = k
  BY <1>9, <1>10
<1> QED
  BY <1>6, <1>8, <1>9, <1>11, DueTo

\* A line that is no statement, and the further line of one.
LEMMA ReadNothing ==
    ASSUME NEW p, NEW l, l.code = FALSE, NEW id
    PROVE  Read(p, l, id) = p
BY Zenon DEF Read

LEMMA ReadFurther ==
    ASSUME NEW p, NEW l, Further(l), NEW id
    PROVE  Read(p, l, id) = p
BY Zenon DEF Read, Further

LEMMA ReadFurtherOpens ==
    ASSUME NEW p, NEW r \in Seq(Nat \ {0}), PyIn(p, r), Len(p.blocks) = Len(r),
           NEW l, FurtherOpens(l), NEW id
    PROVE  PyDue(Read(p, l, id), Append(r, id))
<1>1. Read(p, l, id) = [p EXCEPT !.due = id]
  BY Zenon DEF Read, FurtherOpens
<1> QED
  BY <1>1, DueTo

\* A line of output, which stands in the last block.
LEMMA WholeSeq ==
    ASSUME NEW o \in Seq(Nat \ {0})
    PROVE  SubSeq(o, 1, Len(o)) = o
<1>1. PICK r : r = SubSeq(o, 1, Len(o))
  OBVIOUS
<1>2. Len(o) \in Nat
  OBVIOUS
<1>3. r \in Seq(Nat \ {0}) /\ Len(r) = Len(o) /\ \A n \in 1 .. Len(o) : r[n] = o[n]
  BY <1>1, <1>2
<1>4. r = [n \in 1 .. Len(r) |-> r[n]] /\ o = [n \in 1 .. Len(o) |-> o[n]]
  BY <1>3
<1>5. r = o
  BY <1>3, <1>4
<1> QED
  BY <1>1, <1>5

LEMMA ReadText ==
    ASSUME NEW p, NEW o \in Seq(Nat \ {0}), PyIn(p, o) \/ PyDue(p, o),
           NEW l, Starts(l, Len(o)), NEW id
    PROVE  PyIn(Read(p, l, id), o) /\ Inside(Read(p, l, id)) = o
<1>1. PICK k : k = Len(o)
  OBVIOUS
<1>2. k \in Nat
  BY <1>1
<1>3. InBlock(p, o, k)
  BY <1>1, <1>2 DEF InBlock
<1>4. PICK q : q = Read(p, l, id)
  OBVIOUS
<1>5. PyIn(q, SubSeq(o, 1, k)) /\ Len(q.blocks) = k
  BY <1>1, <1>3, <1>4, ReadCode
<1>6. PyIn(q, o)
  BY <1>1, <1>5, WholeSeq
<1>7. PICK bs : bs = q.blocks
  OBVIOUS
<1>8. bs \in Seq(Blocks) /\ Len(bs) = k /\ \A n \in 1 .. k : bs[n].id = o[n]
  BY <1>1, <1>5, <1>6, <1>7 DEF PyIn
<1>9. DOMAIN bs = 1 .. k
  BY <1>8
<1>10. Inside(q) = [n \in 1 .. k |-> bs[n].id]
  BY <1>7, <1>9, Zenon DEF Inside
<1>11. Inside(q) = [n \in 1 .. k |-> o[n]]
  BY <1>8, <1>10
<1>12. o = [n \in 1 .. k |-> o[n]]
  BY <1>1
<1> QED
  BY <1>4, <1>6, <1>11, <1>12

LEMMA ReadingNone ==
    ASSUME NEW p, NEW id
    PROVE  Reading(p, <<>>, id) = p
<1>1. PICK ls : ls = <<>>
  OBVIOUS
<1>2. Len(ls) = 0
  BY <1>1
<1>3. \E f : Reading(p, ls, id) = f[Len(ls)] /\ f[0] = p
  <2>1. Len(ls) \in Nat
    BY <1>2
  <2> QED
    BY <2>1, ReadingIs
<1> QED
  BY <1>1, <1>2, <1>3

LEMMA ReadingOne ==
    ASSUME NEW p, NEW id, NEW l
    PROVE  Reading(p, <<l>>, id) = Read(p, l, id)
<1>1. PICK ls : ls = <<l>>
  OBVIOUS
<1>2. Len(ls) = 1 /\ ls[1] = l
  BY <1>1
<1>3. \E f : /\ Reading(p, ls, id) = f[Len(ls)] /\ f[0] = p
             /\ \A n \in 1 .. Len(ls) : f[n] = Read(f[n - 1], ls[n], id)
  <2>1. Len(ls) \in Nat
    BY <1>2
  <2> QED
    BY <2>1, ReadingIs
<1>4. PICK f : /\ Reading(p, ls, id) = f[1] /\ f[0] = p
               /\ \A n \in 1 .. 1 : f[n] = Read(f[n - 1], ls[n], id)
  BY <1>2, <1>3
<1>5. f[1] = Read(f[1 - 1], ls[1], id)
  BY <1>4
<1>6. f[1 - 1] = f[0]
  OBVIOUS
<1> QED
  BY <1>1, <1>2, <1>4, <1>5, <1>6

LEMMA ReadingTwo ==
    ASSUME NEW p, NEW id, NEW l, NEW m
    PROVE  Reading(p, <<l, m>>, id) = Read(Read(p, l, id), m, id)
<1>1. PICK ls : ls = <<l, m>>
  OBVIOUS
<1>2. Len(ls) = 2 /\ ls[1] = l /\ ls[2] = m
  BY <1>1
<1>3. \E f : /\ Reading(p, ls, id) = f[Len(ls)] /\ f[0] = p
             /\ \A n \in 1 .. Len(ls) : f[n] = Read(f[n - 1], ls[n], id)
  <2>1. Len(ls) \in Nat
    BY <1>2
  <2> QED
    BY <2>1, ReadingIs
<1>4. PICK f : /\ Reading(p, ls, id) = f[2] /\ f[0] = p
               /\ \A n \in 1 .. 2 : f[n] = Read(f[n - 1], ls[n], id)
  BY <1>2, <1>3
<1>5. f[1] = Read(f[1 - 1], ls[1], id) /\ f[2] = Read(f[2 - 1], ls[2], id)
  BY <1>4
<1>6. f[1 - 1] = f[0] /\ f[2 - 1] = f[1]
  OBVIOUS
<1> QED
  BY <1>1, <1>2, <1>4, <1>5, <1>6

LEMMA LinesOne ==
    ASSUME NEW s, NEW l
    PROVE  GenesisLines(s, <<l>>) = GenesisLine(s, l)
<1>1. PICK ls : ls = <<l>>
  OBVIOUS
<1>2. Len(ls) = 1 /\ ls[1] = l
  BY <1>1
<1>3. \E f : /\ GenesisLines(s, ls) = f[Len(ls)] /\ f[0] = s
             /\ \A n \in 1 .. Len(ls) : f[n] = GenesisLine(f[n - 1], ls[n])
  <2>1. Len(ls) \in Nat
    BY <1>2
  <2> QED
    BY <2>1, LinesAre
<1>4. PICK f : /\ GenesisLines(s, ls) = f[1] /\ f[0] = s
               /\ \A n \in 1 .. 1 : f[n] = GenesisLine(f[n - 1], ls[n])
  BY <1>2, <1>3
<1>5. f[1] = GenesisLine(f[1 - 1], ls[1])
  BY <1>4
<1>6. f[1 - 1] = f[0]
  OBVIOUS
<1> QED
  BY <1>1, <1>2, <1>4, <1>5, <1>6

LEMMA LinesTwo ==
    ASSUME NEW s, NEW l, NEW m
    PROVE  GenesisLines(s, <<l, m>>) = GenesisLine(GenesisLine(s, l), m)
<1>1. PICK ls : ls = <<l, m>>
  OBVIOUS
<1>2. Len(ls) = 2 /\ ls[1] = l /\ ls[2] = m
  BY <1>1
<1>3. \E f : /\ GenesisLines(s, ls) = f[Len(ls)] /\ f[0] = s
             /\ \A n \in 1 .. Len(ls) : f[n] = GenesisLine(f[n - 1], ls[n])
  <2>1. Len(ls) \in Nat
    BY <1>2
  <2> QED
    BY <2>1, LinesAre
<1>4. PICK f : /\ GenesisLines(s, ls) = f[2] /\ f[0] = s
               /\ \A n \in 1 .. 2 : f[n] = GenesisLine(f[n - 1], ls[n])
  BY <1>2, <1>3
<1>5. f[1] = GenesisLine(f[1 - 1], ls[1]) /\ f[2] = GenesisLine(f[2 - 1], ls[2])
  BY <1>4
<1>6. f[1 - 1] = f[0] /\ f[2 - 1] = f[1]
  OBVIOUS
<1> QED
  BY <1>1, <1>2, <1>4, <1>5, <1>6

LEMMA LinesNone ==
    ASSUME NEW s
    PROVE  GenesisLines(s, <<>>) = s
<1>1. PICK ls : ls = <<>>
  OBVIOUS
<1>2. Len(ls) = 0
  BY <1>1
<1>3. \E f : GenesisLines(s, ls) = f[Len(ls)] /\ f[0] = s
  <2>1. Len(ls) \in Nat
    BY <1>2
  <2> QED
    BY <2>1, LinesAre
<1> QED
  BY <1>1, <1>2, <1>3

LEMMA TokensOne ==
    ASSUME NEW s, NEW t
    PROVE  J2Tokens(s, <<t>>) = J2Token(s, t)
<1>1. PICK ts : ts = <<t>>
  OBVIOUS
<1>2. Len(ts) = 1 /\ ts[1] = t
  BY <1>1
<1>3. \E f : /\ J2Tokens(s, ts) = f[Len(ts)] /\ f[0] = s
             /\ \A n \in 1 .. Len(ts) : f[n] = J2Token(f[n - 1], ts[n])
  BY <1>2, ScanIs
<1>4. PICK f : /\ J2Tokens(s, ts) = f[1] /\ f[0] = s
               /\ \A n \in 1 .. 1 : f[n] = J2Token(f[n - 1], ts[n])
  BY <1>2, <1>3
<1>5. f[1] = J2Token(f[1 - 1], ts[1])
  BY <1>4
<1>6. f[1 - 1] = f[0]
  OBVIOUS
<1> QED
  BY <1>1, <1>2, <1>4, <1>5, <1>6

LEMMA EndsOne ==
    ASSUME NEW t
    PROVE  Ends(<<t>>) = 0 + t.newlines
<1>1. PICK ts : ts = <<t>>
  OBVIOUS
<1>2. Len(ts) = 1 /\ ts[1] = t
  BY <1>1
<1>3. \E f : /\ Ends(ts) = f[Len(ts)] /\ f[0] = 0
             /\ \A n \in 1 .. Len(ts) : f[n] = f[n - 1] + ts[n].newlines
  BY <1>2, EndsAre
<1>4. PICK f : /\ Ends(ts) = f[1] /\ f[0] = 0
               /\ \A n \in 1 .. 1 : f[n] = f[n - 1] + ts[n].newlines
  BY <1>2, <1>3
<1>5. f[1] = f[1 - 1] + ts[1].newlines
  BY <1>4
<1>6. f[1 - 1] = f[0]
  OBVIOUS
<1> QED
  BY <1>1, <1>2, <1>4, <1>5, <1>6

-----------------------------------------------------------------------------
(* The genesis scanner.                                                    *)

Deeper(w) == IF w = "opener" THEN 1 ELSE 0

\* A directive on one line.
OneLine(s, w, k, n) ==
    \E l : /\ s = G(k + Deeper(w), k, n + 1, <<l>>)
           /\ l.mark = n + 1
           /\ w = "plain" => Starts(l, k)
           /\ w = "opener" => StartsBlock(l, k)
           /\ w = "comment" => l.code = FALSE

LEMMA DirectiveOne ==
    ASSUME NEW e, NEW m, NEW n \in Nat, NEW k \in Nat, NEW w \in {"plain", "opener", "comment"}
    PROVE  OneLine(GenesisLine(G(e, m, n, <<>>), Line(w, k, 0)), w, k, n)
<1>1. PICK s : s = G(e, m, n, <<>>)
  OBVIOUS
<1>2. s.emit = e /\ s.brackets = 0 /\ s.stmt = m /\ s.line = n /\ s.out = <<>>
  BY <1>1 DEF G
<1>3. PICK t : t = Line(w, k, 0)
  OBVIOUS
<1>4. t.what = w /\ t.indent = k /\ t.delta = 0
  BY <1>3 DEF Line
<1>5. PICK l : l = OutLine(t.indent, t.what # "comment", ~(s.brackets > 0),
                           0 = 0 /\ t.what = "opener", s.line + 1)
  OBVIOUS
<1>6. /\ l.indent = k /\ l.mark = n + 1 /\ l.starts = TRUE
      /\ l.code = (w # "comment") /\ l.opener = (w = "opener")
  <2>1. PICK x, y, z : x = (t.what # "comment") /\ y = ~ (s.brackets > 0) /\ z = (0 = 0 /\ t.what = "opener")
    BY Zenon
  <2>2. l = [indent |-> t.indent, code |-> x, starts |-> y, opener |-> z, mark |-> s.line + 1]
    BY <1>5, <2>1, Zenon DEF OutLine
  <2>3. l.indent = k /\ l.mark = n + 1 /\ l.starts = y /\ l.code = x /\ l.opener = z
    <3>1. /\ l.indent = t.indent /\ l.mark = s.line + 1
          /\ l.starts = y /\ l.code = x /\ l.opener = z
      BY <2>2, Zenon
    <3> QED
      BY <1>2, <1>4, <3>1
  <2>4. y = TRUE
    <3>1. ~ (s.brackets > 0)
      BY <1>2
    <3>2. y \in BOOLEAN
      BY <2>1
    <3>3. y
      BY <2>1, <3>1
    <3> QED
      BY <3>2, <3>3
  <2>5. x = (w # "comment")
    BY <1>4, <2>1
  <2>6. z = (w = "opener")
    BY <1>4, <2>1
  <2> QED
    BY <2>3, <2>4, <2>5, <2>6
<1>7. Directive(s, t) = [s EXCEPT !.out = Append(@, l), !.stmt = k, !.brackets = 0, !.emit = k + Deeper(w)]
  <2>1. (IF s.brackets > 0 THEN s.stmt ELSE t.indent) = k
    BY <1>2, <1>4
  <2>2. (IF s.brackets + t.delta > 0 THEN s.brackets + t.delta ELSE 0) = 0
    BY <1>2, <1>4
  <2>3. ~ (0 > 0)
    OBVIOUS
  <2> QED
    BY <1>4, <1>5, <2>1, <2>2, <2>3 DEF Directive, Deeper
<1>8. GenesisLine(s, t) = [Directive(s, t) EXCEPT !.line = @ + 1]
  <2>1. t.what # "blank" /\ t.what # "text"
    BY <1>4
  <2> QED
    BY <2>1 DEF GenesisLine
<1>9. GenesisLine(s, t) = G(k + Deeper(w), k, n + 1, <<l>>)
  <2>1. PICK c : c = k + Deeper(w)
    OBVIOUS
  <2>2. PICK z : z = <<l>>
    OBVIOUS
  <2>3. Append(<<>>, l) = z
    BY <2>2
  <2>4. PICK d : d = Directive(s, t)
    OBVIOUS
  <2>5. d = [emit |-> c, brackets |-> 0, stmt |-> k, line |-> n, out |-> z]
    <3>1. d = [s EXCEPT !.out = z, !.stmt = k, !.brackets = 0, !.emit = c]
      BY <1>2, <1>7, <2>1, <2>3, <2>4
    <3> QED
      BY <1>1, <3>1 DEF G
  <2>6. GenesisLine(s, t) = [d EXCEPT !.line = n + 1]
    BY <1>8, <2>4, <2>5
  <2>7. GenesisLine(s, t) = [emit |-> c, brackets |-> 0, stmt |-> k, line |-> n + 1, out |-> z]
    BY <2>5, <2>6
  <2> QED
    BY <2>1, <2>2, <2>7 DEF G
<1> QED
  <2>1. (w = "plain" => Starts(l, k)) /\ (w = "opener" => StartsBlock(l, k)) /\ (w = "comment" => l.code = FALSE)
    BY <1>6 DEF Starts, StartsBlock
  <2> QED
    BY <1>1, <1>3, <1>6, <1>9, <2>1 DEF OneLine

LEMMA AppendTwo ==
    ASSUME NEW l, NEW m
    PROVE  Append(<<l>>, m) = <<l, m>>
<1>1. PICK a : a = Append(<<l>>, m)
  OBVIOUS
<1>2. PICK b : b = <<l, m>>
  OBVIOUS
<1>3. Len(a) = 2 /\ a[1] = l /\ a[2] = m /\ DOMAIN a = 1 .. 2
  BY <1>1
<1>4. Len(b) = 2 /\ b[1] = l /\ b[2] = m /\ DOMAIN b = 1 .. 2
  BY <1>2
<1>5. a = [n \in 1 .. 2 |-> a[n]]
  BY <1>1
<1>6. b = [n \in 1 .. 2 |-> b[n]]
  BY <1>2
<1>7. a = b
  BY <1>3, <1>4, <1>5, <1>6
<1> QED
  BY <1>1, <1>2, <1>7

\* The first of the two lines of a directive, and the second.
GoesOn(s, e, k, n, z) == s = [emit |-> e, brackets |-> 1, stmt |-> k, line |-> n, out |-> z]
LEMMA DirectiveFirst ==
    ASSUME NEW e, NEW m, NEW n \in Nat, NEW k \in Nat
    PROVE  \E l : /\ GoesOn(GenesisLine(G(e, m, n, <<>>), Line("plain", k, 1)), e, k, n + 1, <<l>>)
                  /\ l.mark = n + 1 /\ Starts(l, k)
<1>1. PICK s : s = G(e, m, n, <<>>)
  OBVIOUS
<1>2. s.emit = e /\ s.brackets = 0 /\ s.stmt = m /\ s.line = n /\ s.out = <<>>
  BY <1>1 DEF G
<1>3. PICK t : t = Line("plain", k, 1)
  OBVIOUS
<1>4. t.what = "plain" /\ t.indent = k /\ t.delta = 1
  BY <1>3 DEF Line
<1>5. PICK l : l = OutLine(t.indent, t.what # "comment", ~(s.brackets > 0),
                           1 = 0 /\ t.what = "opener", s.line + 1)
  OBVIOUS
<1>6. l.indent = k /\ l.mark = n + 1 /\ l.starts = TRUE /\ l.code = TRUE /\ l.opener = FALSE
  <2>1. PICK x, y, z : x = (t.what # "comment") /\ y = ~ (s.brackets > 0) /\ z = (1 = 0 /\ t.what = "opener")
    BY Zenon
  <2>2. l = [indent |-> t.indent, code |-> x, starts |-> y, opener |-> z, mark |-> s.line + 1]
    BY <1>5, <2>1, Zenon DEF OutLine
  <2>3. l.indent = k /\ l.mark = n + 1 /\ l.starts = y /\ l.code = x /\ l.opener = z
    <3>1. /\ l.indent = t.indent /\ l.mark = s.line + 1
          /\ l.starts = y /\ l.code = x /\ l.opener = z
      BY <2>2, Zenon
    <3> QED
      BY <1>2, <1>4, <3>1
  <2>4. y = TRUE
    <3>1. ~ (s.brackets > 0)
      BY <1>2
    <3>2. y \in BOOLEAN
      BY <2>1
    <3>3. y
      BY <2>1, <3>1
    <3> QED
      BY <3>2, <3>3
  <2>5. x = TRUE
    BY <1>4, <2>1
  <2>6. z = FALSE
    BY <1>4, <2>1
  <2> QED
    BY <2>3, <2>4, <2>5, <2>6
<1>7. Directive(s, t) = [s EXCEPT !.out = Append(@, l), !.stmt = k, !.brackets = 1, !.emit = @]
  <2>1. (IF s.brackets > 0 THEN s.stmt ELSE t.indent) = k
    BY <1>2, <1>4
  <2>2. (IF s.brackets + t.delta > 0 THEN s.brackets + t.delta ELSE 0) = 1
    BY <1>2, <1>4
  <2>3. 1 > 0
    OBVIOUS
  <2> QED
    BY <1>4, <1>5, <2>1, <2>2, <2>3 DEF Directive
<1>8. GenesisLine(s, t) = [Directive(s, t) EXCEPT !.line = @ + 1]
  <2>1. t.what # "blank" /\ t.what # "text"
    BY <1>4
  <2> QED
    BY <2>1, Zenon DEF GenesisLine
<1>9. GenesisLine(s, t) = [emit |-> e, brackets |-> 1, stmt |-> k, line |-> n + 1, out |-> <<l>>]
  <2>2. PICK z : z = <<l>>
    OBVIOUS
  <2>3. Append(<<>>, l) = z
    BY <2>2
  <2>4. PICK d : d = Directive(s, t)
    OBVIOUS
  <2>5. d = [emit |-> e, brackets |-> 1, stmt |-> k, line |-> n, out |-> z]
    <3>1. d = [s EXCEPT !.out = z, !.stmt = k, !.brackets = 1, !.emit = e]
      BY <1>2, <1>7, <2>3, <2>4
    <3> QED
      BY <1>1, <3>1 DEF G
  <2>6. GenesisLine(s, t) = [d EXCEPT !.line = n + 1]
    BY <1>8, <2>4, <2>5
  <2>7. GenesisLine(s, t) = [emit |-> e, brackets |-> 1, stmt |-> k, line |-> n + 1, out |-> z]
    BY <2>5, <2>6
  <2> QED
    BY <2>2, <2>7
<1> QED
  BY <1>1, <1>3, <1>6, <1>9 DEF Starts, GoesOn

SecondLine(s, w, k, n, l1) ==
    \E l : /\ s = G(k + Deeper(w), k, n + 1, <<l1, l>>)
           /\ l.mark = n + 1
           /\ w = "plain" => Further(l)
           /\ w = "opener" => FurtherOpens(l)

LEMMA DirectiveSecond ==
    ASSUME NEW e, NEW s, NEW n \in Nat, NEW k \in Nat, NEW i, NEW w \in {"plain", "opener"}, NEW l1,
           GoesOn(s, e, k, n, <<l1>>)
    PROVE  SecondLine(GenesisLine(s, Line(w, i, 0 - 1)), w, k, n, l1)
<1>2. s.emit = e /\ s.brackets = 1 /\ s.stmt = k /\ s.line = n /\ s.out = <<l1>>
  BY DEF GoesOn
<1>3. PICK t : t = Line(w, i, 0 - 1)
  OBVIOUS
<1>4. t.what = w /\ t.indent = i /\ t.delta = 0 - 1
  BY <1>3 DEF Line
<1>5. PICK l : l = OutLine(t.indent, t.what # "comment", ~(s.brackets > 0),
                           0 = 0 /\ t.what = "opener", s.line + 1)
  OBVIOUS
<1>6. /\ l.mark = n + 1 /\ l.starts = FALSE
      /\ l.code = TRUE /\ l.opener = (w = "opener")
  <2>1. PICK x, y, z : x = (t.what # "comment") /\ y = ~ (s.brackets > 0) /\ z = (0 = 0 /\ t.what = "opener")
    BY Zenon
  <2>2. l = [indent |-> t.indent, code |-> x, starts |-> y, opener |-> z, mark |-> s.line + 1]
    BY <1>5, <2>1, Zenon DEF OutLine
  <2>3. l.mark = n + 1 /\ l.starts = y /\ l.code = x /\ l.opener = z
    <3>1. l.mark = s.line + 1 /\ l.starts = y /\ l.code = x /\ l.opener = z
      BY <2>2, Zenon
    <3> QED
      BY <1>2, <3>1
  <2>4. y = FALSE
    <3>1. s.brackets > 0
      BY <1>2
    <3>2. y \in BOOLEAN
      BY <2>1
    <3>3. ~ y
      BY <2>1, <3>1
    <3> QED
      BY <3>2, <3>3
  <2>5. x = TRUE
    BY <1>4, <2>1
  <2>6. z = (w = "opener")
    BY <1>4, <2>1
  <2> QED
    BY <2>3, <2>4, <2>5, <2>6
<1>7. Directive(s, t) = [s EXCEPT !.out = Append(@, l), !.stmt = k, !.brackets = 0, !.emit = k + Deeper(w)]
  <2>1. (IF s.brackets > 0 THEN s.stmt ELSE t.indent) = k
    BY <1>2, <1>4
  <2>2. (IF s.brackets + t.delta > 0 THEN s.brackets + t.delta ELSE 0) = 0
    BY <1>2, <1>4
  <2>3. ~ (0 > 0)
    OBVIOUS
  <2> QED
    BY <1>4, <1>5, <2>1, <2>2, <2>3 DEF Directive, Deeper
<1>8. GenesisLine(s, t) = [Directive(s, t) EXCEPT !.line = @ + 1]
  <2>1. t.what # "blank" /\ t.what # "text"
    BY <1>4
  <2> QED
    BY <2>1, Zenon DEF GenesisLine
<1>9. GenesisLine(s, t) = G(k + Deeper(w), k, n + 1, <<l1, l>>)
  <2>1. PICK c : c = k + Deeper(w)
    OBVIOUS
  <2>2. PICK z, z1 : z = <<l1, l>> /\ z1 = <<l1>>
    OBVIOUS
  <2>3. Append(z1, l) = z
    BY <2>2, AppendTwo
  <2>4. PICK d : d = Directive(s, t)
    OBVIOUS
  <2>5. d = [emit |-> c, brackets |-> 0, stmt |-> k, line |-> n, out |-> z]
    <3>1. d = [s EXCEPT !.out = z, !.stmt = k, !.brackets = 0, !.emit = c]
      BY <1>2, <1>7, <2>1, <2>2, <2>3, <2>4
    <3>2. s = [emit |-> e, brackets |-> 1, stmt |-> k, line |-> n, out |-> z1]
      BY <2>2 DEF GoesOn
    <3> QED
      BY <3>1, <3>2
  <2>6. GenesisLine(s, t) = [d EXCEPT !.line = n + 1]
    BY <1>8, <2>4, <2>5
  <2>7. GenesisLine(s, t) = [emit |-> c, brackets |-> 0, stmt |-> k, line |-> n + 1, out |-> z]
    BY <2>5, <2>6
  <2> QED
    BY <2>1, <2>2, <2>7 DEF G
<1> QED
  <2>1. (w = "plain" => Further(l)) /\ (w = "opener" => FurtherOpens(l))
    BY <1>6 DEF Further, FurtherOpens
  <2> QED
    BY <1>3, <1>6, <1>9, <2>1 DEF SecondLine

LEMMA BlankOne ==
    ASSUME NEW e, NEW m, NEW n \in Nat
    PROVE  /\ GenesisLine(G(e, m, n, <<>>), Line("blank", 0, 0)) = G(e, m, n + 1, <<NoCode(n + 1)>>)
           /\ NoCode(n + 1).mark = n + 1 /\ NoCode(n + 1).code = FALSE
<1>1. PICK s : s = G(e, m, n, <<>>)
  OBVIOUS
<1>2. s.line = n /\ s.out = <<>>
  BY <1>1 DEF G
<1>3. PICK t : t = Line("blank", 0, 0)
  OBVIOUS
<1>4. t.what = "blank"
  BY <1>3 DEF Line
<1>5. PICK l : l = NoCode(n + 1)
  OBVIOUS
<1>6. l.mark = n + 1 /\ l.code = FALSE
  BY <1>5 DEF NoCode, OutLine
<1>7. Blank(s) = [s EXCEPT !.out = Append(@, l)]
  BY <1>2, <1>5 DEF Blank
<1>8. GenesisLine(s, t) = [Blank(s) EXCEPT !.line = @ + 1]
  BY <1>4, Zenon DEF GenesisLine
<1>9. GenesisLine(s, t) = G(e, m, n + 1, <<l>>)
  <2>1. PICK z : z = <<l>>
    OBVIOUS
  <2>2. Append(<<>>, l) = z
    BY <2>1
  <2>3. PICK d : d = Blank(s)
    OBVIOUS
  <2>4. d = [emit |-> e, brackets |-> 0, stmt |-> m, line |-> n, out |-> z]
    <3>1. d = [s EXCEPT !.out = z]
      BY <1>2, <1>7, <2>2, <2>3
    <3> QED
      BY <1>1, <3>1 DEF G
  <2>5. GenesisLine(s, t) = [d EXCEPT !.line = n + 1]
    BY <1>8, <2>3, <2>4
  <2>6. GenesisLine(s, t) = [emit |-> e, brackets |-> 0, stmt |-> m, line |-> n + 1, out |-> z]
    BY <2>4, <2>5
  <2> QED
    BY <2>1, <2>6 DEF G
<1> QED
  BY <1>1, <1>3, <1>5, <1>6, <1>9

\* A line of output.
LEMMA TextOne ==
    ASSUME NEW e, NEW m, NEW n \in Nat
    PROVE  \E l : /\ GenesisLine(G(e, m, n, <<>>), Line("text", 0, 0)) = G(e, m, n + 1, <<l>>)
                  /\ l.mark = n + 1 /\ Starts(l, e)
<1>1. PICK s : s = G(e, m, n, <<>>)
  OBVIOUS
<1>2. s.emit = e /\ s.line = n /\ s.out = <<>>
  BY <1>1 DEF G
<1>3. PICK t : t = Line("text", 0, 0)
  OBVIOUS
<1>4. t.what = "text"
  BY <1>3 DEF Line
<1>5. PICK l : l = OutLine(s.emit, TRUE, TRUE, FALSE, s.line + 1)
  OBVIOUS
<1>6. l.mark = n + 1 /\ Starts(l, e)
  BY <1>2, <1>5 DEF OutLine, Starts
<1>7. Emit(s) = [s EXCEPT !.out = Append(@, l)]
  BY <1>2, <1>5 DEF Emit
<1>8. GenesisLine(s, t) = [Emit(s) EXCEPT !.line = @ + 1]
  <2>1. t.what # "blank"
    BY <1>4
  <2> QED
    BY <1>4, <2>1, Zenon DEF GenesisLine
<1>9. GenesisLine(s, t) = G(e, m, n + 1, <<l>>)
  <2>1. PICK z : z = <<l>>
    OBVIOUS
  <2>2. Append(<<>>, l) = z
    BY <2>1
  <2>3. PICK d : d = Emit(s)
    OBVIOUS
  <2>4. d = [emit |-> e, brackets |-> 0, stmt |-> m, line |-> n, out |-> z]
    <3>1. d = [s EXCEPT !.out = z]
      BY <1>2, <1>7, <2>2, <2>3
    <3> QED
      BY <1>1, <3>1 DEF G
  <2>5. GenesisLine(s, t) = [d EXCEPT !.line = n + 1]
    BY <1>8, <2>3, <2>4
  <2>6. GenesisLine(s, t) = [emit |-> e, brackets |-> 0, stmt |-> m, line |-> n + 1, out |-> z]
    BY <2>4, <2>5
  <2> QED
    BY <2>1, <2>6 DEF G
<1> QED
  BY <1>1, <1>3, <1>6, <1>9

-----------------------------------------------------------------------------
(* An item in both flavours: the lines a statement is put out as, and what *)
(* Python makes of them.                                                   *)

CodeOut(out, w, k) ==
    /\ w = "plain" => \/ \E l : out = <<l>> /\ Starts(l, k)
                      \/ \E l, m : out = <<l, m>> /\ Starts(l, k) /\ Further(m)
    /\ w = "opener" => \/ \E l : out = <<l>> /\ StartsBlock(l, k)
                       \/ \E l, m : out = <<l, m>> /\ Starts(l, k) /\ FurtherOpens(m)
    /\ w = "comment" => \E l : out = <<l>> /\ l.code = FALSE

LEMMA ReadPlain ==
    ASSUME NEW p, NEW o \in Seq(Nat \ {0}), NEW k, InBlock(p, o, k),
           NEW out, CodeOut(out, "plain", k), NEW id
    PROVE  PyIn(Reading(p, out, id), SubSeq(o, 1, k))
<1>1. CASE \E l : out = <<l>> /\ Starts(l, k)
  <2>1. PICK l : out = <<l>> /\ Starts(l, k)
    BY <1>1
  <2>2. Reading(p, out, id) = Read(p, l, id)
    BY <2>1, ReadingOne
  <2>3. PyIn(Read(p, l, id), SubSeq(o, 1, k))
    BY <2>1, ReadCode
  <2> QED
    BY <2>2, <2>3
<1>2. CASE \E l, m : out = <<l, m>> /\ Starts(l, k) /\ Further(m)
  <2>1. PICK l, m : out = <<l, m>> /\ Starts(l, k) /\ Further(m)
    BY <1>2
  <2>2. Reading(p, out, id) = Read(Read(p, l, id), m, id)
    BY <2>1, ReadingTwo
  <2>3. PyIn(Read(p, l, id), SubSeq(o, 1, k))
    BY <2>1, ReadCode
  <2>4. PICK q : q = Read(p, l, id)
    OBVIOUS
  <2>5. Read(q, m, id) = q
    BY <2>1, ReadFurther
  <2> QED
    BY <2>2, <2>3, <2>4, <2>5
<1> QED
  BY <1>1, <1>2 DEF CodeOut

LEMMA ReadBlock ==
    ASSUME NEW p, NEW o \in Seq(Nat \ {0}), NEW k, InBlock(p, o, k),
           NEW out, CodeOut(out, "opener", k), NEW id
    PROVE  PyDue(Reading(p, out, id), Append(SubSeq(o, 1, k), id))
<1>1. CASE \E l : out = <<l>> /\ StartsBlock(l, k)
  <2>1. PICK l : out = <<l>> /\ StartsBlock(l, k)
    BY <1>1
  <2>2. Reading(p, out, id) = Read(p, l, id)
    BY <2>1, ReadingOne
  <2>3. PyDue(Read(p, l, id), Append(SubSeq(o, 1, k), id))
    BY <2>1, ReadOpener
  <2> QED
    BY <2>2, <2>3
<1>2. CASE \E l, m : out = <<l, m>> /\ Starts(l, k) /\ FurtherOpens(m)
  <2>1. PICK l, m : out = <<l, m>> /\ Starts(l, k) /\ FurtherOpens(m)
    BY <1>2
  <2>2. Reading(p, out, id) = Read(Read(p, l, id), m, id)
    BY <2>1, ReadingTwo
  <2>3. PICK q : q = Read(p, l, id)
    OBVIOUS
  <2>4. PICK r : r = SubSeq(o, 1, k)
    OBVIOUS
  <2>5. PyIn(q, r) /\ Len(q.blocks) = k
    <3>1. Starts(l, k)
      BY <2>1
    <3>2. PyIn(Read(p, l, id), SubSeq(o, 1, k)) /\ Len(Read(p, l, id).blocks) = k
      BY <3>1, ReadCode
    <3> QED
      BY <2>3, <2>4, <3>2
  <2>6. r \in Seq(Nat \ {0}) /\ Len(r) = k
    <3>1. Len(o) \in Nat /\ k \in Nat /\ k <= Len(o)
      BY DEF InBlock
    <3> QED
      BY <2>4, <3>1
  <2>7. PyDue(Read(q, m, id), Append(r, id))
    BY <2>1, <2>5, <2>6, ReadFurtherOpens
  <2> QED
    BY <2>2, <2>3, <2>4, <2>7
<1> QED
  BY <1>1, <1>2 DEF CodeOut

LEMMA ReadNoCode ==
    ASSUME NEW p, NEW l, l.code = FALSE, NEW id
    PROVE  Reading(p, <<l>>, id) = p
<1>1. Reading(p, <<l>>, id) = Read(p, l, id)
  BY ReadingOne
<1>2. Read(p, l, id) = p
  BY ReadNothing
<1> QED
  BY <1>1, <1>2

LinesOf(w, k, further) ==
    IF further = <<>> THEN <<Line(w, k, 0)>>
    ELSE <<Line("plain", k, 1), Line(w, further[1], 0 - 1)>>

CodeLines(s, w, k, n, c) ==
    \E m, out : /\ s = G(k + Deeper(w), m, n + c, out)
                /\ CodeOut(out, w, k)
                /\ DOMAIN out = 1 .. c
                /\ \A i \in DOMAIN out : out[i].mark = n + i

LEMMA GenesisCode ==
    ASSUME NEW e, NEW m, NEW n \in Nat, NEW k \in Nat, NEW w \in {"plain", "opener"},
           NEW further \in Seq(Nat), Len(further) <= 1
    PROVE  CodeLines(GenesisLines(G(e, m, n, <<>>), LinesOf(w, k, further)), w, k, n, 1 + Len(further))
<1>1. PICK s : s = G(e, m, n, <<>>)
  OBVIOUS
<1>2. CASE further = <<>>
  <2>1. PICK t : t = Line(w, k, 0)
    OBVIOUS
  <2>2. PICK l : /\ GenesisLine(s, t) = G(k + Deeper(w), k, n + 1, <<l>>)
                 /\ l.mark = n + 1
                 /\ w = "plain" => Starts(l, k)
                 /\ w = "opener" => StartsBlock(l, k)
    <3>1. w \in {"plain", "opener", "comment"}
      OBVIOUS
    <3>2. OneLine(GenesisLine(G(e, m, n, <<>>), Line(w, k, 0)), w, k, n)
      BY <3>1, DirectiveOne
    <3> QED
      BY <1>1, <2>1, <3>2 DEF OneLine
  <2>3. GenesisLines(s, <<t>>) = G(k + Deeper(w), k, n + 1, <<l>>)
    BY <2>2, LinesOne
  <2>4. PICK out : out = <<l>>
    OBVIOUS
  <2>5. CodeOut(out, w, k)
    BY <2>2, <2>4 DEF CodeOut
  <2>6. DOMAIN out = 1 .. 1 /\ out[1] = l
    BY <2>4
  <2>7. Len(further) = 0
    BY <1>2
  <2>8. n + (1 + Len(further)) = n + 1 /\ 1 + Len(further) = 1
    BY <2>7
  <2>9. \A i \in DOMAIN out : out[i].mark = n + i
    BY <2>2, <2>6
  <2>10. GenesisLines(s, LinesOf(w, k, further))
            = G(k + Deeper(w), k, n + (1 + Len(further)), out)
    BY <1>2, <2>1, <2>3, <2>4, <2>8 DEF LinesOf
  <2>11. DOMAIN out = 1 .. 1 + Len(further)
    BY <2>6, <2>8
  <2> QED
    <3>1. PICK c, y : c = 1 + Len(further) /\ y = GenesisLines(s, LinesOf(w, k, further))
      OBVIOUS
    <3>2. y = G(k + Deeper(w), k, n + c, out) /\ DOMAIN out = 1 .. c
      BY <2>10, <2>11, <3>1
    <3>3. CodeLines(y, w, k, n, c)
      BY <2>5, <2>9, <3>2, Zenon DEF CodeLines
    <3> QED
      BY <1>1, <3>1, <3>3
<1>3. CASE further # <<>>
  <2>1. Len(further) = 1
    <3>1. PICK c : c = Len(further)
      OBVIOUS
    <3>2. c \in Nat /\ c <= 1 /\ c # 0
      BY <1>3, <3>1
    <3>3. c = 1
      BY <3>2
    <3> QED
      BY <3>1, <3>3
  <2>2. PICK t : t = Line("plain", k, 1)
    OBVIOUS
  <2>3. PICK z : z = GenesisLine(s, t)
    OBVIOUS
  <2>4. PICK l1 : GoesOn(z, e, k, n + 1, <<l1>>) /\ l1.mark = n + 1 /\ Starts(l1, k)
    BY <1>1, <2>2, <2>3, DirectiveFirst
  <2>5. PICK u : u = Line(w, further[1], 0 - 1)
    OBVIOUS
  <2>6. PICK j : j = n + 1
    OBVIOUS
  <2>7. j \in Nat /\ j + 1 = n + 2
    BY <2>6
  <2>8. GoesOn(z, e, k, j, <<l1>>)
    BY <2>4, <2>6
  <2>9. PICK l : /\ GenesisLine(z, u) = G(k + Deeper(w), k, j + 1, <<l1, l>>)
                 /\ l.mark = j + 1
                 /\ w = "plain" => Further(l)
                 /\ w = "opener" => FurtherOpens(l)
    <3>1. SecondLine(GenesisLine(z, Line(w, further[1], 0 - 1)), w, k, j, l1)
      BY <2>7, <2>8, DirectiveSecond
    <3> QED
      BY <2>5, <3>1 DEF SecondLine
  <2>10. GenesisLines(s, <<t, u>>) = G(k + Deeper(w), k, n + 2, <<l1, l>>)
    BY <2>3, <2>7, <2>9, LinesTwo
  <2>11. PICK out : out = <<l1, l>>
    OBVIOUS
  <2>12. CodeOut(out, w, k)
    BY <2>4, <2>9, <2>11 DEF CodeOut
  <2>13. DOMAIN out = 1 .. 2 /\ out[1] = l1 /\ out[2] = l
    BY <2>11
  <2>14. n + (1 + Len(further)) = n + 2 /\ 1 + Len(further) = 2
    BY <2>1
  <2>15. \A i \in DOMAIN out : out[i].mark = n + i
    <3>1. \A i \in 1 .. 2 : i = 1 \/ i = 2
      OBVIOUS
    <3> QED
      BY <2>4, <2>6, <2>7, <2>9, <2>13, <3>1
  <2>16. GenesisLines(s, LinesOf(w, k, further))
            = G(k + Deeper(w), k, n + (1 + Len(further)), out)
    BY <1>3, <2>2, <2>5, <2>10, <2>11, <2>14 DEF LinesOf
  <2>17. DOMAIN out = 1 .. 1 + Len(further)
    BY <2>13, <2>14
  <2> QED
    BY <1>1, <2>12, <2>15, <2>16, <2>17 DEF CodeLines
<1> QED
  BY <1>2, <1>3

-----------------------------------------------------------------------------
(* The j2 scanner.                                                         *)

\* A block is entered where an opener deepens the stack.
Pushed(st, w, k) ==
    IF w = "opener" /\ (st = <<>> \/ k > Last(st)) THEN Append(st, k) ELSE st

LEMMA EmptyFirst ==
    ASSUME NEW c \in Nat, NEW h, DOMAIN h = 1 .. c, h = [i \in 1 .. c |-> h[i]]
    PROVE  <<>> \o h = h
<1>1. PICK S : S = {h[i] : i \in 1 .. c}
  OBVIOUS
<1>2. h \in Seq(S)
  BY <1>1
<1> QED
  BY <1>2, ConcatEmptySeq

CodeTokens(s, w, k, n, c, st, r) ==
    \E out : /\ s = J(k + Deeper(w), Pushed(st, w, k), 0, n + c, r, out)
             /\ CodeOut(out, w, k)
             /\ DOMAIN out = 1 .. c
             /\ \A i \in DOMAIN out : out[i].mark = n

LineOf(w, k, c, n, i) == OutLine(k, w # "comment", i = 1, i = c /\ w = "opener", n)

LineIs(l, w, k, c, n, i) ==
    /\ l.indent = k /\ l.mark = n
    /\ IF w # "comment" THEN l.code = TRUE ELSE l.code = FALSE
    /\ IF i = 1 THEN l.starts = TRUE ELSE l.starts = FALSE
    /\ IF i = c /\ w = "opener" THEN l.opener = TRUE ELSE l.opener = FALSE

LEMMA LineOfIs ==
    ASSUME NEW w, NEW k, NEW c, NEW n, NEW i
    PROVE  LineIs(LineOf(w, k, c, n, i), w, k, c, n, i)
<1>8. PICK l : l = LineOf(w, k, c, n, i)
  OBVIOUS
<1>1. PICK x, y, z : x = (w # "comment") /\ y = (i = 1) /\ z = (i = c /\ w = "opener")
  BY Zenon
<1>2. l = [indent |-> k, code |-> x, starts |-> y, opener |-> z, mark |-> n]
  BY <1>1, <1>8, Zenon DEF LineOf, OutLine
<1>3. l.indent = k /\ l.mark = n /\ l.code = x /\ l.starts = y /\ l.opener = z
  <2> SUFFICES ASSUME NEW a, a = [indent |-> k, code |-> x, starts |-> y, opener |-> z, mark |-> n]
               PROVE  a.indent = k /\ a.mark = n /\ a.code = x /\ a.starts = y /\ a.opener = z
    BY <1>2, Zenon
  <2> QED
    BY Zenon
<1>4. x \in BOOLEAN /\ y \in BOOLEAN /\ z \in BOOLEAN
  BY <1>1
<1>5. IF w # "comment" THEN x = TRUE ELSE x = FALSE
  BY <1>1
<1>6. IF i = 1 THEN y = TRUE ELSE y = FALSE
  BY <1>1
<1>7. IF i = c /\ w = "opener" THEN z = TRUE ELSE z = FALSE
  BY <1>1
<1> QED
  BY <1>3, <1>5, <1>6, <1>7, <1>8 DEF LineIs

LEMMA CodeOutIs ==
    ASSUME NEW w \in {"plain", "opener", "comment"}, NEW k, NEW n, NEW c \in {1, 2},
           w = "comment" => c = 1
    PROVE  CodeOut([i \in 1 .. c |-> LineOf(w, k, c, n, i)], w, k)
<1>1. PICK out : out = [i \in 1 .. c |-> LineOf(w, k, c, n, i)]
  OBVIOUS
<1>2. CASE c = 1
  <2>1. PICK l : l = LineOf(w, k, c, n, 1)
    OBVIOUS
  <2>2. out = <<l>>
    <3>1. PICK z : z = <<l>>
      OBVIOUS
    <3>2. z = [i \in 1 .. 1 |-> l]
      BY <3>1
    <3>3. \A i \in 1 .. 1 : LineOf(w, k, c, n, i) = l
      BY <2>1
    <3> QED
      BY <1>1, <1>2, <3>1, <3>2, <3>3
  <2>3. /\ l.indent = k /\ l.starts = TRUE
        /\ IF w # "comment" THEN l.code = TRUE ELSE l.code = FALSE
        /\ IF 1 = c /\ w = "opener" THEN l.opener = TRUE ELSE l.opener = FALSE
    <3>1. /\ l.indent = k /\ (IF 1 = 1 THEN l.starts = TRUE ELSE l.starts = FALSE)
          /\ IF w # "comment" THEN l.code = TRUE ELSE l.code = FALSE
          /\ IF 1 = c /\ w = "opener" THEN l.opener = TRUE ELSE l.opener = FALSE
      <4>1. LineIs(l, w, k, c, n, 1)
        BY <2>1, LineOfIs
      <4> QED
        BY <4>1 DEF LineIs
    <3> QED
      BY <3>1
  <2>4. w = "plain" => Starts(l, k)
    BY <2>3 DEF Starts
  <2>5. w = "opener" => StartsBlock(l, k)
    BY <1>2, <2>3 DEF StartsBlock
  <2>6. w = "comment" => l.code = FALSE
    BY <2>3
  <2>7. CodeOut(out, w, k)
    BY <2>2, <2>4, <2>5, <2>6 DEF CodeOut
  <2> QED
    BY <1>1, <2>7
<1>3. CASE c = 2
  <2>1. PICK l, m : l = LineOf(w, k, c, n, 1) /\ m = LineOf(w, k, c, n, 2)
    OBVIOUS
  <2>2. out = <<l, m>>
    <3>1. PICK z : z = <<l, m>>
      OBVIOUS
    <3>2. z = [i \in 1 .. 2 |-> z[i]] /\ z[1] = l /\ z[2] = m
      BY <3>1
    <3>3. \A i \in 1 .. 2 : LineOf(w, k, c, n, i) = z[i]
      <4>1. \A i \in 1 .. 2 : i = 1 \/ i = 2
        OBVIOUS
      <4> QED
        BY <2>1, <3>2, <4>1
    <3> QED
      BY <1>1, <1>3, <3>1, <3>2, <3>3
  <2>3. /\ l.indent = k /\ l.starts = TRUE
        /\ IF w # "comment" THEN l.code = TRUE ELSE l.code = FALSE
        /\ IF 1 = c /\ w = "opener" THEN l.opener = TRUE ELSE l.opener = FALSE
    <3>1. /\ l.indent = k /\ (IF 1 = 1 THEN l.starts = TRUE ELSE l.starts = FALSE)
          /\ IF w # "comment" THEN l.code = TRUE ELSE l.code = FALSE
          /\ IF 1 = c /\ w = "opener" THEN l.opener = TRUE ELSE l.opener = FALSE
      <4>1. LineIs(l, w, k, c, n, 1)
        BY <2>1, LineOfIs
      <4> QED
        BY <4>1 DEF LineIs
    <3> QED
      BY <3>1
  <2>4. /\ m.indent = k /\ m.starts = FALSE
        /\ IF w # "comment" THEN m.code = TRUE ELSE m.code = FALSE
        /\ IF 2 = c /\ w = "opener" THEN m.opener = TRUE ELSE m.opener = FALSE
    <3>1. /\ m.indent = k /\ (IF 2 = 1 THEN m.starts = TRUE ELSE m.starts = FALSE)
          /\ IF w # "comment" THEN m.code = TRUE ELSE m.code = FALSE
          /\ IF 2 = c /\ w = "opener" THEN m.opener = TRUE ELSE m.opener = FALSE
      <4>1. LineIs(m, w, k, c, n, 2)
        BY <2>1, LineOfIs
      <4> QED
        BY <4>1 DEF LineIs
    <3> QED
      BY <3>1
  <2>5. w # "comment"
    <3>1. c # 1
      BY <1>3
    <3> QED
      BY <3>1
  <2>6. Starts(l, k)
    <3>1. l.code = TRUE
      BY <2>3, <2>5
    <3>2. l.starts = TRUE
      BY <2>3
    <3>3. 1 # c
      BY <1>3
    <3>4. l.opener = FALSE
      BY <2>3, <3>3
    <3> QED
      BY <2>3, <3>1, <3>2, <3>4 DEF Starts
  <2>7. w = "plain" => Further(m)
    <3>1. m.code = TRUE
      BY <2>4, <2>5
    <3>2. m.starts = FALSE
      BY <2>4
    <3>3. w = "plain" => m.opener = FALSE
      BY <2>4
    <3> QED
      BY <3>1, <3>2, <3>3 DEF Further
  <2>8. w = "opener" => FurtherOpens(m)
    <3>1. m.code = TRUE
      BY <2>4, <2>5
    <3>2. m.starts = FALSE
      BY <2>4
    <3>3. w = "opener" => m.opener = TRUE
      BY <1>3, <2>4
    <3> QED
      BY <3>1, <3>2, <3>3 DEF FurtherOpens
  <2>9. CodeOut(out, w, k)
    BY <2>2, <2>5, <2>6, <2>7, <2>8 DEF CodeOut
  <2> QED
    BY <1>1, <2>9
<1> QED
  BY <1>2, <1>3

LEMMA J2Code ==
    ASSUME NEW e, NEW st, NEW n \in Nat, NEW k \in Nat, NEW w \in {"plain", "opener", "comment"},
           NEW c \in {1, 2}, w = "comment" => c = 1, NEW r, r = FALSE
    PROVE  CodeTokens(J2Tokens(J(e, st, 0, n, r, <<>>), <<Token(w, k, c)>>), w, k, n, c, st, r)
<1>1. PICK s : s = J(e, st, 0, n, r, <<>>)
  OBVIOUS
<1>2. s.emit = e /\ s.stack = st /\ s.line = n /\ s.out = <<>> /\ s.raised = FALSE
  BY <1>1 DEF J
<1>3. PICK t : t = Token(w, k, c)
  OBVIOUS
<1>4. t.what = w /\ t.indent = k /\ t.newlines = c
  BY <1>3 DEF Token
<1>5. PICK h : h = [i \in 1 .. c |-> LineOf(w, k, c, n, i)]
  OBVIOUS
<1>6. CodeOut(h, w, k)
  BY <1>5, CodeOutIs
<1>7. DOMAIN h = 1 .. c
  BY <1>5
<1>8. <<>> \o h = h
  <2>1. c \in Nat
    OBVIOUS
  <2>2. h = [i \in 1 .. c |-> h[i]]
    BY <1>5
  <2> QED
    BY <1>7, <2>1, <2>2, EmptyFirst
<1>9. [i \in 1 .. t.newlines |-> OutLine(t.indent, t.what # "comment", i = 1,
                                        i = t.newlines /\ t.what = "opener", s.line)] = h
  BY <1>2, <1>4, <1>5 DEF LineOf
<1>10. PICK sp : sp = Pushed(st, w, k)
  OBVIOUS
<1>11. (IF Deepens(s, t) THEN Append(st, t.indent) ELSE st) = sp
  BY <1>2, <1>4, <1>10 DEF Deepens, Pushed
<1>12. PICK d : d = k + Deeper(w)
  OBVIOUS
<1>13. PICK u : u = Code(s, t)
  OBVIOUS
<1>14. u = [s EXCEPT !.out = h, !.emit = d, !.stack = sp]
  <2>1. u = [s EXCEPT !.out = @ \o h, !.emit = t.indent + (IF t.what = "opener" THEN 1 ELSE 0),
                      !.stack = IF Deepens(s, t) THEN Append(@, t.indent) ELSE @]
    BY <1>9, <1>13 DEF Code
  <2> QED
    BY <1>2, <1>4, <1>8, <1>11, <1>12, <2>1 DEF Deeper
<1>15. u = [emit |-> d, stack |-> sp, first |-> 0, line |-> n, raised |-> r, out |-> h]
  BY <1>1, <1>14 DEF J
<1>16. J2Token(s, t) = [u EXCEPT !.line = @ + Newlines(t)]
  <2>1. /\ t.what \notin {"chars", "expr"} /\ t.what # "note" /\ t.what # "newline"
        /\ t.what # "close" /\ t.what # "blank" /\ t.what # "stray"
    BY <1>4
  <2> QED
    BY <1>2, <1>13, <2>1 DEF J2Token
<1>17. Newlines(t) = c
  BY <1>4 DEF Newlines
<1>18. PICK l : l = n + c
  OBVIOUS
<1>19. J2Token(s, t) = [u EXCEPT !.line = l]
  BY <1>15, <1>16, <1>17, <1>18
<1>20. J2Token(s, t) = [emit |-> d, stack |-> sp, first |-> 0, line |-> l, raised |-> r, out |-> h]
  BY <1>15, <1>19
<1>21. J2Token(s, t) = J(d, sp, 0, l, r, h)
  BY <1>20 DEF J
<1>22. \A i \in DOMAIN h : h[i].mark = n
  <2>1. ASSUME NEW i \in 1 .. c
        PROVE  LineOf(w, k, c, n, i).mark = n
    <3>1. LineIs(LineOf(w, k, c, n, i), w, k, c, n, i)
      BY LineOfIs
    <3> QED
      BY <3>1 DEF LineIs
  <2> QED
    BY <1>5, <1>7, <2>1
<1>23. J2Tokens(s, <<t>>) = J2Token(s, t)
  BY TokensOne
<1>24. CodeTokens(J2Token(s, t), w, k, n, c, st, r)
  BY <1>6, <1>7, <1>10, <1>12, <1>18, <1>21, <1>22 DEF CodeTokens
<1> QED
  BY <1>1, <1>3, <1>23, <1>24

\* {% endfor %}: the block on top of the stack is closed.
CloseToken(s, e, st, n) ==
    IF st = <<>> THEN s = J(e, st, 0, n + 1, TRUE, <<>>)
    ELSE s = J(Last(st), Front(st), 0, n + 1, FALSE, <<NoCode(n)>>)

LEMMA NoCodeIs ==
    ASSUME NEW n
    PROVE  NoCode(n).mark = n /\ NoCode(n).code = FALSE
BY DEF NoCode, OutLine

LEMMA J2Close ==
    ASSUME NEW e, NEW st, NEW n \in Nat, NEW k
    PROVE  CloseToken(J2Tokens(J(e, st, 0, n, FALSE, <<>>), <<Token("close", k, 1)>>), e, st, n)
<1>1. PICK s : s = J(e, st, 0, n, FALSE, <<>>)
  OBVIOUS
<1>2. s.emit = e /\ s.stack = st /\ s.line = n /\ s.out = <<>> /\ s.raised = FALSE
  BY <1>1 DEF J
<1>3. PICK t : t = Token("close", k, 1)
  OBVIOUS
<1>4. t.what = "close" /\ t.newlines = 1
  BY <1>3 DEF Token
<1>5. PICK u : u = CloseTop(s)
  OBVIOUS
<1>6. J2Token(s, t) = [u EXCEPT !.line = @ + Newlines(t)]
  <2>1. t.what \notin {"chars", "expr"} /\ t.what # "note" /\ t.what # "newline"
    BY <1>4
  <2> QED
    BY <1>2, <1>4, <1>5, <2>1 DEF J2Token
<1>7. Newlines(t) = 1
  BY <1>4 DEF Newlines
<1>8. PICK l : l = n + 1
  OBVIOUS
<1>9. J2Tokens(s, <<t>>) = J2Token(s, t)
  BY TokensOne
<1>10. PICK tt : tt = TRUE
  OBVIOUS
<1>11. PICK ff : ff = FALSE
  OBVIOUS
<1>12. s = [emit |-> e, stack |-> st, first |-> 0, line |-> n, raised |-> ff, out |-> <<>>]
  BY <1>1, <1>11, Zenon DEF J
<1>13. CASE st = <<>>
  <2>1. u = [s EXCEPT !.raised = tt]
    BY <1>2, <1>5, <1>10, <1>13, Zenon DEF CloseTop
  <2>2. u = [emit |-> e, stack |-> st, first |-> 0, line |-> n, raised |-> tt, out |-> <<>>]
    BY <1>12, <2>1
  <2>3. J2Token(s, t) = [u EXCEPT !.line = l]
    BY <1>6, <1>7, <1>8, <2>2
  <2>4. J2Token(s, t) = [emit |-> e, stack |-> st, first |-> 0, line |-> l, raised |-> tt, out |-> <<>>]
    BY <2>2, <2>3
  <2>5. J2Token(s, t) = J(e, st, 0, l, TRUE, <<>>)
    BY <1>10, <2>4, Zenon DEF J
  <2> QED
    BY <1>1, <1>3, <1>8, <1>9, <1>13, <2>5 DEF CloseToken
<1>14. CASE st # <<>>
  <2>1. PICK z, y, f : z = <<NoCode(n)>> /\ y = Last(st) /\ f = Front(st)
    OBVIOUS
  <2>2. Append(<<>>, NoCode(n)) = z
    BY <2>1
  <2>3. u = [s EXCEPT !.out = z, !.emit = y, !.stack = f]
    <3>1. u = [s EXCEPT !.out = Append(@, NoCode(s.line)), !.emit = Last(s.stack), !.stack = Front(@)]
      BY <1>2, <1>5, <1>14, Zenon DEF CloseTop
    <3> QED
      BY <1>2, <2>1, <2>2, <3>1
  <2>4. u = [emit |-> y, stack |-> f, first |-> 0, line |-> n, raised |-> ff, out |-> z]
    BY <1>12, <2>3
  <2>5. J2Token(s, t) = [u EXCEPT !.line = l]
    BY <1>6, <1>7, <1>8, <2>4
  <2>6. J2Token(s, t) = [emit |-> y, stack |-> f, first |-> 0, line |-> l, raised |-> ff, out |-> z]
    BY <2>4, <2>5
  <2>7. J2Token(s, t) = J(y, f, 0, l, FALSE, z)
    BY <1>11, <2>6, Zenon DEF J
  <2> QED
    BY <1>1, <1>3, <1>8, <1>9, <1>14, <2>1, <2>7 DEF CloseToken
<1> QED
  BY <1>13, <1>14

LEMMA J2Blank ==
    ASSUME NEW e, NEW st, NEW n \in Nat
    PROVE  J2Tokens(J(e, st, 0, n, FALSE, <<>>), <<Token("blank", 0, 1)>>)
              = J(e, st, 0, n + 1, FALSE, <<NoCode(n)>>)
<1>1. PICK s : s = J(e, st, 0, n, FALSE, <<>>)
  OBVIOUS
<1>2. s.emit = e /\ s.stack = st /\ s.line = n /\ s.out = <<>> /\ s.raised = FALSE
  BY <1>1 DEF J
<1>3. PICK t : t = Token("blank", 0, 1)
  OBVIOUS
<1>4. t.what = "blank" /\ t.newlines = 1
  BY <1>3 DEF Token
<1>5. PICK z : z = <<NoCode(n)>>
  OBVIOUS
<1>6. Append(<<>>, NoCode(n)) = z
  BY <1>5
<1>7. PICK u : u = [s EXCEPT !.out = z]
  OBVIOUS
<1>8. J2Token(s, t) = [u EXCEPT !.line = @ + Newlines(t)]
  <2>1. t.what \notin {"chars", "expr"} /\ t.what # "note" /\ t.what # "newline" /\ t.what # "close"
    BY <1>4
  <2>2. u = [s EXCEPT !.out = Append(@, NoCode(s.line))]
    BY <1>2, <1>6, <1>7
  <2> QED
    BY <1>2, <1>4, <2>1, <2>2 DEF J2Token
<1>9. Newlines(t) = 1
  BY <1>4 DEF Newlines
<1>10. PICK l : l = n + 1
  OBVIOUS
<1>11. PICK ff : ff = FALSE
  OBVIOUS
<1>12. s = [emit |-> e, stack |-> st, first |-> 0, line |-> n, raised |-> ff, out |-> <<>>]
  BY <1>1, <1>11, Zenon DEF J
<1>13. u = [emit |-> e, stack |-> st, first |-> 0, line |-> n, raised |-> ff, out |-> z]
  BY <1>7, <1>12
<1>14. J2Token(s, t) = [u EXCEPT !.line = l]
  BY <1>8, <1>9, <1>10, <1>13
<1>15. J2Token(s, t) = [emit |-> e, stack |-> st, first |-> 0, line |-> l, raised |-> ff, out |-> z]
  BY <1>13, <1>14
<1>16. J2Token(s, t) = J(e, st, 0, l, FALSE, z)
  BY <1>11, <1>15, Zenon DEF J
<1>17. J2Tokens(s, <<t>>) = J2Token(s, t)
  BY TokensOne
<1> QED
  BY <1>1, <1>3, <1>5, <1>10, <1>16, <1>17

\* Nothing is read once the parser has raised.
LEMMA J2Raised ==
    ASSUME NEW s, s.raised = TRUE, NEW ts, Len(ts) \in Nat
    PROVE  J2Tokens(s, ts) = s
<1>1. PICK f : /\ J2Tokens(s, ts) = f[Len(ts)] /\ f[0] = s
               /\ \A n \in 1 .. Len(ts) : f[n] = J2Token(f[n - 1], ts[n])
  BY ScanIs
<1>2. PICK d : d = Len(ts)
  OBVIOUS
<1> DEFINE S == {n \in Nat : n <= d => f[n] = s}
<1>3. 0 \in S
  BY <1>1
<1>4. ASSUME NEW n \in Nat, n \in S
      PROVE  n + 1 \in S
  <2>1. SUFFICES ASSUME n + 1 <= d
                 PROVE  f[n + 1] = s
    OBVIOUS
  <2>2. n <= d /\ n + 1 \in 1 .. Len(ts) /\ (n + 1) - 1 = n
    BY <1>2, <2>1
  <2>3. f[n] = s
    BY <1>4, <2>2
  <2>4. f[n + 1] = J2Token(f[n], ts[n + 1])
    BY <1>1, <2>2
  <2>5. J2Token(s, ts[n + 1]) = s
    BY Zenon DEF J2Token
  <2> QED
    BY <2>3, <2>4, <2>5
<1> HIDE DEF S
<1>5. \A n \in Nat : n \in S
  BY <1>3, <1>4, AllNat
<1>6. d \in S /\ d \in Nat
  BY <1>2, <1>5
<1>7. f[d] = s
  BY <1>6 DEF S
<1> QED
  BY <1>1, <1>2, <1>7

\* The pieces of a line of output, m lines below n.
TextTokens == [what : {"chars", "expr", "note"}, indent : Nat, newlines : Nat]
PieceOf(s, e, st, n, m) ==
    m \in Nat /\ \E x : s = J(e, st, x, n + m, FALSE, <<>>) /\ (x = 0 \/ x \in n .. n + m)

LEMMA OnePiece ==
    ASSUME NEW s, NEW e, NEW st, NEW n \in Nat, NEW m, PieceOf(s, e, st, n, m), NEW t \in TextTokens
    PROVE  PieceOf(J2Token(s, t), e, st, n, m + t.newlines)
<1>1. PICK x : s = J(e, st, x, n + m, FALSE, <<>>) /\ (x = 0 \/ x \in n .. n + m)
  BY DEF PieceOf
<1>2. m \in Nat /\ t.newlines \in Nat
  BY DEF PieceOf, TextTokens
<1>3. PICK l, o, ff : l = n + m /\ o = <<>> /\ ff = FALSE
  OBVIOUS
<1>4. s = [emit |-> e, stack |-> st, first |-> x, line |-> l, raised |-> ff, out |-> o]
  BY <1>1, <1>3, Zenon DEF J
<1>5. s.raised = FALSE /\ s.line = l /\ s.first = x
  BY <1>3, <1>4
<1>6. PICK y : y = IF t.what = "note" \/ x # 0 THEN x ELSE l
  OBVIOUS
<1>7. PICK u : u = [emit |-> e, stack |-> st, first |-> y, line |-> l, raised |-> ff, out |-> o]
  OBVIOUS
<1>8. J2Token(s, t) = [u EXCEPT !.line = @ + Newlines(t)]
  <2>1. CASE t.what = "note"
    <3>1. u = s
      BY <1>4, <1>6, <1>7, <2>1
    <3>2. t.what \notin {"chars", "expr"}
      BY <2>1
    <3> QED
      BY <1>5, <2>1, <3>1, <3>2 DEF J2Token
  <2>2. CASE t.what # "note"
    <3>1. t.what \in {"chars", "expr"}
      BY <2>2 DEF TextTokens
    <3>2. u = Piece(s)
      <4>1. Piece(s) = [s EXCEPT !.first = IF x = 0 THEN l ELSE x]
        BY <1>5 DEF Piece
      <4>2. y = IF x = 0 THEN l ELSE x
        BY <1>6, <2>2
      <4>3. Piece(s) = [s EXCEPT !.first = y]
        BY <4>1, <4>2
      <4> QED
        BY <1>4, <1>7, <4>3
    <3> QED
      BY <1>5, <3>1, <3>2 DEF J2Token
  <2> QED
    BY <2>1, <2>2
<1>9. PICK z : z = n + (m + t.newlines)
  OBVIOUS
<1>10. l + Newlines(t) = z
  BY <1>2, <1>3, <1>9 DEF Newlines
<1>11. J2Token(s, t) = [u EXCEPT !.line = z]
  BY <1>7, <1>8, <1>10
<1>12. J2Token(s, t) = [emit |-> e, stack |-> st, first |-> y, line |-> z, raised |-> ff, out |-> o]
  BY <1>7, <1>11
<1>13. J2Token(s, t) = J(e, st, y, z, FALSE, <<>>)
  BY <1>3, <1>12, Zenon DEF J
<1>14. y = 0 \/ y \in n .. z
  BY <1>1, <1>2, <1>3, <1>6, <1>9
<1>15. PICK mm : mm = m + t.newlines
  OBVIOUS
<1>16. mm \in Nat /\ z = n + mm
  BY <1>2, <1>9, <1>15
<1>17. PieceOf(J2Token(s, t), e, st, n, mm)
  BY <1>13, <1>14, <1>16 DEF PieceOf
<1> QED
  BY <1>15, <1>17

LEMMA AllPieces ==
    ASSUME NEW us, NEW d \in Nat, \A i \in 1 .. d : us[i] \in TextTokens,
           NEW e, NEW st, NEW n \in Nat, NEW f, NEW g,
           f[0] = J(e, st, 0, n, FALSE, <<>>), g[0] = 0,
           \A i \in 1 .. d : f[i] = J2Token(f[i - 1], us[i]) /\ g[i] = g[i - 1] + us[i].newlines
    PROVE  PieceOf(f[d], e, st, n, g[d])
<1> DEFINE S == {i \in Nat : i <= d => PieceOf(f[i], e, st, n, g[i])}
<1>1. 0 \in S
  <2>1. n + 0 = n
    OBVIOUS
  <2>2. PieceOf(J(e, st, 0, n, FALSE, <<>>), e, st, n, 0)
    BY <2>1 DEF PieceOf
  <2> QED
    BY <2>2
<1>2. ASSUME NEW i \in Nat, i \in S
      PROVE  i + 1 \in S
  <2>1. SUFFICES ASSUME i + 1 <= d
                 PROVE  PieceOf(f[i + 1], e, st, n, g[i + 1])
    OBVIOUS
  <2>2. i <= d /\ i + 1 \in 1 .. d /\ (i + 1) - 1 = i
    BY <2>1
  <2>3. PICK j, t : j = i + 1 /\ t = us[j]
    OBVIOUS
  <2>4. t \in TextTokens /\ f[j] = J2Token(f[j - 1], t) /\ g[j] = g[j - 1] + t.newlines /\ j - 1 = i
    BY <2>2, <2>3
  <2>5. PieceOf(f[i], e, st, n, g[i])
    BY <1>2, <2>2
  <2>6. PieceOf(J2Token(f[i], t), e, st, n, g[i] + t.newlines)
    BY <2>4, <2>5, OnePiece
  <2>7. f[j] = J2Token(f[i], t) /\ g[j] = g[i] + t.newlines
    BY <2>4
  <2> QED
    BY <2>3, <2>6, <2>7
<1> HIDE DEF S
<1>3. \A i \in Nat : i \in S
  BY <1>1, <1>2, AllNat
<1>4. d \in S
  BY <1>3
<1> QED
  BY <1>4 DEF S

\* A line of output, put out where it ends; what is left where the file ends.
FlushedAt(s, e, st, n, c) ==
    \E l : /\ s = J(e, st, 0, n + c, FALSE, <<l>>)
           /\ Starts(l, e) /\ l.mark \in n .. n + c

LEMMA FlushIs ==
    ASSUME NEW s, NEW e, NEW st, NEW n \in Nat, NEW m, PieceOf(s, e, st, n, m)
    PROVE  FlushedAt(Flush(s), e, st, n, m)
<1>1. PICK x : s = J(e, st, x, n + m, FALSE, <<>>) /\ (x = 0 \/ x \in n .. n + m)
  BY DEF PieceOf
<1>2. m \in Nat
  BY DEF PieceOf
<1>3. PICK l, o, ff : l = n + m /\ o = <<>> /\ ff = FALSE
  OBVIOUS
<1>4. s = [emit |-> e, stack |-> st, first |-> x, line |-> l, raised |-> ff, out |-> o]
  BY <1>1, <1>3, Zenon DEF J
<1>5. s.emit = e /\ s.line = l /\ s.first = x
  BY <1>4
<1>15. PICK y : y = IF x = 0 THEN l ELSE x
  OBVIOUS
<1>6. PICK k : k = OutLine(e, TRUE, TRUE, FALSE, y)
  OBVIOUS
<1>7. Starts(k, e) /\ k.mark = y
  BY <1>6 DEF OutLine, Starts
<1>8. k.mark \in n .. n + m
  <2>1. CASE x = 0
    <3>1. y = n + m
      BY <1>3, <1>15, <2>1
    <3>2. y \in n .. n + m
      BY <1>2, <3>1
    <3> QED
      BY <1>7, <3>2
  <2>2. CASE x # 0
    <3>1. y = x /\ x \in n .. n + m
      BY <1>1, <1>15, <2>2
    <3> QED
      BY <1>7, <3>1
  <2> QED
    BY <2>1, <2>2
<1>9. PICK z : z = <<k>>
  OBVIOUS
<1>10. Append(o, k) = z
  BY <1>3, <1>9
<1>11. Flush(s) = [s EXCEPT !.out = Append(@, k), !.first = 0]
  BY <1>5, <1>6, <1>15 DEF Flush
<1>12. Flush(s) = [s EXCEPT !.out = z, !.first = 0]
  BY <1>4, <1>10, <1>11
<1>13. Flush(s) = [emit |-> e, stack |-> st, first |-> 0, line |-> l, raised |-> ff, out |-> z]
  BY <1>4, <1>12
<1>14. Flush(s) = J(e, st, 0, l, FALSE, z)
  BY <1>3, <1>13, Zenon DEF J
<1> QED
  BY <1>3, <1>7, <1>8, <1>9, <1>14 DEF FlushedAt

LEMMA J2Output ==
    ASSUME NEW ts \in Seq(TextTokens), NEW e, NEW st, NEW n \in Nat
    PROVE  \E c \in Nat :
              /\ Ends(Append(ts, LineEnd)) = c + 1
              /\ \E l : /\ J2Tokens(J(e, st, 0, n, FALSE, <<>>), Append(ts, LineEnd))
                              = J(e, st, 0, n + (c + 1), FALSE, <<l>>)
                        /\ Starts(l, e) /\ l.mark \in n .. n + c
<1>1. PICK d : d = Len(ts)
  OBVIOUS
<1>2. PICK us : us = Append(ts, LineEnd)
  OBVIOUS
<1>3. d \in Nat /\ Len(us) = d + 1 /\ us[d + 1] = LineEnd /\ \A i \in 1 .. d : us[i] = ts[i]
  BY <1>1, <1>2
<1>4. PICK s : s = J(e, st, 0, n, FALSE, <<>>)
  OBVIOUS
<1>5. Len(us) \in Nat
  BY <1>3
<1>6. PICK f : /\ J2Tokens(s, us) = f[Len(us)] /\ f[0] = s
               /\ \A i \in 1 .. Len(us) : f[i] = J2Token(f[i - 1], us[i])
  BY <1>5, ScanIs
<1>7. PICK g : /\ Ends(us) = g[Len(us)] /\ g[0] = 0
               /\ \A i \in 1 .. Len(us) : g[i] = g[i - 1] + us[i].newlines
  BY <1>5, EndsAre
<1>8. \A i \in 1 .. d : f[i] = J2Token(f[i - 1], us[i]) /\ g[i] = g[i - 1] + us[i].newlines
  BY <1>3, <1>6, <1>7
<1>9. \A i \in 1 .. d : us[i] \in TextTokens
  BY <1>1, <1>3
<1>10. f[0] = J(e, st, 0, n, FALSE, <<>>) /\ g[0] = 0
  BY <1>4, <1>6, <1>7
<1>11. PieceOf(f[d], e, st, n, g[d])
  BY <1>3, <1>8, <1>9, <1>10, AllPieces
<1>12. PICK a, c : a = f[d] /\ c = g[d]
  OBVIOUS
<1>13. PieceOf(a, e, st, n, c)
  BY <1>11, <1>12
<1>14. FlushedAt(Flush(a), e, st, n, c)
  BY <1>13, FlushIs
<1>15. d + 1 \in 1 .. Len(us) /\ (d + 1) - 1 = d
  BY <1>3
<1>16. f[Len(us)] = J2Token(a, LineEnd) /\ g[Len(us)] = c + LineEnd.newlines
  BY <1>3, <1>6, <1>7, <1>12, <1>15
<1>17. LineEnd.what = "newline" /\ LineEnd.newlines = 1
  BY DEF LineEnd, Token
<1>18. PICK t : t = LineEnd
  OBVIOUS
<1>19. c \in Nat /\ Ends(us) = c + 1
  BY <1>7, <1>13, <1>16, <1>17 DEF PieceOf
<1>20. PICK u : u = Flush(a)
  OBVIOUS
<1>21. J2Token(a, t) = [u EXCEPT !.line = @ + Newlines(t)]
  <2>1. t.what \notin {"chars", "expr"} /\ t.what # "note" /\ t.what = "newline"
    BY <1>17, <1>18
  <2>2. a.raised = FALSE
    BY <1>13 DEF PieceOf, J
  <2> QED
    BY <1>20, <2>1, <2>2 DEF J2Token
<1>22. PICK l : /\ u = J(e, st, 0, n + c, FALSE, <<l>>)
                /\ Starts(l, e) /\ l.mark \in n .. n + c
  BY <1>14, <1>20 DEF FlushedAt
<1>23. Newlines(t) = 1
  BY <1>17, <1>18 DEF Newlines
<1>24. PICK z, b, o, ff : z = n + (c + 1) /\ b = n + c /\ o = <<l>> /\ ff = FALSE
  OBVIOUS
<1>25. u = [emit |-> e, stack |-> st, first |-> 0, line |-> b, raised |-> ff, out |-> o]
  BY <1>22, <1>24, Zenon DEF J
<1>26. b + 1 = z
  BY <1>19, <1>24
<1>27. J2Token(a, t) = [u EXCEPT !.line = z]
  BY <1>21, <1>23, <1>25, <1>26
<1>28. J2Token(a, t) = [emit |-> e, stack |-> st, first |-> 0, line |-> z, raised |-> ff, out |-> o]
  BY <1>25, <1>27
<1>29. J2Token(a, t) = J(e, st, 0, z, FALSE, <<l>>)
  BY <1>24, <1>28, Zenon DEF J
<1>30. J2Tokens(s, us) = J(e, st, 0, n + (c + 1), FALSE, <<l>>)
  BY <1>6, <1>16, <1>18, <1>24, <1>29
<1> QED
  BY <1>2, <1>4, <1>19, <1>22, <1>30

\* The end of the file, at most c lines below n.
EndsAt(s, e, st, n, c) ==
    \/ s = J(e, st, 0, n + c, FALSE, <<>>)
    \/ FlushedAt(s, e, st, n, c)

LEMMA J2End ==
    ASSUME NEW ts \in Seq(TextTokens), NEW e, NEW st, NEW n \in Nat
    PROVE  /\ Ends(ts) \in Nat
           /\ EndsAt(AtEnd(J2Tokens(J(e, st, 0, n, FALSE, <<>>), ts)), e, st, n, Ends(ts))
           /\ ts = <<>> => AtEnd(J2Tokens(J(e, st, 0, n, FALSE, <<>>), ts)).out = <<>>
<1>1. PICK d : d = Len(ts)
  OBVIOUS
<1>2. d \in Nat /\ Len(ts) \in Nat
  BY <1>1
<1>3. PICK s : s = J(e, st, 0, n, FALSE, <<>>)
  OBVIOUS
<1>4. PICK f : /\ J2Tokens(s, ts) = f[Len(ts)] /\ f[0] = s
               /\ \A i \in 1 .. Len(ts) : f[i] = J2Token(f[i - 1], ts[i])
  BY <1>2, ScanIs
<1>5. PICK g : /\ Ends(ts) = g[Len(ts)] /\ g[0] = 0
               /\ \A i \in 1 .. Len(ts) : g[i] = g[i - 1] + ts[i].newlines
  BY <1>2, EndsAre
<1>6. \A i \in 1 .. d : f[i] = J2Token(f[i - 1], ts[i]) /\ g[i] = g[i - 1] + ts[i].newlines
  BY <1>1, <1>4, <1>5
<1>7. \A i \in 1 .. d : ts[i] \in TextTokens
  BY <1>1
<1>8. f[0] = J(e, st, 0, n, FALSE, <<>>) /\ g[0] = 0
  BY <1>3, <1>4, <1>5
<1>9. PieceOf(f[d], e, st, n, g[d])
  BY <1>2, <1>6, <1>7, <1>8, AllPieces
<1>10. PICK a, c : a = f[d] /\ c = g[d]
  OBVIOUS
<1>11. PieceOf(a, e, st, n, c) /\ c = Ends(ts) /\ a = J2Tokens(s, ts)
  BY <1>1, <1>4, <1>5, <1>9, <1>10
<1>12. c \in Nat
  BY <1>11 DEF PieceOf
<1>13. EndsAt(AtEnd(a), e, st, n, c)
  <2>1. CASE a.first = 0
    <3>1. AtEnd(a) = a
      BY <2>1 DEF AtEnd
    <3>2. PICK x : a = J(e, st, x, n + c, FALSE, <<>>)
      BY <1>11 DEF PieceOf
    <3>3. a.first = x
      BY <3>2 DEF J
    <3> QED
      BY <2>1, <3>1, <3>2, <3>3 DEF EndsAt
  <2>2. CASE a.first # 0
    <3>1. AtEnd(a) = Flush(a)
      BY <2>2 DEF AtEnd
    <3>2. FlushedAt(Flush(a), e, st, n, c)
      BY <1>11, FlushIs
    <3> QED
      BY <3>1, <3>2 DEF EndsAt
  <2> QED
    BY <2>1, <2>2
<1>14. ts = <<>> => AtEnd(a).out = <<>>
  <2>1. SUFFICES ASSUME ts = <<>>
                 PROVE  AtEnd(a).out = <<>>
    OBVIOUS
  <2>2. d = 0
    BY <1>1, <2>1
  <2>3. a = s
    BY <1>4, <1>10, <2>2
  <2>4. s.first = 0 /\ s.out = <<>>
    BY <1>3 DEF J
  <2> QED
    BY <2>3, <2>4 DEF AtEnd
<1> QED
  BY <1>3, <1>11, <1>12, <1>13, <1>14

-----------------------------------------------------------------------------
(* The stack of j2.                                                        *)

LEMMA StackDown ==
    ASSUME NEW st, NEW d \in Nat, NEW low \in Nat, StackIs(st, d, low),
           NEW k \in Nat, k <= d, k = d \/ d <= low
    PROVE  StackIs(st, k, low)
<1>1. \A n \in 1 .. Len(st) : st[n] < k \/ st[n] < low
  <2>1. ASSUME NEW n \in 1 .. Len(st)
        PROVE  st[n] < k \/ st[n] < low
    <3>1. st[n] \in Nat /\ (st[n] < d \/ st[n] < low)
      BY DEF StackIs
    <3> QED
      BY <3>1
  <2> QED
    BY <2>1
<1>2. \A e \in low .. k : e \in low .. d
  OBVIOUS
<1> QED
  BY <1>1, <1>2 DEF StackIs

LEMMA StackUp ==
    ASSUME NEW st, NEW k \in Nat, NEW low \in Nat, StackIs(st, k, low)
    PROVE  StackIs(Pushed(st, "opener", k), k + 1, low)
<1>1. /\ st \in Seq(Nat)
      /\ \A m, n \in 1 .. Len(st) : m < n => st[m] < st[n]
      /\ \A n \in 1 .. Len(st) : st[n] < k \/ st[n] < low
      /\ \A e \in low .. k : \E n \in 1 .. Len(st) : st[n] = e - 1
  BY DEF StackIs
<1>2. PICK l : l = Len(st)
  OBVIOUS
<1>3. l \in Nat
  BY <1>1, <1>2
<1>4. CASE st = <<>> \/ k > Last(st)
  <2>1. PICK z : z = Append(st, k)
    OBVIOUS
  <2>2. Pushed(st, "opener", k) = z
    BY <1>4, <2>1 DEF Pushed
  <2>3. z \in Seq(Nat) /\ Len(z) = l + 1 /\ z[l + 1] = k /\ \A n \in 1 .. l : z[n] = st[n]
    BY <1>1, <1>2, <2>1
  <2>4. \A n \in 1 .. l : st[n] < k
    <3>1. ASSUME NEW n \in 1 .. l
          PROVE  st[n] < k
      <4>1. st # <<>> /\ l \in 1 .. l
        BY <1>2, <1>3
      <4>2. Last(st) = st[l] /\ k > st[l] /\ st[l] \in Nat /\ st[n] \in Nat
        BY <1>1, <1>2, <1>4, <4>1 DEF Last
      <4>3. n = l \/ n < l
        BY <1>3
      <4>4. n < l => st[n] < st[l]
        BY <1>1, <1>2, <4>1
      <4> QED
        BY <4>2, <4>3, <4>4
    <3> QED
      BY <3>1
  <2>5. ASSUME NEW m \in 1 .. l + 1, NEW n \in 1 .. l + 1, m < n
        PROVE  z[m] < z[n]
    <3>1. m \in 1 .. l
      BY <1>3, <2>5
    <3>2. CASE n = l + 1
      <4>1. z[m] < k
        BY <2>3, <2>4, <3>1
      <4> QED
        BY <2>3, <3>2, <4>1
    <3>3. CASE n # l + 1
      <4>1. n \in 1 .. l
        BY <1>3, <3>3
      <4> QED
        BY <1>1, <1>2, <2>3, <2>5, <3>1, <4>1
    <3> QED
      BY <3>2, <3>3
  <2>6. ASSUME NEW n \in 1 .. l + 1
        PROVE  z[n] < k + 1
    <3>1. CASE n = l + 1
      <4>1. k < k + 1
        OBVIOUS
      <4> QED
        BY <2>3, <3>1, <4>1
    <3>2. CASE n # l + 1
      <4>1. n \in 1 .. l
        BY <1>3, <3>2
      <4>2. z[n] = st[n] /\ st[n] < k /\ st[n] \in Nat
        BY <1>1, <1>2, <2>3, <2>4, <4>1
      <4>3. PICK x : x = st[n]
        OBVIOUS
      <4>4. x < k + 1
        BY <4>2, <4>3
      <4> QED
        BY <4>2, <4>3, <4>4
    <3> QED
      BY <3>1, <3>2
  <2>7. ASSUME NEW e \in low .. k + 1
        PROVE  \E n \in 1 .. l + 1 : z[n] = e - 1
    <3>1. CASE e = k + 1
      <4>1. l + 1 \in 1 .. l + 1 /\ e - 1 = k
        BY <1>3, <3>1
      <4> QED
        BY <2>3, <4>1
    <3>2. CASE e # k + 1
      <4>1. e \in low .. k
        BY <3>2
      <4>2. PICK n \in 1 .. l : st[n] = e - 1
        BY <1>1, <1>2, <4>1
      <4>3. n \in 1 .. l + 1 /\ z[n] = e - 1
        BY <1>3, <2>3, <4>2
      <4> QED
        BY <4>3
    <3> QED
      BY <3>1, <3>2
  <2>8. StackIs(z, k + 1, low)
    BY <2>3, <2>5, <2>6, <2>7 DEF StackIs
  <2> QED
    BY <2>2, <2>8
<1>5. CASE ~ (st = <<>> \/ k > Last(st))
  <2>1. Pushed(st, "opener", k) = st
    BY <1>5 DEF Pushed
  <2>2. l \in 1 .. l /\ Last(st) = st[l] /\ st[l] \in Nat
    <3>1. st # <<>>
      BY <1>5
    <3>2. l # 0
      BY <1>1, <1>2, <3>1
    <3> QED
      BY <1>1, <1>2, <1>3, <3>1, <3>2 DEF Last
  <2>3. k <= st[l]
    BY <1>5, <2>2
  <2>4. st[l] < low
    BY <1>1, <1>2, <2>2, <2>3
  <2>5. ASSUME NEW e \in low .. k + 1
        PROVE  \E n \in 1 .. l : st[n] = e - 1
    <3>1. PICK x : x = st[l]
      OBVIOUS
    <3>2. x \in Nat /\ k <= x /\ x < low
      BY <2>2, <2>3, <2>4, <3>1
    <3>3. e - 1 = x
      BY <3>2
    <3> QED
      BY <2>2, <3>1, <3>3
  <2>6. \A n \in 1 .. l : st[n] < k + 1 \/ st[n] < low
    <3>1. ASSUME NEW n \in 1 .. l
          PROVE  st[n] < k + 1 \/ st[n] < low
      <4>1. PICK x : x = st[n]
        OBVIOUS
      <4>2. x \in Nat /\ (x < k \/ x < low)
        BY <1>1, <1>2, <4>1
      <4>3. x < k + 1 \/ x < low
        BY <4>2
      <4> QED
        BY <4>1, <4>3
    <3> QED
      BY <3>1
  <2>7. StackIs(st, k + 1, low)
    BY <1>1, <1>2, <2>5, <2>6 DEF StackIs
  <2> QED
    BY <2>1, <2>7
<1> QED
  BY <1>4, <1>5

\* Where a keyword may close the block, the top of the stack is its opener.
LEMMA StackTop ==
    ASSUME NEW st, NEW d \in Nat \ {0}, NEW low \in Nat, StackIs(st, d, low), low <= d
    PROVE  st # <<>> /\ Last(st) = d - 1
<1>1. /\ st \in Seq(Nat)
      /\ \A m, n \in 1 .. Len(st) : m < n => st[m] < st[n]
      /\ \A n \in 1 .. Len(st) : st[n] < d \/ st[n] < low
      /\ \A e \in low .. d : \E n \in 1 .. Len(st) : st[n] = e - 1
  BY DEF StackIs
<1>2. d \in low .. d
  OBVIOUS
<1>3. PICK n \in 1 .. Len(st) : st[n] = d - 1
  BY <1>1, <1>2
<1>4. PICK l : l = Len(st)
  OBVIOUS
<1>5. l \in Nat /\ n \in 1 .. l /\ l \in 1 .. l /\ st # <<>>
  BY <1>1, <1>3, <1>4
<1>6. Last(st) = st[l] /\ st[l] \in Nat
  BY <1>1, <1>4, <1>5 DEF Last
<1>7. PICK x : x = st[l]
  OBVIOUS
<1>8. x \in Nat /\ x < d
  BY <1>1, <1>4, <1>5, <1>6, <1>7
<1>9. n = l \/ n < l
  BY <1>5
<1>10. d - 1 <= x
  <2>1. CASE n = l
    BY <1>3, <1>7, <2>1
  <2>2. CASE n < l
    <3>1. st[n] < x
      BY <1>1, <1>4, <1>5, <1>7, <2>2
    <3> QED
      BY <1>3, <1>8, <3>1
  <2> QED
    BY <1>9, <2>1, <2>2
<1>11. x = d - 1
  BY <1>8, <1>10
<1> QED
  BY <1>5, <1>6, <1>7, <1>11

LEMMA StackPop ==
    ASSUME NEW st, NEW d \in Nat \ {0}, NEW low \in Nat, StackIs(st, d, low), low <= d
    PROVE  StackIs(Front(st), d - 1, low)
<1>1. /\ st \in Seq(Nat)
      /\ \A m, n \in 1 .. Len(st) : m < n => st[m] < st[n]
      /\ \A e \in low .. d : \E n \in 1 .. Len(st) : st[n] = e - 1
  BY DEF StackIs
<1>2. st # <<>> /\ Last(st) = d - 1
  BY StackTop
<1>3. PICK l : l = Len(st)
  OBVIOUS
<1>4. l \in Nat /\ l # 0
  BY <1>1, <1>2, <1>3
<1>5. st[l] = d - 1 /\ l \in 1 .. l
  BY <1>2, <1>3, <1>4 DEF Last
<1>6. PICK z : z = Front(st)
  OBVIOUS
<1>7. PICK j : j = l - 1
  OBVIOUS
<1>8. j \in Nat /\ l = j + 1
  BY <1>4, <1>7
<1>9. z = SubSeq(st, 1, j)
  BY <1>3, <1>6, <1>7 DEF Front
<1>10. z \in Seq(Nat) /\ Len(z) = j /\ \A n \in 1 .. j : z[n] = st[n]
  <2>1. st \in Seq(Nat) /\ j \in Nat /\ j <= Len(st)
    BY <1>1, <1>3, <1>8
  <2> QED
    BY <1>9, <2>1
<1>11. \A n \in 1 .. j : n \in 1 .. l /\ n < l
  BY <1>8
<1>12. \A n \in 1 .. j : z[n] < d - 1
  BY <1>1, <1>3, <1>5, <1>10, <1>11
<1>13. \A m, n \in 1 .. j : m < n => z[m] < z[n]
  BY <1>1, <1>3, <1>10, <1>11
<1>14. ASSUME NEW e \in low .. d - 1
       PROVE  \E n \in 1 .. j : z[n] = e - 1
  <2>1. e \in low .. d
    OBVIOUS
  <2>2. PICK n \in 1 .. l : st[n] = e - 1
    BY <1>1, <1>3, <2>1
  <2>3. e - 1 # d - 1
    OBVIOUS
  <2>4. n # l
    BY <1>5, <2>2, <2>3
  <2>5. n \in 1 .. j
    BY <1>8, <2>4
  <2> QED
    BY <1>10, <2>2, <2>5
<1>15. StackIs(z, d - 1, low)
  BY <1>10, <1>12, <1>13, <1>14 DEF StackIs
<1> QED
  BY <1>6, <1>15

\* else: opens no further block.
LEMMA StackMid ==
    ASSUME NEW st, NEW d \in Nat \ {0}, NEW low \in Nat, StackIs(st, d, low)
    PROVE  StackIs(Pushed(st, "opener", d - 1), d, low)
<1>1. CASE low <= d
  <2>1. st # <<>> /\ Last(st) = d - 1
    BY <1>1, StackTop
  <2>2. ~ (d - 1 > Last(st))
    BY <2>1
  <2>3. Pushed(st, "opener", d - 1) = st
    BY <2>1, <2>2 DEF Pushed
  <2> QED
    BY <2>3
<1>2. CASE ~ (low <= d)
  <2>1. PICK k : k = d - 1
    OBVIOUS
  <2>2. k \in Nat /\ k <= d /\ d <= low /\ k + 1 = d
    BY <1>2, <2>1
  <2>3. StackIs(st, k, low)
    BY <2>2, StackDown
  <2>4. StackIs(Pushed(st, "opener", k), k + 1, low)
    BY <2>2, <2>3, StackUp
  <2> QED
    BY <2>1, <2>2, <2>4
<1> QED
  BY <1>1, <1>2

LEMMA NotPushed ==
    ASSUME NEW st, NEW w, w # "opener", NEW k
    PROVE  Pushed(st, w, k) = st
BY DEF Pushed

-----------------------------------------------------------------------------
(* An item in the genesis flavour.                                         *)

\* The lines of an item that starts at line l + 1 and has c of them.
GMarks(s, l, c) == DOMAIN s.out \subseteq 1 .. c /\ \A n \in DOMAIN s.out : s.out[n].mark = l + n
GStart(s, l, o) == G(Len(o), s.stmt, l, <<>>)
GNext(z, q, kind, l, c, o, b) == GOk(z, q, kind, l + c, o, b) /\ GMarks(z, l, c)

LEMMA InBlockIs ==
    ASSUME NEW p, NEW o, NEW b \in BOOLEAN, PyIs(p, o, b), NEW k \in 0 .. Len(o), k = Len(o) \/ ~b
    PROVE  InBlock(p, o, k)
<1>1. CASE b
  BY <1>1 DEF InBlock, PyIs
<1>2. CASE ~b
  BY <1>2 DEF InBlock, PyIs
<1> QED
  BY <1>1, <1>2

LEMMA PyEither ==
    ASSUME NEW p, NEW o, NEW b \in BOOLEAN, PyIs(p, o, b)
    PROVE  PyIn(p, o) \/ PyDue(p, o)
<1>1. CASE b
  BY <1>1 DEF PyIs
<1>2. CASE ~b
  BY <1>2 DEF PyIs
<1> QED
  BY <1>1, <1>2

LEMMA SubSeqLen ==
    ASSUME NEW o \in Seq(Nat \ {0}), NEW k \in 0 .. Len(o)
    PROVE  SubSeq(o, 1, k) \in Seq(Nat \ {0}) /\ Len(SubSeq(o, 1, k)) = k
<1>1. PICK r : r = SubSeq(o, 1, k)
  OBVIOUS
<1>2. Len(o) \in Nat /\ k \in Nat /\ k <= Len(o)
  OBVIOUS
<1>3. r \in Seq(Nat \ {0}) /\ Len(r) = k
  BY <1>1, <1>2
<1> QED
  BY <1>1, <1>3

LEMMA SubSeqAppend ==
    ASSUME NEW o \in Seq(Nat \ {0}), NEW k \in 0 .. Len(o), NEW id \in Nat \ {0}
    PROVE  /\ Append(SubSeq(o, 1, k), id) \in Seq(Nat \ {0})
           /\ Len(Append(SubSeq(o, 1, k), id)) = k + 1
<1>1. PICK r : r = SubSeq(o, 1, k)
  OBVIOUS
<1>2. r \in Seq(Nat \ {0}) /\ Len(r) = k
  BY <1>1, SubSeqLen
<1>3. Append(r, id) \in Seq(Nat \ {0}) /\ Len(Append(r, id)) = k + 1
  BY <1>2
<1> QED
  BY <1>1, <1>3

LEMMA GPlain ==
    ASSUME NEW s, NEW p, NEW kind, NEW l, NEW o \in Seq(Nat \ {0}), NEW b \in BOOLEAN, GOk(s, p, kind, l, o, b),
           NEW k \in 0 .. Len(o), k = Len(o) \/ ~b, NEW id,
           NEW further \in Seq(Nat), Len(further) <= 1,
           NEW z, z = GenesisLines(GStart(s, l, o), LinesOf("plain", k, further))
    PROVE  GNext(z, Reading(p, z.out, id), "code", l, 1 + Len(further), SubSeq(o, 1, k), FALSE)
<1>1. l \in Nat /\ k \in Nat
  BY DEF GOk
<1>2. PICK c : c = 1 + Len(further)
  OBVIOUS
<1>3. CodeLines(z, "plain", k, l, c)
  <2>1. "plain" \in {"plain", "opener"}
    OBVIOUS
  <2>2. CodeLines(GenesisLines(G(Len(o), s.stmt, l, <<>>), LinesOf("plain", k, further)), "plain", k, l, 1 + Len(further))
    BY <1>1, <2>1, GenesisCode
  <2> QED
    BY <1>2, <2>2 DEF GStart
<1>4. PICK m, out : /\ z = G(k + Deeper("plain"), m, l + c, out)
                    /\ CodeOut(out, "plain", k)
                    /\ DOMAIN out = 1 .. c
                    /\ \A i \in DOMAIN out : out[i].mark = l + i
  BY <1>3 DEF CodeLines
<1>5. k + Deeper("plain") = k
  BY <1>1 DEF Deeper
<1>6. PICK r : r = SubSeq(o, 1, k)
  OBVIOUS
<1>7. Len(r) = k
  BY <1>6, SubSeqLen
<1>8. z.out = out /\ z.stmt = m /\ z = G(Len(r), z.stmt, l + c, z.out)
  BY <1>4, <1>5, <1>7 DEF G
<1>9. InBlock(p, o, k)
  BY InBlockIs DEF GOk
<1>10. PICK q : q = Reading(p, z.out, id)
  OBVIOUS
<1>11. PyIn(q, r)
  BY <1>4, <1>6, <1>8, <1>9, <1>10, ReadPlain
<1>12. GMarks(z, l, c)
  BY <1>4, <1>8 DEF GMarks
<1>13. l + c \in Nat
  BY <1>1, <1>2
<1>14. GOk(z, q, "code", l + c, r, FALSE)
  BY <1>8, <1>11, <1>13 DEF GOk, PyIs
<1> QED
  BY <1>2, <1>6, <1>10, <1>12, <1>14 DEF GNext

LEMMA GOpener ==
    ASSUME NEW s, NEW p, NEW kind, NEW l, NEW o \in Seq(Nat \ {0}), NEW b \in BOOLEAN, GOk(s, p, kind, l, o, b),
           NEW k \in 0 .. Len(o), k = Len(o) \/ ~b, NEW id \in Nat \ {0},
           NEW further \in Seq(Nat), Len(further) <= 1,
           NEW z, z = GenesisLines(GStart(s, l, o), LinesOf("opener", k, further))
    PROVE  GNext(z, Reading(p, z.out, id), "code", l, 1 + Len(further), Append(SubSeq(o, 1, k), id), TRUE)
<1>1. l \in Nat /\ k \in Nat
  BY DEF GOk
<1>2. PICK c : c = 1 + Len(further)
  OBVIOUS
<1>3. CodeLines(z, "opener", k, l, c)
  <2>1. "opener" \in {"plain", "opener"}
    OBVIOUS
  <2>2. CodeLines(GenesisLines(G(Len(o), s.stmt, l, <<>>), LinesOf("opener", k, further)), "opener", k, l, 1 + Len(further))
    BY <1>1, <2>1, GenesisCode
  <2> QED
    BY <1>2, <2>2 DEF GStart
<1>4. PICK m, out : /\ z = G(k + Deeper("opener"), m, l + c, out)
                    /\ CodeOut(out, "opener", k)
                    /\ DOMAIN out = 1 .. c
                    /\ \A i \in DOMAIN out : out[i].mark = l + i
  BY <1>3 DEF CodeLines
<1>5. k + Deeper("opener") = k + 1
  BY <1>1 DEF Deeper
<1>6. PICK r : r = Append(SubSeq(o, 1, k), id)
  OBVIOUS
<1>7. Len(r) = k + 1
  BY <1>6, SubSeqAppend
<1>8. z.out = out /\ z.stmt = m /\ z = G(Len(r), z.stmt, l + c, z.out)
  BY <1>4, <1>5, <1>7 DEF G
<1>9. InBlock(p, o, k)
  BY InBlockIs DEF GOk
<1>10. PICK q : q = Reading(p, z.out, id)
  OBVIOUS
<1>11. PyDue(q, r)
  BY <1>4, <1>6, <1>8, <1>9, <1>10, ReadBlock
<1>12. GMarks(z, l, c)
  BY <1>4, <1>8 DEF GMarks
<1>13. l + c \in Nat
  BY <1>1, <1>2
<1>14. GOk(z, q, "code", l + c, r, TRUE)
  BY <1>8, <1>11, <1>13 DEF GOk, PyIs
<1> QED
  BY <1>2, <1>6, <1>10, <1>12, <1>14 DEF GNext

LEMMA GMarksOne ==
    ASSUME NEW z, NEW l, NEW x, z.out = <<x>>, x.mark = l + 1
    PROVE  GMarks(z, l, 1)
<1>1. DOMAIN z.out = 1 .. 1 /\ z.out[1] = x
  OBVIOUS
<1>2. \A n \in 1 .. 1 : z.out[n].mark = l + n
  <2>1. \A n \in 1 .. 1 : n = 1
    OBVIOUS
  <2> QED
    BY <1>1, <2>1
<1> QED
  BY <1>1, <1>2 DEF GMarks

LEMMA GComment ==
    ASSUME NEW s, NEW p, NEW kind, NEW l, NEW o, NEW b, GOk(s, p, kind, l, o, b),
           NEW r, NEW k \in Nat, Len(r) = k, PyIs(p, r, b), NEW id,
           NEW z, z = GenesisLines(GStart(s, l, o), <<Line("comment", k, 0)>>)
    PROVE  GNext(z, Reading(p, z.out, id), "code", l, 1, r, b)
<1>1. l \in Nat
  BY DEF GOk
<1>2. "comment" \in {"plain", "opener", "comment"}
  OBVIOUS
<1>3. OneLine(GenesisLine(G(Len(o), s.stmt, l, <<>>), Line("comment", k, 0)), "comment", k, l)
  BY <1>1, <1>2, DirectiveOne
<1>4. z = GenesisLine(G(Len(o), s.stmt, l, <<>>), Line("comment", k, 0))
  BY LinesOne DEF GStart
<1>5. PICK x : z = G(k + Deeper("comment"), k, l + 1, <<x>>) /\ x.mark = l + 1 /\ x.code = FALSE
  BY <1>3, <1>4 DEF OneLine
<1>6. k + Deeper("comment") = k
  BY DEF Deeper
<1>7. z.out = <<x>> /\ z.stmt = k /\ z = G(Len(r), z.stmt, l + 1, z.out)
  BY <1>5, <1>6 DEF G
<1>8. PICK q : q = Reading(p, z.out, id)
  OBVIOUS
<1>9. q = p
  BY <1>5, <1>7, <1>8, ReadNoCode
<1>10. GMarks(z, l, 1)
  BY <1>7, <1>5, GMarksOne
<1>11. l + 1 \in Nat
  BY <1>1
<1>12. GOk(z, q, "code", l + 1, r, b)
  BY <1>7, <1>9, <1>11 DEF GOk
<1> QED
  BY <1>8, <1>10, <1>12 DEF GNext

LEMMA GBlank ==
    ASSUME NEW s, NEW p, NEW kind, NEW l, NEW o, NEW b, GOk(s, p, kind, l, o, b), NEW id,
           NEW z, z = GenesisLines(GStart(s, l, o), <<Line("blank", 0, 0)>>)
    PROVE  GNext(z, Reading(p, z.out, id), "code", l, 1, o, b)
<1>1. l \in Nat
  BY DEF GOk
<1>2. z = GenesisLine(G(Len(o), s.stmt, l, <<>>), Line("blank", 0, 0))
  BY LinesOne DEF GStart
<1>3. z = G(Len(o), s.stmt, l + 1, <<NoCode(l + 1)>>) /\ NoCode(l + 1).mark = l + 1 /\ NoCode(l + 1).code = FALSE
  BY <1>1, <1>2, BlankOne
<1>4. PICK x : x = NoCode(l + 1)
  OBVIOUS
<1>5. z.out = <<x>> /\ z.stmt = s.stmt /\ z = G(Len(o), z.stmt, l + 1, z.out)
  BY <1>3, <1>4 DEF G
<1>6. PICK q : q = Reading(p, z.out, id)
  OBVIOUS
<1>7. q = p
  BY <1>3, <1>4, <1>5, <1>6, ReadNoCode
<1>8. GMarks(z, l, 1)
  BY <1>5, <1>3, <1>4, GMarksOne
<1>9. l + 1 \in Nat /\ PyIs(p, o, b)
  BY <1>1 DEF GOk
<1>10. GOk(z, q, "code", l + 1, o, b)
  BY <1>5, <1>7, <1>9 DEF GOk
<1> QED
  BY <1>6, <1>8, <1>10 DEF GNext

LEMMA GText ==
    ASSUME NEW s, NEW p, NEW kind, NEW l, NEW o \in Seq(Nat \ {0}), NEW b \in BOOLEAN, GOk(s, p, kind, l, o, b),
           NEW id, NEW kind1,
           NEW z, z = GenesisLines(GStart(s, l, o), <<Line("text", 0, 0)>>)
    PROVE  GNext(z, Reading(p, z.out, id), kind1, l, 1, o, FALSE)
<1>1. l \in Nat /\ PyIs(p, o, b)
  BY DEF GOk
<1>2. z = GenesisLine(G(Len(o), s.stmt, l, <<>>), Line("text", 0, 0))
  BY LinesOne DEF GStart
<1>3. PICK x : z = G(Len(o), s.stmt, l + 1, <<x>>) /\ x.mark = l + 1 /\ Starts(x, Len(o))
  BY <1>1, <1>2, TextOne
<1>4. z.out = <<x>> /\ z.stmt = s.stmt /\ z = G(Len(o), z.stmt, l + 1, z.out)
  BY <1>3 DEF G
<1>5. PICK q : q = Reading(p, z.out, id)
  OBVIOUS
<1>6. q = Read(p, x, id)
  BY <1>4, <1>5, ReadingOne
<1>7. PyIn(q, o) /\ Inside(q) = o
  <2>1. PyIn(p, o) \/ PyDue(p, o)
    BY <1>1, PyEither
  <2> QED
    BY <1>3, <1>6, <2>1, ReadText
<1>8. GMarks(z, l, 1)
  BY <1>4, <1>3, GMarksOne
<1>9. l + 1 \in Nat
  BY <1>1
<1>10. GOk(z, q, kind1, l + 1, o, FALSE)
  BY <1>4, <1>7, <1>9 DEF GOk, PyIs
<1> QED
  BY <1>5, <1>8, <1>10 DEF GNext

LEMMA GNone ==
    ASSUME NEW s, NEW p, NEW kind, NEW l, NEW o, NEW b, GOk(s, p, kind, l, o, b), NEW id,
           NEW z, z = GenesisLines(GStart(s, l, o), <<>>)
    PROVE  GNext(z, Reading(p, z.out, id), "end", l, 0, o, b)
<1>1. l \in Nat /\ PyIs(p, o, b)
  BY DEF GOk
<1>2. z = G(Len(o), s.stmt, l, <<>>)
  BY LinesNone DEF GStart
<1>3. z.out = <<>> /\ z.stmt = s.stmt /\ z = G(Len(o), z.stmt, l, z.out)
  BY <1>2 DEF G
<1>4. PICK q : q = Reading(p, z.out, id)
  OBVIOUS
<1>5. q = p
  BY <1>3, <1>4, ReadingNone
<1>6. GMarks(z, l, 0)
  BY <1>3 DEF GMarks
<1>7. l + 0 = l
  BY <1>1
<1>8. GOk(z, q, "end", l + 0, o, b)
  BY <1>1, <1>3, <1>5, <1>7 DEF GOk
<1> QED
  BY <1>4, <1>6, <1>8 DEF GNext

-----------------------------------------------------------------------------
(* An item in the j2 flavour.                                              *)

JMarks(s, l, c, kind) ==
    \A n \in DOMAIN s.out : /\ s.out[n].mark \in l + 1 .. l + c
                            /\ kind = "code" => s.out[n].mark = l + 1
JStart(s) == J(s.emit, s.stack, 0, s.line, s.raised, <<>>)
JNext(z, l, c, kind) == JShape(z, kind, l + c) /\ JMarks(z, l, c, kind)

\* The parser that has raised puts out no more.
LEMMA JRaised ==
    ASSUME NEW s, NEW kind, NEW l, JShape(s, kind, l), s.raised = TRUE,
           NEW ts, Len(ts) \in Nat, NEW c \in Nat, NEW kind1
    PROVE  JNext(J2Tokens(JStart(s), ts), l, c, kind1) /\ JNext(AtEnd(J2Tokens(JStart(s), ts)), l, c, kind1)
<1>1. PICK z : z = JStart(s)
  OBVIOUS
<1>2. z.raised = TRUE /\ z.first = 0 /\ z.out = <<>> /\ z.line = s.line /\ z = JStart(z)
  BY <1>1 DEF JStart, J
<1>3. J2Tokens(z, ts) = z
  BY <1>2, J2Raised
<1>4. AtEnd(z) = z
  BY <1>2 DEF AtEnd
<1>5. JMarks(z, l, c, kind1)
  BY <1>2 DEF JMarks
<1>6. s.line \in Nat /\ l \in Nat
  BY DEF JShape
<1>7. l + c \in Nat
  BY <1>6
<1>8. z = J(z.emit, z.stack, 0, z.line, z.raised, z.out)
  BY <1>2 DEF JStart
<1>9. JShape(z, kind1, l + c)
  BY <1>2, <1>6, <1>7, <1>8 DEF JShape
<1> QED
  BY <1>1, <1>3, <1>4, <1>5, <1>9 DEF JNext

LEMMA JStarts ==
    ASSUME NEW s, NEW kind, NEW l, JShape(s, kind, l), kind # "end", s.raised = FALSE
    PROVE  l \in Nat /\ s.line = l + 1 /\ JStart(s) = J(s.emit, s.stack, 0, l + 1, FALSE, <<>>)
BY DEF JShape, JStart

JCoded(z, w, k, st) ==
    /\ z.raised = FALSE /\ z.emit = k + Deeper(w) /\ z.stack = Pushed(st, w, k)
    /\ CodeOut(z.out, w, k)

LEMMA JCode ==
    ASSUME NEW s, NEW kind, NEW l, JShape(s, kind, l), kind # "end", s.raised = FALSE,
           NEW k \in Nat, NEW w \in {"plain", "opener", "comment"}, NEW c \in {1, 2}, c = 1 \/ w # "comment",
           NEW z, z = J2Tokens(JStart(s), <<Token(w, k, c)>>)
    PROVE  JNext(z, l, c, "code") /\ JCoded(z, w, k, s.stack)
<1>1. l \in Nat /\ JStart(s) = J(s.emit, s.stack, 0, l + 1, FALSE, <<>>)
  BY JStarts
<1>2. PICK n : n = l + 1
  OBVIOUS
<1>3. PICK ff : ff = FALSE
  OBVIOUS
<1>4. n \in Nat
  BY <1>1, <1>2
<1>5. CodeTokens(J2Tokens(J(s.emit, s.stack, 0, n, ff, <<>>), <<Token(w, k, c)>>), w, k, n, c, s.stack, ff)
  BY <1>3, <1>4, J2Code
<1>6. CodeTokens(z, w, k, n, c, s.stack, ff)
  BY <1>1, <1>2, <1>3, <1>5
<1>7. PICK out : /\ z = J(k + Deeper(w), Pushed(s.stack, w, k), 0, n + c, ff, out)
                 /\ CodeOut(out, w, k)
                 /\ DOMAIN out = 1 .. c
                 /\ \A i \in DOMAIN out : out[i].mark = n
  BY <1>6 DEF CodeTokens
<1>8. /\ z.raised = FALSE /\ z.emit = k + Deeper(w) /\ z.stack = Pushed(s.stack, w, k)
      /\ z.out = out /\ z.line = n + c /\ z = J(z.emit, z.stack, 0, z.line, z.raised, z.out)
  BY <1>3, <1>7 DEF J
<1>9. n + c = (l + c) + 1 /\ n + c \in Nat /\ l + c \in Nat /\ n \in l + 1 .. l + c
  BY <1>1, <1>2
<1>10. JShape(z, "code", l + c)
  BY <1>8, <1>9 DEF JShape
<1>11. JMarks(z, l, c, "code")
  BY <1>2, <1>7, <1>8, <1>9 DEF JMarks
<1> QED
  BY <1>7, <1>8, <1>10, <1>11 DEF JNext, JCoded

LEMMA JMarksOne ==
    ASSUME NEW z, NEW l, NEW c, NEW kind, NEW x, z.out = <<x>>, x.mark \in l + 1 .. l + c,
           kind = "code" => x.mark = l + 1
    PROVE  JMarks(z, l, c, kind)
<1>1. DOMAIN z.out = 1 .. 1 /\ z.out[1] = x
  OBVIOUS
<1>2. \A n \in 1 .. 1 : n = 1
  OBVIOUS
<1> QED
  BY <1>1, <1>2 DEF JMarks

LEMMA JClose ==
    ASSUME NEW s, NEW kind, NEW l, JShape(s, kind, l), kind # "end", s.raised = FALSE, NEW k,
           NEW z, z = J2Tokens(JStart(s), <<Token("close", k, 1)>>)
    PROVE  /\ JNext(z, l, 1, "code")
           /\ s.stack # <<>> =>
                 /\ z.raised = FALSE /\ z.emit = Last(s.stack) /\ z.stack = Front(s.stack)
                 /\ z.out = <<NoCode(l + 1)>>
<1>1. l \in Nat /\ JStart(s) = J(s.emit, s.stack, 0, l + 1, FALSE, <<>>)
  BY JStarts
<1>2. PICK n : n = l + 1
  OBVIOUS
<1>3. n \in Nat
  BY <1>1, <1>2
<1>4. CloseToken(J2Tokens(J(s.emit, s.stack, 0, n, FALSE, <<>>), <<Token("close", k, 1)>>), s.emit, s.stack, n)
  BY <1>3, J2Close
<1>5. CloseToken(z, s.emit, s.stack, n)
  BY <1>1, <1>2, <1>4
<1>6. n + 1 = (l + 1) + 1 /\ n + 1 \in Nat /\ l + 1 \in Nat /\ n \in l + 1 .. l + 1
  BY <1>1, <1>2
<1>7. CASE s.stack = <<>>
  <2>1. z = J(s.emit, s.stack, 0, n + 1, TRUE, <<>>)
    BY <1>5, <1>7 DEF CloseToken
  <2>2. z.raised = TRUE /\ z.out = <<>> /\ z.line = n + 1 /\ z = J(z.emit, z.stack, 0, z.line, z.raised, z.out)
    BY <2>1 DEF J
  <2>3. JShape(z, "code", l + 1)
    BY <1>6, <2>2 DEF JShape
  <2>4. JMarks(z, l, 1, "code")
    BY <2>2 DEF JMarks
  <2> QED
    BY <1>7, <2>3, <2>4 DEF JNext
<1>8. CASE s.stack # <<>>
  <2>1. z = J(Last(s.stack), Front(s.stack), 0, n + 1, FALSE, <<NoCode(n)>>)
    BY <1>5, <1>8 DEF CloseToken
  <2>2. PICK x : x = NoCode(n)
    OBVIOUS
  <2>3. x.mark = n
    BY <2>2, NoCodeIs
  <2>4. /\ z.raised = FALSE /\ z.emit = Last(s.stack) /\ z.stack = Front(s.stack)
        /\ z.out = <<x>> /\ z.line = n + 1 /\ z = J(z.emit, z.stack, 0, z.line, z.raised, z.out)
    BY <2>1, <2>2 DEF J
  <2>5. JShape(z, "code", l + 1)
    BY <1>6, <2>4 DEF JShape
  <2>6. JMarks(z, l, 1, "code")
    BY <1>2, <1>6, <2>3, <2>4, JMarksOne
  <2> QED
    BY <1>2, <2>2, <2>4, <2>5, <2>6 DEF JNext
<1> QED
  BY <1>7, <1>8

LEMMA JBlank ==
    ASSUME NEW s, NEW kind, NEW l, JShape(s, kind, l), kind # "end", s.raised = FALSE,
           NEW z, z = J2Tokens(JStart(s), <<Token("blank", 0, 1)>>)
    PROVE  /\ JNext(z, l, 1, "code")
           /\ z.raised = FALSE /\ z.emit = s.emit /\ z.stack = s.stack
           /\ z.out = <<NoCode(l + 1)>>
<1>1. l \in Nat /\ JStart(s) = J(s.emit, s.stack, 0, l + 1, FALSE, <<>>)
  BY JStarts
<1>2. PICK n : n = l + 1
  OBVIOUS
<1>3. n \in Nat
  BY <1>1, <1>2
<1>4. J2Tokens(J(s.emit, s.stack, 0, n, FALSE, <<>>), <<Token("blank", 0, 1)>>)
         = J(s.emit, s.stack, 0, n + 1, FALSE, <<NoCode(n)>>)
  BY <1>3, J2Blank
<1>5. z = J(s.emit, s.stack, 0, n + 1, FALSE, <<NoCode(n)>>)
  BY <1>1, <1>2, <1>4
<1>6. n + 1 = (l + 1) + 1 /\ n + 1 \in Nat /\ l + 1 \in Nat /\ n \in l + 1 .. l + 1
  BY <1>1, <1>2
<1>7. PICK x : x = NoCode(n)
  OBVIOUS
<1>8. x.mark = n
  BY <1>7, NoCodeIs
<1>9. /\ z.raised = FALSE /\ z.emit = s.emit /\ z.stack = s.stack
      /\ z.out = <<x>> /\ z.line = n + 1 /\ z = J(z.emit, z.stack, 0, z.line, z.raised, z.out)
  BY <1>5, <1>7 DEF J
<1>10. JShape(z, "code", l + 1)
  BY <1>6, <1>9 DEF JShape
<1>11. JMarks(z, l, 1, "code")
  BY <1>2, <1>6, <1>8, <1>9, JMarksOne
<1> QED
  BY <1>2, <1>7, <1>9, <1>10, <1>11 DEF JNext

LEMMA JText ==
    ASSUME NEW s, NEW kind, NEW l, JShape(s, kind, l), kind # "end", s.raised = FALSE,
           NEW ts \in Seq(TextTokens),
           NEW z, z = J2Tokens(JStart(s), Append(ts, LineEnd))
    PROVE  /\ Ends(Append(ts, LineEnd)) \in Nat
           /\ JNext(z, l, Ends(Append(ts, LineEnd)), "text")
           /\ z.raised = FALSE /\ z.emit = s.emit /\ z.stack = s.stack
           /\ \E x : z.out = <<x>> /\ Starts(x, s.emit)
<1>1. l \in Nat /\ JStart(s) = J(s.emit, s.stack, 0, l + 1, FALSE, <<>>)
  BY JStarts
<1>2. PICK n : n = l + 1
  OBVIOUS
<1>3. n \in Nat
  BY <1>1, <1>2
<1>4. PICK e, st, us : e = s.emit /\ st = s.stack /\ us = Append(ts, LineEnd)
  OBVIOUS
<1>5. PICK c \in Nat :
         /\ Ends(us) = c + 1
         /\ \E x : /\ J2Tokens(J(e, st, 0, n, FALSE, <<>>), us) = J(e, st, 0, n + (c + 1), FALSE, <<x>>)
                   /\ Starts(x, e) /\ x.mark \in n .. n + c
  BY <1>3, <1>4, J2Output
<1>6. PICK x : /\ z = J(e, st, 0, n + (c + 1), FALSE, <<x>>)
               /\ Starts(x, e) /\ x.mark \in n .. n + c
  BY <1>1, <1>2, <1>4, <1>5
<1>7. PICK d : d = c + 1
  OBVIOUS
<1>8. n + d = (l + d) + 1 /\ n + d \in Nat /\ l + d \in Nat /\ d \in Nat /\ x.mark \in l + 1 .. l + d
  BY <1>1, <1>2, <1>6, <1>7
<1>9. /\ z.raised = FALSE /\ z.emit = e /\ z.stack = st
      /\ z.out = <<x>> /\ z.line = n + d /\ z = J(z.emit, z.stack, 0, z.line, z.raised, z.out)
  BY <1>6, <1>7 DEF J
<1>10. JShape(z, "text", l + d)
  BY <1>8, <1>9 DEF JShape
<1>11. JMarks(z, l, d, "text")
  BY <1>8, <1>9, JMarksOne
<1> QED
  BY <1>4, <1>5, <1>6, <1>7, <1>8, <1>9, <1>10, <1>11 DEF JNext

\* The end of the file; its last line may have no end.
JEndOf(ts) == Ends(ts) + IF ts # <<>> THEN 1 ELSE 0

LEMMA JEnd ==
    ASSUME NEW s, NEW kind, NEW l, JShape(s, kind, l), kind # "end", s.raised = FALSE,
           NEW ts \in Seq(TextTokens),
           NEW z, z = AtEnd(J2Tokens(JStart(s), ts))
    PROVE  /\ Ends(ts) \in Nat
           /\ JNext(z, l, JEndOf(ts), "end")
           /\ z.raised = FALSE /\ z.emit = s.emit /\ z.stack = s.stack
           /\ \/ z.out = <<>>
              \/ \E x : z.out = <<x>> /\ Starts(x, s.emit)
<1>1. l \in Nat /\ JStart(s) = J(s.emit, s.stack, 0, l + 1, FALSE, <<>>)
  BY JStarts
<1>2. PICK n : n = l + 1
  OBVIOUS
<1>3. n \in Nat
  BY <1>1, <1>2
<1>4. PICK e, st : e = s.emit /\ st = s.stack
  OBVIOUS
<1>5. PICK c : c = Ends(ts)
  OBVIOUS
<1>6. z = AtEnd(J2Tokens(J(e, st, 0, n, FALSE, <<>>), ts))
  BY <1>1, <1>2, <1>4
<1>7. c \in Nat /\ EndsAt(z, e, st, n, c) /\ (ts = <<>> => z.out = <<>>)
  <2>1. /\ Ends(ts) \in Nat
        /\ EndsAt(AtEnd(J2Tokens(J(e, st, 0, n, FALSE, <<>>), ts)), e, st, n, Ends(ts))
        /\ ts = <<>> => AtEnd(J2Tokens(J(e, st, 0, n, FALSE, <<>>), ts)).out = <<>>
    BY <1>3, J2End, Zenon
  <2> QED
    BY <1>5, <1>6, <2>1, Zenon
<1>8. PICK d : d = JEndOf(ts)
  OBVIOUS
<1>9. d \in Nat /\ c <= d /\ (ts # <<>> => d = c + 1)
  BY <1>5, <1>7, <1>8 DEF JEndOf
<1>10. l + d \in Nat /\ n + c \in Nat
  BY <1>1, <1>3, <1>7, <1>9
<1>11. CASE z = J(e, st, 0, n + c, FALSE, <<>>)
  <2>1. /\ z.raised = FALSE /\ z.emit = e /\ z.stack = st
        /\ z.out = <<>> /\ z.line = n + c /\ z = J(z.emit, z.stack, 0, z.line, z.raised, z.out)
    BY <1>11 DEF J
  <2>2. JShape(z, "end", l + d)
    BY <1>10, <2>1 DEF JShape
  <2>3. JMarks(z, l, d, "end")
    BY <2>1 DEF JMarks
  <2> QED
    BY <1>4, <1>5, <1>7, <1>8, <2>1, <2>2, <2>3 DEF JNext
<1>12. CASE FlushedAt(z, e, st, n, c)
  <2>1. PICK x : /\ z = J(e, st, 0, n + c, FALSE, <<x>>)
                 /\ Starts(x, e) /\ x.mark \in n .. n + c
    BY <1>12 DEF FlushedAt
  <2>2. /\ z.raised = FALSE /\ z.emit = e /\ z.stack = st
        /\ z.out = <<x>> /\ z.line = n + c /\ z = J(z.emit, z.stack, 0, z.line, z.raised, z.out)
    BY <2>1 DEF J
  <2>3. JShape(z, "end", l + d)
    BY <1>10, <2>2 DEF JShape
  <2>4. ts # <<>>
    BY <1>7, <2>2
  <2>5. x.mark \in l + 1 .. l + d
    BY <1>1, <1>2, <1>7, <1>9, <2>1, <2>4
  <2>6. JMarks(z, l, d, "end")
    BY <2>2, <2>5, JMarksOne
  <2> QED
    BY <1>4, <1>5, <1>7, <1>8, <2>1, <2>2, <2>3, <2>6 DEF JNext
<1> QED
  BY <1>7, <1>11, <1>12 DEF EndsAt

-----------------------------------------------------------------------------
(* Python reads what j2 puts out as the author wrote it, where no keyword  *)
(* closes a block that others are still open in.                           *)

LEMMA JPlainOk ==
    ASSUME NEW s, NEW kind, NEW l, JShape(s, kind, l), kind # "end",
           NEW p, NEW o \in Seq(Nat \ {0}), NEW b \in BOOLEAN, NEW low \in Nat, JOk(s, p, kind, o, b, low),
           NEW k \in 0 .. Len(o), k = Len(o) \/ ~b, k = Len(o) \/ Len(o) <= low,
           NEW c \in {1, 2}, NEW id,
           NEW z, z = J2Tokens(JStart(s), <<Token("plain", k, c)>>)
    PROVE  JOk(z, Reading(p, z.out, id), "code", SubSeq(o, 1, k), FALSE, low)
<1>1. s.raised = FALSE /\ k \in Nat /\ Len(o) \in Nat
  BY DEF JOk, JShape
<1>2. /\ z.raised = FALSE /\ z.emit = k + Deeper("plain") /\ z.stack = Pushed(s.stack, "plain", k)
      /\ CodeOut(z.out, "plain", k)
  <2>1. JCoded(z, "plain", k, s.stack)
    BY <1>1, "plain" # "comment", JCode
  <2> QED
    BY <2>1 DEF JCoded
<1>3. z.emit = k /\ z.stack = s.stack
  BY <1>1, <1>2, NotPushed DEF Deeper
<1>4. StackIs(z.stack, k, low)
  <2>1. StackIs(s.stack, Len(o), low)
    BY DEF JOk
  <2>2. k <= Len(o)
    BY <1>1
  <2> QED
    BY <1>1, <1>3, <2>1, <2>2, StackDown
<1>5. InBlock(p, o, k)
  BY InBlockIs DEF JOk
<1>6. PICK r, q : r = SubSeq(o, 1, k) /\ q = Reading(p, z.out, id)
  OBVIOUS
<1>7. PyIn(q, r)
  BY <1>2, <1>5, <1>6, ReadPlain
<1>8. Len(r) = k
  BY <1>6, SubSeqLen
<1>9. JOk(z, q, "code", r, FALSE, low)
  BY <1>2, <1>3, <1>4, <1>7, <1>8 DEF JOk, PyIs
<1> QED
  BY <1>6, <1>9

LEMMA JOpenerOk ==
    ASSUME NEW s, NEW kind, NEW l, JShape(s, kind, l), kind # "end",
           NEW p, NEW o \in Seq(Nat \ {0}), NEW b \in BOOLEAN, NEW low \in Nat, JOk(s, p, kind, o, b, low),
           NEW k \in 0 .. Len(o), k = Len(o) \/ ~b,
           StackIs(Pushed(s.stack, "opener", k), k + 1, low),
           NEW c \in {1, 2}, NEW id \in Nat \ {0},
           NEW z, z = J2Tokens(JStart(s), <<Token("opener", k, c)>>)
    PROVE  JOk(z, Reading(p, z.out, id), "code", Append(SubSeq(o, 1, k), id), TRUE, low)
<1>1. s.raised = FALSE /\ k \in Nat /\ Len(o) \in Nat
  BY DEF JOk, JShape
<1>2. /\ z.raised = FALSE /\ z.emit = k + Deeper("opener") /\ z.stack = Pushed(s.stack, "opener", k)
      /\ CodeOut(z.out, "opener", k)
  <2>1. JCoded(z, "opener", k, s.stack)
    BY <1>1, "opener" # "comment", JCode
  <2> QED
    BY <2>1 DEF JCoded
<1>3. z.emit = k + 1
  BY <1>1, <1>2 DEF Deeper
<1>4. StackIs(z.stack, k + 1, low)
  BY <1>2
<1>5. InBlock(p, o, k)
  BY InBlockIs DEF JOk
<1>6. PICK r, q : r = Append(SubSeq(o, 1, k), id) /\ q = Reading(p, z.out, id)
  OBVIOUS
<1>7. PyDue(q, r)
  BY <1>2, <1>5, <1>6, ReadBlock
<1>8. Len(r) = k + 1
  BY <1>6, SubSeqAppend
<1>9. JOk(z, q, "code", r, TRUE, low)
  BY <1>2, <1>3, <1>4, <1>7, <1>8 DEF JOk, PyIs
<1> QED
  BY <1>6, <1>9

LEMMA JCommentOk ==
    ASSUME NEW s, NEW kind, NEW l, JShape(s, kind, l), kind # "end",
           NEW p, NEW o, NEW b, NEW low, JOk(s, p, kind, o, b, low),
           NEW r, NEW k \in Nat, Len(r) = k, PyIs(p, r, b), StackIs(s.stack, k, low), NEW id,
           NEW z, z = J2Tokens(JStart(s), <<Token("comment", k, 1)>>)
    PROVE  JOk(z, Reading(p, z.out, id), "code", r, b, low)
<1>1. s.raised = FALSE
  BY DEF JOk, JShape
<1>2. /\ z.raised = FALSE /\ z.emit = k + Deeper("comment") /\ z.stack = Pushed(s.stack, "comment", k)
      /\ CodeOut(z.out, "comment", k)
  <2>1. JCoded(z, "comment", k, s.stack)
    BY <1>1, JCode
  <2> QED
    BY <2>1 DEF JCoded
<1>3. z.emit = k /\ z.stack = s.stack
  BY <1>2, NotPushed DEF Deeper
<1>4. PICK x : z.out = <<x>> /\ x.code = FALSE
  BY <1>2 DEF CodeOut
<1>5. PICK q : q = Reading(p, z.out, id)
  OBVIOUS
<1>6. q = p
  BY <1>4, <1>5, ReadNoCode
<1>7. JOk(z, q, "code", r, b, low)
  BY <1>2, <1>3, <1>6 DEF JOk
<1> QED
  BY <1>5, <1>7

LEMMA JCloseOk ==
    ASSUME NEW s, NEW kind, NEW l, JShape(s, kind, l), kind # "end",
           NEW p, NEW o, NEW b, NEW low \in Nat, JOk(s, p, kind, o, b, low),
           Len(o) \in Nat \ {0}, low <= Len(o),
           NEW r, Len(r) = Len(o) - 1, PyIs(p, r, b), NEW id, NEW k,
           NEW z, z = J2Tokens(JStart(s), <<Token("close", k, 1)>>)
    PROVE  JOk(z, Reading(p, z.out, id), "code", r, b, low)
<1>1. s.raised = FALSE /\ StackIs(s.stack, Len(o), low)
  BY DEF JOk, JShape
<1>2. s.stack # <<>> /\ Last(s.stack) = Len(o) - 1
  BY <1>1, StackTop
<1>3. StackIs(Front(s.stack), Len(o) - 1, low)
  BY <1>1, StackPop
<1>4. /\ z.raised = FALSE /\ z.emit = Last(s.stack) /\ z.stack = Front(s.stack)
      /\ z.out = <<NoCode(l + 1)>>
  BY <1>1, <1>2, JClose
<1>5. PICK x : x = NoCode(l + 1)
  OBVIOUS
<1>6. PICK q : q = Reading(p, z.out, id)
  OBVIOUS
<1>7. q = p
  <2>1. x.code = FALSE
    BY <1>5, NoCodeIs
  <2>2. z.out = <<x>>
    BY <1>4, <1>5
  <2> QED
    BY <1>6, <2>1, <2>2, ReadNoCode
<1>8. z.emit = Len(r) /\ StackIs(z.stack, Len(r), low)
  BY <1>2, <1>3, <1>4
<1>9. JOk(z, q, "code", r, b, low)
  BY <1>4, <1>7, <1>8 DEF JOk
<1> QED
  BY <1>6, <1>9

LEMMA JBlankOk ==
    ASSUME NEW s, NEW kind, NEW l, JShape(s, kind, l), kind # "end",
           NEW p, NEW o, NEW b, NEW low, JOk(s, p, kind, o, b, low), NEW id,
           NEW z, z = J2Tokens(JStart(s), <<Token("blank", 0, 1)>>)
    PROVE  JOk(z, Reading(p, z.out, id), "code", o, b, low)
<1>1. s.raised = FALSE
  BY DEF JOk, JShape
<1>2. z.raised = FALSE /\ z.emit = s.emit /\ z.stack = s.stack /\ z.out = <<NoCode(l + 1)>>
  BY <1>1, JBlank
<1>3. PICK x : x = NoCode(l + 1)
  OBVIOUS
<1>4. PICK q : q = Reading(p, z.out, id)
  OBVIOUS
<1>5. q = p
  <2>1. x.code = FALSE
    BY <1>3, NoCodeIs
  <2>2. z.out = <<x>>
    BY <1>2, <1>3
  <2> QED
    BY <1>4, <2>1, <2>2, ReadNoCode
<1>6. JOk(z, q, "code", o, b, low)
  BY <1>2, <1>5 DEF JOk
<1> QED
  BY <1>4, <1>6

LEMMA JTextOk ==
    ASSUME NEW s, NEW p, NEW kind, NEW o \in Seq(Nat \ {0}), NEW b \in BOOLEAN, NEW low, JOk(s, p, kind, o, b, low),
           NEW z, z.raised = FALSE, z.emit = s.emit, z.stack = s.stack,
           NEW x, z.out = <<x>>, Starts(x, s.emit), NEW id, NEW kind1
    PROVE  JOk(z, Reading(p, z.out, id), kind1, o, FALSE, low)
<1>1. s.emit = Len(o) /\ StackIs(s.stack, Len(o), low) /\ PyIs(p, o, b)
  BY DEF JOk
<1>2. PICK q : q = Reading(p, z.out, id)
  OBVIOUS
<1>3. q = Read(p, x, id)
  BY <1>2, ReadingOne
<1>4. PyIn(p, o) \/ PyDue(p, o)
  BY <1>1, PyEither
<1>5. PyIn(q, o) /\ Inside(q) = o
  BY <1>1, <1>3, <1>4, ReadText
<1>6. JOk(z, q, kind1, o, FALSE, low)
  BY <1>1, <1>5 DEF JOk, PyIs
<1> QED
  BY <1>2, <1>6

LEMMA JEndOk ==
    ASSUME NEW s, NEW p, NEW kind, NEW o, NEW b, NEW low, JOk(s, p, kind, o, b, low),
           NEW z, z.raised = FALSE, z.emit = s.emit, z.stack = s.stack, z.out = <<>>, NEW id
    PROVE  JOk(z, Reading(p, z.out, id), "end", o, b, low)
<1>1. Reading(p, z.out, id) = p
  BY ReadingNone
<1> QED
  BY <1>1 DEF JOk

-----------------------------------------------------------------------------
(* What an item leaves behind.                                             *)

LEMMA CleanG ==
    ASSUME NEW s, NEW p, NEW kind, NEW l, NEW o, NEW b, GOk(s, p, kind, l, o, b)
    PROVE  [s EXCEPT !.out = <<>>] = GStart(s, l, o)
<1>1. PICK e, m, out : e = Len(o) /\ m = s.stmt /\ out = s.out
  OBVIOUS
<1>2. s = [emit |-> e, brackets |-> 0, stmt |-> m, line |-> l, out |-> out]
  BY <1>1 DEF GOk, G
<1>3. [s EXCEPT !.out = <<>>] = [emit |-> e, brackets |-> 0, stmt |-> m, line |-> l, out |-> <<>>]
  BY <1>2
<1> QED
  BY <1>1, <1>3 DEF GStart, G

LEMMA CleanJ ==
    ASSUME NEW s, NEW kind, NEW l, JShape(s, kind, l)
    PROVE  [s EXCEPT !.out = <<>>] = JStart(s)
<1>1. PICK e, st, n, r, out : e = s.emit /\ st = s.stack /\ n = s.line /\ r = s.raised /\ out = s.out
  OBVIOUS
<1>2. s = [emit |-> e, stack |-> st, first |-> 0, line |-> n, raised |-> r, out |-> out]
  BY <1>1 DEF JShape, J
<1>3. [s EXCEPT !.out = <<>>] = [emit |-> e, stack |-> st, first |-> 0, line |-> n, raised |-> r, out |-> <<>>]
  BY <1>2
<1> QED
  BY <1>1, <1>3 DEF JStart, J

Written(kind, zg, zj, cg, cj) ==
    /\ item.kind # "end"
    /\ scan'["genesis"] = zg
    /\ scan'["j2"] = zj
    /\ python'["genesis"] = Reading(python["genesis"], zg.out, item.id + 1)
    /\ python'["j2"] = Reading(python["j2"], zj.out, item.id + 1)
    /\ item'.id = item.id + 1
    /\ item'.kind = kind
    /\ item'.first["genesis"] = item.last["genesis"] + 1
    /\ item'.first["j2"] = item.last["j2"] + 1
    /\ item'.last["genesis"] = item.last["genesis"] + cg
    /\ item'.last["j2"] = item.last["j2"] + cj
    /\ style' = style

LEMMA WriteIs ==
    ASSUME TInv, NEW kind, NEW lines, NEW tokens, Ends(tokens) \in Nat, Write(kind, lines, tokens, FALSE)
    PROVE  Written(kind, GenesisLines(GStart(scan["genesis"], item.last["genesis"], open), lines),
                   J2Tokens(JStart(scan["j2"]), tokens), Len(lines), Ends(tokens))
<1>1. [scan["genesis"] EXCEPT !.out = <<>>] = GStart(scan["genesis"], item.last["genesis"], open)
  BY CleanG DEF TInv
<1>2. [scan["j2"] EXCEPT !.out = <<>>] = JStart(scan["j2"])
  BY CleanJ DEF TInv
<1>3. PICK zg, zj : /\ zg = GenesisLines(GStart(scan["genesis"], item.last["genesis"], open), lines)
                    /\ zj = J2Tokens(JStart(scan["j2"]), tokens)
  OBVIOUS
<1>4. /\ scan' = [f \in Flavours |-> IF f = "genesis" THEN zg ELSE zj]
      /\ item.kind # "end" /\ style' = style
  BY <1>1, <1>2, <1>3 DEF Write
<1>5. /\ scan'["genesis"] = zg /\ scan'["j2"] = zj
  BY <1>4 DEF Flavours
<1>6. python' = [f \in Flavours |-> Reading(python[f], scan'[f].out, item.id + 1)]
  BY <1>1, <1>2, <1>3, <1>4 DEF Write
<1>7. /\ python'["genesis"] = Reading(python["genesis"], zg.out, item.id + 1)
      /\ python'["j2"] = Reading(python["j2"], zj.out, item.id + 1)
  BY <1>5, <1>6 DEF Flavours
<1>8. PICK cg, cj : cg = Len(lines) /\ cj = Ends(tokens)
  OBVIOUS
<1>9. item' = [id |-> item.id + 1, kind |-> kind,
               first |-> [f \in Flavours |-> item.last[f] + 1],
               last  |-> [f \in Flavours |-> item.last[f] + IF f = "genesis" THEN cg ELSE cj + 0]]
  BY <1>8 DEF Write
<1>10. cj + 0 = cj
  BY <1>8
<1>11. /\ item'.id = item.id + 1 /\ item'.kind = kind
       /\ item'.first["genesis"] = item.last["genesis"] + 1
       /\ item'.first["j2"] = item.last["j2"] + 1
       /\ item'.last["genesis"] = item.last["genesis"] + cg
       /\ item'.last["j2"] = item.last["j2"] + cj
  BY <1>9, <1>10 DEF Flavours
<1>12. Written(kind, zg, zj, cg, cj)
  BY <1>4, <1>5, <1>7, <1>11 DEF Written
<1> QED
  BY <1>3, <1>8, <1>12

LEMMA EndIs ==
    ASSUME TInv, NEW kind, NEW lines, NEW tokens, Write(kind, lines, tokens, TRUE)
    PROVE  Written(kind, GenesisLines(GStart(scan["genesis"], item.last["genesis"], open), lines),
                   AtEnd(J2Tokens(JStart(scan["j2"]), tokens)), Len(lines), JEndOf(tokens))
<1>1. [scan["genesis"] EXCEPT !.out = <<>>] = GStart(scan["genesis"], item.last["genesis"], open)
  BY CleanG DEF TInv
<1>2. [scan["j2"] EXCEPT !.out = <<>>] = JStart(scan["j2"])
  BY CleanJ DEF TInv
<1>3. PICK zg, zj : /\ zg = GenesisLines(GStart(scan["genesis"], item.last["genesis"], open), lines)
                    /\ zj = AtEnd(J2Tokens(JStart(scan["j2"]), tokens))
  OBVIOUS
<1>4. /\ scan' = [f \in Flavours |-> IF f = "genesis" THEN zg ELSE zj]
      /\ item.kind # "end" /\ style' = style
  BY <1>1, <1>2, <1>3 DEF Write
<1>5. /\ scan'["genesis"] = zg /\ scan'["j2"] = zj
  BY <1>4 DEF Flavours
<1>6. python' = [f \in Flavours |-> Reading(python[f], scan'[f].out, item.id + 1)]
  BY <1>1, <1>2, <1>3, <1>4 DEF Write
<1>7. /\ python'["genesis"] = Reading(python["genesis"], zg.out, item.id + 1)
      /\ python'["j2"] = Reading(python["j2"], zj.out, item.id + 1)
  BY <1>5, <1>6 DEF Flavours
<1>8. PICK cg, cj : cg = Len(lines) /\ cj = Ends(tokens) + IF tokens # <<>> THEN 1 ELSE 0
  OBVIOUS
<1>9. item' = [id |-> item.id + 1, kind |-> kind,
               first |-> [f \in Flavours |-> item.last[f] + 1],
               last  |-> [f \in Flavours |-> item.last[f] + IF f = "genesis" THEN cg ELSE cj]]
  BY <1>8 DEF Write
<1>11. /\ item'.id = item.id + 1 /\ item'.kind = kind
       /\ item'.first["genesis"] = item.last["genesis"] + 1
       /\ item'.first["j2"] = item.last["j2"] + 1
       /\ item'.last["genesis"] = item.last["genesis"] + cg
       /\ item'.last["j2"] = item.last["j2"] + cj
  BY <1>9 DEF Flavours
<1>12. Written(kind, zg, zj, cg, cj)
  BY <1>4, <1>5, <1>7, <1>11 DEF Written
<1> QED
  BY <1>3, <1>8, <1>12 DEF JEndOf

\* The two scanners and Python after the item: what is left of TInv'.
LEMMA StepOk ==
    ASSUME TInv, NEW kind, NEW zg, NEW zj, NEW cg \in Nat, NEW cj \in Nat, Written(kind, zg, zj, cg, cj),
           TypesOk(style, open', bodiless'),
           GNext(zg, python'["genesis"], kind, item.last["genesis"], cg, open', bodiless'),
           JNext(zj, item.last["j2"], cj, kind),
           \A low \in 1 .. MaxDepth + 1 :
              Lowest(style, low) => JOk(zj, python'["j2"], kind, open', bodiless', low)
    PROVE  TInv'
<1>1. /\ scan'["genesis"] = zg /\ scan'["j2"] = zj
      /\ item'.id = item.id + 1 /\ item'.kind = kind
      /\ item'.first["genesis"] = item.last["genesis"] + 1
      /\ item'.first["j2"] = item.last["j2"] + 1
      /\ item'.last["genesis"] = item.last["genesis"] + cg
      /\ item'.last["j2"] = item.last["j2"] + cj
      /\ style' = style
  BY DEF Written
<1>2. TypesOk(style, open, bodiless)'
  BY <1>1 DEF TypesOk
<1>3. (item.id \in Nat)'
  BY <1>1 DEF TInv
<1>4. GOk(scan'["genesis"], python'["genesis"], item'.kind, item'.last["genesis"], open', bodiless')
  BY <1>1 DEF GNext
<1>5. JShape(scan'["j2"], item'.kind, item'.last["j2"])
  BY <1>1 DEF JNext
<1>6. \A low \in 1 .. MaxDepth + 1 :
         Lowest(style', low) => JOk(scan'["j2"], python'["j2"], item'.kind, open', bodiless', low)
  BY <1>1
<1>7. LinesTrue'
  <2>1. PICK lg : lg = item.last["genesis"]
    OBVIOUS
  <2>2. PICK lj : lj = item.last["j2"]
    OBVIOUS
  <2>3. GMarks(zg, lg, cg) /\ lg \in Nat
    BY <2>1 DEF GNext, TInv, GOk
  <2>4. JMarks(zj, lj, cj, kind)
    BY <2>2 DEF JNext
  <2>5. ASSUME NEW n \in DOMAIN zg.out
        PROVE  /\ zg.out[n].mark \in item'.first["genesis"] .. item'.last["genesis"]
               /\ item'.kind = "code" => zg.out[n].mark = item'.first["genesis"] + (n - 1)
    <3>1. n \in 1 .. cg /\ zg.out[n].mark = lg + n
      BY <2>3, <2>5 DEF GMarks
    <3>2. item'.first["genesis"] = lg + 1 /\ item'.last["genesis"] = lg + cg
      BY <1>1, <2>1
    <3>3. PICK m : m = zg.out[n].mark
      OBVIOUS
    <3>4. m \in lg + 1 .. lg + cg /\ m = (lg + 1) + (n - 1)
      BY <2>3, <3>1, <3>3
    <3> QED
      BY <3>2, <3>3, <3>4
  <2>6. ASSUME NEW n \in DOMAIN zj.out
        PROVE  /\ zj.out[n].mark \in item'.first["j2"] .. item'.last["j2"]
               /\ item'.kind = "code" => zj.out[n].mark = item'.first["j2"] + 0
    <3>1. zj.out[n].mark \in lj + 1 .. lj + cj /\ (kind = "code" => zj.out[n].mark = lj + 1)
      BY <2>4, <2>6 DEF JMarks
    <3>2. item'.first["j2"] = lj + 1 /\ item'.last["j2"] = lj + cj
      BY <1>1, <2>2
    <3>3. lj \in Nat
      BY <2>2 DEF TInv, JShape
    <3> QED
      BY <1>1, <3>1, <3>2, <3>3
  <2> QED
    BY <1>1, <2>5, <2>6 DEF LinesTrue, Flavours
<1> QED
  BY <1>2, <1>3, <1>4, <1>5, <1>6, <1>7 DEF TInv

-----------------------------------------------------------------------------
(* Where nothing that has a closing keyword is closed without one.         *)

LEMMA Least ==
    ASSUME NEW T, T \subseteq Nat, T # {}
    PROVE  \E m \in T : \A k \in T : m <= k
<1> DEFINE R == OpToRel(<, Nat)
<1>1. OpToRel(<, Nat) = {ss \in Nat \X Nat : ss[1] < ss[2]}
  BY DEF OpToRel
<1>2. IsWellFoundedOn(R, Nat)
  BY NatLessThanWellFounded
<1>3. PICK m \in T : \A k \in T : ~ (<<k, m>> \in R)
  <2> HIDE DEF R
  <2> QED
    BY <1>2, WFMin
<1>4. ASSUME NEW k \in T PROVE m <= k
  <2>1. <<k, m>> \notin {ss \in Nat \X Nat : ss[1] < ss[2]}
    BY <1>1, <1>3
  <2>2. k \in Nat /\ m \in Nat
    OBVIOUS
  <2> QED
    BY <2>1, <2>2
<1> QED
  BY <1>4

LEMMA LowExists ==
    ASSUME TypesOk(style, open, bodiless), KeywordsInside
    PROVE  \E low \in 1 .. MaxDepth + 1 : Lowest(style, low)
<1>1. MaxDepth \in Nat
  BY BoundAssumption
<1>2. PICK T : T = {d \in 1 .. MaxDepth : style[d] \cap Keywords # {}}
  OBVIOUS
<1>3. CASE T = {}
  <2>1. \A d \in 1 .. MaxDepth : style[d] \cap Keywords = {}
    BY <1>2, <1>3
  <2>2. \A d \in 1 .. MaxDepth : ~ (d > MaxDepth + 1)
    BY <1>1
  <2>3. MaxDepth + 1 \in 1 .. MaxDepth + 1
    BY <1>1
  <2>4. Lowest(style, MaxDepth + 1)
    BY <2>1, <2>2 DEF Lowest
  <2> QED
    BY <2>3, <2>4
<1>4. CASE T # {}
  <2>1. T \subseteq Nat
    BY <1>1, <1>2
  <2>2. PICK m \in T : \A k \in T : m <= k
    BY <1>4, <2>1, Least
  <2>3. m \in 1 .. MaxDepth /\ style[m] \cap Keywords # {}
    BY <1>2
  <2>4. ASSUME NEW d \in 1 .. MaxDepth, d < m
        PROVE  style[d] \cap Keywords = {}
    <3>1. d \notin T
      BY <1>1, <2>2, <2>3, <2>4
    <3> QED
      BY <1>2, <3>1
  <2>5. ASSUME NEW d \in 1 .. MaxDepth, d > m
        PROVE  style[d] \subseteq Keywords
    <3>1. d \in m + 1 .. MaxDepth
      BY <1>1, <2>3, <2>5
    <3> QED
      BY <2>3, <3>1 DEF KeywordsInside
  <2>6. Lowest(style, m)
    BY <2>4, <2>5 DEF Lowest
  <2>7. m \in 1 .. MaxDepth + 1
    BY <1>1, <2>3
  <2> QED
    BY <2>6, <2>7
<1> QED
  BY <1>3, <1>4

\* What is not closed by a keyword lies above the lowest such block.
LEMMA AboveLow ==
    ASSUME TypesOk(style, open, bodiless), Depth # 0,
           NEW closing \in style[Depth], closing \notin Keywords,
           NEW low \in 1 .. MaxDepth + 1, Lowest(style, low)
    PROVE  Depth <= low
<1>1. MaxDepth \in Nat
  BY BoundAssumption
<1>2. PICK d : d = Depth
  OBVIOUS
<1>3. d \in 1 .. MaxDepth
  BY <1>1, <1>2 DEF TypesOk, Depth
<1>4. ~ (d > low)
  BY <1>2, <1>3 DEF Lowest
<1>5. low \in Nat /\ d \in Nat
  BY <1>1, <1>3
<1>6. d <= low
  BY <1>4, <1>5
<1> QED
  BY <1>2, <1>6

\* What is closed by a keyword lies below it, or is it.
LEMMA BelowLow ==
    ASSUME TypesOk(style, open, bodiless), Depth # 0,
           NEW closing \in style[Depth], closing \in Keywords,
           NEW low \in 1 .. MaxDepth + 1, Lowest(style, low)
    PROVE  low <= Depth
<1>1. MaxDepth \in Nat
  BY BoundAssumption
<1>2. PICK d : d = Depth
  OBVIOUS
<1>3. d \in 1 .. MaxDepth
  BY <1>1, <1>2 DEF TypesOk, Depth
<1>4. ~ (d < low)
  BY <1>2, <1>3 DEF Lowest
<1>5. low \in Nat /\ d \in Nat
  BY <1>1, <1>3
<1>6. low <= d
  BY <1>4, <1>5
<1> QED
  BY <1>2, <1>6

-----------------------------------------------------------------------------
(* Statements.                                                             *)

LEMMA LinesOfLen ==
    ASSUME NEW w, NEW k, NEW further \in Seq(Nat), Len(further) <= 1
    PROVE  Len(LinesOf(w, k, further)) = 1 + Len(further) /\ 1 + Len(further) \in {1, 2}
<1>1. PICK c : c = Len(further)
  OBVIOUS
<1>2. c \in Nat /\ c <= 1 /\ (further = <<>> <=> c = 0)
  BY <1>1
<1>3. c = 0 \/ c = 1
  BY <1>2
<1>4. CASE c = 0
  <2>1. LinesOf(w, k, further) = <<Line(w, k, 0)>>
    BY <1>2, <1>4 DEF LinesOf
  <2>2. PICK x : x = Line(w, k, 0)
    OBVIOUS
  <2>3. Len(<<x>>) = 1
    OBVIOUS
  <2> QED
    BY <1>1, <1>4, <2>1, <2>2, <2>3
<1>5. CASE c = 1
  <2>1. LinesOf(w, k, further) = <<Line("plain", k, 1), Line(w, further[1], 0 - 1)>>
    BY <1>2, <1>5 DEF LinesOf
  <2>2. PICK x, y : x = Line("plain", k, 1) /\ y = Line(w, further[1], 0 - 1)
    OBVIOUS
  <2>3. Len(<<x, y>>) = 2
    OBVIOUS
  <2> QED
    BY <1>1, <1>5, <2>1, <2>2, <2>3
<1> QED
  BY <1>3, <1>4, <1>5

LEMMA EndsToken ==
    ASSUME NEW w, NEW k, NEW c \in Nat
    PROVE  Ends(<<Token(w, k, c)>>) = c
<1>1. PICK t : t = Token(w, k, c)
  OBVIOUS
<1>2. t.newlines = c
  BY <1>1 DEF Token
<1>3. Ends(<<t>>) = 0 + t.newlines
  BY EndsOne
<1> QED
  BY <1>1, <1>2, <1>3

\* The outcome of a statement, c lines long.
Stated(w, k, further, c) ==
    Written("code", GenesisLines(GStart(scan["genesis"], item.last["genesis"], open), LinesOf(w, k, further)),
            J2Tokens(JStart(scan["j2"]), <<Token(w, k, c)>>), c, c)

LEMMA StatementIs ==
    ASSUME TInv, NEW k, NEW w, NEW further \in Continued, StatementIn(k, w, further),
           NEW c, c = 1 + Len(further)
    PROVE  c \in {1, 2} /\ further \in Seq(Nat) /\ Len(further) <= 1 /\ Stated(w, k, further, c)
<1>1. further \in Seq(Nat) /\ Len(further) <= 1
  BY ContinuedAssumption
<1>2. c \in {1, 2} /\ Len(LinesOf(w, k, further)) = c
  BY <1>1, LinesOfLen
<1>3. c \in Nat
  BY <1>2
<1>4. PICK lines, tokens : lines = LinesOf(w, k, further) /\ tokens = <<Token(w, k, c)>>
  OBVIOUS
<1>5. Ends(tokens) = c
  BY <1>3, <1>4, EndsToken
<1>6. Write("code", LinesOf(w, k, further), <<Token(w, k, 1 + Len(further))>>, FALSE)
  BY DEF StatementIn, LinesOf
<1>7. Write("code", lines, tokens, FALSE)
  BY <1>4, <1>6
<1>8. Written("code", GenesisLines(GStart(scan["genesis"], item.last["genesis"], open), lines),
              J2Tokens(JStart(scan["j2"]), tokens), Len(lines), Ends(tokens))
  BY <1>3, <1>5, <1>7, WriteIs
<1>9. Stated(w, k, further, c)
  BY <1>2, <1>4, <1>5, <1>8 DEF Stated
<1> QED
  BY <1>1, <1>2, <1>9

LEMMA StatementWhere ==
    ASSUME TInv, NEW k \in 0 .. Depth, NEW w, NEW further, StatementIn(k, w, further)
    PROVE  /\ k = Len(open) \/ ~bodiless
           /\ \A low \in 1 .. MaxDepth + 1 : Lowest(style, low) => k = Len(open) \/ Len(open) <= low
<1>1. TypesOk(style, open, bodiless)
  BY DEF TInv
<1>2. PICK d : d = Depth
  OBVIOUS
<1>3. d \in Nat /\ k \in 0 .. d /\ d = Len(open)
  BY <1>1, <1>2 DEF TypesOk, Depth
<1>4. k = d \/ (~bodiless /\ \A e \in k + 1 .. d : "dedent" \in style[e])
  BY <1>2 DEF StatementIn
<1>5. ASSUME k # d, NEW low \in 1 .. MaxDepth + 1, Lowest(style, low)
      PROVE  d <= low
  <2>1. d \in k + 1 .. d /\ d # 0
    BY <1>3, <1>5
  <2>2. "dedent" \in style[Depth] /\ Depth # 0
    BY <1>2, <1>4, <1>5, <2>1
  <2>3. "dedent" \notin Keywords
    BY DEF Keywords
  <2> QED
    BY <1>1, <1>2, <1>5, <2>2, <2>3, AboveLow
<1> QED
  BY <1>3, <1>4, <1>5

\* What a j2 that raised makes of an item, and one that did not.
LEMMA JEither ==
    ASSUME NEW s, NEW kind, NEW l, JShape(s, kind, l), NEW ts, Len(ts) \in Nat, NEW c \in Nat, NEW kind1,
           NEW z, z = J2Tokens(JStart(s), ts) \/ z = AtEnd(J2Tokens(JStart(s), ts)),
           s.raised = FALSE => JNext(z, l, c, kind1)
    PROVE  JNext(z, l, c, kind1)
<1>1. s.raised = TRUE \/ s.raised = FALSE
  BY DEF JShape
<1>2. CASE s.raised = TRUE
  BY <1>2, JRaised
<1>3. CASE s.raised = FALSE
  BY <1>3
<1> QED
  BY <1>1, <1>2, <1>3

LEMMA SimpleKeeps ==
    ASSUME TInv, NEW k \in 0 .. Depth, NEW further \in Continued, Simple(k, further)
    PROVE  TInv'
<1>1. StatementIn(k, "plain", further) /\ open' = SubSeq(open, 1, k) /\ bodiless' = FALSE
  BY DEF Simple
<1>2. PICK c : c = 1 + Len(further)
  OBVIOUS
<1>3. c \in {1, 2} /\ further \in Seq(Nat) /\ Len(further) <= 1 /\ Stated("plain", k, further, c)
  BY <1>1, <1>2, StatementIs
<1>4. /\ k = Len(open) \/ ~bodiless
      /\ \A low \in 1 .. MaxDepth + 1 : Lowest(style, low) => k = Len(open) \/ Len(open) <= low
  BY <1>1, StatementWhere
<1>5. TypesOk(style, open, bodiless) /\ MaxDepth \in Nat
  BY BoundAssumption DEF TInv
<1>6. k \in 0 .. Len(open) /\ open \in Seq(Nat \ {0}) /\ bodiless \in BOOLEAN
  BY <1>5 DEF Depth, TypesOk
<1>7. PICK s, p, l, o, b, id : /\ s = scan["genesis"] /\ p = python["genesis"] /\ l = item.last["genesis"]
                               /\ o = open /\ b = bodiless /\ id = item.id + 1
  OBVIOUS
<1>8. PICK sj, pj, lj, kind : sj = scan["j2"] /\ pj = python["j2"] /\ lj = item.last["j2"] /\ kind = item.kind
  OBVIOUS
<1>9. PICK zg, zj : /\ zg = GenesisLines(GStart(s, l, o), LinesOf("plain", k, further))
                    /\ zj = J2Tokens(JStart(sj), <<Token("plain", k, c)>>)
  OBVIOUS
<1>10. PICK o1 : o1 = SubSeq(open, 1, k)
  OBVIOUS
<1>11. /\ Written("code", zg, zj, c, c) /\ kind # "end"
       /\ python'["genesis"] = Reading(p, zg.out, id) /\ python'["j2"] = Reading(pj, zj.out, id)
  BY <1>3, <1>7, <1>8, <1>9 DEF Stated, Written
<1>12. TypesOk(style, o1, FALSE)
  <2>1. o1 \in Seq(Nat \ {0}) /\ Len(o1) = k
    BY <1>6, <1>10, SubSeqLen
  <2>2. k <= MaxDepth
    BY <1>5, <1>6 DEF TypesOk
  <2> QED
    BY <1>5, <2>1, <2>2 DEF TypesOk
<1>13. GNext(zg, Reading(p, zg.out, id), "code", l, c, o1, FALSE)
  <2>1. GOk(s, p, kind, l, o, b)
    BY <1>7, <1>8 DEF TInv
  <2>2. o \in Seq(Nat \ {0}) /\ b \in BOOLEAN /\ k \in 0 .. Len(o) /\ (k = Len(o) \/ ~b)
    BY <1>4, <1>6, <1>7
  <2>3. GNext(zg, Reading(p, zg.out, id), "code", l, 1 + Len(further), SubSeq(o, 1, k), FALSE)
    BY <1>3, <1>9, <2>1, <2>2, GPlain
  <2> QED
    BY <1>2, <1>7, <1>10, <2>3
<1>14. JShape(sj, kind, lj)
  BY <1>8 DEF TInv
<1>15. JNext(zj, lj, c, "code")
  <2>1. ASSUME sj.raised = FALSE PROVE JNext(zj, lj, c, "code")
    <3>1. k \in Nat
      BY <1>6
    <3>2. "plain" \in {"plain", "opener", "comment"} /\ (c = 1 \/ "plain" # "comment")
      OBVIOUS
    <3> QED
      BY <1>3, <1>9, <1>11, <1>14, <2>1, <3>1, <3>2, JCode
  <2>2. PICK ts : ts = <<Token("plain", k, c)>>
    OBVIOUS
  <2>3. Len(ts) \in Nat /\ zj = J2Tokens(JStart(sj), ts) /\ c \in Nat
    BY <1>3, <1>9, <2>2
  <2> QED
    BY <1>14, <2>1, <2>3, JEither
<1>16. ASSUME NEW low \in 1 .. MaxDepth + 1, Lowest(style, low)
       PROVE  JOk(zj, Reading(pj, zj.out, id), "code", o1, FALSE, low)
  <2>1. JOk(sj, pj, kind, o, b, low)
    BY <1>7, <1>8, <1>16 DEF TInv
  <2>2. low \in Nat
    BY <1>5, <1>16
  <2>3. /\ o \in Seq(Nat \ {0}) /\ b \in BOOLEAN /\ k \in 0 .. Len(o) /\ (k = Len(o) \/ ~b)
        /\ k = Len(o) \/ Len(o) <= low
    BY <1>4, <1>6, <1>7, <1>16
  <2>4. JOk(zj, Reading(pj, zj.out, id), "code", SubSeq(o, 1, k), FALSE, low)
    BY <1>3, <1>9, <1>11, <1>14, <2>1, <2>2, <2>3, JPlainOk
  <2> QED
    BY <1>7, <1>10, <2>4
<1>17. c \in Nat
  BY <1>3
<1> QED
  BY <1>1, <1>7, <1>8, <1>10, <1>11, <1>12, <1>13, <1>15, <1>16, <1>17, StepOk

LEMMA OpenBlockKeeps ==
    ASSUME TInv, NEW k \in 0 .. Depth, NEW further \in Continued, OpenBlock(k, further)
    PROVE  TInv'
<1>1. /\ StatementIn(k, "opener", further) /\ k < MaxDepth
      /\ open' = Append(SubSeq(open, 1, k), item'.id) /\ bodiless' = TRUE
  BY DEF OpenBlock
<1>2. PICK c : c = 1 + Len(further)
  OBVIOUS
<1>3. c \in {1, 2} /\ further \in Seq(Nat) /\ Len(further) <= 1 /\ Stated("opener", k, further, c)
  BY <1>1, <1>2, StatementIs
<1>4. /\ k = Len(open) \/ ~bodiless
      /\ \A low \in 1 .. MaxDepth + 1 : Lowest(style, low) => k = Len(open) \/ Len(open) <= low
  BY <1>1, StatementWhere
<1>5. TypesOk(style, open, bodiless) /\ MaxDepth \in Nat
  BY BoundAssumption DEF TInv
<1>6. k \in 0 .. Len(open) /\ open \in Seq(Nat \ {0}) /\ bodiless \in BOOLEAN
  BY <1>5 DEF Depth, TypesOk
<1>7. PICK s, p, l, o, b, id : /\ s = scan["genesis"] /\ p = python["genesis"] /\ l = item.last["genesis"]
                               /\ o = open /\ b = bodiless /\ id = item.id + 1
  OBVIOUS
<1>8. PICK sj, pj, lj, kind : sj = scan["j2"] /\ pj = python["j2"] /\ lj = item.last["j2"] /\ kind = item.kind
  OBVIOUS
<1>9. PICK zg, zj : /\ zg = GenesisLines(GStart(s, l, o), LinesOf("opener", k, further))
                    /\ zj = J2Tokens(JStart(sj), <<Token("opener", k, c)>>)
  OBVIOUS
<1>10. PICK o1 : o1 = Append(SubSeq(open, 1, k), id)
  OBVIOUS
<1>11. /\ Written("code", zg, zj, c, c) /\ kind # "end" /\ item'.id = id
       /\ python'["genesis"] = Reading(p, zg.out, id) /\ python'["j2"] = Reading(pj, zj.out, id)
  BY <1>3, <1>7, <1>8, <1>9 DEF Stated, Written
<1>12. id \in Nat \ {0}
  BY <1>7 DEF TInv
<1>13. TypesOk(style, o1, TRUE)
  <2>1. o1 \in Seq(Nat \ {0}) /\ Len(o1) = k + 1
    BY <1>6, <1>10, <1>12, SubSeqAppend
  <2>2. k + 1 <= MaxDepth
    BY <1>1, <1>5, <1>6
  <2> QED
    BY <1>5, <2>1, <2>2 DEF TypesOk
<1>14. GNext(zg, Reading(p, zg.out, id), "code", l, c, o1, TRUE)
  <2>1. GOk(s, p, kind, l, o, b)
    BY <1>7, <1>8 DEF TInv
  <2>2. o \in Seq(Nat \ {0}) /\ b \in BOOLEAN /\ k \in 0 .. Len(o) /\ (k = Len(o) \/ ~b)
    BY <1>4, <1>6, <1>7
  <2>3. GNext(zg, Reading(p, zg.out, id), "code", l, 1 + Len(further), Append(SubSeq(o, 1, k), id), TRUE)
    BY <1>3, <1>9, <1>12, <2>1, <2>2, GOpener
  <2> QED
    BY <1>2, <1>7, <1>10, <2>3
<1>15. JShape(sj, kind, lj)
  BY <1>8 DEF TInv
<1>16. JNext(zj, lj, c, "code")
  <2>1. ASSUME sj.raised = FALSE PROVE JNext(zj, lj, c, "code")
    <3>1. k \in Nat
      BY <1>6
    <3>2. "opener" \in {"plain", "opener", "comment"} /\ (c = 1 \/ "opener" # "comment")
      OBVIOUS
    <3> QED
      BY <1>3, <1>9, <1>11, <1>15, <2>1, <3>1, <3>2, JCode
  <2>2. PICK ts : ts = <<Token("opener", k, c)>>
    OBVIOUS
  <2>3. Len(ts) \in Nat /\ zj = J2Tokens(JStart(sj), ts) /\ c \in Nat
    BY <1>3, <1>9, <2>2
  <2> QED
    BY <1>15, <2>1, <2>3, JEither
<1>17. ASSUME NEW low \in 1 .. MaxDepth + 1, Lowest(style, low)
       PROVE  JOk(zj, Reading(pj, zj.out, id), "code", o1, TRUE, low)
  <2>1. JOk(sj, pj, kind, o, b, low)
    BY <1>7, <1>8, <1>17 DEF TInv
  <2>2. low \in Nat /\ k \in Nat /\ Len(o) \in Nat
    BY <1>5, <1>6, <1>7, <1>17
  <2>3. /\ o \in Seq(Nat \ {0}) /\ b \in BOOLEAN /\ k \in 0 .. Len(o) /\ (k = Len(o) \/ ~b)
        /\ k = Len(o) \/ Len(o) <= low
    BY <1>4, <1>6, <1>7, <1>17
  <2>4. StackIs(Pushed(sj.stack, "opener", k), k + 1, low)
    <3>1. StackIs(sj.stack, Len(o), low) /\ k <= Len(o)
      BY <2>1, <2>3 DEF JOk
    <3>2. StackIs(sj.stack, k, low)
      BY <2>2, <2>3, <3>1, StackDown
    <3> QED
      BY <2>2, <3>2, StackUp
  <2>5. JOk(zj, Reading(pj, zj.out, id), "code", Append(SubSeq(o, 1, k), id), TRUE, low)
    BY <1>3, <1>9, <1>11, <1>12, <1>15, <2>1, <2>2, <2>3, <2>4, JOpenerOk
  <2> QED
    BY <1>7, <1>10, <2>5
<1>18. c \in Nat
  BY <1>3
<1>19. open' = o1
  BY <1>1, <1>10, <1>11
<1> QED
  BY <1>1, <1>7, <1>8, <1>11, <1>13, <1>14, <1>16, <1>17, <1>18, <1>19, StepOk

-----------------------------------------------------------------------------
(* The items of one line.                                                  *)

LEMMA OneWritten ==
    ASSUME TInv, NEW x, NEW w, NEW k, Write("code", <<x>>, <<Token(w, k, 1)>>, FALSE)
    PROVE  Written("code", GenesisLines(GStart(scan["genesis"], item.last["genesis"], open), <<x>>),
                   J2Tokens(JStart(scan["j2"]), <<Token(w, k, 1)>>), 1, 1)
<1>1. PICK lines, tokens : lines = <<x>> /\ tokens = <<Token(w, k, 1)>>
  OBVIOUS
<1>2. Ends(tokens) = 1
  BY <1>1, EndsToken
<1>3. Len(lines) = 1
  BY <1>1
<1>4. Written("code", GenesisLines(GStart(scan["genesis"], item.last["genesis"], open), lines),
              J2Tokens(JStart(scan["j2"]), tokens), Len(lines), Ends(tokens))
  <2>1. Ends(tokens) \in Nat
    BY <1>2
  <2>2. Write("code", lines, tokens, FALSE)
    BY <1>1
  <2> QED
    BY <2>1, <2>2, WriteIs
<1> QED
  BY <1>1, <1>2, <1>3, <1>4

LEMMA FrontIs ==
    ASSUME NEW o \in Seq(Nat \ {0}), Len(o) # 0, NEW k, k = Len(o) - 1
    PROVE  k \in 0 .. Len(o) /\ Front(o) = SubSeq(o, 1, k) /\ k \in Nat /\ k + 1 = Len(o)
BY DEF Front

LEMMA PyDown ==
    ASSUME NEW p, NEW o \in Seq(Nat \ {0}), PyIn(p, o), NEW k \in 0 .. Len(o)
    PROVE  PyIn(p, SubSeq(o, 1, k))
<1>1. PICK r : r = SubSeq(o, 1, k)
  OBVIOUS
<1>2. Len(r) = k
  BY <1>1, SubSeqLen
<1>3. \A n \in 1 .. k : r[n] = o[n]
  BY <1>1
<1>4. Len(r) <= Len(p.blocks) /\ \A n \in 1 .. Len(r) : p.blocks[n].id = r[n]
  BY <1>2, <1>3 DEF PyIn
<1> QED
  BY <1>1, <1>4 DEF PyIn

LEMMA MidBlockKeeps ==
    ASSUME TInv, MidBlock
    PROVE  TInv'
<1>1. /\ Depth # 0 /\ bodiless = FALSE
      /\ Write("code", <<Line("opener", Depth - 1, 0)>>, <<Token("opener", Depth - 1, 1)>>, FALSE)
      /\ open' = Append(Front(open), item'.id) /\ bodiless' = TRUE
  <2>1. /\ Depth > 0 /\ ~bodiless
        /\ Write("code", <<Line("opener", Depth - 1, 0)>>, <<Token("opener", Depth - 1, 1)>>, FALSE)
        /\ open' = Append(Front(open), item'.id) /\ bodiless' = TRUE
    BY DEF MidBlock
  <2>2. bodiless \in BOOLEAN
    BY DEF TInv, TypesOk
  <2>3. Depth # 0
    BY <2>1
  <2> QED
    BY <2>1, <2>2, <2>3
<1>2. TypesOk(style, open, bodiless) /\ MaxDepth \in Nat
  BY BoundAssumption DEF TInv
<1>3. PICK k : k = Len(open) - 1
  OBVIOUS
<1>4. open \in Seq(Nat \ {0}) /\ Len(open) # 0 /\ bodiless = FALSE
  BY <1>1, <1>2 DEF TypesOk, Depth
<1>5. k \in 0 .. Len(open) /\ Front(open) = SubSeq(open, 1, k) /\ k \in Nat /\ k + 1 = Len(open)
  BY <1>3, <1>4, FrontIs
<1>6. PICK s, p, l, o, b, id : /\ s = scan["genesis"] /\ p = python["genesis"] /\ l = item.last["genesis"]
                               /\ o = open /\ b = bodiless /\ id = item.id + 1
  OBVIOUS
<1>7. PICK sj, pj, lj, kind : sj = scan["j2"] /\ pj = python["j2"] /\ lj = item.last["j2"] /\ kind = item.kind
  OBVIOUS
<1>8. PICK x : x = Line("opener", k, 0)
  OBVIOUS
<1>9. PICK zg, zj : /\ zg = GenesisLines(GStart(s, l, o), <<x>>)
                    /\ zj = J2Tokens(JStart(sj), <<Token("opener", k, 1)>>)
  OBVIOUS
<1>10. Written("code", zg, zj, 1, 1)
  <2>1. Write("code", <<x>>, <<Token("opener", k, 1)>>, FALSE)
    BY <1>1, <1>3, <1>8 DEF Depth
  <2> QED
    BY <1>6, <1>7, <1>9, <2>1, OneWritten
<1>11. /\ kind # "end" /\ item'.id = id
       /\ python'["genesis"] = Reading(p, zg.out, id) /\ python'["j2"] = Reading(pj, zj.out, id)
  BY <1>6, <1>7, <1>10 DEF Written
<1>12. id \in Nat \ {0}
  BY <1>6 DEF TInv
<1>13. PICK o1 : o1 = Append(SubSeq(open, 1, k), id)
  OBVIOUS
<1>14. TypesOk(style, o1, TRUE)
  <2>1. o1 \in Seq(Nat \ {0}) /\ Len(o1) = k + 1
    BY <1>4, <1>5, <1>12, <1>13, SubSeqAppend
  <2> QED
    BY <1>2, <1>5, <2>1 DEF TypesOk
<1>15. GNext(zg, Reading(p, zg.out, id), "code", l, 1, o1, TRUE)
  <2>1. GOk(s, p, kind, l, o, b)
    BY <1>6, <1>7 DEF TInv
  <2>2. o \in Seq(Nat \ {0}) /\ b \in BOOLEAN /\ k \in 0 .. Len(o) /\ (k = Len(o) \/ ~b)
    BY <1>4, <1>5, <1>6
  <2>3. PICK further : further = <<>>
    OBVIOUS
  <2>4. further \in Seq(Nat) /\ Len(further) <= 1 /\ 1 + Len(further) = 1
    BY <2>3
  <2>5. LinesOf("opener", k, further) = <<x>>
    BY <1>8, <2>3 DEF LinesOf
  <2>6. zg = GenesisLines(GStart(s, l, o), LinesOf("opener", k, further))
    BY <1>9, <2>5
  <2>7. GNext(zg, Reading(p, zg.out, id), "code", l, 1 + Len(further), Append(SubSeq(o, 1, k), id), TRUE)
    BY <1>12, <2>1, <2>2, <2>4, <2>6, GOpener
  <2> QED
    BY <1>6, <1>13, <2>4, <2>7
<1>16. JShape(sj, kind, lj)
  BY <1>7 DEF TInv
<1>17. PICK c : c = 1
  OBVIOUS
<1>18. c \in {1, 2} /\ zj = J2Tokens(JStart(sj), <<Token("opener", k, c)>>)
  BY <1>9, <1>17
<1>19. JNext(zj, lj, c, "code")
  <2>1. ASSUME sj.raised = FALSE PROVE JNext(zj, lj, c, "code")
    <3>1. "opener" \in {"plain", "opener", "comment"} /\ (c = 1 \/ "opener" # "comment")
      OBVIOUS
    <3> QED
      BY <1>5, <1>11, <1>16, <1>18, <2>1, <3>1, JCode
  <2>2. PICK ts : ts = <<Token("opener", k, c)>>
    OBVIOUS
  <2>3. Len(ts) \in Nat /\ zj = J2Tokens(JStart(sj), ts) /\ c \in Nat
    BY <1>18, <2>2
  <2> QED
    BY <1>16, <2>1, <2>3, JEither
<1>20. ASSUME NEW low \in 1 .. MaxDepth + 1, Lowest(style, low)
       PROVE  JOk(zj, Reading(pj, zj.out, id), "code", o1, TRUE, low)
  <2>1. JOk(sj, pj, kind, o, b, low)
    BY <1>6, <1>7, <1>20 DEF TInv
  <2>2. low \in Nat
    BY <1>2, <1>20
  <2>3. o \in Seq(Nat \ {0}) /\ b \in BOOLEAN /\ k \in 0 .. Len(o) /\ (k = Len(o) \/ ~b)
    BY <1>4, <1>5, <1>6
  <2>4. StackIs(Pushed(sj.stack, "opener", k), k + 1, low)
    <3>1. PICK d : d = k + 1
      OBVIOUS
    <3>2. d \in Nat \ {0} /\ k = d - 1 /\ StackIs(sj.stack, d, low)
      BY <1>5, <1>6, <2>1, <3>1 DEF JOk
    <3>3. StackIs(Pushed(sj.stack, "opener", d - 1), d, low)
      BY <2>2, <3>2, StackMid
    <3> QED
      BY <3>1, <3>2, <3>3
  <2>5. JOk(zj, Reading(pj, zj.out, id), "code", Append(SubSeq(o, 1, k), id), TRUE, low)
    BY <1>11, <1>12, <1>16, <1>18, <2>1, <2>2, <2>3, <2>4, JOpenerOk
  <2> QED
    BY <1>6, <1>13, <2>5
<1>21. open' = o1 /\ Written("code", zg, zj, c, c) /\ c \in Nat
  BY <1>1, <1>5, <1>10, <1>11, <1>13, <1>17
<1>22. GNext(zg, Reading(p, zg.out, id), "code", l, c, o1, TRUE)
  BY <1>15, <1>17
<1> QED
  BY <1>1, <1>6, <1>7, <1>11, <1>14, <1>19, <1>20, <1>21, <1>22, StepOk

LEMMA CloseBlockKeeps ==
    ASSUME TInv, NEW closing \in Closings, CloseBlock(closing)
    PROVE  TInv'
<1>1. PICK w : w = IF closing = "comment" THEN "comment" ELSE "close"
  OBVIOUS
<1>2. /\ Depth # 0 /\ bodiless = FALSE
      /\ closing \in style[Depth] /\ closing # "dedent"
      /\ Write("code", <<Line("comment", Depth - 1, 0)>>, <<Token(w, Depth - 1, 1)>>, FALSE)
      /\ open' = Front(open) /\ bodiless' = bodiless
  <2>1. /\ Depth > 0 /\ ~bodiless
        /\ closing \in style[Depth] /\ closing # "dedent"
        /\ Write("code", <<Line("comment", Depth - 1, 0)>>, <<Token(w, Depth - 1, 1)>>, FALSE)
        /\ open' = Front(open) /\ bodiless' = bodiless
    BY <1>1 DEF CloseBlock
  <2>2. bodiless \in BOOLEAN
    BY DEF TInv, TypesOk
  <2>3. Depth # 0
    BY <2>1
  <2> QED
    BY <2>1, <2>2, <2>3
<1>3. TypesOk(style, open, bodiless) /\ MaxDepth \in Nat
  BY BoundAssumption DEF TInv
<1>4. PICK k : k = Len(open) - 1
  OBVIOUS
<1>5. open \in Seq(Nat \ {0}) /\ Len(open) # 0 /\ bodiless = FALSE
  BY <1>2, <1>3 DEF TypesOk, Depth
<1>6. k \in 0 .. Len(open) /\ Front(open) = SubSeq(open, 1, k) /\ k \in Nat /\ k + 1 = Len(open)
  BY <1>4, <1>5, FrontIs
<1>7. PICK s, p, l, o, b, id : /\ s = scan["genesis"] /\ p = python["genesis"] /\ l = item.last["genesis"]
                               /\ o = open /\ b = bodiless /\ id = item.id + 1
  OBVIOUS
<1>8. PICK sj, pj, lj, kind : sj = scan["j2"] /\ pj = python["j2"] /\ lj = item.last["j2"] /\ kind = item.kind
  OBVIOUS
<1>9. PICK x : x = Line("comment", k, 0)
  OBVIOUS
<1>10. PICK zg, zj : /\ zg = GenesisLines(GStart(s, l, o), <<x>>)
                     /\ zj = J2Tokens(JStart(sj), <<Token(w, k, 1)>>)
  OBVIOUS
<1>11. Written("code", zg, zj, 1, 1)
  <2>1. Write("code", <<x>>, <<Token(w, k, 1)>>, FALSE)
    BY <1>2, <1>4, <1>9 DEF Depth
  <2> QED
    BY <1>7, <1>8, <1>10, <2>1, OneWritten
<1>12. /\ kind # "end"
       /\ python'["genesis"] = Reading(p, zg.out, id) /\ python'["j2"] = Reading(pj, zj.out, id)
  BY <1>7, <1>8, <1>11 DEF Written
<1>13. PICK r : r = SubSeq(open, 1, k)
  OBVIOUS
<1>14. r \in Seq(Nat \ {0}) /\ Len(r) = k
  BY <1>5, <1>6, <1>13, SubSeqLen
<1>15. TypesOk(style, r, b)
  BY <1>3, <1>6, <1>7, <1>14 DEF TypesOk
<1>16. ASSUME NEW q, PyIs(q, o, b) PROVE PyIs(q, r, b)
  <2>1. PyIn(q, o)
    BY <1>5, <1>7, <1>16 DEF PyIs
  <2>2. PyIn(q, r)
    BY <1>5, <1>6, <1>7, <1>13, <2>1, PyDown
  <2> QED
    BY <1>5, <1>7, <2>2 DEF PyIs
<1>17. GNext(zg, Reading(p, zg.out, id), "code", l, 1, r, b)
  <2>1. GOk(s, p, kind, l, o, b)
    BY <1>7, <1>8 DEF TInv
  <2>2. PyIs(p, r, b)
    BY <1>16, <2>1 DEF GOk
  <2>3. zg = GenesisLines(GStart(s, l, o), <<Line("comment", k, 0)>>)
    BY <1>9, <1>10
  <2> QED
    BY <1>6, <1>14, <2>1, <2>2, <2>3, GComment
<1>18. JShape(sj, kind, lj)
  BY <1>8 DEF TInv
<1>19. w = "comment" \/ w = "close"
  BY <1>1
<1>20. PICK c : c = 1
  OBVIOUS
<1>21. JNext(zj, lj, c, "code")
  <2>1. ASSUME sj.raised = FALSE, w = "comment" PROVE JNext(zj, lj, c, "code")
    <3>1. w \in {"plain", "opener", "comment"} /\ (c = 1 \/ w # "comment") /\ c \in {1, 2}
      BY <1>20, <2>1
    <3>2. zj = J2Tokens(JStart(sj), <<Token(w, k, c)>>)
      BY <1>10, <1>20
    <3> QED
      BY <1>6, <1>12, <1>18, <2>1, <3>1, <3>2, JCode
  <2>2. ASSUME sj.raised = FALSE, w = "close" PROVE JNext(zj, lj, c, "code")
    <3>1. zj = J2Tokens(JStart(sj), <<Token("close", k, 1)>>)
      BY <1>10, <2>2
    <3>2. JNext(zj, lj, 1, "code")
      BY <1>12, <1>18, <2>2, <3>1, JClose
    <3> QED
      BY <1>20, <3>2
  <2>3. PICK ts : ts = <<Token(w, k, 1)>>
    OBVIOUS
  <2>4. Len(ts) \in Nat /\ zj = J2Tokens(JStart(sj), ts) /\ c \in Nat
    BY <1>10, <1>20, <2>3
  <2>5. sj.raised = FALSE => JNext(zj, lj, c, "code")
    BY <1>19, <2>1, <2>2
  <2> QED
    BY <1>18, <2>4, <2>5, JEither
<1>22. ASSUME NEW low \in 1 .. MaxDepth + 1, Lowest(style, low)
       PROVE  JOk(zj, Reading(pj, zj.out, id), "code", r, b, low)
  <2>1. JOk(sj, pj, kind, o, b, low)
    BY <1>7, <1>8, <1>22 DEF TInv
  <2>2. low \in Nat /\ Len(o) = k + 1
    BY <1>3, <1>6, <1>7, <1>22
  <2>3. PyIs(pj, r, b) /\ StackIs(sj.stack, Len(o), low)
    BY <1>16, <2>1 DEF JOk
  <2>4. CASE w = "comment"
    <3>1. closing = "comment"
      BY <1>1, <2>4
    <3>2. closing \notin Keywords
      BY <3>1 DEF Keywords
    <3>3. Depth <= low
      BY <1>2, <1>3, <1>22, <3>2, AboveLow
    <3>4. PICK d : d = k + 1
      OBVIOUS
    <3>5. StackIs(sj.stack, d, low) /\ d \in Nat /\ k <= d /\ d <= low
      BY <1>6, <1>7, <2>2, <2>3, <3>3, <3>4 DEF Depth
    <3>6. StackIs(sj.stack, k, low)
      BY <1>6, <2>2, <3>5, StackDown
    <3>7. zj = J2Tokens(JStart(sj), <<Token("comment", k, 1)>>)
      BY <1>10, <2>4
    <3> QED
      BY <1>6, <1>12, <1>14, <1>18, <2>1, <2>3, <3>6, <3>7, JCommentOk
  <2>5. CASE w = "close"
    <3>1. closing \in Keywords
      BY <1>1, <1>2, <2>5 DEF Keywords, Closings
    <3>2. low <= Depth
      BY <1>2, <1>3, <1>22, <3>1, BelowLow
    <3>3. low <= Len(o) /\ Len(o) \in Nat \ {0} /\ Len(r) = Len(o) - 1
      BY <1>6, <1>7, <1>14, <2>2, <3>2 DEF Depth
    <3>4. zj = J2Tokens(JStart(sj), <<Token("close", k, 1)>>)
      BY <1>10, <2>5
    <3> QED
      BY <1>12, <1>18, <2>1, <2>2, <2>3, <3>3, <3>4, JCloseOk
  <2> QED
    BY <1>19, <2>4, <2>5
<1>23. open' = r /\ bodiless' = b /\ Written("code", zg, zj, c, c) /\ c \in Nat
  BY <1>2, <1>6, <1>7, <1>11, <1>13, <1>20
<1>24. GNext(zg, Reading(p, zg.out, id), "code", l, c, r, b)
  BY <1>17, <1>20
<1> QED
  BY <1>7, <1>8, <1>12, <1>15, <1>21, <1>22, <1>23, <1>24, StepOk

LEMMA NoteToSelfKeeps ==
    ASSUME TInv, NoteToSelf
    PROVE  TInv'
<1>1. /\ Write("code", <<Line("comment", Depth, 0)>>, <<Token("comment", Depth, 1)>>, FALSE)
      /\ open' = open /\ bodiless' = bodiless
  BY DEF NoteToSelf
<1>2. TypesOk(style, open, bodiless) /\ MaxDepth \in Nat
  BY BoundAssumption DEF TInv
<1>3. PICK k : k = Len(open)
  OBVIOUS
<1>4. k \in Nat
  BY <1>2, <1>3 DEF TypesOk
<1>5. PICK s, p, l, o, b, id : /\ s = scan["genesis"] /\ p = python["genesis"] /\ l = item.last["genesis"]
                               /\ o = open /\ b = bodiless /\ id = item.id + 1
  OBVIOUS
<1>6. PICK sj, pj, lj, kind : sj = scan["j2"] /\ pj = python["j2"] /\ lj = item.last["j2"] /\ kind = item.kind
  OBVIOUS
<1>7. PICK x : x = Line("comment", k, 0)
  OBVIOUS
<1>8. PICK zg, zj : /\ zg = GenesisLines(GStart(s, l, o), <<x>>)
                    /\ zj = J2Tokens(JStart(sj), <<Token("comment", k, 1)>>)
  OBVIOUS
<1>9. Written("code", zg, zj, 1, 1)
  <2>1. Write("code", <<x>>, <<Token("comment", k, 1)>>, FALSE)
    BY <1>1, <1>3, <1>7 DEF Depth
  <2> QED
    BY <1>5, <1>6, <1>8, <2>1, OneWritten
<1>10. /\ kind # "end"
       /\ python'["genesis"] = Reading(p, zg.out, id) /\ python'["j2"] = Reading(pj, zj.out, id)
  BY <1>5, <1>6, <1>9 DEF Written
<1>11. GNext(zg, Reading(p, zg.out, id), "code", l, 1, o, b)
  <2>1. GOk(s, p, kind, l, o, b)
    BY <1>5, <1>6 DEF TInv
  <2>2. PyIs(p, o, b)
    BY <2>1 DEF GOk
  <2>3. zg = GenesisLines(GStart(s, l, o), <<Line("comment", k, 0)>>) /\ Len(o) = k
    BY <1>3, <1>5, <1>7, <1>8
  <2> QED
    BY <1>4, <2>1, <2>2, <2>3, GComment
<1>12. JShape(sj, kind, lj)
  BY <1>6 DEF TInv
<1>13. PICK c : c = 1
  OBVIOUS
<1>14. JNext(zj, lj, c, "code")
  <2>1. ASSUME sj.raised = FALSE PROVE JNext(zj, lj, c, "code")
    <3>1. "comment" \in {"plain", "opener", "comment"} /\ (c = 1 \/ "comment" # "comment") /\ c \in {1, 2}
      BY <1>13
    <3>2. zj = J2Tokens(JStart(sj), <<Token("comment", k, c)>>)
      BY <1>8, <1>13
    <3> QED
      BY <1>4, <1>10, <1>12, <2>1, <3>1, <3>2, JCode
  <2>2. PICK ts : ts = <<Token("comment", k, 1)>>
    OBVIOUS
  <2>3. Len(ts) \in Nat /\ zj = J2Tokens(JStart(sj), ts) /\ c \in Nat
    BY <1>8, <1>13, <2>2
  <2> QED
    BY <1>12, <2>1, <2>3, JEither
<1>15. ASSUME NEW low \in 1 .. MaxDepth + 1, Lowest(style, low)
       PROVE  JOk(zj, Reading(pj, zj.out, id), "code", o, b, low)
  <2>1. JOk(sj, pj, kind, o, b, low)
    BY <1>5, <1>6, <1>15 DEF TInv
  <2>2. PyIs(pj, o, b) /\ StackIs(sj.stack, k, low) /\ Len(o) = k
    BY <1>3, <1>5, <2>1 DEF JOk
  <2> QED
    BY <1>4, <1>8, <1>10, <1>12, <2>1, <2>2, JCommentOk
<1>16. open' = o /\ bodiless' = b /\ Written("code", zg, zj, c, c) /\ c \in Nat /\ TypesOk(style, o, b)
  BY <1>1, <1>2, <1>5, <1>9, <1>13
<1>17. GNext(zg, Reading(p, zg.out, id), "code", l, c, o, b)
  BY <1>11, <1>13
<1> QED
  BY <1>5, <1>6, <1>10, <1>14, <1>15, <1>16, <1>17, StepOk

LEMMA BlankDirectiveKeeps ==
    ASSUME TInv, BlankDirective
    PROVE  TInv'
<1>1. /\ Write("code", <<Line("blank", 0, 0)>>, <<Token("blank", 0, 1)>>, FALSE)
      /\ open' = open /\ bodiless' = bodiless
  BY DEF BlankDirective
<1>2. TypesOk(style, open, bodiless) /\ MaxDepth \in Nat
  BY BoundAssumption DEF TInv
<1>3. PICK s, p, l, o, b, id : /\ s = scan["genesis"] /\ p = python["genesis"] /\ l = item.last["genesis"]
                               /\ o = open /\ b = bodiless /\ id = item.id + 1
  OBVIOUS
<1>4. PICK sj, pj, lj, kind : sj = scan["j2"] /\ pj = python["j2"] /\ lj = item.last["j2"] /\ kind = item.kind
  OBVIOUS
<1>5. PICK x : x = Line("blank", 0, 0)
  OBVIOUS
<1>6. PICK zg, zj : /\ zg = GenesisLines(GStart(s, l, o), <<x>>)
                    /\ zj = J2Tokens(JStart(sj), <<Token("blank", 0, 1)>>)
  OBVIOUS
<1>7. Written("code", zg, zj, 1, 1)
  <2>1. Write("code", <<x>>, <<Token("blank", 0, 1)>>, FALSE)
    BY <1>1, <1>5
  <2> QED
    BY <1>3, <1>4, <1>6, <2>1, OneWritten
<1>8. /\ kind # "end"
      /\ python'["genesis"] = Reading(p, zg.out, id) /\ python'["j2"] = Reading(pj, zj.out, id)
  BY <1>3, <1>4, <1>7 DEF Written
<1>9. GNext(zg, Reading(p, zg.out, id), "code", l, 1, o, b)
  <2>1. GOk(s, p, kind, l, o, b)
    BY <1>3, <1>4 DEF TInv
  <2>2. zg = GenesisLines(GStart(s, l, o), <<Line("blank", 0, 0)>>)
    BY <1>5, <1>6
  <2> QED
    BY <2>1, <2>2, GBlank
<1>10. JShape(sj, kind, lj)
  BY <1>4 DEF TInv
<1>11. PICK c : c = 1
  OBVIOUS
<1>12. JNext(zj, lj, c, "code")
  <2>1. ASSUME sj.raised = FALSE PROVE JNext(zj, lj, c, "code")
    <3>1. JNext(zj, lj, 1, "code")
      BY <1>6, <1>8, <1>10, <2>1, JBlank
    <3> QED
      BY <1>11, <3>1
  <2>2. PICK ts : ts = <<Token("blank", 0, 1)>>
    OBVIOUS
  <2>3. Len(ts) \in Nat /\ zj = J2Tokens(JStart(sj), ts) /\ c \in Nat
    BY <1>6, <1>11, <2>2
  <2> QED
    BY <1>10, <2>1, <2>3, JEither
<1>13. ASSUME NEW low \in 1 .. MaxDepth + 1, Lowest(style, low)
       PROVE  JOk(zj, Reading(pj, zj.out, id), "code", o, b, low)
  <2>1. JOk(sj, pj, kind, o, b, low)
    BY <1>3, <1>4, <1>13 DEF TInv
  <2> QED
    BY <1>6, <1>8, <1>10, <2>1, JBlankOk
<1>14. open' = o /\ bodiless' = b /\ Written("code", zg, zj, c, c) /\ c \in Nat /\ TypesOk(style, o, b)
  BY <1>1, <1>2, <1>3, <1>7, <1>11
<1>15. GNext(zg, Reading(p, zg.out, id), "code", l, c, o, b)
  BY <1>9, <1>11
<1> QED
  BY <1>3, <1>4, <1>8, <1>12, <1>13, <1>14, <1>15, StepOk

-----------------------------------------------------------------------------
(* Lines of output, and the end of the file.                               *)

LEMMA TextEnds ==
    ASSUME NEW ts \in Seq(TextTokens)
    PROVE  Ends(Append(ts, LineEnd)) \in Nat /\ Ends(ts) \in Nat /\ JEndOf(ts) \in Nat
<1>1. PICK n \in Nat : n = 0
  OBVIOUS
<1>2. PICK c \in Nat : Ends(Append(ts, LineEnd)) = c + 1
  BY <1>1, J2Output
<1>3. Ends(ts) \in Nat
  BY <1>1, J2End
<1> QED
  BY <1>2, <1>3 DEF JEndOf

LEMMA OutputKeeps ==
    ASSUME TInv, NEW ts \in Texts, Output(ts)
    PROVE  TInv'
<1>1. /\ Write("text", <<Line("text", 0, 0)>>, Append(ts, LineEnd), FALSE)
      /\ open' = open /\ bodiless' = FALSE
  BY DEF Output
<1>2. ts \in Seq(TextTokens)
  BY TextAssumption DEF TextTokens
<1>3. TypesOk(style, open, bodiless) /\ MaxDepth \in Nat
  BY BoundAssumption DEF TInv
<1>4. PICK s, p, l, o, b, id : /\ s = scan["genesis"] /\ p = python["genesis"] /\ l = item.last["genesis"]
                               /\ o = open /\ b = bodiless /\ id = item.id + 1
  OBVIOUS
<1>5. PICK sj, pj, lj, kind : sj = scan["j2"] /\ pj = python["j2"] /\ lj = item.last["j2"] /\ kind = item.kind
  OBVIOUS
<1>6. PICK lines, us : lines = <<Line("text", 0, 0)>> /\ us = Append(ts, LineEnd)
  OBVIOUS
<1>7. PICK zg, zj : zg = GenesisLines(GStart(s, l, o), lines) /\ zj = J2Tokens(JStart(sj), us)
  OBVIOUS
<1>8. PICK cg, cj : cg = 1 /\ cj = Ends(us)
  OBVIOUS
<1>9. Len(lines) = cg /\ cg \in Nat /\ cj \in Nat
  BY <1>2, <1>6, <1>8, TextEnds
<1>10. Written("text", zg, zj, cg, cj)
  <2>1. Write("text", lines, us, FALSE)
    BY <1>1, <1>6
  <2>2. Ends(us) \in Nat
    BY <1>8, <1>9
  <2>3. Written("text", GenesisLines(GStart(scan["genesis"], item.last["genesis"], open), lines),
                J2Tokens(JStart(scan["j2"]), us), Len(lines), Ends(us))
    BY <2>1, <2>2, WriteIs
  <2> QED
    BY <1>4, <1>5, <1>7, <1>8, <1>9, <2>3
<1>11. /\ kind # "end"
       /\ python'["genesis"] = Reading(p, zg.out, id) /\ python'["j2"] = Reading(pj, zj.out, id)
  BY <1>4, <1>5, <1>10 DEF Written
<1>12. o \in Seq(Nat \ {0}) /\ b \in BOOLEAN
  BY <1>3, <1>4 DEF TypesOk
<1>13. GNext(zg, Reading(p, zg.out, id), "text", l, cg, o, FALSE)
  <2>1. GOk(s, p, kind, l, o, b)
    BY <1>4, <1>5 DEF TInv
  <2>2. zg = GenesisLines(GStart(s, l, o), <<Line("text", 0, 0)>>)
    BY <1>6, <1>7
  <2>3. GNext(zg, Reading(p, zg.out, id), "text", l, 1, o, FALSE)
    BY <1>12, <2>1, <2>2, GText
  <2> QED
    BY <1>8, <2>3
<1>14. JShape(sj, kind, lj)
  BY <1>5 DEF TInv
<1>15. ASSUME sj.raised = FALSE
       PROVE  /\ JNext(zj, lj, cj, "text")
              /\ zj.raised = FALSE /\ zj.emit = sj.emit /\ zj.stack = sj.stack
              /\ \E x : zj.out = <<x>> /\ Starts(x, sj.emit)
  <2>1. zj = J2Tokens(JStart(sj), Append(ts, LineEnd)) /\ cj = Ends(Append(ts, LineEnd))
    BY <1>6, <1>7, <1>8
  <2> QED
    BY <1>2, <1>11, <1>14, <1>15, <2>1, JText
<1>16. JNext(zj, lj, cj, "text")
  <2>1. Len(us) \in Nat
    BY <1>2, <1>6
  <2>2. sj.raised = FALSE => JNext(zj, lj, cj, "text")
    BY <1>15
  <2> QED
    BY <1>7, <1>9, <1>14, <2>1, <2>2, JEither
<1>17. ASSUME NEW low \in 1 .. MaxDepth + 1, Lowest(style, low)
       PROVE  JOk(zj, Reading(pj, zj.out, id), "text", o, FALSE, low)
  <2>1. JOk(sj, pj, kind, o, b, low)
    BY <1>4, <1>5, <1>17 DEF TInv
  <2>2. sj.raised = FALSE
    BY <1>14, <2>1 DEF JOk, JShape
  <2>3. zj.raised = FALSE /\ zj.emit = sj.emit /\ zj.stack = sj.stack
    BY <1>15, <2>2
  <2>4. PICK x : zj.out = <<x>> /\ Starts(x, sj.emit)
    BY <1>15, <2>2
  <2> QED
    BY <1>12, <2>1, <2>3, <2>4, JTextOk
<1>18. open' = o /\ TypesOk(style, o, FALSE)
  BY <1>1, <1>3, <1>4 DEF TypesOk
<1> QED
  BY <1>1, <1>4, <1>5, <1>9, <1>10, <1>11, <1>13, <1>16, <1>17, <1>18, StepOk

LEMMA EndOfFileKeeps ==
    ASSUME TInv, NEW ts \in Texts, EndOfFile(ts)
    PROVE  TInv'
<1>1. PICK lines : lines = IF ts = <<>> THEN <<>> ELSE <<Line("text", 0, 0)>>
  OBVIOUS
<1>2. bodiless = FALSE /\ Write("end", lines, ts, TRUE) /\ open' = open /\ bodiless' = bodiless
  <2>1. ~bodiless /\ Write("end", lines, ts, TRUE) /\ open' = open /\ bodiless' = bodiless
    BY <1>1 DEF EndOfFile
  <2>2. bodiless \in BOOLEAN
    BY DEF TInv, TypesOk
  <2> QED
    BY <2>1, <2>2
<1>3. ts \in Seq(TextTokens)
  BY TextAssumption DEF TextTokens
<1>4. TypesOk(style, open, bodiless) /\ MaxDepth \in Nat
  BY BoundAssumption DEF TInv
<1>5. PICK s, p, l, o, b, id : /\ s = scan["genesis"] /\ p = python["genesis"] /\ l = item.last["genesis"]
                               /\ o = open /\ b = bodiless /\ id = item.id + 1
  OBVIOUS
<1>6. PICK sj, pj, lj, kind : sj = scan["j2"] /\ pj = python["j2"] /\ lj = item.last["j2"] /\ kind = item.kind
  OBVIOUS
<1>7. PICK zg, zj : zg = GenesisLines(GStart(s, l, o), lines) /\ zj = AtEnd(J2Tokens(JStart(sj), ts))
  OBVIOUS
<1>8. PICK cg, cj : cg = Len(lines) /\ cj = JEndOf(ts)
  OBVIOUS
<1>9. cj \in Nat
  BY <1>3, <1>8, TextEnds
<1>10. Written("end", zg, zj, cg, cj)
  <2>1. Written("end", GenesisLines(GStart(scan["genesis"], item.last["genesis"], open), lines),
                AtEnd(J2Tokens(JStart(scan["j2"]), ts)), Len(lines), JEndOf(ts))
    BY <1>2, EndIs
  <2> QED
    BY <1>5, <1>6, <1>7, <1>8, <2>1
<1>11. /\ kind # "end"
       /\ python'["genesis"] = Reading(p, zg.out, id) /\ python'["j2"] = Reading(pj, zj.out, id)
  BY <1>5, <1>6, <1>10 DEF Written
<1>12. o \in Seq(Nat \ {0}) /\ b \in BOOLEAN /\ b = FALSE
  BY <1>2, <1>4, <1>5 DEF TypesOk
<1>13. GNext(zg, Reading(p, zg.out, id), "end", l, cg, o, b) /\ cg \in Nat
  <2>1. GOk(s, p, kind, l, o, b)
    BY <1>5, <1>6 DEF TInv
  <2>2. CASE ts = <<>>
    <3>1. lines = <<>>
      BY <1>1, <2>2
    <3>2. zg = GenesisLines(GStart(s, l, o), <<>>) /\ cg = 0
      BY <1>7, <1>8, <3>1
    <3>3. GNext(zg, Reading(p, zg.out, id), "end", l, 0, o, b)
      BY <2>1, <3>2, GNone
    <3> QED
      BY <3>2, <3>3
  <2>3. CASE ts # <<>>
    <3>1. lines = <<Line("text", 0, 0)>>
      BY <1>1, <2>3
    <3>2. zg = GenesisLines(GStart(s, l, o), <<Line("text", 0, 0)>>) /\ cg = 1
      BY <1>7, <1>8, <3>1
    <3>3. GNext(zg, Reading(p, zg.out, id), "end", l, 1, o, FALSE)
      BY <1>12, <2>1, <3>2, GText
    <3> QED
      BY <1>12, <3>2, <3>3
  <2> QED
    BY <2>2, <2>3
<1>14. JShape(sj, kind, lj)
  BY <1>6 DEF TInv
<1>15. ASSUME sj.raised = FALSE
       PROVE  /\ JNext(zj, lj, cj, "end")
              /\ zj.raised = FALSE /\ zj.emit = sj.emit /\ zj.stack = sj.stack
              /\ zj.out = <<>> \/ \E x : zj.out = <<x>> /\ Starts(x, sj.emit)
  <2>1. JNext(zj, lj, JEndOf(ts), "end")
    BY <1>3, <1>7, <1>11, <1>14, <1>15, JEnd
  <2>2. /\ zj.raised = FALSE /\ zj.emit = sj.emit /\ zj.stack = sj.stack
        /\ zj.out = <<>> \/ \E x : zj.out = <<x>> /\ Starts(x, sj.emit)
    BY <1>3, <1>7, <1>11, <1>14, <1>15, JEnd
  <2> QED
    BY <1>8, <2>1, <2>2
<1>16. JNext(zj, lj, cj, "end")
  <2>1. Len(ts) \in Nat
    BY <1>3
  <2>2. sj.raised = FALSE => JNext(zj, lj, cj, "end")
    BY <1>15
  <2> QED
    BY <1>7, <1>9, <1>14, <2>1, <2>2, JEither
<1>17. ASSUME NEW low \in 1 .. MaxDepth + 1, Lowest(style, low)
       PROVE  JOk(zj, Reading(pj, zj.out, id), "end", o, b, low)
  <2>1. JOk(sj, pj, kind, o, b, low)
    BY <1>5, <1>6, <1>17 DEF TInv
  <2>2. sj.raised = FALSE
    BY <1>14, <2>1 DEF JOk, JShape
  <2>3. zj.raised = FALSE /\ zj.emit = sj.emit /\ zj.stack = sj.stack
    BY <1>15, <2>2
  <2>4. CASE zj.out = <<>>
    BY <2>1, <2>3, <2>4, JEndOk
  <2>5. ASSUME NEW x, zj.out = <<x>>, Starts(x, sj.emit)
        PROVE  JOk(zj, Reading(pj, zj.out, id), "end", o, b, low)
    <3>1. JOk(zj, Reading(pj, zj.out, id), "end", o, FALSE, low)
      BY <1>12, <2>1, <2>3, <2>5, JTextOk
    <3> QED
      BY <1>12, <3>1
  <2> QED
    BY <1>15, <2>2, <2>4, <2>5
<1>18. open' = o /\ bodiless' = b /\ TypesOk(style, o, b)
  BY <1>2, <1>4, <1>5
<1> QED
  BY <1>5, <1>6, <1>9, <1>10, <1>11, <1>13, <1>16, <1>17, <1>18, StepOk

-----------------------------------------------------------------------------
(* The invariant, and what it says.                                        *)

LEMMA TInvInit == Init => TInv
<1> SUFFICES ASSUME Init PROVE TInv
  OBVIOUS
<1>1. MaxDepth \in Nat
  BY BoundAssumption
<1>2. TypesOk(style, open, bodiless)
  <2>1. open \in Seq(Nat \ {0}) /\ Len(open) = 0 /\ bodiless \in BOOLEAN
    <3>1. PICK none : none = <<>>
      OBVIOUS
    <3>2. none \in Seq(Nat \ {0}) /\ Len(none) = 0
      BY <3>1
    <3>3. open = none
      BY <3>1 DEF Init
    <3>4. bodiless \in BOOLEAN
      BY DEF Init
    <3> QED
      BY <3>2, <3>3, <3>4
  <2>2. style \in [1 .. MaxDepth -> SUBSET Closings]
    BY StyleAssumption DEF Init
  <2> QED
    BY <1>1, <2>1, <2>2 DEF TypesOk
<1>3. PICK ff : ff = FALSE
  OBVIOUS
<1>4. /\ item.id = 0 /\ item.kind = "none" /\ item.last["genesis"] = 0 /\ item.last["j2"] = 0
      /\ scan["genesis"] = GenesisStart /\ scan["j2"] = J2Start
      /\ python["genesis"] = NothingRead /\ python["j2"] = NothingRead
      /\ open = <<>> /\ bodiless = ff
  BY <1>3 DEF Init, Flavours
<1>5. PyIs(NothingRead, <<>>, ff)
  <2>1. PICK none : none = <<>>
    OBVIOUS
  <2>2. none \in Seq(Blocks) /\ Len(none) = 0 /\ \A n \in 1 .. 0 : FALSE
    BY <2>1
  <2>3. PICK p : p = [blocks |-> none, due |-> 0, failed |-> FALSE]
    OBVIOUS
  <2>4. p.blocks = none /\ p = [blocks |-> p.blocks, due |-> 0, failed |-> FALSE]
    BY <2>3
  <2>5. PyIn(p, none)
    BY <2>2, <2>4 DEF PyIn
  <2>6. NothingRead = p
    BY <2>1, <2>3 DEF NothingRead
  <2> QED
    BY <1>3, <2>1, <2>5, <2>6 DEF PyIs
<1>6. GOk(GenesisStart, NothingRead, "none", 0, <<>>, ff)
  <2>1. Len(<<>>) = 0
    OBVIOUS
  <2>2. GenesisStart = G(0, GenesisStart.stmt, 0, GenesisStart.out)
    BY DEF GenesisStart, G
  <2> QED
    BY <1>5, <2>1, <2>2 DEF GOk
<1>7. PICK z : z = J2Start
  OBVIOUS
<1>8. /\ z.emit = 0 /\ z.stack = <<>> /\ z.line = 1 /\ z.raised = ff /\ z.out = <<>>
      /\ z = J(z.emit, z.stack, 0, z.line, z.raised, z.out)
  <2>1. PICK none : none = <<>>
    OBVIOUS
  <2>2. z = J(0, none, 0, 1, ff, none)
    BY <1>3, <1>7, <2>1, Zenon DEF J2Start, J
  <2>3. z = [emit |-> 0, stack |-> none, first |-> 0, line |-> 1, raised |-> ff, out |-> none]
    BY <2>2, Zenon DEF J
  <2>4. z.emit = 0 /\ z.stack = none /\ z.line = 1 /\ z.raised = ff /\ z.out = none
    BY <2>3
  <2>5. z = J(z.emit, z.stack, 0, z.line, z.raised, z.out)
    BY <2>2, <2>4
  <2> QED
    BY <2>1, <2>4, <2>5
<1>9. JShape(z, "none", 0)
  <2>1. z.raised \in BOOLEAN
    BY <1>3, <1>8
  <2>2. z.line \in Nat /\ 0 \in Nat /\ z.line = 0 + 1
    BY <1>8
  <2> QED
    BY <1>8, <2>1, <2>2, Zenon DEF JShape
<1>10. ASSUME NEW low \in 1 .. MaxDepth + 1
       PROVE  JOk(z, NothingRead, "none", <<>>, ff, low)
  <2>1. Len(<<>>) = 0
    OBVIOUS
  <2>2. StackIs(<<>>, 0, low)
    <3>1. PICK st : st = <<>>
      OBVIOUS
    <3>2. st \in Seq(Nat) /\ Len(st) = 0
      BY <3>1
    <3>3. low .. 0 = {}
      BY <1>1
    <3>4. StackIs(st, 0, low)
      BY <3>2, <3>3 DEF StackIs
    <3> QED
      BY <3>1, <3>4
  <2>3. ~z.raised
    BY <1>3, <1>8
  <2> QED
    BY <1>5, <1>8, <2>1, <2>2, <2>3 DEF JOk
<1>11. LinesTrue
  <2>1. GenesisStart.out = <<>> /\ J2Start.out = <<>>
    BY DEF GenesisStart, J2Start
  <2>2. DOMAIN scan["genesis"].out = {} /\ DOMAIN scan["j2"].out = {}
    BY <1>4, <2>1
  <2> QED
    BY <2>2 DEF LinesTrue, Flavours
<1>12. item.id \in Nat
  BY <1>4
<1>13. GOk(scan["genesis"], python["genesis"], item.kind, item.last["genesis"], open, bodiless)
  BY <1>4, <1>6
<1>14. JShape(scan["j2"], item.kind, item.last["j2"])
  BY <1>4, <1>7, <1>9
<1>15. \A low \in 1 .. MaxDepth + 1 :
          Lowest(style, low) => JOk(scan["j2"], python["j2"], item.kind, open, bodiless, low)
  BY <1>4, <1>7, <1>10
<1> QED
  BY <1>2, <1>11, <1>12, <1>13, <1>14, <1>15 DEF TInv

LEMMA TInvNext == TInv /\ [Next]_vars => TInv'
<1> SUFFICES ASSUME TInv, [Next]_vars PROVE TInv'
  OBVIOUS
<1>1. ASSUME NEW k \in 0 .. Depth, NEW further \in Continued, OpenBlock(k, further) PROVE TInv'
  BY <1>1, OpenBlockKeeps
<1>2. ASSUME NEW k \in 0 .. Depth, NEW further \in Continued, Simple(k, further) PROVE TInv'
  BY <1>2, SimpleKeeps
<1>3. CASE MidBlock
  BY <1>3, MidBlockKeeps
<1>4. ASSUME NEW c \in Closings, CloseBlock(c) PROVE TInv'
  BY <1>4, CloseBlockKeeps
<1>5. CASE NoteToSelf
  BY <1>5, NoteToSelfKeeps
<1>6. CASE BlankDirective
  BY <1>6, BlankDirectiveKeeps
<1>7. ASSUME NEW ts \in Texts, Output(ts) PROVE TInv'
  BY <1>7, OutputKeeps
<1>8. ASSUME NEW ts \in Texts, EndOfFile(ts) PROVE TInv'
  BY <1>8, EndOfFileKeeps
<1>9. CASE UNCHANGED vars
  BY <1>9 DEF vars, TInv, LinesTrue
<1> QED
  BY <1>1, <1>2, <1>3, <1>4, <1>5, <1>6, <1>7, <1>8, <1>9 DEF Next

LEMMA TInvSays == TInv => InItsBlock /\ LinesTrue
<1> SUFFICES ASSUME TInv PROVE InItsBlock /\ LinesTrue
  OBVIOUS
<1>1. ASSUME NEW p, NEW o, NEW b, PyIs(p, o, b)
      PROVE  ~p.failed
  <2>1. PyIn(p, o) \/ PyDue(p, o)
    BY <1>1 DEF PyIs
  <2>2. PICK ff : ff = FALSE
    OBVIOUS
  <2>3. \E d : p = [blocks |-> p.blocks, due |-> d, failed |-> ff]
    BY <2>1, <2>2, Zenon DEF PyIn, PyDue
  <2>4. p.failed = ff
    BY <2>3
  <2> QED
    BY <2>2, <2>4
<1>2. /\ ~python["genesis"].failed
      /\ item.kind = "text" => Inside(python["genesis"]) = open
  BY <1>1 DEF TInv, GOk
<1>3. ASSUME KeywordsInside
      PROVE  /\ ~scan["j2"].raised /\ ~python["j2"].failed
             /\ item.kind = "text" => Inside(python["j2"]) = open
  <2>1. TypesOk(style, open, bodiless)
    BY DEF TInv
  <2>2. PICK low \in 1 .. MaxDepth + 1 : Lowest(style, low)
    BY <1>3, <2>1, LowExists
  <2>3. JOk(scan["j2"], python["j2"], item.kind, open, bodiless, low)
    BY <2>2 DEF TInv
  <2> QED
    BY <1>1, <2>3 DEF JOk
<1>4. InItsBlock
  BY <1>2, <1>3 DEF InItsBlock, InBlocks
<1> QED
  BY <1>4 DEF TInv

\* The scanners and Python stand where the author is, between any two items.
THEOREM TInvAlways == Spec => []TInv
BY TInvInit, TInvNext, PTL DEF Spec

\* A line of output is emitted by both flavours in the blocks the author wrote
\* it in, and what is around it is Python that parses.
THEOREM InItsBlockAlways == Spec => []InItsBlock
<1>1. TInv => InItsBlock
  BY TInvSays
<1> QED
  BY <1>1, TInvAlways, PTL

\* Every line of Python carries the line of the template it was made of: of a
\* directive of j2 its first line, of genesis its own.
THEOREM LinesTrueAlways == Spec => []LinesTrue
<1>1. TInv => LinesTrue
  BY TInvSays
<1> QED
  BY <1>1, TInvAlways, PTL
=============================================================================

----------------------------- MODULE LoadingProofs -----------------------------
(***************************************************************************)
(* For any files, list files, command lines and identifiers: .depend is    *)
(* complete, the .py file of a class is kept, a name never changes its     *)
(* class, and what it stands for does not depend on the order of use; the  *)
(* inputs are those of the command line and of the lists it leads to, once *)
(* each.                                                                   *)
(*                                                                         *)
(* The strengthening is about the generated files of a process: a name is  *)
(* filed under its own identifier, the owner of that has the name, and the *)
(* file was made from the owner.  So no template is written over the file  *)
(* of another, and what a class was imported from stays.  An owner need    *)
(* not have a file: the stem is taken before the template is parsed.  In   *)
(* --gen-only mode nothing of it holds: raw_dir has no owners.             *)
(*                                                                         *)
(* For the inputs it is Walk, at the end: the lists being read are a path  *)
(* from the command line, a list that has been read leads only to such     *)
(* lists and never to itself, and the inputs so far are what is behind.    *)
(***************************************************************************)
EXTENDS ModuleLoading, SequenceTheorems, FiniteSetTheorems, WellFoundedInduction, TLAPS

IsSeq(s) == \E S : s \in Seq(S)

\* An identifier is taken by a template that has it, and that is noted.
Owned(r) ==
    \A s \in DOMAIN r.stemOwner :
        /\ s = Stem(r.stemOwner[s])
        /\ r.stemOwner[s] \in r.sources

\* This is a file that was made from this template.
MadeOf(py, path) == py = [path |-> path, version |-> py.version]

\* A name leads to the file of its identifier, which is its own and was made
\* from the owner.
Filed(r) ==
    \A n \in DOMAIN r.generated :
        /\ r.generated[n] = Safe[n]
        /\ Safe[n] \in DOMAIN r.stemOwner
        /\ r.stemOwner[Safe[n]][2] = n
        /\ Safe[n] \in DOMAIN r.raw
        /\ MadeOf(r.raw[Safe[n]], r.stemOwner[Safe[n]])

\* The class at the end of a line is what its file says.
Made(r) ==
    \A n \in DOMAIN r.loaded :
        LET c == r.loaded[n]
            l == Last(c.line)
        IN  /\ c = [path |-> c.path, version |-> c.version, line |-> c.line]
            /\ IsSeq(c.line) /\ Len(c.line) > 0 /\ Head(c.line) = n
            /\ l \in DOMAIN r.generated /\ Safe[l] = l
            /\ r.raw[l] = [path |-> c.path, version |-> c.version]

Store(r) == Owned(r) /\ Filed(r) /\ Made(r)

\* Every file was made from what its name is searched for, that of an input
\* from this input, so that two inputs of a name are one file.
Searched(r, p) ==
    /\ \A n \in DOMAIN r.generated : r.stemOwner[Safe[n]] = SearchedFor(n)
    /\ \A k \in 1 .. p :
          /\ k \in DOMAIN inputs
          /\ inputs[k][2] \in DOMAIN r.generated
          /\ r.stemOwner[Safe[inputs[k][2]]] = FindInput(inputs[k])

\* Nothing is made before the inputs are known, nor kept after the process.
Early == /\ parsed = 0
         /\ stemOwner = <<>> /\ loaded = <<>> /\ ran = {}
         /\ Full => generated = <<>>

LoadInv ==
    /\ edits \in Nat /\ parsed \in Nat /\ IsSeq(inputs)
    /\ ~InProcess => reading = <<>> /\ Early
    /\ reading # <<>> => Early
    /\ Full /\ parsed < Len(inputs) => loaded = <<>>
    /\ Full => Store(Here)
    /\ Full /\ edits = 0 => Searched(Here, parsed)
    /\ ran \subseteq sources \cup included

\* What a call may add to: no class is replaced.
Grew(q, r) == /\ \A n \in DOMAIN q.loaded : n \in DOMAIN r.loaded /\ r.loaded[n] = q.loaded[n]
              /\ q.sources \subseteq r.sources
Whole(r) == r = [raw |-> r.raw, generated |-> r.generated, stemOwner |-> r.stemOwner,
                 loaded |-> r.loaded, sources |-> r.sources]

-----------------------------------------------------------------------------
(* Operators of the model. *)

LEMMA SeqIs ==
    ASSUME NEW s, IsSeq(s)
    PROVE  Len(s) \in Nat /\ DOMAIN s = 1 .. Len(s)
BY DEF IsSeq

\* A set of numbers that is not empty has a smallest.
LEMMA Smallest ==
    ASSUME NEW S, S \subseteq Nat, S # {}
    PROVE  Min(S) \in S /\ \A k \in S : Min(S) <= k
<1> DEFINE R == OpToRel(<, Nat)
<1>1. OpToRel(<, Nat) = {ss \in Nat \X Nat : ss[1] < ss[2]}
  BY DEF OpToRel
<1>2. IsWellFoundedOn(R, Nat)
  BY NatLessThanWellFounded
<1>3. PICK m \in S : \A k \in S : ~ (<<k, m>> \in R)
  <2> HIDE DEF R
  <2> QED  BY <1>2, WFMin
<1>4. \A k \in S : m <= k
  <2>1. SUFFICES ASSUME NEW k \in S PROVE m <= k
    OBVIOUS
  <2>2. <<k, m>> \notin {ss \in Nat \X Nat : ss[1] < ss[2]}
    BY <1>1, <1>3
  <2> QED  BY <2>2
<1> QED
  BY <1>4, Zenon DEF Min

\* What a search for a name returns has that name.
LEMMA FoundIsNamed ==
    ASSUME NEW stem, NEW ext, NEW dirs, FindFile(stem, ext, dirs) # <<>>
    PROVE  FindFile(stem, ext, dirs)[2] = stem
BY DEF FindFile

LEMMA InputIsNamed ==
    ASSUME NEW i, FindInput(i) # <<>>
    PROVE  FindInput(i)[2] = i[2]
BY FoundIsNamed DEF FindInput

LEMMA LookupIsNamed ==
    ASSUME NEW name, NEW dirs, Lookup(name, dirs) # <<>>
    PROVE  Lookup(name, dirs)[2] = name
BY FoundIsNamed DEF Lookup

LEMMA FirstIsNamed ==
    ASSUME IsSeq(inputs), NEW name, InputsNamed(name) # {}
    PROVE  Min(InputsNamed(name)) \in DOMAIN inputs /\ FirstNamed(name)[2] = name
<1>1. InputsNamed(name) \subseteq Nat
  BY SeqIs DEF InputsNamed
<1>2. Min(InputsNamed(name)) \in InputsNamed(name)
  BY <1>1, Smallest
<1> QED
  BY <1>2 DEF InputsNamed, FirstNamed

LEMMA SearchIsNamed ==
    ASSUME IsSeq(inputs), NEW name, SearchedFor(name) # <<>>
    PROVE  SearchedFor(name)[2] = name
BY FirstIsNamed, InputIsNamed, LookupIsNamed DEF SearchedFor

-----------------------------------------------------------------------------
(* _write_generated. *)

\* What the tables are after it, entry by entry.
Written(name, path, r) ==
    /\ DOMAIN r.raw = DOMAIN raw \cup {Safe[name]}
    /\ r.raw[Safe[name]] = [path |-> path, version |-> files[path]]
    /\ \A s \in DOMAIN raw : s # Safe[name] => r.raw[s] = raw[s]
    /\ DOMAIN r.generated = DOMAIN generated \cup {name}
    /\ r.generated[name] = Safe[name]
    /\ \A n \in DOMAIN generated : n # name => r.generated[n] = generated[n]
    /\ DOMAIN r.stemOwner = DOMAIN stemOwner \cup {Safe[name]}
    /\ r.stemOwner[Safe[name]] = path
    /\ \A s \in DOMAIN stemOwner : s # Safe[name] => r.stemOwner[s] = stemOwner[s]
    /\ r.loaded = loaded
    /\ r.sources = sources \cup {path}
    /\ Whole(r)

LEMMA WriteIs ==
    ASSUME NEW name, NEW path, path[2] = name, NEW r, r = WriteGenerated(name, path)
    PROVE  Written(name, path, r)
<1>1. /\ r.raw = Put(raw, Safe[name], [path |-> path, version |-> files[path]])
      /\ r.generated = Put(generated, name, Safe[name])
      /\ r.stemOwner = Put(stemOwner, Safe[name], path)
      /\ r.loaded = loaded
      /\ r.sources = sources \cup {path}
  BY DEF WriteGenerated, Claimed, Here, Recorded, Stem
<1>2. DOMAIN r.raw = DOMAIN raw \cup {Safe[name]} /\ r.raw[Safe[name]] = [path |-> path, version |-> files[path]]
      /\ \A s \in DOMAIN raw : s # Safe[name] => r.raw[s] = raw[s]
  BY <1>1 DEF Put
<1>3. DOMAIN r.generated = DOMAIN generated \cup {name} /\ r.generated[name] = Safe[name]
      /\ \A n \in DOMAIN generated : n # name => r.generated[n] = generated[n]
  BY <1>1 DEF Put
<1>4. DOMAIN r.stemOwner = DOMAIN stemOwner \cup {Safe[name]} /\ r.stemOwner[Safe[name]] = path
      /\ \A s \in DOMAIN stemOwner : s # Safe[name] => r.stemOwner[s] = stemOwner[s]
  BY <1>1 DEF Put
<1>5. Whole(r)
  BY DEF Whole, WriteGenerated, Claimed, Here
<1> QED
  BY <1>1, <1>2, <1>3, <1>4, <1>5 DEF Written

\* A name that is filed under the identifier of another is the other.
LEMMA FiledApart ==
    ASSUME Filed(Here), NEW name, NEW path, path[2] = name, MayWrite(path),
           NEW n \in DOMAIN generated, n # name
    PROVE  Safe[n] # Safe[name]
BY DEF Filed, Here, MayWrite, Stem

LEMMA WriteKeeps ==
    ASSUME Store(Here), NEW name, NEW path, path[2] = name, MayWrite(path),
           name \in DOMAIN generated => DOMAIN loaded = {},
           NEW r, r = WriteGenerated(name, path)
    PROVE  Store(r) /\ Grew(Here, r)
<1>0. Written(name, path, r)
  BY WriteIs
<1>1. Owned(Here) /\ Filed(Here) /\ Made(Here)
  BY DEF Store
<1>2. Owned(r)
  <2>1. SUFFICES ASSUME NEW s \in DOMAIN r.stemOwner
                 PROVE  s = Stem(r.stemOwner[s]) /\ r.stemOwner[s] \in r.sources
    BY DEF Owned
  <2>2. CASE s = Safe[name]
    BY <1>0, <2>2 DEF Written, Stem
  <2>3. CASE s # Safe[name]
    <3>1. s \in DOMAIN stemOwner /\ r.stemOwner[s] = stemOwner[s]
      BY <1>0, <2>1, <2>3 DEF Written
    <3>2. s = Stem(stemOwner[s]) /\ stemOwner[s] \in sources
      BY <1>1, <3>1 DEF Owned, Here
    <3> QED  BY <1>0, <3>1, <3>2 DEF Written
  <2> QED  BY <2>2, <2>3
<1>3. Filed(r)
  <2>1. SUFFICES ASSUME NEW n \in DOMAIN r.generated
                 PROVE  /\ r.generated[n] = Safe[n] /\ Safe[n] \in DOMAIN r.stemOwner
                        /\ r.stemOwner[Safe[n]][2] = n /\ Safe[n] \in DOMAIN r.raw
                        /\ MadeOf(r.raw[Safe[n]], r.stemOwner[Safe[n]])
    BY DEF Filed
  <2>2. CASE n = name
    <3>1. /\ r.generated[n] = Safe[n] /\ Safe[n] \in DOMAIN r.stemOwner
          /\ r.stemOwner[Safe[n]] = path /\ Safe[n] \in DOMAIN r.raw
      BY <1>0, <2>2 DEF Written
    <3>2. r.raw[Safe[n]] = [path |-> path, version |-> files[path]]
      BY <1>0, <2>2 DEF Written
    <3>3. MadeOf(r.raw[Safe[n]], path)
      BY <3>2 DEF MadeOf
    <3> QED  BY <2>2, <3>1, <3>3
  <2>3. CASE n # name
    <3>1. n \in DOMAIN generated /\ r.generated[n] = generated[n]
      BY <1>0, <2>1, <2>3 DEF Written
    <3>2. Safe[n] # Safe[name]
      BY <1>1, <2>3, <3>1, FiledApart
    <3>3. /\ generated[n] = Safe[n] /\ Safe[n] \in DOMAIN stemOwner
          /\ stemOwner[Safe[n]][2] = n /\ Safe[n] \in DOMAIN raw
          /\ MadeOf(raw[Safe[n]], stemOwner[Safe[n]])
      BY <1>1, <3>1 DEF Filed, Here
    <3>4. /\ Safe[n] \in DOMAIN r.stemOwner /\ r.stemOwner[Safe[n]] = stemOwner[Safe[n]]
          /\ Safe[n] \in DOMAIN r.raw /\ r.raw[Safe[n]] = raw[Safe[n]]
      BY <1>0, <3>2, <3>3 DEF Written
    <3> QED  BY <3>1, <3>3, <3>4
  <2> QED  BY <2>2, <2>3
<1>4. Made(r)
  <2>1. CASE DOMAIN loaded = {}
    BY <1>0, <2>1 DEF Made, Written
  <2>2. CASE name \notin DOMAIN generated
    <3>1. SUFFICES ASSUME NEW n \in DOMAIN loaded
                   PROVE  LET l == Last(loaded[n].line)
                          IN  l \in DOMAIN r.generated /\ r.raw[l] = raw[l]
      BY <1>0, <1>1 DEF Made, Written, Here
    <3>2. PICK l : l = Last(loaded[n].line)
      OBVIOUS
    <3>3. l \in DOMAIN generated /\ Safe[l] = l
      BY <1>1, <3>2 DEF Made, Here
    <3>4. l # Safe[name] /\ l \in DOMAIN raw
      <4>1. Safe[l] # Safe[name]
        BY <1>1, <2>2, <3>3, FiledApart
      <4>2. Safe[l] \in DOMAIN raw
        BY <1>1, <3>3 DEF Filed, Here
      <4> QED  BY <3>3, <4>1, <4>2
    <3> QED  BY <1>0, <3>2, <3>3, <3>4 DEF Written
  <2> QED  BY <2>1, <2>2
<1>5. Grew(Here, r)
  BY <1>0 DEF Grew, Written, Here
<1> QED
  BY <1>2, <1>3, <1>4, <1>5 DEF Store

LEMMA WriteSearched ==
    ASSUME Store(Here), NEW p, Searched(Here, p), NEW name, NEW path, path[2] = name,
           MayWrite(path), path = SearchedFor(name), NEW r, r = WriteGenerated(name, path)
    PROVE  Searched(r, p)
<1>0. Written(name, path, r)
  BY WriteIs
<1>1. Safe[name] \in DOMAIN stemOwner => stemOwner[Safe[name]] = path
  BY DEF MayWrite, Stem
<1>2. Filed(Here)
  BY DEF Store
<1>3. \A n \in DOMAIN r.generated : r.stemOwner[Safe[n]] = SearchedFor(n)
  <2>1. SUFFICES ASSUME NEW n \in DOMAIN r.generated PROVE r.stemOwner[Safe[n]] = SearchedFor(n)
    OBVIOUS
  <2>2. CASE n = name
    BY <1>0, <2>2 DEF Written
  <2>3. CASE n # name
    BY <1>0, <1>1, <1>2, <2>1, <2>3 DEF Filed, Searched, Here, Written
  <2> QED  BY <2>2, <2>3
<1>4. ASSUME NEW k \in 1 .. p
      PROVE  /\ k \in DOMAIN inputs /\ inputs[k][2] \in DOMAIN r.generated
             /\ r.stemOwner[Safe[inputs[k][2]]] = FindInput(inputs[k])
  <2>1. /\ k \in DOMAIN inputs /\ inputs[k][2] \in DOMAIN generated
        /\ stemOwner[Safe[inputs[k][2]]] = FindInput(inputs[k])
    BY <1>4 DEF Searched, Here
  <2>2. Safe[inputs[k][2]] \in DOMAIN stemOwner
    BY <1>2, <2>1 DEF Filed, Here
  <2> QED
    BY <1>0, <1>1, <2>1, <2>2 DEF Written
<1> QED
  BY <1>3, <1>4 DEF Searched

\* An identifier is taken for a template that is then not parsed: what has it
\* already is this template.
TakenFor(path, r) ==
    /\ r.raw = raw /\ r.generated = generated /\ r.loaded = loaded
    /\ r.sources = sources \cup {path}
    /\ DOMAIN stemOwner \subseteq DOMAIN r.stemOwner
    /\ \A s \in DOMAIN stemOwner : r.stemOwner[s] = stemOwner[s]
    /\ \A s \in DOMAIN r.stemOwner \ DOMAIN stemOwner : s = Stem(path) /\ r.stemOwner[s] = path
    /\ Whole(r)

LEMMA ClaimIs ==
    ASSUME NEW path, MayWrite(path), NEW r, r = Claimed(path)
    PROVE  TakenFor(path, r)
<1>1. /\ r.raw = raw /\ r.generated = generated /\ r.loaded = loaded
      /\ r.sources = sources \cup {path}
      /\ r.stemOwner = Put(stemOwner, Stem(path), path)
  BY DEF Claimed, Here, Recorded
<1>2. /\ DOMAIN r.stemOwner = DOMAIN stemOwner \cup {Stem(path)}
      /\ \A s \in DOMAIN r.stemOwner : r.stemOwner[s] = IF s = Stem(path) THEN path ELSE stemOwner[s]
  BY <1>1 DEF Put
<1>3. Stem(path) \in DOMAIN stemOwner => stemOwner[Stem(path)] = path
  BY DEF MayWrite
<1>4. Whole(r)
  BY DEF Whole, Claimed, Here
<1> QED
  BY <1>1, <1>2, <1>3, <1>4 DEF TakenFor

LEMMA ClaimKeeps ==
    ASSUME Store(Here), NEW path, NEW r, TakenFor(path, r)
    PROVE  Store(r)
<1>1. Owned(Here) /\ Filed(Here) /\ Made(Here)
  BY DEF Store
<1>2. Owned(r)
  BY <1>1 DEF TakenFor, Owned, Here
<1>3. Filed(r)
  BY <1>1 DEF TakenFor, Filed, Here
<1>4. Made(r)
  BY <1>1 DEF TakenFor, Made, Here
<1> QED
  BY <1>2, <1>3, <1>4 DEF Store

LEMMA ClaimSearched ==
    ASSUME Store(Here), NEW p, Searched(Here, p), NEW path, NEW r, TakenFor(path, r)
    PROVE  Searched(r, p)
<1>1. \A n \in DOMAIN generated : Safe[n] \in DOMAIN stemOwner
  BY DEF Store, Filed, Here
<1> QED
  BY <1>1 DEF TakenFor, Searched, Here

-----------------------------------------------------------------------------
(* _import_generated and synonym_class. *)

\* The tables of files stay.
Same(q, r) == /\ r.raw = q.raw /\ r.generated = q.generated /\ r.stemOwner = q.stemOwner
              /\ r.sources = q.sources /\ Whole(r)

LEMMA SameSearched ==
    ASSUME NEW q, NEW r, Same(q, r), NEW p, Searched(q, p)
    PROVE  Searched(r, p)
BY DEF Same, Searched

LEMMA GrewOn ==
    ASSUME NEW o, NEW q, NEW r, Grew(o, q), Grew(q, r)
    PROVE  Grew(o, r)
BY DEF Grew

\* A class is added under a new name.
Added(q, n, c) == [q EXCEPT !.loaded = Put(q.loaded, n, c)]

LEMMA AddedIs ==
    ASSUME NEW q, Whole(q), NEW n, n \notin DOMAIN q.loaded, NEW c,
           NEW r, r = Added(q, n, c)
    PROVE  /\ Same(q, r) /\ Grew(q, r)
           /\ DOMAIN r.loaded = DOMAIN q.loaded \cup {n}
           /\ r.loaded[n] = c
           /\ \A m \in DOMAIN q.loaded : r.loaded[m] = q.loaded[m]
<1>1. r = [raw |-> q.raw, generated |-> q.generated, stemOwner |-> q.stemOwner,
           loaded |-> Put(q.loaded, n, c), sources |-> q.sources]
  BY DEF Whole, Added
<1>2. Same(q, r) /\ r.loaded = Put(q.loaded, n, c)
  BY <1>1 DEF Same, Whole
<1>3. /\ DOMAIN r.loaded = DOMAIN q.loaded \cup {n}
      /\ r.loaded[n] = c
      /\ \A m \in DOMAIN q.loaded : r.loaded[m] = q.loaded[m]
  BY <1>2 DEF Put
<1> QED
  BY <1>2, <1>3 DEF Grew, Same

LEMMA ImportIs ==
    ASSUME NEW q, Whole(q), NEW n, n \notin DOMAIN q.loaded, NEW r, r = Import(q, n)
    PROVE  Same(q, r) /\ Grew(q, r)
<1>1. CASE q.generated[n] # n \/ q.raw[q.generated[n]].version \in Raising
  BY <1>1 DEF Import, Same, Grew
<1>2. CASE q.generated[n] = n /\ q.raw[n].version \notin Raising
  <2>1. r = Added(q, n, [path |-> q.raw[n].path, version |-> q.raw[n].version, line |-> <<n>>])
    BY <1>2 DEF Import, Added
  <2> QED  BY <2>1, AddedIs
<1> QED  BY <1>1, <1>2

LEMMA ImportKeeps ==
    ASSUME NEW q, Whole(q), Store(q), NEW n, n \notin DOMAIN q.loaded, n \in DOMAIN q.generated,
           NEW r, r = Import(q, n)
    PROVE  Store(r)
<1>1. CASE q.generated[n] # n \/ q.raw[q.generated[n]].version \in Raising
  BY <1>1 DEF Import
<1>2. CASE q.generated[n] = n /\ q.raw[n].version \notin Raising
  <2> DEFINE py == q.raw[n]
  <2>1. PICK c : c = [path |-> py.path, version |-> py.version, line |-> <<n>>]
    OBVIOUS
  <2>2. r = Added(q, n, c)
    BY <1>2, <2>1 DEF Import, Added
  <2>3. Owned(q) /\ Filed(q) /\ Made(q)
    BY DEF Store
  <2>4. /\ Same(q, r) /\ DOMAIN r.loaded = DOMAIN q.loaded \cup {n} /\ r.loaded[n] = c
        /\ \A m \in DOMAIN q.loaded : r.loaded[m] = q.loaded[m]
    BY <2>2, AddedIs
  <2>5. Owned(r) /\ Filed(r)
    BY <2>3, <2>4 DEF Same, Owned, Filed
  <2>6. Safe[n] = n /\ n \in DOMAIN q.stemOwner
    BY <1>2, <2>3 DEF Filed
  <2>7. q.raw[n] = [path |-> c.path, version |-> c.version]
    <3>1. MadeOf(py, q.stemOwner[n])
      BY <2>3, <2>6 DEF Filed
    <3> QED  BY <2>1, <3>1 DEF MadeOf
  <2>8. /\ IsSeq(c.line) /\ Len(c.line) > 0 /\ Head(c.line) = n /\ Last(c.line) = n
        /\ c = [path |-> c.path, version |-> c.version, line |-> c.line]
    <3>1. c.line = <<n>> /\ <<n>> \in Seq({n})
      BY <2>1
    <3> QED  BY <2>1, <3>1 DEF IsSeq, Last
  <2>9. Made(r)
    BY <2>3, <2>4, <2>6, <2>7, <2>8 DEF Made, Same
  <2> QED  BY <2>5, <2>9 DEF Store
<1> QED  BY <1>1, <1>2

LEMMA SubclassKeeps ==
    ASSUME NEW q, Whole(q), Store(q), NEW src \in DOMAIN q.loaded, NEW n, n \notin DOMAIN q.loaded,
           NEW r, r = Subclass(q, src, n)
    PROVE  Store(r)
<1>1. Owned(q) /\ Filed(q) /\ Made(q)
  BY DEF Store
<1>2. PICK b : b = q.loaded[src]
  OBVIOUS
<1>3. /\ b = [path |-> b.path, version |-> b.version, line |-> b.line]
      /\ IsSeq(b.line) /\ Len(b.line) > 0
      /\ Last(b.line) \in DOMAIN q.generated /\ Safe[Last(b.line)] = Last(b.line)
      /\ q.raw[Last(b.line)] = [path |-> b.path, version |-> b.version]
  BY <1>1, <1>2 DEF Made
<1>4. PICK c : c = [b EXCEPT !.line = <<n>> \o b.line]
  OBVIOUS
<1>5. c = [path |-> b.path, version |-> b.version, line |-> <<n>> \o b.line]
  BY <1>3, <1>4
<1>6. /\ IsSeq(c.line) /\ Len(c.line) > 0 /\ Head(c.line) = n /\ Last(c.line) = Last(b.line)
  <2>1. PICK S : b.line \in Seq(S)
    BY <1>3 DEF IsSeq
  <2>2. <<n>> \in Seq(S \cup {n}) /\ b.line \in Seq(S \cup {n})
    BY <2>1
  <2>3. PICK l : l = <<n>> \o b.line
    OBVIOUS
  <2>4. /\ l \in Seq(S \cup {n}) /\ Len(l) = 1 + Len(b.line)
        /\ l[1] = n /\ l[Len(l)] = b.line[Len(b.line)]
    BY <1>3, <2>1, <2>2, <2>3
  <2>5. c.line = l
    BY <1>5, <2>3
  <2> QED  BY <1>3, <2>1, <2>4, <2>5 DEF IsSeq, Last
<1>7. r = Added(q, n, c)
  BY <1>2, <1>4 DEF Subclass, Added
<1>8. /\ Same(q, r) /\ DOMAIN r.loaded = DOMAIN q.loaded \cup {n} /\ r.loaded[n] = c
      /\ \A m \in DOMAIN q.loaded : r.loaded[m] = q.loaded[m]
  BY <1>7, AddedIs
<1>9. Owned(r) /\ Filed(r)
  BY <1>1, <1>8 DEF Same, Owned, Filed
<1>10. /\ c = [path |-> c.path, version |-> c.version, line |-> c.line]
       /\ c.path = b.path /\ c.version = b.version
  BY <1>5
<1>11. Made(r)
  BY <1>1, <1>3, <1>6, <1>8, <1>10 DEF Made, Same
<1> QED
  BY <1>9, <1>11 DEF Store

-----------------------------------------------------------------------------
(* The calls of a template: what each leaves. *)

Kept(r) ==
    /\ Whole(r) /\ Grew(Here, r)
    /\ Full => Store(r)
    /\ Full /\ edits = 0 => Searched(r, parsed)

LEMMA KeptOn ==
    ASSUME NEW q, Kept(q), NEW r, Same(q, r), Grew(q, r), Full => Store(r)
    PROVE  Kept(r)
BY GrewOn, SameSearched DEF Kept, Same

LEMMA HereKept ==
    ASSUME LoadInv
    PROVE  Kept(Here)
<1>1. Whole(Here)
  BY DEF Whole, Here
<1>2. Grew(Here, Here)
  BY DEF Grew
<1> QED  BY <1>1, <1>2 DEF LoadInv, Kept

LEMMA ImportedKept ==
    ASSUME NEW q, Kept(q), NEW n, n \notin DOMAIN q.loaded, n \in DOMAIN q.generated,
           NEW r, r = Import(q, n)
    PROVE  Kept(r)
<1>1. Same(q, r) /\ Grew(q, r)
  BY ImportIs DEF Kept
<1>2. Full => Store(r)
  BY ImportKeeps DEF Kept
<1> QED  BY <1>1, <1>2, KeptOn

LEMMA WriteKept ==
    ASSUME LoadInv, NEW n, n \notin DOMAIN generated, NEW path, path = SearchedFor(n),
           path # <<>>, MayWrite(path), NEW r, r = WriteGenerated(n, path)
    PROVE  Kept(r) /\ n \in DOMAIN r.generated /\ r.loaded = loaded
<1>1. path[2] = n
  BY SearchIsNamed DEF LoadInv
<1>2. Written(n, path, r)
  BY <1>1, WriteIs
<1>3. Whole(r) /\ Grew(Here, r)
  BY <1>2 DEF Written, Grew, Here
<1>4. Full => Store(r)
  BY <1>1, WriteKeeps DEF LoadInv
<1>5. Full /\ edits = 0 => Searched(r, parsed)
  BY <1>1, WriteSearched DEF LoadInv
<1> QED
  BY <1>2, <1>3, <1>4, <1>5 DEF Kept, Written

LEMMA ClaimKept ==
    ASSUME LoadInv, NEW path, MayWrite(path), NEW r, r = Claimed(path)
    PROVE  Kept(r)
<1>1. TakenFor(path, r)
  BY ClaimIs
<1>2. Whole(r) /\ Grew(Here, r)
  BY <1>1 DEF TakenFor, Grew, Here
<1>3. Full => Store(r)
  BY <1>1, ClaimKeeps DEF LoadInv
<1>4. Full /\ edits = 0 => Searched(r, parsed)
  BY <1>1, ClaimSearched DEF LoadInv
<1> QED
  BY <1>2, <1>3, <1>4 DEF Kept

LEMMA ResolvedKept ==
    ASSUME LoadInv, NEW n, NEW r, r = Resolved(n)
    PROVE  Kept(r)
<1>1. CASE n \in DOMAIN loaded
  BY <1>1, HereKept DEF Resolved
<1>2. CASE n \notin DOMAIN loaded /\ n \in DOMAIN generated
  <2>1. r = Import(Here, n)
    BY <1>2 DEF Resolved
  <2> QED  BY <1>2, <2>1, HereKept, ImportedKept DEF Here
<1>3. CASE n \notin DOMAIN loaded /\ n \notin DOMAIN generated
  <2>1. PICK path : path = SearchedFor(n)
    OBVIOUS
  <2>2. CASE path # <<>> /\ MayWrite(path) /\ Parses(path)
    <3>1. PICK q : q = WriteGenerated(n, path)
      OBVIOUS
    <3>2. r = Import(q, n)
      BY <1>3, <2>1, <2>2, <3>1 DEF Resolved
    <3>3. Kept(q) /\ n \in DOMAIN q.generated /\ q.loaded = loaded
      BY <1>3, <2>1, <2>2, <3>1, WriteKept
    <3> QED  BY <1>3, <3>2, <3>3, ImportedKept
  <2>3. CASE ~(path # <<>> /\ MayWrite(path))
    <3>1. r = Here
      BY <1>3, <2>1, <2>3 DEF Resolved
    <3> QED  BY <3>1, HereKept
  <2>4. CASE path # <<>> /\ MayWrite(path) /\ ~Parses(path)
    <3>1. r = Claimed(path)
      BY <1>3, <2>1, <2>4 DEF Resolved
    <3> QED  BY <2>4, <3>1, ClaimKept
  <2> QED  BY <2>2, <2>3, <2>4
<1> QED  BY <1>1, <1>2, <1>3

LEMMA AliasedKept ==
    ASSUME LoadInv, NEW src, NEW n, NEW r, r = Aliased(src, n)
    PROVE  Kept(r)
<1>1. PICK q : q = Resolved(src)
  OBVIOUS
<1>2. Kept(q)
  BY <1>1, ResolvedKept
<1>3. CASE r = q
  BY <1>2, <1>3
<1>4. CASE src \in DOMAIN q.loaded /\ n \notin DOMAIN q.loaded /\ r = Subclass(q, src, n)
  <2>1. r = Added(q, n, [q.loaded[src] EXCEPT !.line = <<n>> \o @])
    BY <1>4 DEF Subclass, Added
  <2>2. Same(q, r) /\ Grew(q, r)
    BY <1>2, <1>4, <2>1, AddedIs DEF Kept
  <2>3. Full => Store(r)
    BY <1>2, <1>4, SubclassKeeps DEF Kept
  <2> QED  BY <1>2, <2>2, <2>3, KeptOn
<1> QED
  BY <1>1, <1>3, <1>4 DEF Aliased

-----------------------------------------------------------------------------
(* The steps. *)

LEMMA SearchedSame ==
    ASSUME UNCHANGED <<files, inputs, srcPath, incPath>>
    PROVE  /\ \A n : SearchedFor(n)' = SearchedFor(n)
           /\ \A i : FindInput(i)' = FindInput(i)
BY DEF SearchedFor, InputsNamed, FirstNamed, FindInput, FindFile, Lookup, Exists, InputDirs, FallbackDirs

LEMMA BecomeKeeps ==
    ASSUME LoadInv, NEW r, Kept(r), Become(r), InProcess, reading = <<>>,
           Full /\ parsed < Len(inputs) => loaded' = <<>>,
           UNCHANGED <<files, mode, arguments, parsed, included, ran, processes, edits>>
    PROVE  LoadInv'
<1>1. Here' = r
  BY DEF Become, Kept, Whole, Here
<1>2. (Full => Store(Here))'
  BY <1>1 DEF Kept, Store, Owned, Filed, Made, Full
<1>3. (Full /\ edits = 0 => Searched(Here, parsed))'
  <2>1. /\ \A n : SearchedFor(n)' = SearchedFor(n)
        /\ \A i : FindInput(i)' = FindInput(i)
    BY SearchedSame DEF arguments
  <2> QED  BY <1>1, <2>1 DEF Kept, Searched, Full, arguments
<1>4. (ran \subseteq sources \cup included)'
  BY DEF LoadInv, Kept, Grew, Here, Become
<1> QED
  BY <1>2, <1>3, <1>4 DEF LoadInv, InProcess, Full, arguments

LEMMA ExitKeeps ==
    ASSUME LoadInv, Exit
    PROVE  LoadInv'
<1>1. ~InProcess' /\ ~Full' /\ reading' = <<>> /\ IsSeq(inputs')
  BY SMT DEF Exit, Idle, InProcess, Full, IsSeq
<1>2. Early' /\ ran' = {} /\ parsed' = 0 /\ edits' \in Nat
  BY DEF Exit, Early, LoadInv, Full
<1> QED
  BY <1>1, <1>2 DEF LoadInv, Early

\* Before anything is made the tables say nothing.
LEMMA EarlyIsEmpty ==
    ASSUME Early, Full
    PROVE  Store(Here) /\ Searched(Here, parsed)
<1>1. DOMAIN generated = {} /\ DOMAIN stemOwner = {} /\ DOMAIN loaded = {} /\ 1 .. parsed = {}
  BY DEF Early
<1> QED
  BY <1>1 DEF Store, Owned, Filed, Made, Searched, Here

LEMMA StartKeeps ==
    ASSUME LoadInv, NEW m \in {"full", "parse", "gen"}, NEW c \in CommandLines, Start(m, c)
    PROVE  LoadInv'
<1>1. IsSeq(inputs') /\ InProcess'
  BY CommandLineAssumption DEF Start, Begin, IsSeq, InProcess
<1>2. Early'
  BY DEF LoadInv, Start, Early, Full, Discovered
<1>3. Full' => Store(Here)' /\ Searched(Here, parsed)'
  BY <1>2, EarlyIsEmpty, PTL
<1>4. edits' \in Nat /\ parsed' \in Nat /\ ran' \subseteq sources' \cup included'
  BY DEF LoadInv, Start
<1> QED
  BY <1>1, <1>2, <1>3, <1>4 DEF LoadInv, Early

LEMMA ArgumentsKeep ==
    ASSUME LoadInv, ReadArguments, UNCHANGED <<files, raw, mode, process, processes, edits>>
    PROVE  LoadInv'
<1>1. reading # <<>>
  BY DEF ReadArguments, TakePath, PassOver, OpenList, EndOfList, More
<1>2. Early /\ InProcess
  BY <1>1 DEF LoadInv
<1>3. Early' /\ InProcess'
  BY <1>2 DEF Early, InProcess, Full, process
<1>4. IsSeq(inputs')
  <2>1. PICK S : inputs \in Seq(S)
    BY DEF LoadInv, IsSeq
  <2>2. inputs' = inputs \/ inputs' = Append(inputs, Line.arg)
    BY DEF ReadArguments, TakePath, PassOver, OpenList, EndOfList
  <2>3. PICK x : x = Line.arg
    OBVIOUS
  <2>4. inputs' \in Seq(S \cup {x})
    BY <2>1, <2>2, <2>3
  <2> QED  BY <2>4 DEF IsSeq
<1>5. Full' => Store(Here)' /\ Searched(Here, parsed)'
  BY <1>3, EarlyIsEmpty, PTL
<1> QED
  BY <1>3, <1>4, <1>5 DEF LoadInv, Early, process

LEMMA EditKeeps ==
    ASSUME LoadInv, NEW p, Edit(p)
    PROVE  LoadInv'
<1>1. Here' = Here /\ (Full' <=> Full) /\ (InProcess' <=> InProcess) /\ (Early' <=> Early)
  BY DEF Edit, process, Here, Full, InProcess, Early
<1>2. (Full => Store(Here))'
  BY <1>1 DEF LoadInv, Store, Owned, Filed, Made
<1>3. edits' \in Nat /\ edits' # 0
  BY DEF LoadInv, Edit
<1> QED
  BY <1>1, <1>2, <1>3 DEF LoadInv, Edit, process, arguments

\* The input parsed is what its name is searched for: an earlier input of the
\* name has the file already, and this one may write it only if it is the same.
LEMMA ParsedIsSearched ==
    ASSUME LoadInv, Full, edits = 0, parsed < Len(inputs),
           NEW path, path = FindInput(inputs[parsed + 1]), path # <<>>, MayWrite(path)
    PROVE  path = SearchedFor(inputs[parsed + 1][2])
<1> DEFINE n == inputs[parsed + 1][2]
           j == Min(InputsNamed(n))
<1>1. parsed \in Nat /\ IsSeq(inputs) /\ Len(inputs) \in Nat /\ DOMAIN inputs = 1 .. Len(inputs)
  BY SeqIs DEF LoadInv
<1>2. parsed + 1 \in InputsNamed(n)
  BY <1>1 DEF InputsNamed
<1>3. j \in InputsNamed(n) /\ j <= parsed + 1
  <2>1. InputsNamed(n) \subseteq Nat
    BY <1>1 DEF InputsNamed
  <2>2. j \in InputsNamed(n) /\ \A k \in InputsNamed(n) : j <= k
    BY <1>2, <2>1, Smallest
  <2> QED  BY <1>2, <2>2
<1>4. SearchedFor(n) = FindInput(inputs[j])
  BY <1>2 DEF SearchedFor, FirstNamed
<1>5. CASE j = parsed + 1
  BY <1>4, <1>5
<1>6. CASE j # parsed + 1
  <2>1. j \in 1 .. parsed /\ inputs[j][2] = n
    BY <1>1, <1>3, <1>6 DEF InputsNamed
  <2>2. n \in DOMAIN generated /\ stemOwner[Safe[n]] = FindInput(inputs[j])
    BY <2>1 DEF LoadInv, Searched, Here
  <2>3. Safe[n] \in DOMAIN stemOwner
    BY <2>2 DEF LoadInv, Store, Filed, Here
  <2>4. path[2] = n
    BY InputIsNamed
  <2>5. stemOwner[Safe[n]] = path
    BY <2>3, <2>4 DEF MayWrite, Stem
  <2> QED  BY <1>4, <2>2, <2>5
<1> QED  BY <1>5, <1>6

LEMMA ParseInputKeeps ==
    ASSUME LoadInv, ParseInput
    PROVE  LoadInv' /\ (loaded' = loaded \/ mode' = "none")
<1> DEFINE i == inputs[parsed + 1]
<1>1. PICK path : path = FindInput(i)
  OBVIOUS
<1>2. /\ reading = <<>> /\ InProcess /\ parsed < Len(inputs)
      /\ parsed \in Nat /\ IsSeq(inputs) /\ Len(inputs) \in Nat /\ DOMAIN inputs = 1 .. Len(inputs)
  BY SeqIs DEF ParseInput, Parsing, Argued, LoadInv
<1>3. CASE ~(path # <<>> /\ MayWrite(path) /\ Parses(path))
  <2>1. Exit
    BY <1>1, <1>3 DEF ParseInput
  <2> QED  BY <2>1, ExitKeeps DEF Exit
<1>4. CASE path # <<>> /\ MayWrite(path) /\ Parses(path)
  <2>1. PICK n : n = i[2]
    OBVIOUS
  <2>2. PICK r : r = WriteGenerated(n, path)
    OBVIOUS
  <2>3. /\ Become(r) /\ parsed' = parsed + 1
        /\ UNCHANGED <<files, mode, arguments, included, ran, processes, edits>>
    BY <1>1, <1>4, <2>1, <2>2 DEF ParseInput
  <2>4. path[2] = n
    BY <1>1, <1>4, <2>1, InputIsNamed
  <2>5. Written(n, path, r)
    BY <2>2, <2>4, WriteIs
  <2>6. loaded' = loaded /\ Here' = r
    BY <2>3, <2>5 DEF Become, Written, Whole, Here
  <2>7. (Full => Store(Here))'
    <3>1. SUFFICES ASSUME Full PROVE Store(r)
      BY <2>3, <2>6 DEF Store, Owned, Filed, Made, Full
    <3>2. DOMAIN loaded = {}
      BY <1>2, <3>1 DEF LoadInv
    <3>3. Store(Here)
      BY <3>1 DEF LoadInv
    <3> QED  BY <1>4, <2>2, <2>4, <3>2, <3>3, WriteKeeps
  <2>8. (Full /\ edits = 0 => Searched(Here, parsed))'
    <3>1. SUFFICES ASSUME Full, edits = 0 PROVE Searched(Here, parsed)'
      BY <2>3 DEF Full
    <3>2. Searched(r, parsed)
      <4>1. path = SearchedFor(n)
        BY <1>1, <1>2, <1>4, <2>1, <3>1, ParsedIsSearched
      <4>2. Store(Here) /\ Searched(Here, parsed)
        BY <3>1 DEF LoadInv
      <4> QED  BY <1>4, <2>2, <2>4, <4>1, <4>2, WriteSearched
    <3>3. ASSUME NEW k \in 1 .. parsed + 1
          PROVE  /\ k \in DOMAIN inputs /\ inputs[k][2] \in DOMAIN r.generated
                 /\ r.stemOwner[Safe[inputs[k][2]]] = FindInput(inputs[k])
      <4>1. CASE k \in 1 .. parsed
        BY <3>2, <4>1 DEF Searched
      <4>2. CASE k = parsed + 1
        BY <1>1, <1>2, <2>1, <2>5, <4>2 DEF Written
      <4> QED  BY <1>2, <4>1, <4>2
    <3>4. /\ \A m : SearchedFor(m)' = SearchedFor(m)
          /\ \A m : FindInput(m)' = FindInput(m)
          /\ inputs' = inputs
      BY <2>3, SearchedSame DEF arguments
    <3>5. /\ generated' = r.generated /\ stemOwner' = r.stemOwner /\ parsed' = parsed + 1
      BY <2>3 DEF Become
    <3>6. \A m \in DOMAIN generated' : stemOwner'[Safe[m]] = SearchedFor(m)'
      BY <3>2, <3>4, <3>5 DEF Searched
    <3>7. ASSUME NEW k \in 1 .. parsed'
          PROVE  /\ k \in DOMAIN inputs' /\ inputs'[k][2] \in DOMAIN generated'
                 /\ stemOwner'[Safe[inputs'[k][2]]] = FindInput(inputs[k])'
      BY <3>3, <3>4, <3>5, <3>7
    <3> QED  BY <3>6, <3>7 DEF Searched, Here
  <2>9. (ran \subseteq sources \cup included)'
    BY <2>3, <2>5 DEF LoadInv, Written, Become
  <2>10. (Full /\ parsed < Len(inputs) => loaded = <<>>)'
    BY <1>2, <2>3, <2>6 DEF LoadInv, Full, arguments
  <2>11. (edits \in Nat /\ parsed \in Nat /\ IsSeq(inputs) /\ InProcess /\ reading = <<>>)'
    BY <1>2, <2>3 DEF LoadInv, InProcess, arguments
  <2> QED  BY <2>6, <2>7, <2>8, <2>9, <2>10, <2>11 DEF LoadInv
<1> QED  BY <1>3, <1>4

LEMMA LoadTopKeeps ==
    ASSUME LoadInv, LoadTop
    PROVE  LoadInv' /\ loaded = <<>>
<1>1. loaded = <<>> /\ Top \in DOMAIN generated /\ reading = <<>> /\ InProcess
  BY DEF LoadTop, Ready, Argued
<1>2. PICK r : r = Import(Here, Top)
  OBVIOUS
<1>3. Kept(r)
  <2>1. Top \notin DOMAIN Here.loaded /\ Top \in DOMAIN Here.generated
    BY <1>1 DEF Here
  <2> QED  BY <1>2, <2>1, HereKept, ImportedKept
<1>4. Full => ~(parsed < Len(inputs))
  BY DEF LoadTop, Ready, Parsing, Full
<1> QED
  BY <1>1, <1>2, <1>3, <1>4, BecomeKeeps DEF LoadTop

LEMMA CallKeeps ==
    ASSUME LoadInv, NEW r, Kept(r), Call(r)
    PROVE  LoadInv' /\ \A n \in DOMAIN loaded : n \in DOMAIN loaded' /\ loaded'[n] = loaded[n]
<1>1. reading = <<>> /\ InProcess /\ (Full => ~(parsed < Len(inputs)))
  BY DEF Call, Elaborating, Ready, Argued, Parsing, Full
<1>2. LoadInv'
  BY <1>1, BecomeKeeps DEF Call
<1> QED
  BY <1>2 DEF Call, Become, Kept, Grew, Here

\* include and pyinclude.
LEMMA IncludeKeeps ==
    ASSUME LoadInv, NEW f, Include(f) \/ PyInclude(f)
    PROVE  LoadInv' /\ loaded' = loaded
<1>1. PICK path : /\ included' = included \cup {path}
                  /\ ran' \subseteq ran \cup {path}
                  /\ UNCHANGED <<files, raw, mode, arguments, parsed, generated, stemOwner,
                                 loaded, sources, processes, edits>>
  BY DEF Include, PyInclude
<1>2. reading = <<>> /\ InProcess
  BY DEF Include, PyInclude, Elaborating, Ready, Argued
<1>3. Here' = Here
  BY <1>1 DEF Here
<1>4. (Full => Store(Here))'
  BY <1>1, <1>3 DEF LoadInv, Store, Owned, Filed, Made, Full
<1>5. (Full /\ edits = 0 => Searched(Here, parsed))'
  <2>1. /\ \A n : SearchedFor(n)' = SearchedFor(n)
        /\ \A i : FindInput(i)' = FindInput(i)
    BY <1>1, SearchedSame DEF arguments
  <2> QED  BY <1>1, <1>3, <2>1 DEF LoadInv, Searched, Full, arguments
<1>6. (ran \subseteq sources \cup included)'
  BY <1>1 DEF LoadInv
<1> QED
  BY <1>1, <1>2, <1>4, <1>5, <1>6 DEF LoadInv, InProcess, Full, arguments

Settled == mode' = mode => \A n \in DOMAIN loaded : n \in DOMAIN loaded' /\ loaded'[n] = loaded[n]

LEMMA LoadStep ==
    ASSUME LoadInv, [Next]_vars
    PROVE  LoadInv' /\ Settled
<1>1. ASSUME NEW p \in Places, Edit(p) PROVE LoadInv' /\ Settled
  BY <1>1, EditKeeps DEF Edit, process, Settled
<1>2. ASSUME NEW m \in {"full", "parse", "gen"}, NEW c \in CommandLines, Start(m, c)
      PROVE  LoadInv' /\ Settled
  BY <1>2, StartKeeps DEF Start, Settled
<1>3. ASSUME ParseArgs PROVE LoadInv' /\ Settled
  <2>1. CASE ReadArguments /\ UNCHANGED <<files, raw, mode, process, processes, edits>>
    BY <2>1, ArgumentsKeep DEF process, Settled
  <2>2. CASE UsageError /\ Exit
    <3>1. InProcess
      BY <2>2 DEF UsageError, More, LoadInv
    <3> QED  BY <2>2, <3>1, ExitKeeps DEF Exit, InProcess, Settled
  <2> QED  BY <1>3, <2>1, <2>2 DEF ParseArgs
<1>4. ASSUME ParseInput PROVE LoadInv' /\ Settled
  <2>1. InProcess
    BY <1>4 DEF ParseInput, Parsing, Argued
  <2> QED  BY <1>4, <2>1, ParseInputKeeps DEF InProcess, Settled
<1>5. ASSUME LoadTop PROVE LoadInv' /\ Settled
  <2>1. LoadInv' /\ DOMAIN loaded = {}
    BY <1>5, LoadTopKeeps
  <2> QED  BY <2>1 DEF Settled
<1>6. ASSUME NEW n \in Names, Resolve(n) PROVE LoadInv' /\ Settled
  BY <1>6, ResolvedKept, CallKeeps DEF Resolve, Settled
<1>7. ASSUME NEW s \in Names, NEW t \in Targets, SynonymClass(s, t) PROVE LoadInv' /\ Settled
  BY <1>7, AliasedKept, CallKeeps DEF SynonymClass, Settled
<1>8. ASSUME NEW f \in Includes, Include(f) \/ PyInclude(f) PROVE LoadInv' /\ Settled
  BY <1>8, IncludeKeeps DEF Settled
<1>9. ASSUME Finish PROVE LoadInv' /\ Settled
  BY <1>9, ExitKeeps DEF Finish, Exit, InProcess, Settled
<1>10. ASSUME UNCHANGED vars PROVE LoadInv' /\ Settled
  <2>1. Here' = Here /\ (Full' <=> Full) /\ (InProcess' <=> InProcess) /\ (Early' <=> Early)
    BY <1>10 DEF vars, process, Here, Full, InProcess, Early
  <2>2. (Full => Store(Here))'
    BY <2>1 DEF LoadInv, Store, Owned, Filed, Made
  <2>3. (Full /\ edits = 0 => Searched(Here, parsed))'
    <3>1. /\ \A n : SearchedFor(n)' = SearchedFor(n)
          /\ \A i : FindInput(i)' = FindInput(i)
      BY <1>10, SearchedSame DEF vars, arguments
    <3> QED  BY <1>10, <2>1, <3>1 DEF LoadInv, Searched, vars, process, arguments
  <2>4. LoadInv'
    BY <1>10, <2>1, <2>2, <2>3 DEF LoadInv, vars, process, arguments
  <2> QED  BY <1>10, <2>4 DEF vars, process, Settled
<1> QED
  BY <1>1, <1>2, <1>3, <1>4, <1>5, <1>6, <1>7, <1>8, <1>9, <1>10 DEF Next

LEMMA LoadInit == Init => LoadInv
<1> SUFFICES ASSUME Init PROVE LoadInv
  OBVIOUS
<1>1. IsSeq(inputs) /\ reading = <<>> /\ ~InProcess /\ ~Full /\ Early
  BY SMT DEF Init, InitArguments, InProcess, Full, Early, IsSeq
<1> QED
  BY <1>1 DEF Init, LoadInv

\* The tables agree after every sequence of steps.
THEOREM LoadAlways == Spec => []LoadInv
<1>1. LoadInv /\ [Next]_vars => LoadInv'
  BY LoadStep
<1> QED
  BY <1>1, LoadInit, PTL DEF Spec

-----------------------------------------------------------------------------
(* What follows. *)

\* Where the class of a name came from: its file, which the process made.
LEMMA MadeFrom ==
    ASSUME LoadInv, Full, NEW n \in DOMAIN loaded, NEW l, l = Last(loaded[n].line)
    PROVE  /\ raw[l] = [path |-> loaded[n].path, version |-> loaded[n].version]
           /\ l \in DOMAIN generated /\ Safe[l] = l /\ l \in DOMAIN stemOwner
           /\ stemOwner[l] = loaded[n].path /\ stemOwner[l] \in sources
<1>1. Owned(Here) /\ Filed(Here) /\ Made(Here)
  BY DEF LoadInv, Store
<1>2. /\ raw[l] = [path |-> loaded[n].path, version |-> loaded[n].version]
      /\ l \in DOMAIN generated /\ Safe[l] = l
  BY <1>1 DEF Made, Here
<1>3. l \in DOMAIN stemOwner
  BY <1>1, <1>2 DEF Filed, Here
<1>4. stemOwner[l] \in sources /\ raw[l] = [path |-> stemOwner[l], version |-> raw[l].version]
  BY <1>1, <1>2, <1>3 DEF Owned, Filed, MadeOf, Here
<1>5. stemOwner[l] = loaded[n].path
  BY <1>2, <1>4
<1> QED  BY <1>2, <1>3, <1>4, <1>5

\* Every template a class of the run was made from is a prerequisite in
\* .depend, and so is every file an include executed.
THEOREM DependAlways == Spec => []DependComplete
<1>1. LoadInv => DependComplete
  BY MadeFrom DEF DependComplete, LoadInv
<1> QED
  BY <1>1, LoadAlways, PTL

\* The .py file of a class stays what the class was imported from.
THEOREM PyKeptAlways == Spec => []PyKept
<1>1. LoadInv => PyKept
  BY MadeFrom DEF PyKept
<1> QED
  BY <1>1, LoadAlways, PTL

\* What a name stands for does not depend on the order in which names are used,
\* on synonyms, on caught errors or on what is left of earlier processes.
THEOREM OrderFreeAlways == Spec => []OrderFree
<1>1. LoadInv => OrderFree
  <2>1. SUFFICES ASSUME LoadInv, Full, edits = 0, NEW n \in DOMAIN loaded, ~Synonym(n)
                 PROVE  loaded[n].path = SearchedFor(n)
    BY DEF OrderFree
  <2>2. Last(loaded[n].line) = n
    <3>1. PICK line : line = loaded[n].line
      OBVIOUS
    <3>2. IsSeq(line) /\ Len(line) > 0 /\ Head(line) = n
      <4>1. Made(Here)
        BY <2>1 DEF LoadInv, Store
      <4>2. IsSeq(loaded[n].line) /\ Len(loaded[n].line) > 0 /\ Head(loaded[n].line) = n
        BY <2>1, <4>1 DEF Made, Here
      <4> QED  BY <3>1, <4>2
    <3>3. Len(line) = 1
      <4>1. ~(Len(line) > 1)
        BY <2>1, <3>1 DEF Synonym
      <4>2. Len(line) \in Nat
        BY <3>2, SeqIs
      <4>3. Len(line) > 0
        BY <3>2
      <4>4. ASSUME NEW k \in Nat, k > 0, ~(k > 1) PROVE k = 1
        BY <4>4
      <4> QED  BY <4>1, <4>2, <4>3, <4>4
    <3> QED  BY <3>1, <3>2, <3>3 DEF IsSeq, Last
  <2>3. n \in DOMAIN generated /\ Safe[n] = n /\ stemOwner[n] = loaded[n].path
    BY <2>1, <2>2, MadeFrom
  <2>4. stemOwner[n] = SearchedFor(n)
    BY <2>1, <2>3 DEF LoadInv, Searched, Here
  <2> QED  BY <2>3, <2>4
<1> QED
  BY <1>1, LoadAlways, PTL

\* Within a process a name never changes its class, in any mode.
THEOREM ClassesStay == Spec => ClassesStable
<1>1. LoadInv /\ [Next]_vars =>
        [mode' = mode => \A n \in DOMAIN loaded : n \in DOMAIN loaded' /\ loaded'[n] = loaded[n]]_vars
  BY LoadStep DEF Settled
<1> QED
  BY <1>1, LoadAlways, PTL DEF Spec, ClassesStable

-----------------------------------------------------------------------------
(* What the lists name, level by level. *)

\* Induction over the natural numbers, for a set of them.
LEMMA AllNat ==
    ASSUME NEW S, 0 \in S, \A k \in Nat : k \in S => k + 1 \in S
    PROVE  \A k \in Nat : k \in S
<1> SUFFICES ASSUME Nat \ S # {} PROVE FALSE
  OBVIOUS
<1>1. PICK m : m \in Nat \ S /\ \A k \in Nat \ S : m <= k
  BY Smallest
<1>2. m \in Nat /\ m # 0 /\ m - 1 \in Nat /\ (m - 1) + 1 = m /\ ~(m <= m - 1)
  BY <1>1
<1>3. m - 1 \in S
  BY <1>1, <1>2
<1> QED
  BY <1>1, <1>2, <1>3

\* A line of list l names list m.
Refers(l, m) == \E i \in DOMAIN Lines(l) : Lines(l)[i].op = "--input-list" /\ Lines(l)[i].arg = m

LEMMA NamedIs ==
    ASSUME NEW ls, NEW m
    PROVE  m \in Named(ls) <=> m \in DOMAIN Lists /\ \E l \in ls : Refers(l, m)
BY DEF Named, Refers, ToSet

LEMMA NamedMore ==
    ASSUME NEW ls, NEW more, ls \subseteq more
    PROVE  Named(ls) \subseteq Named(more)
BY NamedIs

IsSpread(f, ls, d) == f = [n \in 0 .. d |-> IF n = 0 THEN Named(ls) ELSE f[n - 1] \cup Named(f[n - 1])]

LEMMA SpreadsExist ==
    ASSUME NEW ls
    PROVE  \A d \in Nat : \E f : IsSpread(f, ls, d)
<1> DEFINE S == {d \in Nat : \E f : IsSpread(f, ls, d)}
<1>1. 0 \in S
  <2>1. PICK f : f = [n \in 0 .. 0 |-> Named(ls)]
    OBVIOUS
  <2>2. IsSpread(f, ls, 0)
    BY <2>1 DEF IsSpread
  <2> QED
    BY <2>2
<1>2. ASSUME NEW d \in Nat, NEW f, IsSpread(f, ls, d)
      PROVE  \E g : IsSpread(g, ls, d + 1)
  <2>1. PICK g : g = [n \in 0 .. d + 1 |-> IF n = 0 THEN Named(ls) ELSE f[n - 1] \cup Named(f[n - 1])]
    OBVIOUS
  <2>2. ASSUME NEW n \in 0 .. d
        PROVE  g[n] = f[n]
    <3>1. f[n] = IF n = 0 THEN Named(ls) ELSE f[n - 1] \cup Named(f[n - 1])
      BY <1>2 DEF IsSpread
    <3>2. n \in 0 .. d + 1
      OBVIOUS
    <3> QED
      BY <2>1, <3>1, <3>2
  <2>3. \A n \in 0 .. d + 1 : n # 0 => n - 1 \in 0 .. d
    OBVIOUS
  <2>4. IsSpread(g, ls, d + 1)
    BY <2>1, <2>2, <2>3 DEF IsSpread
  <2> QED
    BY <2>4
<1>3. \A k \in Nat : k \in S => k + 1 \in S
  BY <1>2
<1> HIDE DEF S
<1>4. \A k \in Nat : k \in S
  BY <1>1, <1>3, AllNat
<1> QED
  BY <1>4 DEF S

\* The lists below some: those they name, and what these name, and no others.
LEMMA BelowIs ==
    ASSUME CommandLineAssumption, NEW ls
    PROVE  /\ Below(ls) \subseteq DOMAIN Lists
           /\ Named(ls) \subseteq Below(ls)
           /\ Named(Below(ls)) \subseteq Below(ls)
           /\ \A T : Named(ls) \subseteq T /\ Named(T) \subseteq T => Below(ls) \subseteq T
<1> DEFINE N == Cardinality(DOMAIN Lists)
           level[n \in 0 .. N] == IF n = 0 THEN Named(ls) ELSE level[n - 1] \cup Named(level[n - 1])
<1>0. N \in Nat
  BY FS_CardinalityType DEF CommandLineAssumption
<1>1. Below(ls) = level[N]
  BY Zenon DEF Below
<1>2. level = CHOOSE f : IsSpread(f, ls, N)
  BY Zenon DEF IsSpread
<1> HIDE DEF level
<1>3. IsSpread(level, ls, N)
  BY <1>0, <1>2, SpreadsExist
<1>4. PICK f, d : f = level /\ d = N
  OBVIOUS
<1>5. d \in Nat /\ IsSpread(f, ls, d) /\ IsFiniteSet(DOMAIN Lists) /\ Cardinality(DOMAIN Lists) = d
  BY <1>0, <1>3, <1>4 DEF CommandLineAssumption
<1> HIDE DEF N
<1>6. f[0] = Named(ls)
  BY <1>5 DEF IsSpread
<1>7. ASSUME NEW n \in Nat, n + 1 <= d
      PROVE  f[n + 1] = f[n] \cup Named(f[n])
  <2>1. n + 1 \in 0 .. d /\ n + 1 # 0 /\ (n + 1) - 1 = n
    BY <1>5, <1>7
  <2> QED
    BY <1>5, <2>1 DEF IsSpread
<1> DEFINE P(n) == /\ f[n] \subseteq DOMAIN Lists
                   /\ Named(ls) \subseteq f[n]
                   /\ Named(f[n]) \subseteq f[n] \/ n + 1 <= Cardinality(f[n])
                   /\ \A T : Named(ls) \subseteq T /\ Named(T) \subseteq T => f[n] \subseteq T
           S == {n \in Nat : n <= d => P(n)}
<1>8. 0 \in S
  <2>1. f[0] \subseteq DOMAIN Lists
    BY <1>6, NamedIs
  <2>2. CASE f[0] = {}
    <3>1. Named(f[0]) \subseteq f[0]
      BY <2>2, NamedIs
    <3> QED
      BY <1>6, <2>1, <3>1
  <2>3. CASE f[0] # {}
    <3>1. IsFiniteSet(f[0])
      BY <1>5, <2>1, FS_Subset
    <3>2. Cardinality(f[0]) \in Nat /\ Cardinality(f[0]) # 0
      BY <2>3, <3>1, FS_EmptySet, FS_CardinalityType
    <3>3. 0 + 1 <= Cardinality(f[0])
      BY <3>2
    <3> QED
      BY <1>6, <2>1, <3>3
  <2> QED
    BY <2>2, <2>3
<1>9. ASSUME NEW n \in Nat, P(n), n + 1 <= d
      PROVE  P(n + 1)
  <2>1. PICK g : g = f[n + 1]
    OBVIOUS
  <2>2. g = f[n] \cup Named(f[n])
    BY <1>7, <1>9, <2>1
  <2>3. g \subseteq DOMAIN Lists /\ Named(ls) \subseteq g
    BY <1>9, <2>2, NamedIs
  <2>4. ASSUME NEW T, Named(ls) \subseteq T /\ Named(T) \subseteq T
        PROVE  g \subseteq T
    <3>1. f[n] \subseteq T
      BY <1>9, <2>4
    <3>2. Named(f[n]) \subseteq Named(T)
      BY <3>1, NamedMore
    <3> QED
      BY <2>2, <2>4, <3>1, <3>2
  <2>5. CASE Named(f[n]) \subseteq f[n]
    <3>1. g = f[n]
      BY <2>2, <2>5
    <3>2. Named(g) \subseteq g
      BY <2>5, <3>1
    <3> QED
      BY <2>1, <2>3, <2>4, <3>2
  <2>6. CASE ~(Named(f[n]) \subseteq f[n])
    <3>1. PICK x \in Named(f[n]) : x \notin f[n]
      BY <2>6
    <3>2. IsFiniteSet(f[n]) /\ IsFiniteSet(g)
      BY <1>5, <1>9, <2>3, FS_Subset
    <3>3. PICK h : h = f[n] \cup {x}
      OBVIOUS
    <3>4. h \subseteq g
      BY <2>2, <3>1, <3>3
    <3>5. Cardinality(h) = Cardinality(f[n]) + 1
      BY <3>1, <3>2, <3>3, FS_AddElement
    <3>6. Cardinality(h) <= Cardinality(g)
      BY <3>2, <3>4, FS_Subset
    <3>7. Cardinality(f[n]) \in Nat /\ Cardinality(g) \in Nat
      BY <3>2, FS_CardinalityType
    <3>8. n + 1 <= Cardinality(f[n])
      BY <1>9, <2>6
    <3>9. (n + 1) + 1 <= Cardinality(g)
      BY <3>5, <3>6, <3>7, <3>8
    <3> QED
      BY <2>1, <2>3, <2>4, <3>9
  <2> QED
    BY <2>5, <2>6
<1>10. \A k \in Nat : k \in S => k + 1 \in S
  <2>1. ASSUME NEW k \in Nat, k \in S, k + 1 <= d
        PROVE  P(k + 1)
    <3>1. k <= d
      BY <1>5, <2>1
    <3>2. P(k)
      BY <2>1, <3>1
    <3> HIDE DEF P
    <3> QED
      BY <1>9, <2>1, <3>2
  <2> HIDE DEF P
  <2> QED
    BY <2>1
<1> HIDE DEF S
<1>11. d \in S
  BY <1>5, <1>8, <1>10, AllNat
<1>12. P(d)
  BY <1>5, <1>11 DEF S
<1>13. Named(f[d]) \subseteq f[d]
  <2>1. Cardinality(f[d]) <= d
    BY <1>5, <1>12, FS_Subset
  <2>2. IsFiniteSet(f[d])
    BY <1>5, <1>12, FS_Subset
  <2>3. Cardinality(f[d]) \in Nat
    BY <2>2, FS_CardinalityType
  <2>4. ~(d + 1 <= Cardinality(f[d]))
    BY <1>5, <2>1, <2>3
  <2> QED
    BY <1>12, <2>4
<1>14. Below(ls) = f[d]
  BY <1>1, <1>4 DEF N
<1> QED
  BY <1>12, <1>13, <1>14

-----------------------------------------------------------------------------
(* The walk, for the command line c and the files e. *)

LinesIn(c, l) == IF l = Argv
                 THEN [i \in DOMAIN c.lists |-> [op |-> "--input-list", arg |-> c.lists[i]]]
                 ELSE Lists[l]
ThereIn(e, line) == CASE line.op = "--input"      -> line.arg \in e
                      [] line.op = "--input-list" -> line.arg \in DOMAIN Lists
                      [] OTHER                    -> TRUE
TakenIn(e, line) == line.op \in {"bare", "--input"} /\ ThereIn(e, line)
Leads(c, l, m) == \E i \in DOMAIN LinesIn(c, l) :
                     LinesIn(c, l)[i].op = "--input-list" /\ LinesIn(c, l)[i].arg = m

Entry == [list : DOMAIN Lists \cup {Argv}, next : Nat \ {0}]
IsCommand(c) == IsSeq(c.inputs) /\ IsSeq(c.lists)

\* The lists being read: the command line's at the bottom, each list once, none
\* that has been read.
Stack(c, r, d) ==
    /\ r \in Seq(Entry)
    /\ d \subseteq DOMAIN Lists
    /\ r # <<>> => r[1].list = Argv
    /\ \A f \in 2 .. Len(r) : r[f].list \in DOMAIN Lists \ d
    /\ \A f, g \in 1 .. Len(r) : r[f].list = r[g].list => f = g
    /\ \A f \in 1 .. Len(r) : r[f].next <= Len(LinesIn(c, r[f].list)) + 1

\* A list named by a line that is behind has been read, or is the one above.
NamedAt(c, f, m) ==
    \E i \in DOMAIN LinesIn(c, f.list) :
        i < f.next /\ LinesIn(c, f.list)[i].op = "--input-list" /\ LinesIn(c, f.list)[i].arg = m
Opened(c, r, d) ==
    \A f \in 1 .. Len(r) : \A m \in DOMAIN Lists :
        NamedAt(c, r[f], m) => m \in d \/ (f + 1 \in 1 .. Len(r) /\ m = r[f + 1].list)

\* The lists that have been read name only such lists, none of them leads to
\* itself, and the command line leads to each list that is read.
After(c, l, ls) == \A m \in DOMAIN Lists : Leads(c, l, m) => m \in ls
Closed(c, ls)   == \A l \in ls : After(c, l, ls)
Acyclic(c, r, d) ==
    /\ Closed(c, d)
    /\ \A l \in d : \E ls : l \notin ls /\ After(c, l, ls) /\ Closed(c, ls)
    /\ \A ls : After(c, Argv, ls) /\ Closed(c, ls) =>
          d \subseteq ls /\ \A f \in 2 .. Len(r) : r[f].list \in ls
    /\ r = <<>> => After(c, Argv, d)

\* The paths that are behind: <<list, number of the line>>.
Behind(r, d, l, i) == l \in d \/ \E f \in 1 .. Len(r) : r[f].list = l /\ i < r[f].next
Spot(e, l, i)      == l \in DOMAIN Lists /\ i \in DOMAIN Lists[l] /\ TakenIn(e, Lists[l][i])
Seen(e, r, d, p) ==
    {s \in (DOMAIN Lists) \X Nat :
        Spot(e, s[1], s[2]) /\ Behind(r, d, s[1], s[2]) /\ Lists[s[1]][s[2]].arg = p}

\* They are what has been added to the inputs, those of a list in their order.
At(a, s, m)     == m \in 1 .. Len(a) /\ a[m] = Lists[s[1]][s[2]].arg
Counted(c, e, r, d, a) ==
    /\ IsSeq(a)
    /\ Len(c.inputs) <= Len(a)
    /\ \A i \in 1 .. Len(c.inputs) : a[i] = c.inputs[i]
    /\ \A p : /\ IsFiniteSet(Seen(e, r, d, p))
              /\ Times(p, a) = Times(p, c.inputs) + Cardinality(Seen(e, r, d, p))
Ordered(c, e, r, d, a) ==
    /\ \A p : \A s \in Seen(e, r, d, p) : \E m : Len(c.inputs) < m /\ At(a, s, m)
    /\ \A p, q : \A s \in Seen(e, r, d, p), t \in Seen(e, r, d, q) :
          s[1] = t[1] /\ s[2] < t[2] =>
              \E m, n : Len(c.inputs) < m /\ m < n /\ At(a, s, m) /\ At(a, t, n)

Walk(c, e, r, d, a) ==
    /\ IsCommand(c)
    /\ Stack(c, r, d)
    /\ Opened(c, r, d)
    /\ Acyclic(c, r, d)
    /\ Counted(c, e, r, d, a)
    /\ Ordered(c, e, r, d, a)

-----------------------------------------------------------------------------
(* The steps of the walk. *)

LEMMA LinesAre ==
    ASSUME CommandLineAssumption, NEW c, IsCommand(c), NEW l \in DOMAIN Lists \cup {Argv}
    PROVE  /\ Len(LinesIn(c, l)) \in Nat
           /\ DOMAIN LinesIn(c, l) = 1 .. Len(LinesIn(c, l))
           /\ l = Argv => \A i \in DOMAIN LinesIn(c, l) : LinesIn(c, l)[i].op = "--input-list"
           /\ l # Argv => LinesIn(c, l) = Lists[l]
           /\ Argv \notin DOMAIN Lists
<1>0. Argv \notin DOMAIN Lists
  BY DEF CommandLineAssumption
<1>1. CASE l = Argv
  <2>1. Len(c.lists) \in Nat /\ DOMAIN c.lists = 1 .. Len(c.lists)
    BY SeqIs DEF IsCommand
  <2>2. PICK n, ll : n = Len(c.lists) /\ ll = c.lists
    OBVIOUS
  <2>3. PICK x : x = [i \in 1 .. n |-> [op |-> "--input-list", arg |-> ll[i]]]
    OBVIOUS
  <2>4. LinesIn(c, l) = x
    BY <1>1, <2>1, <2>2, <2>3 DEF LinesIn
  <2>5. DOMAIN x = 1 .. n /\ \A i \in DOMAIN x : x[i].op = "--input-list"
    BY <2>3
  <2>6. x \in Seq({x[i] : i \in 1 .. n})
    <3>1. PICK X : X = {x[i] : i \in 1 .. n}
      OBVIOUS
    <3>2. x \in [1 .. n -> X]
      BY <2>3, <3>1
    <3>3. n \in Nat
      BY <2>1, <2>2
    <3> QED
      BY <3>1, <3>2, <3>3
  <2>7. Len(x) = n
    BY <2>1, <2>2, <2>5, <2>6
  <2> QED
    BY <1>0, <1>1, <2>1, <2>2, <2>4, <2>5, <2>7
<1>2. CASE l # Argv
  <2>1. LinesIn(c, l) = Lists[l]
    BY <1>2 DEF LinesIn
  <2>2. Lists[l] \in Seq(ToSet(Lists[l]))
    BY <1>2 DEF CommandLineAssumption
  <2> QED
    BY <1>0, <1>2, <2>1, <2>2
<1> QED
  BY <1>1, <1>2

\* The list on top goes on to its next line.
IsAdvanced(r, q) ==
    /\ q \in Seq(Entry) /\ Len(q) = Len(r) /\ Len(r) \in Nat \ {0}
    /\ \A f \in 1 .. Len(r) : q[f].list = r[f].list
    /\ \A f \in 1 .. Len(r) : f # Len(r) => q[f].next = r[f].next
    /\ q[Len(r)].next = r[Len(r)].next + 1

LEMMA AdvancedIs ==
    ASSUME NEW r \in Seq(Entry), r # <<>>
    PROVE  IsAdvanced(r, [r EXCEPT ![Len(r)].next = @ + 1])
<1>1. PICK n : n = Len(r)
  OBVIOUS
<1>2. n \in Nat \ {0} /\ n \in 1 .. Len(r)
  BY <1>1
<1>3. PICK q : q = [r EXCEPT ![n].next = @ + 1]
  OBVIOUS
<1>4. r[n] \in Entry
  BY <1>2
<1>5. PICK x : x = [r[n] EXCEPT !.next = @ + 1]
  OBVIOUS
<1>6. x \in Entry /\ x.list = r[n].list /\ x.next = r[n].next + 1
  BY <1>4, <1>5 DEF Entry
<1>7. q = [r EXCEPT ![n] = x]
  BY <1>3, <1>5
<1>8. q \in Seq(Entry) /\ Len(q) = n /\ q[n] = x /\ \A f \in 1 .. n : f # n => q[f] = r[f]
  BY <1>1, <1>2, <1>6, <1>7
<1> QED
  BY <1>1, <1>2, <1>3, <1>6, <1>8 DEF IsAdvanced

\* The list on top.
LEMMA TopIs ==
    ASSUME CommandLineAssumption, NEW c, IsCommand(c), NEW r, NEW d, Stack(c, r, d), r # <<>>,
           NEW n, n = Len(r), NEW l, l = r[n].list
    PROVE  /\ n \in Nat \ {0} /\ n \in 1 .. Len(r)
           /\ l \in DOMAIN Lists \cup {Argv} /\ r[n].next \in Nat \ {0}
           /\ r[n].next <= Len(LinesIn(c, l)) + 1
           /\ l # Argv => n \in 2 .. Len(r) /\ l \in DOMAIN Lists \ d
           /\ l = Argv => n = 1
<1>1. n \in Nat \ {0} /\ n \in 1 .. Len(r) /\ 1 \in 1 .. Len(r)
  BY DEF Stack
<1>2. r[n] \in Entry /\ l \in DOMAIN Lists \cup {Argv} /\ r[n].next \in Nat \ {0}
  <2>1. r[n] \in Entry
    BY <1>1 DEF Stack
  <2> QED
    BY <2>1 DEF Entry
<1>3. r[n].next <= Len(LinesIn(c, l)) + 1
  BY <1>1 DEF Stack
<1>4. r[1].list = Argv
  BY DEF Stack
<1>5. n # 1 => n \in 2 .. Len(r)
  BY <1>1
<1>6. n # 1 => l \in DOMAIN Lists \ d
  BY <1>5 DEF Stack
<1>7. Argv \notin DOMAIN Lists
  BY DEF CommandLineAssumption
<1> QED
  BY <1>1, <1>2, <1>3, <1>4, <1>5, <1>6, <1>7

\* What is behind decides what has been seen.
LEMMA SameSeen ==
    ASSUME NEW e, NEW r, NEW d, NEW q, NEW b,
           \A l \in DOMAIN Lists, i \in Nat : Spot(e, l, i) => (Behind(q, b, l, i) <=> Behind(r, d, l, i))
    PROVE  \A p : Seen(e, q, b, p) = Seen(e, r, d, p)
<1>1. ASSUME NEW p, NEW s \in (DOMAIN Lists) \X Nat
      PROVE  s \in Seen(e, q, b, p) <=> s \in Seen(e, r, d, p)
  <2>1. s[1] \in DOMAIN Lists /\ s[2] \in Nat
    OBVIOUS
  <2>2. Spot(e, s[1], s[2]) => (Behind(q, b, s[1], s[2]) <=> Behind(r, d, s[1], s[2]))
    BY <2>1
  <2> QED
    BY <2>2, Zenon DEF Seen
<1>2. ASSUME NEW p
      PROVE  Seen(e, q, b, p) = Seen(e, r, d, p)
  <2>1. Seen(e, q, b, p) \subseteq (DOMAIN Lists) \X Nat /\ Seen(e, r, d, p) \subseteq (DOMAIN Lists) \X Nat
    <3>1. \A s \in Seen(e, q, b, p) : s \in (DOMAIN Lists) \X Nat
      BY Zenon DEF Seen
    <3>2. \A s \in Seen(e, r, d, p) : s \in (DOMAIN Lists) \X Nat
      BY Zenon DEF Seen
    <3> QED
      BY <3>1, <3>2
  <2> QED
    BY <1>1, <2>1
<1> QED
  BY <1>2

LEMMA SeenKeeps ==
    ASSUME NEW c, NEW e, NEW r, NEW d, NEW q, NEW b, NEW a,
           \A p : Seen(e, q, b, p) = Seen(e, r, d, p),
           Counted(c, e, r, d, a), Ordered(c, e, r, d, a)
    PROVE  Counted(c, e, q, b, a) /\ Ordered(c, e, q, b, a)
<1>1. Counted(c, e, q, b, a)
  BY DEF Counted
<1>2. Ordered(c, e, q, b, a)
  BY DEF Ordered
<1> QED
  BY <1>1, <1>2

\* One line further in the list on top.
LEMMA FurtherStack ==
    ASSUME CommandLineAssumption, NEW c, IsCommand(c), NEW r, NEW d, Stack(c, r, d),
           Opened(c, r, d), Acyclic(c, r, d), r # <<>>,
           r[Len(r)].next <= Len(LinesIn(c, r[Len(r)].list)), NEW q, IsAdvanced(r, q)
    PROVE  /\ Stack(c, q, d) /\ Acyclic(c, q, d)
           /\ \A f \in 1 .. Len(r) : f # Len(r) => \A m : NamedAt(c, q[f], m) <=> NamedAt(c, r[f], m)
<1>1. PICK n, l : n = Len(r) /\ l = r[n].list
  OBVIOUS
<1>2. PICK k, z : k = r[n].next /\ z = Len(LinesIn(c, l))
  OBVIOUS
<1>3. n \in Nat \ {0} /\ k \in Nat \ {0} /\ z \in Nat /\ k <= z
  BY <1>1, <1>2, TopIs, LinesAre
<1>4. /\ q \in Seq(Entry) /\ Len(q) = n
      /\ \A f \in 1 .. n : q[f].list = r[f].list
      /\ \A f \in 1 .. n : f # n => q[f].next = r[f].next
      /\ q[n].next = k + 1
  BY <1>1, <1>2 DEF IsAdvanced
<1>5. q # <<>> /\ 1 \in 1 .. n
  BY <1>3, <1>4
<1>6. Stack(c, q, d)
  <2>1. \A f \in 1 .. n : q[f].next <= Len(LinesIn(c, q[f].list)) + 1
    <3>1. ASSUME NEW f \in 1 .. n
          PROVE  q[f].next <= Len(LinesIn(c, q[f].list)) + 1
      <4>1. CASE f = n
        <5>1. LinesIn(c, q[f].list) = LinesIn(c, l)
          BY <1>1, <1>4, <4>1
        <5> QED
          BY <1>2, <1>3, <1>4, <4>1, <5>1
      <4>2. CASE f # n
        <5>1. q[f].next = r[f].next /\ LinesIn(c, q[f].list) = LinesIn(c, r[f].list)
          BY <1>4, <4>2
        <5>2. r[f].next <= Len(LinesIn(c, r[f].list)) + 1
          BY <1>1 DEF Stack
        <5> QED
          BY <5>1, <5>2
      <4> QED
        BY <4>1, <4>2
    <3> QED
      BY <3>1
  <2>2. \A f \in 2 .. n : q[f].list \in DOMAIN Lists \ d
    <3>1. ASSUME NEW f \in 2 .. n
          PROVE  q[f].list \in DOMAIN Lists \ d
      <4>1. f \in 1 .. n /\ r[f].list \in DOMAIN Lists \ d
        BY <1>1, <1>3 DEF Stack
      <4> QED
        BY <1>4, <4>1
    <3> QED
      BY <3>1
  <2>3. \A f, g \in 1 .. n : q[f].list = q[g].list => f = g
    BY <1>1, <1>4 DEF Stack
  <2>4. q[1].list = Argv /\ d \subseteq DOMAIN Lists
    BY <1>4, <1>5 DEF Stack
  <2> QED
    BY <1>4, <2>1, <2>2, <2>3, <2>4 DEF Stack
<1>7. Acyclic(c, q, d)
  <2>1. \A f \in 2 .. n : q[f].list = r[f].list
    BY <1>3, <1>4
  <2> QED
    BY <1>1, <1>4, <1>5, <2>1 DEF Acyclic
<1>8. ASSUME NEW f \in 1 .. Len(r), f # Len(r), NEW m
      PROVE  NamedAt(c, q[f], m) <=> NamedAt(c, r[f], m)
  BY <1>1, <1>4, <1>8, Zenon DEF NamedAt
<1> QED
  BY <1>6, <1>7, <1>8

\* What the top list names then.
Numbered(x) == DOMAIN x \subseteq Nat
NamesNext(c, f, m) == /\ LinesIn(c, f.list)[f.next].op = "--input-list"
                      /\ LinesIn(c, f.list)[f.next].arg = m
LEMMA FurtherNamed ==
    ASSUME NEW c, NEW r, r \in Seq(Entry), r # <<>>, NEW q, IsAdvanced(r, q),
           NEW m, NamedAt(c, q[Len(r)], m),
           Numbered(LinesIn(c, r[Len(r)].list))
    PROVE  NamedAt(c, r[Len(r)], m) \/ NamesNext(c, r[Len(r)], m)
<1>1. PICK n, l, k : n = Len(r) /\ l = r[n].list /\ k = r[n].next
  OBVIOUS
<1>2. n \in 1 .. Len(r) /\ r[n] \in Entry
  BY <1>1
<1>3. k \in Nat /\ q[n].list = l /\ q[n].next = k + 1
  BY <1>1, <1>2 DEF IsAdvanced, Entry
<1>4. PICK i \in DOMAIN LinesIn(c, l) :
         i < k + 1 /\ LinesIn(c, l)[i].op = "--input-list" /\ LinesIn(c, l)[i].arg = m
  BY <1>1, <1>3 DEF NamedAt
<1>5. i \in Nat
  BY <1>1 DEF Numbered
<1>6. CASE i = k
  BY <1>1, <1>4, <1>6 DEF NamesNext
<1>7. CASE i # k
  <2>1. i < k
    BY <1>3, <1>4, <1>5, <1>7
  <2> QED
    BY <1>1, <1>4, <2>1 DEF NamedAt
<1> QED
  BY <1>6, <1>7

LEMMA FurtherOpened ==
    ASSUME CommandLineAssumption, NEW c, IsCommand(c), NEW r, NEW d, Stack(c, r, d),
           Opened(c, r, d), Acyclic(c, r, d), r # <<>>,
           r[Len(r)].next <= Len(LinesIn(c, r[Len(r)].list)), NEW q, IsAdvanced(r, q),
           NEW line, line = LinesIn(c, r[Len(r)].list)[r[Len(r)].next],
           line.op = "--input-list" /\ line.arg \in DOMAIN Lists => line.arg \in d
    PROVE  Opened(c, q, d)
<1>1. PICK n : n = Len(r)
  OBVIOUS
<1>2. r \in Seq(Entry) /\ n \in Nat \ {0} /\ Len(q) = n
  BY <1>1 DEF Stack, IsAdvanced
<1>3. DOMAIN LinesIn(c, r[n].list) \subseteq Nat
  <2>1. r[n].list \in DOMAIN Lists \cup {Argv}
    BY <1>1, TopIs
  <2> QED
    BY <2>1, LinesAre
<1>4. ASSUME NEW f \in 1 .. n, NEW m \in DOMAIN Lists, NamedAt(c, q[f], m)
      PROVE  m \in d \/ (f + 1 \in 1 .. n /\ m = q[f + 1].list)
  <2>1. CASE f = n
    <3>1. NamedAt(c, r[n], m) \/ (line.op = "--input-list" /\ line.arg = m)
      <4>1. NamedAt(c, q[Len(r)], m)
        BY <1>1, <1>4, <2>1
      <4>2. Numbered(LinesIn(c, r[Len(r)].list))
        BY <1>1, <1>3 DEF Numbered
      <4>3. NamedAt(c, r[Len(r)], m) \/ NamesNext(c, r[Len(r)], m)
        BY <1>2, <4>1, <4>2, FurtherNamed, Zenon
      <4> QED
        BY <1>1, <4>3 DEF NamesNext
    <3>2. NamedAt(c, r[n], m) => m \in d
      <4>1. n \in 1 .. Len(r) /\ ~(n + 1 \in 1 .. Len(r))
        BY <1>1, <1>2
      <4> QED
        BY <4>1 DEF Opened
    <3> QED
      BY <3>1, <3>2
  <2>2. CASE f # n
    <3>1. NamedAt(c, r[f], m)
      BY <1>1, <1>4, <2>2, FurtherStack
    <3>2. m \in d \/ (f + 1 \in 1 .. n /\ m = r[f + 1].list)
      BY <1>1, <3>1 DEF Opened
    <3>3. f + 1 \in 1 .. n => q[f + 1].list = r[f + 1].list
      BY <1>1 DEF IsAdvanced
    <3> QED
      BY <3>2, <3>3
  <2> QED
    BY <2>1, <2>2
<1> QED
  BY <1>2, <1>4 DEF Opened

LEMMA FurtherBehind ==
    ASSUME NEW r, r \in Seq(Entry), r # <<>>, NEW q, IsAdvanced(r, q), NEW d,
           NEW n, n = Len(r), NEW x, NEW i \in Nat
    PROVE  Behind(q, d, x, i) <=> Behind(r, d, x, i) \/ (x = r[n].list /\ i = r[n].next)
<1>1. n \in 1 .. Len(r) /\ r[n] \in Entry
  OBVIOUS
<1>2. PICK k : k = r[n].next
  OBVIOUS
<1>3. k \in Nat
  BY <1>1, <1>2 DEF Entry
<1>4. /\ Len(q) = n
      /\ \A f \in 1 .. n : q[f].list = r[f].list
      /\ \A f \in 1 .. n : f # n => q[f].next = r[f].next
      /\ q[n].next = k + 1
  BY <1>1, <1>2 DEF IsAdvanced
<1>5. ASSUME NEW f \in 1 .. n
      PROVE  (q[f].list = x /\ i < q[f].next) <=>
             (r[f].list = x /\ i < r[f].next) \/ (f = n /\ x = r[n].list /\ i = k)
  <2>1. CASE f = n
    BY <1>2, <1>3, <1>4, <2>1
  <2>2. CASE f # n
    BY <1>4, <2>2
  <2> QED
    BY <2>1, <2>2
<1> QED
  BY <1>1, <1>2, <1>4, <1>5 DEF Behind

\* A line that holds no path and names no list but one that has been read.
LEMMA PassKeeps ==
    ASSUME CommandLineAssumption, NEW c, NEW e, NEW r, NEW d, NEW a, Walk(c, e, r, d, a), r # <<>>,
           r[Len(r)].next <= Len(LinesIn(c, r[Len(r)].list)), NEW q, IsAdvanced(r, q),
           NEW line, line = LinesIn(c, r[Len(r)].list)[r[Len(r)].next],
           line.op = "--input-list" /\ line.arg \in DOMAIN Lists => line.arg \in d,
           r[Len(r)].list # Argv => ~TakenIn(e, line)
    PROVE  Walk(c, e, q, d, a)
<1>1. /\ IsCommand(c) /\ Stack(c, r, d) /\ Opened(c, r, d) /\ Acyclic(c, r, d)
      /\ Counted(c, e, r, d, a) /\ Ordered(c, e, r, d, a)
  BY DEF Walk
<1>2. Stack(c, q, d) /\ Acyclic(c, q, d)
  BY <1>1, FurtherStack
<1>3. Opened(c, q, d)
  BY <1>1, FurtherOpened
<1>4. PICK n : n = Len(r)
  OBVIOUS
<1>5. r \in Seq(Entry)
  BY <1>1 DEF Stack
<1>6. ASSUME NEW x \in DOMAIN Lists, NEW i \in Nat, Spot(e, x, i)
      PROVE  Behind(q, d, x, i) <=> Behind(r, d, x, i)
  <2>1. ~(x = r[n].list /\ i = r[n].next)
    <3>1. SUFFICES ASSUME x = r[n].list, i = r[n].next
                   PROVE  FALSE
      OBVIOUS
    <3>2. x # Argv /\ LinesIn(c, x) = Lists[x]
      BY <1>1, LinesAre
    <3>3. TakenIn(e, Lists[x][i])
      BY <1>6 DEF Spot
    <3>4. line = Lists[x][i]
      BY <1>4, <3>1, <3>2
    <3> QED
      BY <1>4, <3>1, <3>2, <3>3, <3>4
  <2> QED
    BY <1>4, <1>5, <2>1, FurtherBehind
<1>7. \A p : Seen(e, q, d, p) = Seen(e, r, d, p)
  BY <1>6, SameSeen
<1> QED
  BY <1>1, <1>2, <1>3, <1>7, SeenKeeps DEF Walk

-----------------------------------------------------------------------------
(* Counting the inputs. *)

LEMMA TimesAre ==
    ASSUME NEW a, IsSeq(a), NEW p
    PROVE  IsFiniteSet({i \in DOMAIN a : a[i] = p}) /\ Times(p, a) \in Nat
<1>1. PICK X : X = {i \in DOMAIN a : a[i] = p}
  OBVIOUS
<1>2. IsFiniteSet(1 .. Len(a))
  <2>1. Len(a) \in Nat
    BY SeqIs
  <2> QED
    BY <2>1, FS_Interval
<1>3. X \subseteq 1 .. Len(a)
  BY <1>1, SeqIs
<1>4. IsFiniteSet(X)
  BY <1>2, <1>3, FS_Subset
<1> QED
  BY <1>1, <1>4, FS_CardinalityType DEF Times

LEMMA TimesMore ==
    ASSUME NEW a, IsSeq(a), NEW x, NEW p
    PROVE  Times(p, Append(a, x)) = Times(p, a) + IF p = x THEN 1 ELSE 0
<1>1. PICK X, n : X = {i \in DOMAIN a : a[i] = p} /\ n = Len(a)
  OBVIOUS
<1>2. PICK b : b = Append(a, x)
  OBVIOUS
<1>3. n \in Nat /\ DOMAIN a = 1 .. n
  BY <1>1, SeqIs
<1>4. DOMAIN b = 1 .. n + 1 /\ b[n + 1] = x /\ \A i \in 1 .. n : b[i] = a[i]
  <2>1. PICK S : a \in Seq(S)
    BY DEF IsSeq
  <2>2. PICK T : T = S \cup {x}
    OBVIOUS
  <2>3. a \in Seq(T) /\ x \in T
    BY <2>1, <2>2
  <2>4. b \in Seq(T) /\ Len(b) = n + 1
    BY <1>1, <1>2, <2>3
  <2> QED
    BY <1>1, <1>2, <1>3, <2>3, <2>4
<1>5. PICK Y : Y = {i \in DOMAIN b : b[i] = p}
  OBVIOUS
<1>6. Times(p, a) = Cardinality(X) /\ Times(p, b) = Cardinality(Y)
  BY <1>1, <1>5 DEF Times
<1>7. IsFiniteSet(X) /\ Cardinality(X) \in Nat
  BY <1>1, TimesAre DEF Times
<1>8. CASE p = x
  <2>1. Y = X \cup {n + 1}
    BY <1>1, <1>3, <1>4, <1>5, <1>8
  <2>2. ~(n + 1 \in X)
    BY <1>1, <1>3
  <2>3. Cardinality(Y) = Cardinality(X) + 1
    BY <1>7, <2>1, <2>2, FS_AddElement
  <2> QED
    BY <1>2, <1>6, <1>8, <2>3
<1>9. CASE p # x
  <2>1. Y = X
    BY <1>1, <1>3, <1>4, <1>5, <1>9
  <2> QED
    BY <1>2, <1>6, <1>7, <1>9, <2>1
<1> QED
  BY <1>8, <1>9

Longer(a, x, b) ==
    IsSeq(b) /\ Len(b) = Len(a) + 1 /\ b[Len(b)] = x /\ \A i \in 1 .. Len(a) : b[i] = a[i]

LEMMA AppendIs ==
    ASSUME NEW a, IsSeq(a), NEW x
    PROVE  Longer(a, x, Append(a, x))
<1>1. PICK S : a \in Seq(S)
  BY DEF IsSeq
<1>2. PICK T, b : T = S \cup {x} /\ b = Append(a, x)
  OBVIOUS
<1>3. a \in Seq(T) /\ x \in T
  BY <1>1, <1>2
<1>4. b \in Seq(T) /\ Len(b) = Len(a) + 1
  BY <1>2, <1>3
<1>5. IsSeq(b)
  BY <1>4 DEF IsSeq
<1>6. b[Len(b)] = x /\ \A i \in 1 .. Len(a) : b[i] = a[i]
  BY <1>2, <1>3, <1>4
<1> QED
  BY <1>2, <1>4, <1>5, <1>6 DEF Longer

\* The top list's line is not behind.
LEMMA NotBehind ==
    ASSUME CommandLineAssumption, NEW c, IsCommand(c), NEW r, NEW d, Stack(c, r, d), r # <<>>,
           r[Len(r)].list # Argv, NEW i \in Nat, Behind(r, d, r[Len(r)].list, i)
    PROVE  i < r[Len(r)].next
<1>1. PICK n, l : n = Len(r) /\ l = r[n].list
  OBVIOUS
<1>2. n \in 1 .. Len(r) /\ l \notin d
  BY <1>1, TopIs
<1>3. PICK f \in 1 .. Len(r) : r[f].list = l /\ i < r[f].next
  BY <1>1, <1>2 DEF Behind
<1>4. f = n
  BY <1>1, <1>2, <1>3 DEF Stack
<1> QED
  BY <1>1, <1>3, <1>4

\* A path is one more that is behind, and one more input.
SeenMore(e, r, q, d, x, p) ==
    \A o : Seen(e, q, d, o) = IF o = p THEN Seen(e, r, d, o) \cup {x} ELSE Seen(e, r, d, o)

LEMMA TakenSeen ==
    ASSUME CommandLineAssumption, NEW c, IsCommand(c), NEW e, NEW r, NEW d, Stack(c, r, d), r # <<>>,
           NEW q, IsAdvanced(r, q), r[Len(r)].list # Argv,
           NEW x, x = <<r[Len(r)].list, r[Len(r)].next>>,
           Spot(e, x[1], x[2])
    PROVE  SeenMore(e, r, q, d, x, Lists[x[1]][x[2]].arg)
<1>1. PICK n, l, k : n = Len(r) /\ l = r[n].list /\ k = r[n].next
  OBVIOUS
<1>2. r \in Seq(Entry) /\ l \in DOMAIN Lists /\ k \in Nat
  <2>1. l \in DOMAIN Lists /\ k \in Nat
    BY <1>1, TopIs
  <2> QED
    BY <2>1 DEF Stack
<1>3. x = <<l, k>> /\ x[1] = l /\ x[2] = k
  BY <1>1
<1>4. PICK p : p = Lists[l][k].arg
  OBVIOUS
<1>5. ASSUME NEW o, NEW s \in (DOMAIN Lists) \X Nat
      PROVE  s \in Seen(e, q, d, o) <=> s \in Seen(e, r, d, o) \/ (o = p /\ s = x)
  <2>1. PICK m, i : m = s[1] /\ i = s[2]
    OBVIOUS
  <2>2. m \in DOMAIN Lists /\ i \in Nat /\ s = <<m, i>>
    BY <2>1
  <2>3. Behind(q, d, m, i) <=> Behind(r, d, m, i) \/ (m = l /\ i = k)
    BY <1>1, <1>2, <2>2, FurtherBehind
  <2>4. s = x <=> m = l /\ i = k
    BY <1>3, <2>2
  <2>5. s \in Seen(e, q, d, o) <=> Spot(e, m, i) /\ Behind(q, d, m, i) /\ Lists[m][i].arg = o
    BY <2>1, Zenon DEF Seen
  <2>6. s \in Seen(e, r, d, o) <=> Spot(e, m, i) /\ Behind(r, d, m, i) /\ Lists[m][i].arg = o
    BY <2>1, Zenon DEF Seen
  <2>7. CASE m = l /\ i = k
    <3>1. Spot(e, m, i)
      BY <1>3, <2>7
    <3>2. Lists[m][i].arg = p
      BY <1>4, <2>7
    <3> QED
      BY <2>3, <2>4, <2>5, <2>6, <2>7, <3>1, <3>2
  <2>8. CASE ~(m = l /\ i = k)
    BY <2>3, <2>4, <2>5, <2>6, <2>8
  <2> QED
    BY <2>7, <2>8
<1>6. x \in (DOMAIN Lists) \X Nat
  BY <1>2, <1>3
<1>7. ASSUME NEW o
      PROVE  Seen(e, q, d, o) = IF o = p THEN Seen(e, r, d, o) \cup {x} ELSE Seen(e, r, d, o)
  <2>1. \A s \in Seen(e, q, d, o) : s \in (DOMAIN Lists) \X Nat
    BY Zenon DEF Seen
  <2>2. \A s \in Seen(e, r, d, o) : s \in (DOMAIN Lists) \X Nat
    BY Zenon DEF Seen
  <2> QED
    BY <1>5, <1>6, <2>1, <2>2
<1> QED
  BY <1>3, <1>4, <1>7 DEF SeenMore

LEMMA TakeCounts ==
    ASSUME NEW c, IsCommand(c), NEW e, NEW r, NEW d, NEW a, Counted(c, e, r, d, a),
           NEW q, NEW x, NEW p, SeenMore(e, r, q, d, x, p), x \notin Seen(e, r, d, p),
           NEW b, b = Append(a, p)
    PROVE  Counted(c, e, q, d, b)
<1>1. IsSeq(a) /\ Len(c.inputs) <= Len(a) /\ \A i \in 1 .. Len(c.inputs) : a[i] = c.inputs[i]
  BY DEF Counted
<1>2. IsSeq(b) /\ Len(b) = Len(a) + 1 /\ \A i \in 1 .. Len(a) : b[i] = a[i]
  <2>1. Longer(a, p, Append(a, p))
    BY <1>1, AppendIs, Zenon
  <2> QED
    BY <2>1 DEF Longer
<1>3. Len(a) \in Nat /\ Len(c.inputs) \in Nat
  BY <1>1, SeqIs DEF IsCommand
<1>4. Len(c.inputs) <= Len(b) /\ \A i \in 1 .. Len(c.inputs) : b[i] = c.inputs[i]
  BY <1>1, <1>2, <1>3
<1>5. ASSUME NEW o
      PROVE  /\ IsFiniteSet(Seen(e, q, d, o))
             /\ Times(o, b) = Times(o, c.inputs) + Cardinality(Seen(e, q, d, o))
  <2>1. PICK X : X = Seen(e, r, d, o)
    OBVIOUS
  <2>2. IsFiniteSet(X) /\ Times(o, a) = Times(o, c.inputs) + Cardinality(X)
    BY <2>1 DEF Counted
  <2>3. Cardinality(X) \in Nat /\ Times(o, a) \in Nat /\ Times(o, c.inputs) \in Nat
    BY <1>1, <2>2, FS_CardinalityType, TimesAre DEF IsCommand
  <2>4. CASE o = p
    <3>1. Seen(e, q, d, o) = X \cup {x} /\ x \notin X
      BY <2>1, <2>4 DEF SeenMore
    <3>2. IsFiniteSet(X \cup {x}) /\ Cardinality(X \cup {x}) = Cardinality(X) + 1
      BY <2>2, <3>1, FS_AddElement
    <3>3. Times(o, b) = Times(o, a) + 1
      BY <1>1, <2>4, TimesMore
    <3> QED
      BY <2>2, <2>3, <3>1, <3>2, <3>3
  <2>5. CASE o # p
    <3>1. Seen(e, q, d, o) = X
      BY <2>1, <2>5 DEF SeenMore
    <3>2. Times(o, b) = Times(o, a) + 0
      BY <1>1, <2>5, TimesMore
    <3> QED
      BY <2>2, <2>3, <3>1, <3>2
  <2> QED
    BY <2>4, <2>5
<1> QED
  BY <1>2, <1>4, <1>5 DEF Counted

LEMMA SeenIs ==
    ASSUME NEW e, NEW r, NEW d, NEW o, NEW s, s \in Seen(e, r, d, o)
    PROVE  /\ s[1] \in DOMAIN Lists /\ s[2] \in Nat
           /\ Spot(e, s[1], s[2]) /\ Behind(r, d, s[1], s[2]) /\ Lists[s[1]][s[2]].arg = o
<1>1. s \in (DOMAIN Lists) \X Nat
  BY Zenon DEF Seen
<1>2. Spot(e, s[1], s[2]) /\ Behind(r, d, s[1], s[2]) /\ Lists[s[1]][s[2]].arg = o
  BY Zenon DEF Seen
<1> QED
  BY <1>1, <1>2

Newest(e, r, d, x) == \A o : \A s \in Seen(e, r, d, o) : s[1] = x[1] => s[2] < x[2]

LEMMA TakeOrders ==
    ASSUME NEW c, IsCommand(c), NEW e, NEW r, NEW d, NEW a, Counted(c, e, r, d, a), Ordered(c, e, r, d, a),
           NEW q, NEW x, NEW p, SeenMore(e, r, q, d, x, p), x[2] \in Nat, p = Lists[x[1]][x[2]].arg,
           Newest(e, r, d, x), NEW b, b = Append(a, p)
    PROVE  Ordered(c, e, q, d, b)
<1>1. PICK h, w : h = Len(c.inputs) /\ w = Len(a)
  OBVIOUS
<1>2. IsSeq(a) /\ h \in Nat /\ w \in Nat /\ h <= w
  <2>1. IsSeq(a) /\ IsSeq(c.inputs) /\ h <= w
    BY <1>1 DEF Counted, IsCommand
  <2> QED
    BY <1>1, <2>1, SeqIs
<1>3. Len(b) = w + 1 /\ b[w + 1] = p /\ \A i \in 1 .. w : b[i] = a[i]
  <2>1. Longer(a, p, Append(a, p))
    BY <1>2, AppendIs, Zenon
  <2> QED
    BY <1>1, <2>1 DEF Longer
<1>4. ASSUME NEW s, NEW m, At(a, s, m)
      PROVE  At(b, s, m) /\ m \in 1 .. w
  <2>1. m \in 1 .. w /\ a[m] = Lists[s[1]][s[2]].arg
    BY <1>1, <1>4 DEF At
  <2>2. m \in 1 .. w + 1 /\ b[m] = a[m]
    BY <1>2, <1>3, <2>1
  <2> QED
    BY <1>3, <2>1, <2>2 DEF At
<1>5. At(b, x, w + 1)
  <2>1. w + 1 \in 1 .. w + 1
    BY <1>2
  <2> QED
    BY <1>3, <2>1 DEF At
<1>6. ASSUME NEW o, NEW s \in Seen(e, q, d, o)
      PROVE  s \in Seen(e, r, d, o) \/ (o = p /\ s = x)
  BY <1>6 DEF SeenMore
<1>7. ASSUME NEW o, NEW s \in Seen(e, r, d, o)
      PROVE  \E m : h < m /\ At(a, s, m)
  BY <1>1 DEF Ordered
<1>8. ASSUME NEW o, NEW s \in Seen(e, q, d, o)
      PROVE  \E m : h < m /\ At(b, s, m)
  <2>1. CASE s \in Seen(e, r, d, o)
    BY <1>4, <1>7, <2>1
  <2>2. CASE s = x
    <3>1. h < w + 1
      BY <1>2
    <3> QED
      BY <1>5, <2>2, <3>1
  <2> QED
    BY <1>6, <1>8, <2>1, <2>2
<1>9. ASSUME NEW o, NEW u, NEW s \in Seen(e, q, d, o), NEW t \in Seen(e, q, d, u), s[1] = t[1], s[2] < t[2]
      PROVE  \E m, n : h < m /\ m < n /\ At(b, s, m) /\ At(b, t, n)
  <2>1. s[2] \in Nat /\ t[2] \in Nat
    BY <1>9, SeenIs
  <2>2. CASE s \in Seen(e, r, d, o) /\ t \in Seen(e, r, d, u)
    <3>1. PICK m, n : h < m /\ m < n /\ At(a, s, m) /\ At(a, t, n)
      BY <1>1, <1>9, <2>2 DEF Ordered
    <3> QED
      BY <1>4, <3>1
  <2>3. CASE s \in Seen(e, r, d, o) /\ t = x
    <3>1. PICK m : h < m /\ At(a, s, m)
      BY <1>7, <2>3
    <3>2. At(b, s, m) /\ m \in 1 .. w
      BY <1>4, <3>1
    <3>3. m < w + 1
      BY <1>2, <3>2
    <3> QED
      BY <1>5, <2>3, <3>1, <3>2, <3>3
  <2>4. CASE s = x /\ t \in Seen(e, r, d, u)
    <3>1. t[2] < s[2]
      BY <1>9, <2>4 DEF Newest
    <3> QED
      BY <1>9, <2>1, <3>1
  <2>5. CASE s = x /\ t = x
    BY <1>9, <2>1, <2>5
  <2> QED
    BY <1>6, <1>9, <2>2, <2>3, <2>4, <2>5
<1> QED
  BY <1>1, <1>8, <1>9 DEF Ordered

\* A path of a list.
LEMMA TakeKeeps ==
    ASSUME CommandLineAssumption, NEW c, NEW e, NEW r, NEW d, NEW a, Walk(c, e, r, d, a), r # <<>>,
           r[Len(r)].next <= Len(LinesIn(c, r[Len(r)].list)), NEW q, IsAdvanced(r, q),
           NEW line, line = LinesIn(c, r[Len(r)].list)[r[Len(r)].next],
           line.op \in {"bare", "--input"}, ThereIn(e, line)
    PROVE  Walk(c, e, q, d, Append(a, line.arg))
<1>1. /\ IsCommand(c) /\ Stack(c, r, d) /\ Opened(c, r, d) /\ Acyclic(c, r, d)
      /\ Counted(c, e, r, d, a) /\ Ordered(c, e, r, d, a)
  BY DEF Walk
<1>2. Stack(c, q, d) /\ Acyclic(c, q, d)
  BY <1>1, FurtherStack
<1>3. Opened(c, q, d)
  BY <1>1, FurtherOpened
<1>4. PICK n, l, k : n = Len(r) /\ l = r[n].list /\ k = r[n].next
  OBVIOUS
<1>5. l \in DOMAIN Lists \cup {Argv} /\ k \in Nat \ {0} /\ (l # Argv => l \in DOMAIN Lists)
  BY <1>1, <1>4, TopIs
<1>6. k \in DOMAIN LinesIn(c, l)
  <2>1. PICK z : z = Len(LinesIn(c, l))
    OBVIOUS
  <2>2. z \in Nat /\ DOMAIN LinesIn(c, l) = 1 .. z
    BY <1>1, <1>5, <2>1, LinesAre
  <2>3. k <= z
    BY <1>4, <2>1
  <2> QED
    BY <1>5, <2>2, <2>3
<1>7. l # Argv
  <2>1. l = Argv => \A i \in DOMAIN LinesIn(c, l) : LinesIn(c, l)[i].op = "--input-list"
    BY <1>1, <1>5, LinesAre
  <2> QED
    BY <1>4, <1>6, <2>1
<1>8. l \in DOMAIN Lists /\ LinesIn(c, l) = Lists[l]
  BY <1>1, <1>5, <1>7, LinesAre
<1>9. PICK x, p : x = <<l, k>> /\ p = Lists[l][k].arg
  OBVIOUS
<1>10. x[1] = l /\ x[2] = k /\ line.arg = p
  BY <1>4, <1>8, <1>9
<1>11. Spot(e, l, k)
  <2>1. TakenIn(e, Lists[l][k])
    BY <1>4, <1>8 DEF TakenIn
  <2> QED
    BY <1>6, <1>8, <2>1 DEF Spot
<1>12. SeenMore(e, r, q, d, x, p)
  <2>1. x = <<r[Len(r)].list, r[Len(r)].next>> /\ r[Len(r)].list # Argv /\ Spot(e, x[1], x[2])
    BY <1>4, <1>7, <1>9, <1>10, <1>11
  <2>2. SeenMore(e, r, q, d, x, Lists[x[1]][x[2]].arg)
    BY <1>1, <2>1, TakenSeen, Zenon
  <2> QED
    BY <1>9, <1>10, <2>2
<1>13. ASSUME NEW i \in Nat, Behind(r, d, l, i)
       PROVE  i < k
  BY <1>1, <1>4, <1>7, <1>13, NotBehind
<1>14. Newest(e, r, d, x)
  <2>1. ASSUME NEW o, NEW s \in Seen(e, r, d, o), s[1] = x[1]
        PROVE  s[2] < x[2]
    <3>1. s[2] \in Nat /\ Behind(r, d, s[1], s[2])
      BY <2>1, SeenIs
    <3> QED
      BY <1>10, <1>13, <2>1, <3>1
  <2> QED
    BY <2>1 DEF Newest
<1>15. x \notin Seen(e, r, d, p)
  <2>1. ~(x[2] < x[2])
    BY <1>5, <1>10
  <2> QED
    BY <1>14, <2>1 DEF Newest
<1>16. PICK b : b = Append(a, p)
  OBVIOUS
<1>17. Counted(c, e, q, d, b)
  BY <1>1, <1>12, <1>15, <1>16, TakeCounts
<1>18. Ordered(c, e, q, d, b)
  <2>1. x[2] \in Nat /\ p = Lists[x[1]][x[2]].arg
    BY <1>5, <1>9, <1>10
  <2> QED
    BY <1>1, <1>12, <1>14, <1>16, <2>1, TakeOrders
<1> QED
  BY <1>1, <1>2, <1>3, <1>10, <1>16, <1>17, <1>18 DEF Walk

\* A list that is neither read nor being read.
IsOpened(g, m, q) ==
    /\ q \in Seq(Entry) /\ Len(q) = Len(g) + 1
    /\ \A f \in 1 .. Len(g) : q[f] = g[f]
    /\ q[Len(q)].list = m /\ q[Len(q)].next = 1

LEMMA OpenedIs ==
    ASSUME NEW g, g \in Seq(Entry), NEW m \in DOMAIN Lists
    PROVE  IsOpened(g, m, Append(g, [list |-> m, next |-> 1]))
<1>1. PICK x : x = [list |-> m, next |-> 1]
  OBVIOUS
<1>2. x \in Entry /\ x.list = m /\ x.next = 1
  BY <1>1 DEF Entry
<1>3. PICK q : q = Append(g, x)
  OBVIOUS
<1>4. q \in Seq(Entry) /\ Len(q) = Len(g) + 1 /\ (\A f \in 1 .. Len(g) : q[f] = g[f]) /\ q[Len(q)] = x
  BY <1>2, <1>3
<1> QED
  BY <1>1, <1>2, <1>3, <1>4 DEF IsOpened

LEMMA FirstLine ==
    ASSUME CommandLineAssumption, NEW c, IsCommand(c), NEW f, f \in Entry, f.next = 1, NEW m, NamedAt(c, f, m)
    PROVE  FALSE
<1>1. PICK i \in DOMAIN LinesIn(c, f.list) : i < 1
  BY DEF NamedAt
<1>2. f.list \in DOMAIN Lists \cup {Argv}
  BY DEF Entry
<1>3. i \in 1 .. Len(LinesIn(c, f.list)) /\ Len(LinesIn(c, f.list)) \in Nat
  BY <1>1, <1>2, LinesAre
<1> QED
  BY <1>1, <1>3

LEMMA OpenKeeps ==
    ASSUME CommandLineAssumption, NEW c, NEW e, NEW r, NEW d, NEW a, Walk(c, e, r, d, a), r # <<>>,
           r[Len(r)].next <= Len(LinesIn(c, r[Len(r)].list)), NEW g, IsAdvanced(r, g),
           NEW line, line = LinesIn(c, r[Len(r)].list)[r[Len(r)].next], line.op = "--input-list",
           NEW m \in DOMAIN Lists, line.arg = m, m \notin d, \A f \in 1 .. Len(r) : r[f].list # m,
           NEW q, IsOpened(g, m, q)
    PROVE  Walk(c, e, q, d, a)
<1>1. /\ IsCommand(c) /\ Stack(c, r, d) /\ Opened(c, r, d) /\ Acyclic(c, r, d)
      /\ Counted(c, e, r, d, a) /\ Ordered(c, e, r, d, a)
  BY DEF Walk
<1>2. Stack(c, g, d) /\ Acyclic(c, g, d)
  BY <1>1, FurtherStack
<1>3. PICK n, l, k : n = Len(r) /\ l = r[n].list /\ k = r[n].next
  OBVIOUS
<1>4. /\ n \in Nat \ {0} /\ n \in 1 .. n /\ l \in DOMAIN Lists \cup {Argv} /\ k \in Nat \ {0}
      /\ (l # Argv => n \in 2 .. n /\ l \in DOMAIN Lists)
  BY <1>1, <1>3, TopIs
<1>5. Len(g) = n /\ r \in Seq(Entry) /\ g \in Seq(Entry) /\ \A f \in 1 .. n : g[f].list = r[f].list
  BY <1>1, <1>3 DEF Stack, IsAdvanced
<1>6. /\ q \in Seq(Entry) /\ Len(q) = n + 1
      /\ \A f \in 1 .. n : q[f] = g[f]
      /\ q[n + 1].list = m /\ q[n + 1].next = 1
  BY <1>5 DEF IsOpened
<1>7. k \in DOMAIN LinesIn(c, l) /\ Leads(c, l, m)
  <2>1. PICK z : z = Len(LinesIn(c, l))
    OBVIOUS
  <2>2. z \in Nat /\ DOMAIN LinesIn(c, l) = 1 .. z
    BY <1>1, <1>4, <2>1, LinesAre
  <2>3. k <= z
    BY <1>3, <2>1
  <2>4. k \in DOMAIN LinesIn(c, l)
    BY <1>4, <2>2, <2>3
  <2> QED
    BY <1>3, <2>4 DEF Leads
<1>8. ASSUME NEW f \in 1 .. n + 1
      PROVE  f \in 1 .. n \/ f = n + 1
  BY <1>4
<1>9. Stack(c, q, d)
  <2>1. q # <<>> /\ q[1].list = Argv /\ d \subseteq DOMAIN Lists
    <3>1. g # <<>> /\ 1 \in 1 .. n
      BY <1>4, <1>5
    <3>2. g[1].list = Argv /\ d \subseteq DOMAIN Lists
      BY <1>2, <3>1 DEF Stack
    <3>3. q # <<>>
      BY <1>4, <1>6
    <3> QED
      BY <1>6, <3>1, <3>2, <3>3
  <2>2. \A f \in 2 .. n + 1 : q[f].list \in DOMAIN Lists \ d
    <3>1. ASSUME NEW f \in 2 .. n
          PROVE  q[f].list \in DOMAIN Lists \ d
      BY <1>2, <1>4, <1>5, <1>6 DEF Stack
    <3>2. \A f \in 2 .. n + 1 : f \in 2 .. n \/ f = n + 1
      BY <1>4
    <3> QED
      BY <1>6, <3>1, <3>2
  <2>3. \A f, h \in 1 .. n + 1 : q[f].list = q[h].list => f = h
    <3>1. \A f \in 1 .. n : q[f].list = g[f].list /\ q[f].list # m
      BY <1>3, <1>5, <1>6
    <3>2. \A f, h \in 1 .. n : q[f].list = q[h].list => f = h
      BY <1>2, <1>5, <3>1 DEF Stack
    <3> QED
      BY <1>6, <1>8, <3>1, <3>2
  <2>4. \A f \in 1 .. n + 1 : q[f].next <= Len(LinesIn(c, q[f].list)) + 1
    <3>1. ASSUME NEW f \in 1 .. n
          PROVE  q[f].next <= Len(LinesIn(c, q[f].list)) + 1
      <4>1. g[f].next <= Len(LinesIn(c, g[f].list)) + 1
        BY <1>2, <1>5 DEF Stack
      <4> QED
        BY <1>6, <4>1
    <3>2. q[n + 1].next <= Len(LinesIn(c, q[n + 1].list)) + 1
      <4>1. Len(LinesIn(c, m)) \in Nat
        BY <1>1, LinesAre
      <4> QED
        BY <1>6, <4>1
    <3> QED
      BY <1>8, <3>1, <3>2
  <2> QED
    BY <1>6, <2>1, <2>2, <2>3, <2>4 DEF Stack
<1>10. Opened(c, q, d)
  <2>1. ASSUME NEW f \in 1 .. n + 1, NEW y \in DOMAIN Lists, NamedAt(c, q[f], y)
        PROVE  y \in d \/ (f + 1 \in 1 .. n + 1 /\ y = q[f + 1].list)
    <3>1. CASE f = n + 1
      <4>1. q[n + 1] \in Entry
        <5>1. n + 1 \in 1 .. n + 1
          BY <1>4
        <5> QED
          BY <1>6, <5>1
      <4> QED
        BY <1>1, <1>6, <2>1, <3>1, <4>1, FirstLine
    <3>2. CASE f = n
      <4>1. Numbered(LinesIn(c, r[Len(r)].list))
        <5>1. DOMAIN LinesIn(c, l) = 1 .. Len(LinesIn(c, l))
          BY <1>1, <1>4, LinesAre
        <5> QED
          BY <1>3, <5>1 DEF Numbered
      <4>2. NamedAt(c, g[Len(r)], y)
        BY <1>3, <1>4, <1>6, <2>1, <3>2
      <4>3. NamedAt(c, r[Len(r)], y) \/ NamesNext(c, r[Len(r)], y)
        BY <1>5, <4>1, <4>2, FurtherNamed, Zenon
      <4>4. NamedAt(c, r[n], y) => y \in d
        <5>1. n \in 1 .. Len(r) /\ ~(n + 1 \in 1 .. Len(r))
          BY <1>3, <1>4
        <5> QED
          BY <5>1, <1>1 DEF Opened
      <4>5. NamesNext(c, r[n], y) => y = m
        BY <1>3 DEF NamesNext
      <4>6. n + 1 \in 1 .. n + 1
        BY <1>4
      <4> QED
        BY <1>3, <1>6, <3>2, <4>3, <4>4, <4>5, <4>6
    <3>3. CASE f # n /\ f # n + 1
      <4>1. f \in 1 .. Len(r) /\ f # Len(r) /\ f \in 1 .. n /\ f + 1 \in 1 .. n /\ f + 1 \in 1 .. n + 1
        BY <1>3, <1>4, <3>3
      <4>2. NamedAt(c, g[f], y)
        BY <1>6, <2>1, <4>1
      <4>3. NamedAt(c, r[f], y)
        BY <1>1, <4>1, <4>2, FurtherStack
      <4>4. y \in d \/ y = r[f + 1].list
        BY <1>1, <4>1, <4>3 DEF Opened
      <4>5. q[f + 1].list = r[f + 1].list
        BY <1>5, <1>6, <4>1
      <4> QED
        BY <4>1, <4>4, <4>5
    <3> QED
      BY <3>1, <3>2, <3>3
  <2> QED
    BY <1>6, <2>1 DEF Opened
<1>11. Acyclic(c, q, d)
  <2>1. ASSUME NEW ls, After(c, Argv, ls), Closed(c, ls)
        PROVE  d \subseteq ls /\ \A f \in 2 .. n + 1 : q[f].list \in ls
    <3>1. d \subseteq ls /\ \A f \in 2 .. n : g[f].list \in ls
      BY <1>2, <1>5, <2>1 DEF Acyclic
    <3>2. After(c, l, ls)
      <4>1. CASE l = Argv
        BY <2>1, <4>1
      <4>2. CASE l # Argv
        <5>1. l \in ls
          BY <1>3, <1>4, <1>5, <3>1, <4>2
        <5> QED
          BY <2>1, <5>1 DEF Closed
      <4> QED
        BY <4>1, <4>2
    <3>3. m \in ls
      BY <1>7, <3>2 DEF After
    <3>4. \A f \in 2 .. n + 1 : (f \in 2 .. n /\ f \in 1 .. n) \/ f = n + 1
      BY <1>4
    <3> QED
      BY <1>6, <3>1, <3>3, <3>4
  <2>2. q # <<>>
    BY <1>4, <1>6
  <2> QED
    BY <1>2, <1>6, <2>1, <2>2 DEF Acyclic
<1>12. ASSUME NEW x \in DOMAIN Lists, NEW i \in Nat, Spot(e, x, i)
       PROVE  Behind(q, d, x, i) <=> Behind(r, d, x, i)
  <2>1. ~(x = l /\ i = k)
    <3>1. SUFFICES ASSUME x = l, i = k
                   PROVE  FALSE
      OBVIOUS
    <3>2. x # Argv /\ LinesIn(c, x) = Lists[x]
      BY <1>1, LinesAre
    <3>3. TakenIn(e, Lists[x][i])
      BY <1>12 DEF Spot
    <3>4. line = Lists[x][i]
      BY <1>3, <3>1, <3>2
    <3> QED
      BY <3>3, <3>4 DEF TakenIn
  <2>2. Behind(g, d, x, i) <=> Behind(r, d, x, i)
    BY <1>3, <1>5, <2>1, FurtherBehind
  <2>3. ~(i < 1)
    <3>1. x # Argv /\ DOMAIN Lists[x] = 1 .. Len(Lists[x]) /\ Len(Lists[x]) \in Nat
      <4>1. /\ x # Argv /\ LinesIn(c, x) = Lists[x]
            /\ Len(LinesIn(c, x)) \in Nat
            /\ DOMAIN LinesIn(c, x) = 1 .. Len(LinesIn(c, x))
        BY <1>1, LinesAre
      <4> QED
        BY <4>1
    <3>2. i \in DOMAIN Lists[x]
      BY <1>12 DEF Spot
    <3> QED
      BY <3>1, <3>2
  <2>4. (\E f \in 1 .. n + 1 : q[f].list = x /\ i < q[f].next) <=>
        (\E f \in 1 .. n : g[f].list = x /\ i < g[f].next)
    <3>1. \A f \in 1 .. n : f \in 1 .. n + 1
      BY <1>4
    <3> QED
      BY <1>6, <1>8, <2>3, <3>1
  <2> QED
    BY <1>5, <1>6, <2>2, <2>4 DEF Behind
<1>13. \A p : Seen(e, q, d, p) = Seen(e, r, d, p)
  BY <1>12, SameSeen
<1> QED
  BY <1>1, <1>9, <1>10, <1>11, <1>13, SeenKeeps DEF Walk

\* The end of the list on top.
LEMMA EndNames ==
    ASSUME CommandLineAssumption, NEW c, IsCommand(c), NEW r, NEW d, Stack(c, r, d), Opened(c, r, d), r # <<>>,
           ~(r[Len(r)].next <= Len(LinesIn(c, r[Len(r)].list)))
    PROVE  After(c, r[Len(r)].list, d)
<1>1. PICK n, l, k : n = Len(r) /\ l = r[n].list /\ k = r[n].next
  OBVIOUS
<1>2. n \in Nat \ {0} /\ n \in 1 .. Len(r) /\ l \in DOMAIN Lists \cup {Argv} /\ k \in Nat
  BY <1>1, TopIs
<1>3. PICK z : z = Len(LinesIn(c, l))
  OBVIOUS
<1>4. z \in Nat /\ DOMAIN LinesIn(c, l) = 1 .. z
  BY <1>2, <1>3, LinesAre
<1>5. z < k
  BY <1>1, <1>2, <1>3, <1>4
<1>6. ASSUME NEW m \in DOMAIN Lists, Leads(c, l, m)
      PROVE  m \in d
  <2>1. PICK i \in DOMAIN LinesIn(c, l) : LinesIn(c, l)[i].op = "--input-list" /\ LinesIn(c, l)[i].arg = m
    BY <1>6 DEF Leads
  <2>2. i < k
    BY <1>2, <1>4, <1>5, <2>1
  <2>3. NamedAt(c, r[n], m)
    BY <1>1, <2>1, <2>2 DEF NamedAt
  <2>4. ~(n + 1 \in 1 .. Len(r))
    BY <1>1, <1>2
  <2> QED
    BY <1>2, <2>3, <2>4 DEF Opened
<1> QED
  BY <1>1, <1>6 DEF After

IsEnded(r, q) ==
    /\ q \in Seq(Entry) /\ Len(q) = Len(r) - 1
    /\ \A f \in 1 .. Len(q) : q[f] = r[f]

LEMMA EndedIs ==
    ASSUME NEW r, r \in Seq(Entry), r # <<>>
    PROVE  IsEnded(r, Front(r))
<1>1. PICK n, q : n = Len(r) - 1 /\ q = SubSeq(r, 1, n)
  OBVIOUS
<1>2. n \in Nat /\ n <= Len(r)
  BY <1>1
<1>3. q \in Seq(Entry) /\ Len(q) = n /\ \A f \in 1 .. n : q[f] = r[f]
  BY <1>1, <1>2
<1> QED
  BY <1>1, <1>3 DEF IsEnded, Front

LEMMA EndArgv ==
    ASSUME CommandLineAssumption, NEW c, NEW e, NEW r, NEW d, NEW a, Walk(c, e, r, d, a), r # <<>>,
           ~(r[Len(r)].next <= Len(LinesIn(c, r[Len(r)].list))),
           NEW q, IsEnded(r, q), r[Len(r)].list = Argv
    PROVE  Walk(c, e, q, d, a)
<1>1. /\ IsCommand(c) /\ Stack(c, r, d) /\ Opened(c, r, d) /\ Acyclic(c, r, d)
      /\ Counted(c, e, r, d, a) /\ Ordered(c, e, r, d, a)
  BY DEF Walk
<1>2. Len(r) = 1 /\ Argv \notin DOMAIN Lists
  <2>1. Len(r) = 1
    <3>1. PICK n : n = Len(r)
      OBVIOUS
    <3>2. n = 1
      BY <1>1, <3>1, TopIs
    <3> QED
      BY <3>1, <3>2
  <2> QED
    BY <2>1 DEF CommandLineAssumption
<1>3. q = <<>> /\ Len(q) = 0 /\ q \in Seq(Entry)
  BY <1>2 DEF IsEnded
<1>4. After(c, Argv, d)
  BY <1>1, EndNames
<1>5. Stack(c, q, d)
  <2>1. d \subseteq DOMAIN Lists
    BY <1>1 DEF Stack
  <2> QED
    BY <1>3, <2>1 DEF Stack
<1>6. Opened(c, q, d)
  BY <1>3 DEF Opened
<1>7. Acyclic(c, q, d)
  BY <1>1, <1>2, <1>3, <1>4 DEF Acyclic
<1>8. ASSUME NEW x \in DOMAIN Lists, NEW i \in Nat, Spot(e, x, i)
      PROVE  Behind(q, d, x, i) <=> Behind(r, d, x, i)
  <2>1. \A f \in 1 .. Len(r) : r[f].list # x
    BY <1>2
  <2> QED
    BY <1>3, <2>1 DEF Behind
<1>9. \A p : Seen(e, q, d, p) = Seen(e, r, d, p)
  BY <1>8, SameSeen
<1> QED
  BY <1>1, <1>5, <1>6, <1>7, <1>9, SeenKeeps DEF Walk

IsJoined(b, d, l) == b = d \cup {l}

LEMMA EndKeeps ==
    ASSUME CommandLineAssumption, NEW c, NEW e, NEW r, NEW d, NEW a, Walk(c, e, r, d, a), r # <<>>,
           ~(r[Len(r)].next <= Len(LinesIn(c, r[Len(r)].list))),
           NEW q, IsEnded(r, q), r[Len(r)].list # Argv,
           NEW b, IsJoined(b, d, r[Len(r)].list)
    PROVE  Walk(c, e, q, b, a)
<1>1. /\ IsCommand(c) /\ Stack(c, r, d) /\ Opened(c, r, d) /\ Acyclic(c, r, d)
      /\ Counted(c, e, r, d, a) /\ Ordered(c, e, r, d, a)
  BY DEF Walk
<1>2. PICK n, l, k : n = Len(r) /\ l = r[n].list /\ k = r[n].next
  OBVIOUS
<1>3. n \in Nat /\ 2 <= n /\ l \in DOMAIN Lists /\ l \notin d /\ k \in Nat
  <2>1. n \in 2 .. Len(r) /\ l \in DOMAIN Lists \ d /\ k \in Nat /\ Len(r) \in Nat
    BY <1>1, <1>2, TopIs
  <2> QED
    BY <2>1
<1>4. After(c, l, d) /\ b = d \cup {l}
  <2>1. After(c, l, d)
    BY <1>1, <1>2, EndNames
  <2> QED
    BY <1>2, <2>1 DEF IsJoined
<1>5. q \in Seq(Entry) /\ Len(q) = n - 1 /\ \A f \in 1 .. n - 1 : q[f] = r[f]
  BY <1>2, <1>3 DEF IsEnded
<1>6. n - 1 \in Nat \ {0} /\ (\A f \in 1 .. n - 1 : f \in 1 .. n /\ f # n) /\ (\A f \in 2 .. n - 1 : f \in 2 .. n /\ f \in 1 .. n - 1)
  BY <1>3
<1>7. \A f \in 1 .. n - 1 : r[f].list # l
  BY <1>1, <1>2, <1>3, <1>6 DEF Stack
<1>8. Stack(c, q, b)
  <2>1. q # <<>> /\ q[1].list = Argv /\ b \subseteq DOMAIN Lists
    <3>1. q # <<>>
      <4>1. q = <<>> => Len(q) = 0
        OBVIOUS
      <4>2. Len(q) # 0
        <5>1. Len(q) = n - 1
          BY <1>5
        <5> QED
          BY <1>3, <5>1
      <4> QED
        BY <4>1, <4>2
    <3>2. 1 \in 1 .. n - 1
      BY <1>3
    <3>3. r[1].list = Argv /\ d \subseteq DOMAIN Lists
      BY <1>1 DEF Stack
    <3>4. q[1] = r[1]
      BY <1>5, <3>2
    <3> QED
      BY <1>3, <1>4, <3>1, <3>3, <3>4
  <2>2. \A f \in 2 .. n - 1 : q[f].list \in DOMAIN Lists \ b
    <3>1. \A f \in 2 .. n - 1 : r[f].list \in DOMAIN Lists \ d
      BY <1>1, <1>2, <1>6 DEF Stack
    <3> QED
      BY <1>4, <1>5, <1>6, <1>7, <3>1
  <2>3. \A f, h \in 1 .. n - 1 : q[f].list = q[h].list => f = h
    BY <1>1, <1>2, <1>5, <1>6 DEF Stack
  <2>4. \A f \in 1 .. n - 1 : q[f].next <= Len(LinesIn(c, q[f].list)) + 1
    <3>1. ASSUME NEW f \in 1 .. n - 1
          PROVE  q[f].next <= Len(LinesIn(c, q[f].list)) + 1
      <4>1. r[f].next <= Len(LinesIn(c, r[f].list)) + 1
        BY <1>1, <1>2, <1>6 DEF Stack
      <4> QED
        BY <1>5, <4>1
    <3> QED
      BY <3>1
  <2> QED
    BY <1>5, <2>1, <2>2, <2>3, <2>4 DEF Stack
<1>9. Opened(c, q, b)
  <2>1. ASSUME NEW f \in 1 .. n - 1, NEW y \in DOMAIN Lists, NamedAt(c, q[f], y)
        PROVE  y \in b \/ (f + 1 \in 1 .. n - 1 /\ y = q[f + 1].list)
    <3>1. NamedAt(c, r[f], y)
      BY <1>5, <2>1
    <3>2. y \in d \/ (f + 1 \in 1 .. n /\ y = r[f + 1].list)
      BY <1>1, <1>2, <1>6, <3>1 DEF Opened
    <3>3. f + 1 \in 1 .. n => f + 1 = n \/ f + 1 \in 1 .. n - 1
      BY <1>3
    <3> QED
      BY <1>2, <1>4, <1>5, <3>2, <3>3
  <2> QED
    BY <1>5, <2>1 DEF Opened
<1>10. Acyclic(c, q, b)
  <2>1. Closed(c, d)
    BY <1>1 DEF Acyclic
  <2>2. Closed(c, b)
    BY <1>4, <2>1 DEF Closed, After
  <2>3. ASSUME NEW x \in b
        PROVE  \E ls : x \notin ls /\ After(c, x, ls) /\ Closed(c, ls)
    <3>1. CASE x = l
      BY <1>3, <1>4, <2>1, <3>1
    <3>2. CASE x \in d
      BY <1>1, <3>2 DEF Acyclic
    <3> QED
      BY <1>4, <2>3, <3>1, <3>2
  <2>4. ASSUME NEW ls, After(c, Argv, ls), Closed(c, ls)
        PROVE  b \subseteq ls /\ \A f \in 2 .. n - 1 : q[f].list \in ls
    <3>1. d \subseteq ls /\ \A f \in 2 .. n : r[f].list \in ls
      BY <1>1, <1>2, <2>4 DEF Acyclic
    <3>2. l \in ls
      BY <1>2, <1>3, <3>1
    <3> QED
      BY <1>4, <1>5, <1>6, <3>1, <3>2
  <2>5. q # <<>>
    BY <1>5, <1>6
  <2> QED
    BY <1>5, <2>2, <2>3, <2>4, <2>5 DEF Acyclic
<1>11. ASSUME NEW x \in DOMAIN Lists, NEW i \in Nat, Spot(e, x, i)
       PROVE  Behind(q, b, x, i) <=> Behind(r, d, x, i)
  <2>1. CASE x = l
    <3>1. i < k
      <4>1. x # Argv /\ LinesIn(c, x) = Lists[x] /\ Len(LinesIn(c, x)) \in Nat
            /\ DOMAIN LinesIn(c, x) = 1 .. Len(LinesIn(c, x))
        BY <1>1, LinesAre
      <4>2. PICK z : z = Len(LinesIn(c, x))
        OBVIOUS
      <4>3. i \in 1 .. z /\ z \in Nat
        BY <1>11, <4>1, <4>2 DEF Spot
      <4>4. z < k
        BY <1>2, <1>3, <2>1, <4>2, <4>3
      <4> QED
        BY <1>3, <4>3, <4>4
    <3>2. n \in 1 .. Len(r)
      BY <1>2, <1>3
    <3> QED
      BY <1>2, <1>4, <2>1, <3>1, <3>2 DEF Behind
  <2>2. CASE x # l
    <3>1. (\E f \in 1 .. n - 1 : q[f].list = x /\ i < q[f].next) <=>
          (\E f \in 1 .. n : r[f].list = x /\ i < r[f].next)
      <4>1. \A f \in 1 .. n : f \in 1 .. n - 1 \/ f = n
        BY <1>3
      <4> QED
        BY <1>2, <1>5, <1>6, <2>2, <4>1
    <3> QED
      BY <1>2, <1>4, <1>5, <2>2, <3>1 DEF Behind
  <2> QED
    BY <2>1, <2>2
<1>12. \A p : Seen(e, q, b, p) = Seen(e, r, d, p)
  BY <1>11, SameSeen
<1>13. Counted(c, e, q, b, a) /\ Ordered(c, e, q, b, a)
  BY <1>1, <1>12, SeenKeeps, Zenon
<1> QED
  BY <1>1, <1>8, <1>9, <1>10, <1>13 DEF Walk

-----------------------------------------------------------------------------
(* Before the walk, and without one. *)

LEMMA NothingSeen ==
    ASSUME NEW c, IsCommand(c), NEW e, NEW r, \A f \in 1 .. Len(r) : r[f].list \notin DOMAIN Lists
    PROVE  Counted(c, e, r, {}, c.inputs) /\ Ordered(c, e, r, {}, c.inputs)
<1>1. ASSUME NEW p
      PROVE  Seen(e, r, {}, p) = {}
  <2>1. ASSUME NEW s \in Seen(e, r, {}, p)
        PROVE  FALSE
    <3>1. s[1] \in DOMAIN Lists /\ Behind(r, {}, s[1], s[2])
      BY <2>1, SeenIs
    <3> QED
      BY <3>1 DEF Behind
  <2> QED
    BY <2>1
<1>2. IsSeq(c.inputs)
  BY DEF IsCommand
<1>3. Len(c.inputs) \in Nat
  BY <1>2, SeqIs
<1>4. IsFiniteSet({}) /\ Cardinality({}) = 0
  BY FS_EmptySet
<1>5. ASSUME NEW p
      PROVE  Times(p, c.inputs) = Times(p, c.inputs) + Cardinality({})
  <2>1. Times(p, c.inputs) \in Nat
    BY <1>2, TimesAre
  <2> QED
    BY <1>4, <2>1
<1>6. Counted(c, e, r, {}, c.inputs)
  <2>1. \A p : /\ IsFiniteSet(Seen(e, r, {}, p))
               /\ Times(p, c.inputs) = Times(p, c.inputs) + Cardinality(Seen(e, r, {}, p))
    BY <1>1, <1>4, <1>5
  <2> QED
    BY <1>2, <1>3, <2>1 DEF Counted
<1>7. Ordered(c, e, r, {}, c.inputs)
  BY <1>1 DEF Ordered
<1> QED
  BY <1>6, <1>7

LEMMA BeginWalks ==
    ASSUME CommandLineAssumption, NEW c \in CommandLines, NEW e
    PROVE  Walk(c, e, <<[list |-> Argv, next |-> 1]>>, {}, c.inputs)
<1>1. IsCommand(c)
  BY DEF CommandLineAssumption, IsCommand, IsSeq
<1>2. PICK x, r : x = [list |-> Argv, next |-> 1] /\ r = <<x>>
  OBVIOUS
<1>3. x \in Entry /\ x.list = Argv /\ x.next = 1
  BY <1>2 DEF Entry
<1>4. r \in Seq(Entry) /\ Len(r) = 1 /\ r[1] = x /\ r # <<>>
  BY <1>2, <1>3
<1>5. \A f \in 1 .. Len(r) : f = 1
  BY <1>4
<1>6. Stack(c, r, {})
  <2>1. Len(LinesIn(c, Argv)) \in Nat
    BY <1>1, LinesAre
  <2>2. 1 <= Len(LinesIn(c, Argv)) + 1
    BY <2>1
  <2> QED
    BY <1>3, <1>4, <1>5, <2>2 DEF Stack
<1>7. Opened(c, r, {})
  <2>1. ASSUME NEW f \in 1 .. Len(r), NEW m \in DOMAIN Lists, NamedAt(c, r[f], m)
        PROVE  FALSE
    <3>1. r[f] = x
      BY <1>4, <1>5
    <3> QED
      BY <1>1, <1>3, <2>1, <3>1, FirstLine
  <2> QED
    BY <2>1 DEF Opened
<1>8. Acyclic(c, r, {})
  BY <1>4 DEF Acyclic, Closed
<1>9. Counted(c, e, r, {}, c.inputs) /\ Ordered(c, e, r, {}, c.inputs)
  <2>1. \A f \in 1 .. Len(r) : r[f].list \notin DOMAIN Lists
    BY <1>3, <1>4, <1>5 DEF CommandLineAssumption
  <2> QED
    BY <1>1, <2>1, NothingSeen
<1> QED
  BY <1>1, <1>2, <1>6, <1>7, <1>8, <1>9 DEF Walk

LEMMA IdleWalks ==
    ASSUME CommandLineAssumption, NEW e
    PROVE  Walk(NoArguments, e, <<>>, {}, <<>>)
<1>1. PICK c, r : c = NoArguments /\ r = <<>>
  OBVIOUS
<1>2. c.inputs = <<>> /\ c.lists = <<>>
  BY <1>1 DEF NoArguments
<1>3. r \in Seq(Entry) /\ r \in Seq(Nat) /\ Len(r) = 0 /\ DOMAIN r = {}
  BY <1>1
<1>4. IsCommand(c)
  BY <1>1, <1>2, <1>3 DEF IsCommand, IsSeq
<1>5. Stack(c, r, {})
  BY <1>1, <1>3 DEF Stack
<1>6. Opened(c, r, {})
  BY <1>3 DEF Opened
<1>7. After(c, Argv, {})
  <2>1. DOMAIN LinesIn(c, Argv) = {}
    BY <1>1, <1>2, <1>3 DEF LinesIn
  <2> QED
    BY <2>1 DEF After, Leads
<1>8. Acyclic(c, r, {})
  BY <1>3, <1>7 DEF Acyclic, Closed
<1>9. Counted(c, e, r, {}, c.inputs) /\ Ordered(c, e, r, {}, c.inputs)
  <2>1. \A f \in 1 .. Len(r) : r[f].list \notin DOMAIN Lists
    BY <1>3
  <2> QED
    BY <1>4, <2>1, NothingSeen
<1> QED
  BY <1>1, <1>2, <1>4, <1>5, <1>6, <1>8, <1>9 DEF Walk

-----------------------------------------------------------------------------
(* The steps of a process. *)

WalkInv == edits = 0 => Walk(command, Exists, reading, processed, inputs)

LEMMA SameLines ==
    /\ \A l : Lines(l) = LinesIn(command, l)
    /\ \A line : There(line) = ThereIn(Exists, line)
<1>1. \A l : Lines(l) = LinesIn(command, l)
  BY Zenon DEF Lines, LinesIn
<1>2. \A line : There(line) = ThereIn(Exists, line)
  BY Zenon DEF There, ThereIn
<1> QED
  BY <1>1, <1>2

LEMMA FrameIs ==
    ASSUME CommandLineAssumption, Walk(command, Exists, reading, processed, inputs), More
    PROVE  /\ reading # <<>>
           /\ reading[Len(reading)].next <= Len(LinesIn(command, reading[Len(reading)].list))
           /\ Line = LinesIn(command, reading[Len(reading)].list)[reading[Len(reading)].next]
           /\ IsAdvanced(reading, Advanced)
<1>1. reading # <<>> /\ reading \in Seq(Entry)
  BY DEF More, Walk, Stack
<1>2. IsAdvanced(reading, Advanced)
  BY <1>1, AdvancedIs DEF Advanced
<1>3. Frame = reading[Len(reading)]
  BY DEF Frame, Last
<1> QED
  BY <1>1, <1>2, <1>3, SameLines DEF More, Line

LEMMA TakePathKeeps ==
    ASSUME CommandLineAssumption, Walk(command, Exists, reading, processed, inputs), TakePath
    PROVE  Walk(command, Exists, reading', processed', inputs')
<1>1. More /\ There(Line) /\ reading' = Advanced /\ processed' = processed
  BY DEF TakePath
<1>2. PICK c, e, r, d, a : c = command /\ e = Exists /\ r = reading /\ d = processed /\ a = inputs
  OBVIOUS
<1>3. PICK q, line : q = Advanced /\ line = Line
  OBVIOUS
<1>4. /\ Walk(c, e, r, d, a) /\ r # <<>>
      /\ r[Len(r)].next <= Len(LinesIn(c, r[Len(r)].list))
      /\ line = LinesIn(c, r[Len(r)].list)[r[Len(r)].next]
      /\ IsAdvanced(r, q)
  BY <1>1, <1>2, <1>3, FrameIs
<1>5. ThereIn(e, line)
  BY <1>1, <1>2, <1>3, SameLines
<1>6. CASE line.op \in {"bare", "--input"}
  <2>1. inputs' = Append(a, line.arg)
    BY <1>2, <1>3, <1>6 DEF TakePath
  <2>2. Walk(c, e, q, d, Append(a, line.arg))
    BY <1>4, <1>5, <1>6, TakeKeeps
  <2> QED
    BY <1>1, <1>2, <1>3, <2>1, <2>2
<1>7. CASE line.op \notin {"bare", "--input"}
  <2>1. inputs' = a /\ line.op # "--input-list"
    BY <1>2, <1>3, <1>7 DEF TakePath
  <2>2. ~TakenIn(e, line)
    BY <1>7 DEF TakenIn
  <2>3. Walk(c, e, q, d, a)
    BY <1>4, <2>1, <2>2, PassKeeps
  <2> QED
    BY <1>1, <1>2, <1>3, <2>1, <2>3
<1> QED
  BY <1>6, <1>7

LEMMA PassOverKeeps ==
    ASSUME CommandLineAssumption, Walk(command, Exists, reading, processed, inputs), PassOver
    PROVE  Walk(command, Exists, reading', processed', inputs')
<1>1. More /\ reading' = Advanced /\ processed' = processed /\ inputs' = inputs
  BY DEF PassOver
<1>2. PICK c, e, r, d, a : c = command /\ e = Exists /\ r = reading /\ d = processed /\ a = inputs
  OBVIOUS
<1>3. PICK q, line : q = Advanced /\ line = Line
  OBVIOUS
<1>4. /\ Walk(c, e, r, d, a) /\ r # <<>>
      /\ r[Len(r)].next <= Len(LinesIn(c, r[Len(r)].list))
      /\ line = LinesIn(c, r[Len(r)].list)[r[Len(r)].next]
      /\ IsAdvanced(r, q)
  BY <1>1, <1>2, <1>3, FrameIs
<1>5. ~ThereIn(e, line) \/ (line.op = "--input-list" /\ line.arg \in d)
  <2>1. ~There(Line) \/ (Line.op = "--input-list" /\ Line.arg \in processed)
    BY DEF PassOver, Expanded
  <2> QED
    BY <1>2, <1>3, <2>1, SameLines
<1>6. line.op = "--input-list" /\ line.arg \in DOMAIN Lists => ThereIn(e, line)
  BY DEF ThereIn
<1>7. line.op = "--input-list" /\ line.arg \in DOMAIN Lists => line.arg \in d
  BY <1>5, <1>6
<1>8. ~TakenIn(e, line)
  BY <1>5 DEF TakenIn
<1>9. Walk(c, e, q, d, a)
  BY <1>4, <1>7, <1>8, PassKeeps
<1> QED
  BY <1>1, <1>2, <1>3, <1>9

LEMMA OpenListKeeps ==
    ASSUME CommandLineAssumption, Walk(command, Exists, reading, processed, inputs), OpenList
    PROVE  Walk(command, Exists, reading', processed', inputs')
<1>1. More /\ reading' = Append(Advanced, [list |-> Line.arg, next |-> 1]) /\ processed' = processed /\ inputs' = inputs
  BY DEF OpenList
<1>2. PICK c, e, r, d, a : c = command /\ e = Exists /\ r = reading /\ d = processed /\ a = inputs
  OBVIOUS
<1>3. PICK g, line, m : g = Advanced /\ line = Line /\ m = Line.arg
  OBVIOUS
<1>4. /\ Walk(c, e, r, d, a) /\ r # <<>>
      /\ r[Len(r)].next <= Len(LinesIn(c, r[Len(r)].list))
      /\ line = LinesIn(c, r[Len(r)].list)[r[Len(r)].next]
      /\ IsAdvanced(r, g)
  BY <1>1, <1>2, <1>3, FrameIs
<1>5. line.op = "--input-list" /\ line.arg = m /\ m \in DOMAIN Lists /\ m \notin d
  BY <1>2, <1>3 DEF OpenList, There, Expanded
<1>6. \A f \in 1 .. Len(r) : r[f].list # m
  <2>1. DOMAIN r = 1 .. Len(r)
    <3>1. r \in Seq(Entry)
      BY <1>4 DEF Walk, Stack
    <3> QED
      BY <3>1
  <2>2. m \notin {r[f].list : f \in DOMAIN r}
    BY <1>2, <1>3 DEF OpenList, Ancestors
  <2> QED
    BY <2>1, <2>2
<1>7. PICK q : q = Append(g, [list |-> m, next |-> 1])
  OBVIOUS
<1>8. IsOpened(g, m, q)
  <2>1. g \in Seq(Entry)
    BY <1>4 DEF IsAdvanced
  <2>2. IsOpened(g, m, Append(g, [list |-> m, next |-> 1]))
    BY <1>5, <2>1, OpenedIs
  <2> QED
    BY <1>7, <2>2
<1>9. Walk(c, e, q, d, a)
  BY <1>4, <1>5, <1>6, <1>8, OpenKeeps
<1> QED
  BY <1>1, <1>2, <1>3, <1>7, <1>9

LEMMA EndOfListKeeps ==
    ASSUME CommandLineAssumption, Walk(command, Exists, reading, processed, inputs), EndOfList
    PROVE  Walk(command, Exists, reading', processed', inputs')
<1>1. PICK c, e, r, d, a : c = command /\ e = Exists /\ r = reading /\ d = processed /\ a = inputs
  OBVIOUS
<1>2. PICK q, l : q = Front(r) /\ l = r[Len(r)].list
  OBVIOUS
<1>3. /\ reading # <<>> /\ ~More /\ reading' = q /\ inputs' = a
      /\ processed' = (d \cup {l}) \ {Argv}
  BY <1>1, <1>2 DEF EndOfList, Frame, Last
<1>4. ~(r[Len(r)].next <= Len(LinesIn(c, r[Len(r)].list)))
  <2>1. Lines(Frame.list) = LinesIn(command, Frame.list)
    BY SameLines
  <2> QED
    BY <1>1, <1>3, <2>1 DEF More, Frame, Last
<1>5. Walk(c, e, r, d, a) /\ r # <<>> /\ r \in Seq(Entry) /\ d \subseteq DOMAIN Lists /\ Argv \notin DOMAIN Lists
  BY <1>1, <1>3 DEF Walk, Stack, CommandLineAssumption
<1>6. IsEnded(r, q)
  <2>1. IsEnded(r, Front(r))
    BY <1>5, EndedIs
  <2> QED
    BY <1>2, <2>1
<1>7. CASE l = Argv
  <2>1. Walk(c, e, q, d, a)
    BY <1>2, <1>4, <1>5, <1>6, <1>7, EndArgv
  <2>2. processed' = d
    BY <1>3, <1>5, <1>7
  <2> QED
    BY <1>1, <1>3, <2>1, <2>2
<1>8. CASE l # Argv
  <2>1. PICK b : b = d \cup {l}
    OBVIOUS
  <2>2. IsJoined(b, d, r[Len(r)].list)
    BY <1>2, <2>1 DEF IsJoined
  <2>3. Walk(c, e, q, b, a)
    BY <1>2, <1>4, <1>5, <1>6, <1>8, <2>2, EndKeeps
  <2>4. processed' = b
    BY <1>3, <1>5, <1>8, <2>1
  <2> QED
    BY <1>1, <1>3, <2>3, <2>4
<1> QED
  BY <1>7, <1>8

LEMMA WalkOn ==
    ASSUME CommandLineAssumption, WalkInv, edits \in Nat, [Next]_vars
    PROVE  WalkInv'
<1> SUFFICES ASSUME edits' = 0
             PROVE  Walk(command', Exists', reading', processed', inputs')
  BY DEF WalkInv
<1>1. ASSUME UNCHANGED <<command, files, reading, processed, inputs, edits>>
      PROVE  Walk(command', Exists', reading', processed', inputs')
  BY <1>1 DEF WalkInv, Exists
<1>2. ASSUME Idle
      PROVE  Walk(command', Exists', reading', processed', inputs')
  BY <1>2, IdleWalks DEF Idle
<1>3. ASSUME NEW p \in Places, Edit(p)
      PROVE  FALSE
  BY <1>3 DEF Edit
<1>4. ASSUME NEW m \in {"full", "parse", "gen"}, NEW c \in CommandLines, Start(m, c)
      PROVE  Walk(command', Exists', reading', processed', inputs')
  BY <1>4, BeginWalks DEF Start, Begin
<1>5. ASSUME ParseArgs
      PROVE  Walk(command', Exists', reading', processed', inputs')
  <2>1. CASE ReadArguments /\ UNCHANGED <<files, raw, mode, process, processes, edits>>
    <3>1. Walk(command, Exists, reading, processed, inputs)
      BY <2>1 DEF WalkInv
    <3>2. Walk(command, Exists, reading', processed', inputs')
      BY <2>1, <3>1, TakePathKeeps, PassOverKeeps, OpenListKeeps, EndOfListKeeps DEF ReadArguments
    <3>3. command' = command
      BY <2>1 DEF ReadArguments, TakePath, PassOver, OpenList, EndOfList
    <3>4. Exists' = Exists
      BY <2>1 DEF Exists
    <3> QED
      BY <3>2, <3>3, <3>4
  <2>2. CASE UsageError /\ Exit
    BY <1>2, <2>2 DEF Exit
  <2> QED
    BY <1>5, <2>1, <2>2 DEF ParseArgs
<1>6. ASSUME ParseInput
      PROVE  Walk(command', Exists', reading', processed', inputs')
  <2>1. Exit \/ UNCHANGED <<files, mode, arguments, included, ran, processes, edits>>
    BY <1>6 DEF ParseInput
  <2> QED
    BY <1>1, <1>2, <2>1 DEF Exit, arguments
<1>7. ASSUME LoadTop
      PROVE  Walk(command', Exists', reading', processed', inputs')
  BY <1>1, <1>7 DEF LoadTop, arguments
<1>8. ASSUME NEW r, Call(r)
      PROVE  Walk(command', Exists', reading', processed', inputs')
  BY <1>1, <1>8 DEF Call, arguments
<1>9. ASSUME NEW n \in Names, Resolve(n)
      PROVE  Walk(command', Exists', reading', processed', inputs')
  BY <1>8, <1>9 DEF Resolve
<1>10. ASSUME NEW s \in Names, NEW t \in Targets, SynonymClass(s, t)
       PROVE  Walk(command', Exists', reading', processed', inputs')
  BY <1>8, <1>10 DEF SynonymClass
<1>11. ASSUME NEW f \in Includes, Include(f) \/ PyInclude(f)
       PROVE  Walk(command', Exists', reading', processed', inputs')
  <2>1. UNCHANGED <<files, arguments, edits>>
    BY <1>11 DEF Include, PyInclude
  <2> QED
    BY <1>1, <2>1 DEF arguments
<1>12. ASSUME Finish
       PROVE  Walk(command', Exists', reading', processed', inputs')
  BY <1>2, <1>12 DEF Finish, Exit
<1>13. ASSUME UNCHANGED vars
       PROVE  Walk(command', Exists', reading', processed', inputs')
  BY <1>1, <1>13 DEF vars, arguments
<1> QED
  BY <1>3, <1>4, <1>5, <1>6, <1>7, <1>9, <1>10, <1>11, <1>12, <1>13 DEF Next

LEMMA WalkInit ==
    ASSUME CommandLineAssumption, Init
    PROVE  WalkInv
BY IdleWalks DEF Init, InitArguments, WalkInv

-----------------------------------------------------------------------------
(* At the end of the walk: the lists read are those below the command line's, *)
(* and what has been seen is what they hold.                                  *)

LEMMA NamedAfter ==
    ASSUME NEW ls, NEW more
    PROVE  Named(ls) \subseteq more <=> \A l \in ls : After(command, l, more)
<1>1. \A l, m : Refers(l, m) <=> Leads(command, l, m)
  BY SameLines, Zenon DEF Refers, Leads
<1> QED
  BY <1>1, NamedIs DEF After

LEMMA WalkedBelow ==
    ASSUME CommandLineAssumption, Walk(command, Exists, reading, processed, inputs), reading = <<>>
    PROVE  Below({Argv}) = processed /\ \A l \in processed : l \notin Below({l})
<1>1. PICK d, t : d = processed /\ t = Below({Argv})
  OBVIOUS
<1>2. /\ Closed(command, d)
      /\ \A l \in d : \E ls : l \notin ls /\ After(command, l, ls) /\ Closed(command, ls)
      /\ \A ls : After(command, Argv, ls) /\ Closed(command, ls) => d \subseteq ls
      /\ After(command, Argv, d)
  BY <1>1 DEF Walk, Acyclic
<1>3. t \subseteq d
  <2>1. Named({Argv}) \subseteq d /\ Named(d) \subseteq d
    BY <1>2, NamedAfter DEF Closed
  <2> QED
    BY <1>1, <2>1, BelowIs
<1>4. d \subseteq t
  <2>1. Named({Argv}) \subseteq t /\ Named(t) \subseteq t
    BY <1>1, BelowIs
  <2>2. After(command, Argv, t) /\ Closed(command, t)
    BY <2>1, NamedAfter DEF Closed
  <2> QED
    BY <1>2, <2>2
<1>5. ASSUME NEW l \in d
      PROVE  l \notin Below({l})
  <2>1. PICK ls : l \notin ls /\ After(command, l, ls) /\ Closed(command, ls)
    BY <1>2
  <2>2. Named({l}) \subseteq ls /\ Named(ls) \subseteq ls
    BY <2>1, NamedAfter DEF Closed
  <2>3. Below({l}) \subseteq ls
    BY <2>2, BelowIs
  <2> QED
    BY <2>1, <2>3
<1> QED
  BY <1>1, <1>3, <1>4, <1>5

LEMMA SpotsAre ==
    ASSUME CommandLineAssumption, Walk(command, Exists, reading, processed, inputs), reading = <<>>
    PROVE  /\ \A p : {s \in Spots(processed) : PathAt(s) = p} = Seen(Exists, reading, processed, p)
           /\ \A s \in Spots(processed) : s \in Seen(Exists, reading, processed, PathAt(s))
           /\ \A s \in Spots(processed) : PathAt(s) = Lists[s[1]][s[2]].arg
<1>1. PICK c, e, r, d : c = command /\ e = Exists /\ r = reading /\ d = processed
  OBVIOUS
<1>2. IsCommand(c) /\ d \subseteq DOMAIN Lists /\ Len(r) = 0
  BY <1>1 DEF Walk, Stack
<1>3. ASSUME NEW l \in DOMAIN Lists
      PROVE  Lines(l) = Lists[l] /\ DOMAIN Lists[l] \subseteq Nat
  <2>1. l # Argv /\ LinesIn(c, l) = Lists[l] /\ DOMAIN LinesIn(c, l) = 1 .. Len(LinesIn(c, l))
    BY <1>2, LinesAre
  <2>2. Lines(l) = LinesIn(c, l)
    BY <1>1, SameLines
  <2>3. Lines(l) = Lists[l]
    BY <2>1, <2>2
  <2>4. DOMAIN Lists[l] = 1 .. Len(Lists[l])
    BY <2>1
  <2> QED
    BY <2>3, <2>4
<1>4. \A line : Taken(line) <=> TakenIn(e, line)
  BY <1>1, SameLines DEF Taken, TakenIn
<1>5. ASSUME NEW s \in Spots(d)
      PROVE  /\ s \in (DOMAIN Lists) \X Nat /\ s[1] \in d
             /\ Spot(e, s[1], s[2]) /\ PathAt(s) = Lists[s[1]][s[2]].arg
  <2>1. PICK l \in d : s \in {<<l, i>> : i \in {k \in DOMAIN Lines(l) : Taken(Lines(l)[k])}}
    BY DEF Spots
  <2>2. PICK i \in DOMAIN Lines(l) : Taken(Lines(l)[i]) /\ s = <<l, i>>
    BY <2>1
  <2>3. l \in DOMAIN Lists /\ Lines(l) = Lists[l] /\ i \in DOMAIN Lists[l] /\ i \in Nat
    BY <1>2, <1>3, <2>2
  <2>4. Spot(e, l, i)
    BY <1>4, <2>2, <2>3 DEF Spot
  <2>5. s[1] = l /\ s[2] = i
    BY <2>2
  <2>6. PathAt(s) = Lists[l][i].arg
    BY <2>3, <2>5 DEF PathAt
  <2> QED
    BY <2>2, <2>3, <2>4, <2>5, <2>6
<1>6. ASSUME NEW s \in (DOMAIN Lists) \X Nat, s[1] \in d, Spot(e, s[1], s[2])
      PROVE  s \in Spots(d)
  <2>1. PICK l, i : l = s[1] /\ i = s[2]
    OBVIOUS
  <2>2. s = <<l, i>> /\ l \in d /\ l \in DOMAIN Lists /\ Spot(e, l, i)
    BY <1>6, <2>1
  <2>3. i \in DOMAIN Lists[l] /\ TakenIn(e, Lists[l][i])
    BY <2>2 DEF Spot
  <2>4. i \in {k \in DOMAIN Lines(l) : Taken(Lines(l)[k])}
    BY <1>3, <1>4, <2>2, <2>3
  <2>5. PICK X : X = {<<l, k>> : k \in {k \in DOMAIN Lines(l) : Taken(Lines(l)[k])}}
    OBVIOUS
  <2>6. s \in X
    BY <2>2, <2>4, <2>5
  <2> QED
    BY <2>2, <2>5, <2>6 DEF Spots
<1>7. \A l, i : Behind(r, d, l, i) <=> l \in d
  BY <1>2 DEF Behind
<1>8. ASSUME NEW p, NEW s \in (DOMAIN Lists) \X Nat
      PROVE  s \in Seen(e, r, d, p) <=> s[1] \in d /\ Spot(e, s[1], s[2]) /\ Lists[s[1]][s[2]].arg = p
  <2>1. s \in Seen(e, r, d, p) <=>
           Spot(e, s[1], s[2]) /\ Behind(r, d, s[1], s[2]) /\ Lists[s[1]][s[2]].arg = p
    BY Zenon DEF Seen
  <2> QED
    BY <1>7, <2>1
<1>9. ASSUME NEW p
      PROVE  {s \in Spots(d) : PathAt(s) = p} = Seen(e, r, d, p)
  <2>1. \A s \in Seen(e, r, d, p) : s \in (DOMAIN Lists) \X Nat
    BY Zenon DEF Seen
  <2> QED
    BY <1>5, <1>6, <1>8, <2>1
<1>10. \A s \in Spots(d) : s \in Seen(e, r, d, PathAt(s))
  BY <1>5, <1>8
<1> QED
  BY <1>1, <1>5, <1>9, <1>10

LEMMA PrefixIs ==
    ASSUME NEW s, IsSeq(s), NEW t, IsSeq(t), Len(s) <= Len(t), \A i \in 1 .. Len(s) : t[i] = s[i]
    PROVE  IsPrefix(s, t)
<1>1. PICK n : n = Len(s)
  OBVIOUS
<1>2. PICK S, T : s \in Seq(S) /\ t \in Seq(T)
  BY DEF IsSeq
<1>3. PICK u, v : u = SubSeq(s, 1, n) /\ v = SubSeq(t, 1, n)
  OBVIOUS
<1>4. n \in Nat /\ Len(t) \in Nat /\ n <= Len(t)
  BY <1>1, <1>2
<1>5. u \in Seq(S) /\ Len(u) = n /\ \A i \in 1 .. n : u[i] = s[i]
  BY <1>1, <1>2, <1>3, <1>4
<1>6. v \in Seq(T) /\ Len(v) = n /\ \A i \in 1 .. n : v[i] = t[i]
  BY <1>2, <1>3, <1>4
<1>7. \A i \in 1 .. n : u[i] = v[i]
  BY <1>1, <1>5, <1>6
<1>8. u = v
  <2>1. u \in Seq(S \cup T) /\ v \in Seq(S \cup T)
    BY <1>5, <1>6
  <2> QED
    BY <1>4, <1>5, <1>6, <1>7, <2>1, SeqEqual
<1> QED
  BY <1>1, <1>3, <1>4, <1>8 DEF IsPrefix

LEMMA WalkLists ==
    ASSUME CommandLineAssumption, Walk(command, Exists, reading, processed, inputs), reading = <<>>
    PROVE  ListsOnce(inputs)
<1>1. PICK lists, spots : lists = Below({Argv}) /\ spots = Spots(lists)
  OBVIOUS
<1>2. PICK c, e, r, d, a : c = command /\ e = Exists /\ r = reading /\ d = processed /\ a = inputs
  OBVIOUS
<1>3. IsCommand(c) /\ Counted(c, e, r, d, a) /\ Ordered(c, e, r, d, a)
  BY <1>2 DEF Walk
<1>4. lists = d /\ \A l \in lists : l \notin Below({l})
  BY <1>1, <1>2, WalkedBelow
<1>5. /\ \A p : {s \in spots : PathAt(s) = p} = Seen(e, r, d, p)
      /\ \A s \in spots : s \in Seen(e, r, d, PathAt(s))
      /\ \A s \in spots : PathAt(s) = Lists[s[1]][s[2]].arg
  BY <1>1, <1>2, <1>4, SpotsAre
<1>6. IsPrefix(c.inputs, a)
  <2>1. IsSeq(c.inputs) /\ IsSeq(a) /\ Len(c.inputs) <= Len(a) /\ \A i \in 1 .. Len(c.inputs) : a[i] = c.inputs[i]
    BY <1>3 DEF IsCommand, Counted
  <2> QED
    BY <2>1, PrefixIs
<1>7. \A p : Times(p, a) = Times(p, c.inputs) + Cardinality({s \in spots : PathAt(s) = p})
  BY <1>3, <1>5 DEF Counted
<1>8. DOMAIN a = 1 .. Len(a)
  BY <1>3, SeqIs DEF Counted
<1>9. ASSUME NEW s \in Spots(Below({Argv})), NEW t \in Spots(Below({Argv})), s[1] = t[1], s[2] < t[2]
      PROVE  \E m, n \in DOMAIN inputs : /\ Len(command.inputs) < m /\ m < n
                                         /\ inputs[m] = PathAt(s) /\ inputs[n] = PathAt(t)
  <2>0. s \in spots /\ t \in spots
    BY <1>1
  <2>1. s \in Seen(e, r, d, PathAt(s)) /\ t \in Seen(e, r, d, PathAt(t))
    BY <1>5, <2>0
  <2>2. PICK m, n : Len(c.inputs) < m /\ m < n /\ At(a, s, m) /\ At(a, t, n)
    BY <1>3, <1>9, <2>1 DEF Ordered
  <2>3. m \in DOMAIN a /\ n \in DOMAIN a /\ a[m] = PathAt(s) /\ a[n] = PathAt(t)
    BY <1>5, <1>8, <2>0, <2>2 DEF At
  <2>4. /\ m \in DOMAIN inputs /\ n \in DOMAIN inputs /\ Len(command.inputs) < m /\ m < n
        /\ inputs[m] = PathAt(s) /\ inputs[n] = PathAt(t)
    BY <1>2, <2>2, <2>3
  <2> QED
    BY <2>4
<1>10. \A p : Times(p, inputs) = Times(p, command.inputs)
                                 + Cardinality({s \in Spots(Below({Argv})) : PathAt(s) = p})
  BY <1>1, <1>2, <1>7
<1>11. IsPrefix(command.inputs, inputs) /\ \A l \in Below({Argv}) : l \notin Below({l})
  BY <1>1, <1>2, <1>4, <1>6
<1> QED
  BY <1>9, <1>10, <1>11, Zenon DEF ListsOnce

\* The inputs hold those of the command line and of each list it leads to once,
\* in every state in which the process has read its arguments.
THEOREM InputsListedAlways == Spec => []InputsListed
<1>1. Init => WalkInv
  BY CommandLineAssumption, WalkInit
<1>2. edits \in Nat /\ WalkInv /\ [Next]_vars => WalkInv'
  BY CommandLineAssumption, WalkOn
<1>3. WalkInv => InputsListed
  BY CommandLineAssumption, WalkLists DEF WalkInv, InputsListed, Argued
<1>4. LoadInv => edits \in Nat
  BY DEF LoadInv
<1> QED
  BY <1>1, <1>2, <1>3, <1>4, LoadAlways, PTL DEF Spec
=============================================================================

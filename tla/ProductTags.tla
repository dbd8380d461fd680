------------------------------ MODULE ProductTags ------------------------------
(***************************************************************************)
(* How emitted files are told apart into synthesis and verification ones:  *)
(* UniqueModule._collect_prod_list walks the finished instance tree in     *)
(* depth-first order and prunes what it saw already, and                   *)
(* Manager._populate_outfile_tags turns its result into OUTFILE_TAGS and   *)
(* OUTFILE_ORDER.                                                          *)
(*                                                                         *)
(* The tree is any tree elaboration can leave behind with at most MaxObjs  *)
(* instances.  Instances are numbered in order of construction; the number *)
(* is the instance name, and that of an instance whose body ran is also    *)
(* the name of its module and of its file.                                 *)
(***************************************************************************)
EXTENDS SequencesExt

CONSTANTS
    MaxObjs,        \* bound on the number of instances
    CloneOfClone    \* whether clone_inst may be given a clone

ASSUME BoundAssumption == MaxObjs \in Nat \ {0} /\ CloneOfClone \in BOOLEAN

VARIABLES
    tree,           \* [parent, cloneOf] of each instance, 0 for none
    synonymOf,      \* the module that called synonym(), or 0
    synthTop,       \* the --synth-top path, <<>> when there is none
    stack,          \* frames of _collect_prod_list
    synthFiles, verifFiles,
    results,        \* <<instance, is_synth>> pairs, as _collect_prod_list lists them
    tagged,         \* how many of them _populate_outfile_tags has handled
    tags,           \* OUTFILE_TAGS
    order           \* OUTFILE_ORDER

vars == <<tree, synonymOf, synthTop, stack, synthFiles, verifFiles, results,
          tagged, tags, order>>
given == <<tree, synonymOf, synthTop>>

-----------------------------------------------------------------------------
(* Instance trees. *)

\* An instance and its ancestors.
Up(t, i) ==
    LET up[n \in 0 .. Len(t)] == IF n = 0 THEN {} ELSE {n} \cup up[t[n].parent]
    IN  up[i]

OriginIn(t, i) ==
    LET source[n \in 1 .. Len(t)] ==
            IF t[n].cloneOf = 0 THEN n ELSE source[t[n].cloneOf]
    IN  source[i]

\* What the body of q may make next: an instance elaborated afresh, or an alias
\* of one that is not, and has not, the module of an instance above it.
Sources(t, q) ==
    {0} \cup {r \in 1 .. Len(t) :
                /\ OriginIn(t, r) \notin Up(t, q)
                /\ CloneOfClone \/ t[r].cloneOf = 0}

\* The next instance is made by a body still running: that of the last
\* instance or of one of its ancestors.
Grown(t) ==
    UNION {{Append(t, [parent |-> q, cloneOf |-> r]) : r \in Sources(t, q)} :
           q \in {p \in Up(t, Len(t)) : t[p].cloneOf = 0}}

Trees ==
    LET grown[n \in 1 .. MaxObjs] ==
            IF n = 1 THEN {<<[parent |-> 0, cloneOf |-> 0]>>}
            ELSE UNION {Grown(t) : t \in grown[n - 1]}
    IN  grown[MaxObjs]

Objs == DOMAIN tree
OwnSubs(i) == {n \in Objs : tree[n].parent = i}
File(i) == OriginIn(tree, i)

\* The hierarchy the emitted files describe: <<module, path>> pairs.
Hierarchy(t) ==
    LET Below(f) == {n \in DOMAIN t : t[n].parent = f}
        level[d \in 1 .. Len(t)] ==
            IF d = 1 THEN {<<1, <<1>>>>}
            ELSE UNION {{<<OriginIn(t, n), Append(u[2], n)>> : n \in Below(u[1])} :
                        u \in level[d - 1]}
    IN  UNION {level[d] : d \in 1 .. Len(t)}

Occurrences == Hierarchy(tree)

-----------------------------------------------------------------------------
(* _collect_prod_list *)

\* At or below --synth-top.
InCone(path) == synthTop # <<>> /\ IsPrefix(synthTop, path)

\* A slip: whatever leads to the cone counts as inside it.
InConeOrAbove(path) ==
    /\ synthTop # <<>>
    /\ IsPrefix(synthTop, path) \/ IsPrefix(path, synthTop)

\* is_synth, the side _collect_prod_list puts an instance on.
IsSynth(path) == InCone(path)

\* A slip: a verification parent of the cone is not on the way to it.
OnlyInCone(path) == IsSynth(path)

\* on_synth_path: in the cone, or on the way down to it.
OnSynthPath(path) ==
    synthTop # <<>> /\ (IsSynth(path) \/ IsStrictPrefix(path, synthTop))

\* A slip: a file seen on either side is not looked at again.
SkipSeen(i, path) == File(i) \in synthFiles \cup verifFiles /\ ~OnSynthPath(path)

\* The early returns.
Skip(i, path) ==
    \/ IsSynth(path) /\ File(i) \in synthFiles
    \/ ~IsSynth(path) /\ File(i) \in verifFiles /\ ~OnSynthPath(path)

\* A clone owns no children: those of the instance it was cloned from.
Descend(i) ==
    IF OwnSubs(i) = {} /\ tree[i].cloneOf # 0 THEN OwnSubs(tree[i].cloneOf)
    ELSE OwnSubs(i)

Enter(i, path) ==
    /\ IF IsSynth(path)
       THEN synthFiles' = synthFiles \cup {File(i)} /\ UNCHANGED verifFiles
       ELSE verifFiles' = verifFiles \cup {File(i)} /\ UNCHANGED synthFiles
    /\ stack' = Append(IF stack = <<>> THEN stack
                       ELSE [stack EXCEPT ![Len(stack)].todo = @ \ {i}],
                       [inst |-> i, path |-> path, todo |-> Descend(i)])
    /\ UNCHANGED <<results, tagged, tags, order>>

Start ==
    /\ stack = <<>> /\ results = <<>>
    /\ Enter(1, <<1>>)
    /\ UNCHANGED given

Here == Last(stack)
\* Instances are numbered in the order a body made them.
Next1 == Min(Here.todo)
NextPath == Append(Here.path, Next1)

Visit ==
    /\ stack # <<>> /\ Here.todo # {}
    /\ ~Skip(Next1, NextPath)
    /\ Enter(Next1, NextPath)
    /\ UNCHANGED given

Prune ==
    /\ stack # <<>> /\ Here.todo # {}
    /\ Skip(Next1, NextPath)
    /\ stack' = [stack EXCEPT ![Len(stack)].todo = @ \ {Next1}]
    /\ UNCHANGED <<given, synthFiles, verifFiles, results, tagged, tags, order>>

\* All sub-instances are done: the instance itself goes on the list.
List ==
    /\ stack # <<>> /\ Here.todo = {}
    /\ results' = Append(results, <<Here.inst, IsSynth(Here.path)>>)
    /\ stack' = Front(stack)
    /\ UNCHANGED <<given, synthFiles, verifFiles, tagged, tags, order>>

-----------------------------------------------------------------------------
(* _populate_outfile_tags *)

\* The file of a module and the one its synonym() wrote.
Names(i) == {<<File(i), "v">>} \cup IF File(i) = synonymOf THEN {<<File(i), "syn">>} ELSE {}

\* The tag a name has after _promote.
PromotedTag(name, tag) ==
    IF name \notin DOMAIN tags \/ tags[name] = tag THEN tag ELSE "synth_and_verif"

\* A slip: a name met again moves to the end.
Relisted(name, seq) == Append(SelectSeq(seq, LAMBDA n : n # name), name)

Listed(name, seq) == IF Contains(seq, name) THEN seq ELSE Append(seq, name)

Promote ==
    /\ results # <<>> /\ stack = <<>>
    /\ tagged < Len(results)
    /\ LET inst  == results[tagged + 1][1]
           tag   == IF results[tagged + 1][2] THEN "synth" ELSE "verif"
           file  == Listed(<<File(inst), "v">>, order)
       IN  /\ tags' = [n \in DOMAIN tags \cup Names(inst) |->
                          IF n \in Names(inst) THEN PromotedTag(n, tag) ELSE tags[n]]
           /\ order' = IF File(inst) = synonymOf THEN Listed(<<File(inst), "syn">>, file) ELSE file
    /\ tagged' = tagged + 1
    /\ UNCHANGED <<given, stack, synthFiles, verifFiles, results>>

-----------------------------------------------------------------------------

\* --synth-top names an instance, or nothing in this hierarchy, or is absent.
Init ==
    /\ tree \in Trees
    /\ synonymOf \in {0} \cup {i \in DOMAIN tree : tree[i].cloneOf = 0}
    /\ synthTop \in {u[2] : u \in Hierarchy(tree)} \cup {<<>>, <<0>>}
    /\ stack = <<>>
    /\ synthFiles = {} /\ verifFiles = {}
    /\ results = <<>>
    /\ tagged = 0
    /\ tags = <<>>
    /\ order = <<>>

Next == Start \/ Visit \/ Prune \/ List \/ Promote

Spec == Init /\ [][Next]_vars

Done == results # <<>> /\ stack = <<>> /\ tagged = Len(results)

-----------------------------------------------------------------------------
(* Properties *)

TypeOK ==
    /\ \A i \in DOMAIN stack : stack[i].inst \in Objs
    /\ synthFiles \cup verifFiles \subseteq Objs
    /\ results \in Seq(Objs \X BOOLEAN)
    /\ \A n \in DOMAIN tags : tags[n] \in {"synth", "verif", "synth_and_verif"}
    /\ DOMAIN tags = ToSet(order)

InSynth == {u[1] : u \in {v \in Occurrences : InCone(v[2])}}
InVerif == {u[1] : u \in {v \in Occurrences : ~InCone(v[2])}}
Marked(f, tag) ==
    \A k \in {"v", "syn"} :
        k = "v" \/ f = synonymOf =>
            <<f, k>> \in DOMAIN tags /\ tags[<<f, k>>] \in {tag, "synth_and_verif"}

SingleAbove ==
    \A u, v \in Occurrences :
        IsStrictPrefix(u[2], synthTop) /\ u[1] = v[1] => u = v

\* The lists lack no module and have none too many: whatever subtrees were
\* pruned and through however many clones a module is reached, it is tagged
\* for synthesis if and only if the hierarchy has it at or below --synth-top,
\* and for verification if and only if it has it outside.  (A module that no
\* walk got to outside may be missing there, where one above --synth-top is
\* instantiated more than once.)
TagsExact ==
    Done =>
        /\ \A f \in InSynth : Marked(f, "synth")
        /\ SingleAbove => \A f \in InVerif : Marked(f, "verif")
        /\ \A f \in Objs :
              <<f, "v">> \in DOMAIN tags =>
                  /\ tags[<<f, "v">>] # "verif" => f \in InSynth
                  /\ tags[<<f, "v">>] # "synth" => f \in InVerif

\* The file lists can be compiled in order: a file is listed once, after the
\* files of all modules it instantiates.
BottomUp ==
    Done =>
        /\ IsInjective(order)
        /\ \A i, j \in DOMAIN order, n \in Objs :
              /\ tree[n].parent = order[i][1]
              /\ order[j] = <<File(n), "v">>
              => j < i
=============================================================================

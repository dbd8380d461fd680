--------------------------- MODULE ElaborationSafety ---------------------------
(***************************************************************************)
(* What elaboration promises: properties of the states and the steps of    *)
(* Elaboration.                                                            *)
(***************************************************************************)
EXTENDS Elaboration, FiniteSets

(***************************************************************************)
(* The instance tree.                                                      *)
(***************************************************************************)

\* Instances still hanging off the top: not dropped by an exception, not
\* replaced by a clone after a post-elaboration hit.
Live ==
    LET attached[i \in 1 .. Len(insts)] ==
            \/ insts[i].parent = 0
            \/ LET p == insts[i].parent
               IN  /\ attached[p]
                   /\ insts[i].iname \in DOMAIN insts[p].subs
                   /\ insts[p].subs[insts[i].iname] = i
    IN  {i \in 1 .. Len(insts) : attached[i]}

Elaborated == {i \in Live : insts[i].done}

\* The instance whose body a clone stands for, following clones of clones.
Origin(i) ==
    LET source[n \in 1 .. Len(insts)] ==
            IF insts[n].cloneOf = 0 THEN n ELSE source[insts[n].cloneOf]
    IN  source[i]

\* The sub-instances seen through a clone are those of its source.
SubsOf(i) == insts[Origin(i)].subs

InScope == {i \in DOMAIN stack : Journaled(stack[i])}

IsDedupKey(k) == k[1] \in {"pre", "post", "param"}
DedupKeys == {k \in DOMAIN modules : IsDedupKey(k)}

-----------------------------------------------------------------------------

\* Shapes of the state.
TypeOK ==
    /\ cfg \in Settings
    /\ status \in {"running", "raising", "done", "failed"}
    /\ \A i \in DOMAIN insts :
          /\ insts[i].cls \in Classes
          /\ {insts[i].start, insts[i].val} \subseteq Vals \cup {None}
          /\ insts[i].parent \in 0 .. i - 1 /\ insts[i].cloneOf \in 0 .. i - 1
          /\ insts[i].subs \in UNION {[S -> 1 .. Len(insts)] : S \in {DOMAIN insts[i].subs}}
    /\ \A i \in DOMAIN stack : stack[i].inst \in DOMAIN insts /\ stack[i].pc \in Nat
    /\ active \in {0} \cup DOMAIN insts
    /\ \A k \in DOMAIN modules : modules[k] \in DOMAIN insts
    /\ derivs \in [Classes \X {"unq", "tmp"} -> Nat]
    /\ DOMAIN ununiq \subseteq Classes

\* What a body's scope opens is closed with it, also after exceptions have
\* unwound any number of scopes and were caught.  The two caches have one
\* journal per unique_inst under way: one left open would let a later rollback
\* undo writes that are not its own.  The active module is the one whose body
\* runs: otherwise an include() would write into the text of another.
ScopesClose == /\ Len(modJ) = Cardinality(InScope)
               /\ Len(outJ) = Cardinality(InScope)
               /\ active = IF stack = <<>> THEN 0 ELSE Self

\* The modules a key or the registry of bare names leads to.
Keyed == {modules[k] : k \in DedupKeys} \cup {ununiq[c].inst : c \in DOMAIN ununiq}

\* Every elaborated instance still in the tree, clones included, and every one
\* a later instantiation may be given, names a file that is in the output
\* cache with its final text: no rollback, temporary file or unwinding takes
\* away a file that a kept instance refers to.
FilesKept ==
    \A i \in Elaborated \cup Keyed :
        /\ insts[i].ofile \in DOMAIN outfiles
        /\ outfiles[insts[i].ofile].final

\* That file holds what the instance's own body produced: no other module
\* was written to the same name.
FilesFaithful ==
    \A i \in Elaborated \cup Keyed :
        LET f == insts[i].ofile
            o == insts[Origin(i)]
        IN  f \in DOMAIN outfiles =>
                /\ outfiles[f].cls = o.cls
                /\ outfiles[f].start = o.start
                /\ outfiles[f].kids = o.kids

\* What a dedup key leads to: an instance that ran its own body to the end,
\* with the class and the value the key spells and the overrides below it.
Spelled(i, k) ==
    /\ i.done /\ i.cloneOf = 0 /\ i.cls = k[2]
    /\ k[1] = "post" => i.val = k[3]
    /\ k[1] # "post" => i.eff = k[3]
    /\ SubtreeSig(i.path) = k[4]

\* So does an entry of ununique_inst's registry, which no journal covers.
Registered(c) ==
    LET i == insts[ununiq[c].inst]
    IN  /\ i.done /\ i.cloneOf = 0 /\ i.cls = c
        /\ i.eff = ununiq[c].eff /\ SubtreeSig(i.path) = ununiq[c].sig

\* A key never leads to a body that raised, so that it "doesn't poison" the
\* cache, nor to one whose parameters changed after the key was made, also
\* after rollbacks have put earlier bindings back.
KeysHonest == /\ \A k \in DedupKeys : Spelled(insts[modules[k]], k)
              /\ \A c \in DOMAIN ununiq : Registered(c)

\* Dedup is complete: unique_inst never keeps two modules of one class with
\* the same final parameters and the same overrides below them.
NoTwins ==
    ~cfg.nocache =>
        \A i, j \in Elaborated :
            /\ {insts[i].by, insts[j].by} = {"unique"}
            /\ insts[i].cloneOf = 0 /\ insts[j].cloneOf = 0
            /\ insts[i].cls = insts[j].cls /\ insts[i].val = insts[j].val
            /\ SubtreeSig(insts[i].path) = SubtreeSig(insts[j].path)
            => i = j

\* What a fresh elaboration of this path would have read.  The top is not
\* instantiated by a body: nothing hands it the overrides of its path.
Honours(i, path) ==
    LET given == IF insts[i].parent = 0 THEN None ELSE EffParams(path, insts[i].kw)
    IN  ParamValue(insts[i].cls, path, given) = insts[i].start

\* The signature a key is made of has the scoped values and not their sources,
\* and a bare --parameter outranks those of the JSON file only: where all
\* three kinds are given, equal signatures may be read differently.
OneScale == \/ cfg.bare = None
            \/ \A o \in cfg.over : o.tier = "json"
            \/ \A o \in cfg.over : o.tier # "json"

\* The hierarchy the emitted Verilog describes, clones unrolled: pairs of an
\* instance and a path where it occurs.  What clone_inst placed is left out
\* with all below it: it aliases its source on purpose.
Unrolled ==
    LET Below(n) == {<<SubsOf(n[1])[x], Append(n[2], x)>> : x \in DOMAIN SubsOf(n[1])}
        level[d \in 0 .. MaxDepth] ==
            IF d = 0 THEN {<<1, insts[1].path>>}
            ELSE {m \in UNION {Below(n) : n \in level[d - 1]} : insts[m[1]].by # "clone"}
    IN  UNION {level[d] : d \in 0 .. MaxDepth}

OnlyDeclaredForces == \A i \in DOMAIN insts : insts[i].forced => ForcedAt[insts[i].cls] # None

\* Dedup is sound: at every path of the final hierarchy, also below clones,
\* the value the emitted module was elaborated with is the value a fresh
\* elaboration of that very path would have read.  (Only while no body calls
\* force_param, after which modules are shared by their final values, and only
\* where a bare value outranks all scoped ones or none.)
DedupSound ==
    OnlyDeclaredForces /\ OneScale => \A n \in Unrolled :
        insts[n[1]].done => Honours(n[1], n[2])

\* The modules an instance is in: its own and those of the instances above it.
Within(i) ==
    LET up[n \in 0 .. Len(insts)] ==
            IF n = 0 THEN {} ELSE {Origin(n)} \cup up[insts[n].parent]
    IN  up[i]

\* No module contains an instance of itself: a clone's source is never the
\* instance it hangs under, or that one's own source.
Acyclic ==
    \A i \in Live : insts[i].cloneOf # 0 => Origin(i) \notin Within(insts[i].parent)

\* A synonym's file carries the text of the module the synonym is registered
\* to, whatever failed or discarded elaborations used the name in between.
SynonymServed ==
    \A i \in Elaborated :
        \A s \in insts[i].syns :
            modules[NameKey(s)] = Origin(i) =>
                /\ s \in DOMAIN outfiles
                /\ insts[i].ofile \in DOMAIN outfiles
                /\ outfiles[s] = outfiles[insts[i].ofile]

-----------------------------------------------------------------------------
(* Steps. *)

\* Parameters are sealed: only the body under execution can change an
\* instance's parameter, so an elaborated module keeps the values its text
\* and its dedup keys were made from, and a child cannot touch its parents.
ParamsSealed ==
    [][\A i \in DOMAIN insts :
          insts'[i].val # insts[i].val => stack # <<>> /\ i = Self]_vars

InUse == {Origin(i) : i \in Live}

\* A dedup key is never bound to another module, and a rollback takes it back
\* only with a module that nothing in the hierarchy, clones included, is made
\* from any more.
KeysStable ==
    [][\A k \in DedupKeys :
          IF k \in DOMAIN modules' THEN modules'[k] = modules[k]
          ELSE modules[k] \notin InUse']_vars

\* Elaboration ends, by finishing the top module or by failing.
Terminates == <>(status \in {"done", "failed"})
=============================================================================

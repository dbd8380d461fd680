------------------------------ MODULE Elaboration ------------------------------
(***************************************************************************)
(* The elaboration engine of src/genesispy/unique_module.py: how a tree of *)
(* module instances is built by running template bodies that call          *)
(* unique_inst, unique_inst_param, ununique_inst, clone_inst, synonym and  *)
(* force_param, and how equal elaborations are collapsed onto one module   *)
(* through the caches of cache.py.                                         *)
(*                                                                         *)
(* Elaboration is one thread running a recursive interpreter: stack is its *)
(* call stack, one frame per body under execution.  What a template does   *)
(* is not known to the engine, so a body is a list of operations chosen    *)
(* from Ops the first time it runs and replayed from then on; a body       *)
(* depends on nothing but its class and the value its parameter starts     *)
(* with.  Every class has one parameter.  A module name and the file it is *)
(* written to are the same tuple here: the extension is a constant of the  *)
(* class.                                                                  *)
(***************************************************************************)
EXTENDS Journal, SequencesExt

CONSTANTS
    Classes, Vals,      \* template classes, parameter values
    None,               \* "not given": no keyword, no override, no file yet
    TopClass,           \* the class of the top module
    Default,            \* Default[c]: the default c's body declares
    ForcedAt,           \* ForcedAt[c]: value c declares with force=True, or None
    Settings,           \* the possible runs: [over, bare, nocache, prog]
    Ops,                \* Ops[p][c]: what a body of c may do in program p
    MaxOps,             \* MaxOps[p][c]: bound on the length of such a body
    MaxDepth            \* the interpreter's recursion limit, in bodies

ASSUME ClassAssumption ==
    /\ TopClass \in Classes
    /\ Default \in [Classes -> Vals]
    /\ ForcedAt \in [Classes -> Vals \cup {None}]
    /\ \A s \in Settings :
          /\ MaxOps[s.prog] \in [Classes -> Nat]
          /\ \A o \in s.over : o.path \in Seq(ToSet(o.path))
    /\ MaxDepth \in Nat \ {0}
    /\ None \notin Vals

VARIABLES
    cfg,        \* this run: its overrides, its flags, the program elaborated
    script,     \* <<class, start value>> -> operations revealed so far
    insts,      \* every UniqueModule object made, in order of construction
    stack,      \* frames of the bodies under execution, innermost last
    active,     \* _active_module of user_config.py, which bare-name helpers and
                \* include() act on; 0 for none
    status,     \* "running", "raising" (an exception propagates), "done", "failed"
    modules,    \* MODULE_CACHE: key -> index in insts
    modJ,       \* its active journals
    outfiles,   \* OUTFILE_CONTENT_CACHE: file -> contents
    outJ,       \* its active journals
    derivs,     \* MODULE_NAME_NUM_DERIVS
    ununiq      \* UNUNIQUE_REGISTRY: class -> first ununique_inst call

vars == <<cfg, script, insts, stack, active, status, modules, modJ, outfiles, outJ,
          derivs, ununiq>>
caches == <<modules, modJ, outfiles, outJ>>

Empty == [x \in {} |-> x]

-----------------------------------------------------------------------------
(* External configuration: cfg.over is a set of path-addressed values, each *)
(* from the JSON file, a .cfg script or the command line; cfg.bare is the   *)
(* value of a --parameter without a path.                                   *)

At(path, tier) ==
    LET hits == {o \in cfg.over : o.path = path /\ o.tier = tier}
    IN  IF hits = {} THEN None ELSE (CHOOSE o \in hits : TRUE).val

FirstGiven(a, b) == IF a # None THEN a ELSE b

\* ConfigHandler.scoped_overrides_for: .cfg and command line, not JSON.
ScopedFor(path) == FirstGiven(At(path, "cmdln"), At(path, "cfg"))

\* _resolve_params: an explicit keyword wins over the scoped overrides.
EffParams(path, kw) == FirstGiven(kw, ScopedFor(path))

\* A slip: only the sources scoped_overrides_for reads count.
SubtreeSigNoJson(path) ==
    {<<SubSeq(q, Len(path) + 1, Len(q)), ScopedFor(q)>> :
        q \in {o.path : o \in {p \in cfg.over : p.tier # "json" /\ IsPrefix(path, p.path)}}}

\* _scoped_subtree_signature: the scoped values at and below path, from all
\* three sources, keyed relative to path.
SubtreeSig(path) ==
    {<<SubSeq(q, Len(path) + 1, Len(q)),
       FirstGiven(ScopedFor(q), At(q, "json"))>> :
        q \in {o.path : o \in {p \in cfg.over : IsPrefix(path, p.path)}}}

\* get_configuration: a scoped command-line value, else by priority the bare
\* command-line value, the JSON value, the .cfg value.
Configured(path) ==
    FirstGiven(At(path, "cmdln"),
    FirstGiven(cfg.bare,
    FirstGiven(At(path, "json"), At(path, "cfg"))))

\* parameter(D, default, force=...): a forced value, else the value
\* override_param stored, else the configured one, else the default.
ParamValue(c, path, eff) ==
    FirstGiven(ForcedAt[c],
    FirstGiven(eff,
    FirstGiven(Configured(path), Default[c])))

-----------------------------------------------------------------------------
(* The body under execution. *)

Frame == Last(stack)
Self  == Frame.inst
Me    == insts[Self]
Body  == <<Me.cls, Me.start>>
Known == IF Body \in DOMAIN script THEN script[Body] ELSE <<>>
End   == [op |-> "end"]

\* The operations the body may perform next: the one it performed there
\* before, or any one of its class, or none.
NextOps ==
    CASE Frame.pc <= Len(Known)   -> {Known[Frame.pc]}
      [] Len(Known) = MaxOps[cfg.prog][Me.cls] -> {End}
      [] OTHER -> Ops[cfg.prog][Me.cls] \cup {End}

InBody == status = "running" /\ stack # <<>> /\ Frame.pc > 0

Perform(op) ==
    /\ script' = IF Frame.pc <= Len(Known) THEN script
                 ELSE Put(script, Body, Append(Known, op))
    /\ UNCHANGED cfg

\* The body's call returns: on to its next operation.
Advance(s) == [s EXCEPT ![Len(s)].pc = @ + 1]

\* An operation raises before it changed anything.
Raises ==
    /\ status' = "raising"
    /\ UNCHANGED <<insts, stack, active, caches, derivs, ununiq>>

ChildPath(op) == Append(Me.path, op.iname)
Eff(op)       == EffParams(ChildPath(op), op.kw)
Sig(op)       == SubtreeSig(ChildPath(op))
Fresh(op)     == op.iname \notin DOMAIN Me.subs  \* _guard_new_instance_name

\* Keys of MODULE_CACHE.
PreKey(c, eff, sig)   == <<"pre", c, eff, sig>>
PostKey(c, val, sig)  == <<"post", c, val, sig>>
ParamKey(c, eff, sig) == <<"param", c, eff, sig>>
NameKey(name)         == <<"name", name>>

\* _new_as_clone, and its insertion in the parent: the clone shares the
\* module name, file and parameters of src and runs no body.
Clone(src, op) ==
    LET clone == [insts[src] EXCEPT
                    !.parent = Self, !.iname = op.iname, !.path = ChildPath(op),
                    !.kw = op.kw, !.open = FALSE, !.subs = Empty, !.kids = <<>>,
                    !.cloneOf = src, !.by = op.op]
    IN  Append([insts EXCEPT
                  ![Self].subs = Put(@, op.iname, Len(insts) + 1),
                  ![Self].kids = Append(@, <<op.iname, insts[src].uname>>)],
               clone)

Alias(src, op) ==
    /\ insts' = Clone(src, op)
    /\ stack' = Advance(stack)
    /\ UNCHANGED <<active, status, caches, derivs, ununiq>>

NewInst(c, parent, iname, path, kw, eff, uname, by) ==
    [cls |-> c, parent |-> parent, iname |-> iname, path |-> path,
     kw |-> kw, eff |-> eff, uname |-> uname, by |-> by,
     start |-> None, val |-> eff, forced |-> FALSE, open |-> TRUE,
     subs |-> Empty, kids |-> <<>>, syns |-> {}, cloneOf |-> 0,
     ofile |-> None, done |-> FALSE]

\* A slip: the parent's parameters stay open while a child runs.
OpenAsBefore == Me.open

\* _execute_child: a body cannot touch its parent's parameters.
OpenUnderChild == FALSE

\* A slip: the key is stored before the body ran.
ElaboratePoisons(op, kind, uname) ==
    /\ insts' = Append([insts EXCEPT
                          ![Self].subs = Put(@, op.iname, Len(insts) + 1),
                          ![Self].open = OpenUnderChild],
                       NewInst(op.cls, Self, op.iname, ChildPath(op), op.kw,
                               Eff(op), uname, op.op))
    /\ stack' = Append(stack, [inst |-> Len(insts) + 1, pc |-> 0, kind |-> kind,
                               sig |-> Sig(op), popen |-> Me.open,
                               prev |-> active])
    /\ active' = Len(insts) + 1
    /\ modules' = Put(modules, PreKey(op.cls, Eff(op), Sig(op)), Len(insts) + 1)
    /\ UNCHANGED <<status, outfiles, ununiq>>

\* _new_as_son, override_param, and entry to _execute_child: the parent's
\* parameters close while the child's body runs, and the child is the active
\* module.
Elaborate(op, kind, uname) ==
    /\ insts' = Append([insts EXCEPT
                          ![Self].subs = Put(@, op.iname, Len(insts) + 1),
                          ![Self].open = OpenUnderChild],
                       NewInst(op.cls, Self, op.iname, ChildPath(op), op.kw,
                               Eff(op), uname, op.op))
    /\ stack' = Append(stack, [inst |-> Len(insts) + 1, pc |-> 0, kind |-> kind,
                               sig |-> Sig(op), popen |-> Me.open,
                               prev |-> active])
    /\ active' = Len(insts) + 1
    /\ UNCHANGED <<status, modules, outfiles, ununiq>>

NextDerivation(k) == derivs' = [derivs EXCEPT ![k] = @ + 1]

OpenJournals  == modJ' = Append(modJ, Empty) /\ outJ' = Append(outJ, Empty)
KeepJournals  == UNCHANGED <<modJ, outJ>>

-----------------------------------------------------------------------------
(* Entering a body. *)

\* execute(): the banner is written to the output cache, then the body
\* declares its parameter.
Begin ==
    /\ status = "running"
    /\ stack # <<>>
    /\ Frame.pc = 0
    /\ Len(stack) <= MaxDepth
    /\ LET v == ParamValue(Me.cls, Me.path, Me.eff)
       IN  insts' = [insts EXCEPT ![Self].start = v, ![Self].val = v,
                                  ![Self].forced = (ForcedAt[Me.cls] # None),
                                  ![Self].ofile = Me.uname]
    /\ outJ' = Recorded(outJ, outfiles, Me.uname)
    /\ outfiles' = Put(outfiles, Me.uname,
                       [cls |-> Me.cls, start |-> None, kids |-> <<>>, final |-> FALSE])
    /\ stack' = Advance(stack)
    /\ UNCHANGED <<cfg, script, active, status, modules, modJ, derivs, ununiq>>

\* RecursionError, an exception like any other to the code.
TooDeep ==
    /\ status = "running"
    /\ Len(stack) > MaxDepth
    /\ Raises
    /\ UNCHANGED <<cfg, script>>

-----------------------------------------------------------------------------
(* Instantiation. *)

\* unique_inst, up to the run of the child's body.
UniqueHit(op) ==
    LET key == PreKey(op.cls, Eff(op), Sig(op))
    IN  /\ op.op = "unique" /\ Fresh(op)
        /\ ~cfg.nocache /\ key \in DOMAIN modules
        /\ Alias(modules[key], op)

UniqueMiss(op) ==
    LET n == derivs[<<op.cls, "unq">>] + 1
    IN  /\ op.op = "unique" /\ Fresh(op)
        /\ cfg.nocache \/ PreKey(op.cls, Eff(op), Sig(op)) \notin DOMAIN modules
        /\ Elaborate(op, "unique", <<op.cls, "unq", n>>)
        /\ NextDerivation(<<op.cls, "unq">>)
        /\ IF cfg.nocache THEN KeepJournals ELSE OpenJournals

\* unique_inst_param.  The name spells the overriding values; on an override
\* path it also takes a number from the counter of unique_inst.
ParamHit(op) ==
    LET key == ParamKey(op.cls, Eff(op), Sig(op))
    IN  /\ op.op = "param" /\ Fresh(op)
        /\ ~cfg.nocache /\ key \in DOMAIN modules
        /\ Alias(modules[key], op)

ParamMiss(op) ==
    LET spelled == IF Eff(op) = None THEN <<op.cls>> ELSE <<op.cls, "D", Eff(op)>>
        n       == derivs[<<op.cls, "unq">>] + 1
    IN  /\ op.op = "param" /\ Fresh(op)
        /\ cfg.nocache \/ ParamKey(op.cls, Eff(op), Sig(op)) \notin DOMAIN modules
        /\ KeepJournals
        /\ IF Sig(op) = {}
           THEN /\ Elaborate(op, "param", spelled)
                /\ UNCHANGED derivs
           ELSE /\ Elaborate(op, "param", spelled \o <<"unq", n>>)
                /\ NextDerivation(<<op.cls, "unq">>)

\* ununique_inst: the first call of a class, or any call without the cache.
UnunqFirst(op) ==
    /\ op.op = "ununq" /\ Fresh(op)
    /\ cfg.nocache \/ op.cls \notin DOMAIN ununiq
    /\ Elaborate(op, "ununq", <<op.cls>>)
    /\ KeepJournals
    /\ UNCHANGED derivs

\* A later call: alias, refuse, or elaborate again under a temporary name.
Later(op) == /\ op.op = "ununq" /\ Fresh(op)
             /\ ~cfg.nocache /\ op.cls \in DOMAIN ununiq

UnunqAlias(op) ==
    /\ Later(op)
    /\ ununiq[op.cls].sig = Sig(op) /\ ununiq[op.cls].eff = Eff(op)
    /\ Alias(ununiq[op.cls].inst, op)

UnunqConflict(op) ==
    /\ Later(op)
    /\ ununiq[op.cls].sig = Sig(op) /\ ununiq[op.cls].eff # Eff(op)
    /\ Raises

UnunqAgain(op) ==
    /\ Later(op)
    /\ ununiq[op.cls].sig # Sig(op)
    /\ Elaborate(op, "again", <<op.cls, "tmp", derivs[<<op.cls, "tmp">>] + 1>>)
    /\ NextDerivation(<<op.cls, "tmp">>)
    /\ KeepJournals

\* A slip: the calling module itself is not among the ancestors.
StrictAncestors == {stack[i].inst : i \in 1 .. Len(stack) - 1}

\* The module names a clone may not have: those of the caller and of the
\* instances above it.
Ancestors == {stack[i].inst : i \in DOMAIN stack}

\* A body names another instance by a sequence of steps from itself or from
\* the top: get_parent, get_subinst, the names of a dotted path.  A step that
\* leads nowhere raises; a clone has no sub-instances to step into.
Follow(i, name) ==
    CASE i = 0 -> 0
      [] i # 0 /\ name = "parent" -> insts[i].parent
      [] i # 0 /\ name \in DOMAIN insts[i].subs -> insts[i].subs[name]
      [] OTHER -> 0

\* get_instance_obj: the instance a reference leads to, if there is one.
Instances(ref) ==
    {FoldLeft(Follow, IF Head(ref) = "top" THEN 1 ELSE Self, Tail(ref))}
        \cap DOMAIN insts

\* clone_inst: refused when the source has the module name of the caller or of
\* an ancestor.
CloneInst(op) ==
    /\ op.op = "clone" /\ Fresh(op)
    /\ \E src \in Instances(op.src) :
          /\ \A a \in Ancestors : insts[a].uname # insts[src].uname
          /\ Alias(src, op)

CloneRefused(op) ==
    /\ op.op = "clone" /\ Fresh(op)
    /\ \A src \in Instances(op.src) :
          \E a \in Ancestors : insts[a].uname = insts[src].uname
    /\ Raises

\* Any of the calls above with an instance name already taken.
NameTaken(op) == /\ op.op \in {"unique", "param", "ununq", "clone"}
                 /\ ~Fresh(op)
                 /\ Raises

-----------------------------------------------------------------------------
(* The other operations of a body. *)

\* synonym(): register another name and copy the file as it is now.
Synonym(op) ==
    /\ op.op = "synonym"
    /\ stack' = Advance(stack)
    /\ UNCHANGED <<active, status, derivs, ununiq>>
    /\ IF op.name \in Me.syns
       THEN UNCHANGED <<insts, caches>>
       ELSE /\ insts' = [insts EXCEPT ![Self].syns = @ \cup {op.name}]
            /\ modJ' = Recorded(modJ, modules, NameKey(op.name))
            /\ modules' = Put(modules, NameKey(op.name), Self)
            /\ IF Me.uname \in DOMAIN outfiles
               THEN /\ outJ' = Recorded(outJ, outfiles, op.name)
                    /\ outfiles' = Put(outfiles, op.name, outfiles[Me.uname])
               ELSE UNCHANGED <<outJ, outfiles>>

\* force_param on any instance the body can name.
ForceParam(op) ==
    /\ op.op = "force"
    /\ \E t \in Instances(op.target) :
          /\ insts[t].open /\ ~insts[t].forced
          /\ insts' = [insts EXCEPT ![t].val = op.val, ![t].forced = TRUE]
    /\ stack' = Advance(stack)
    /\ UNCHANGED <<active, status, caches, derivs, ununiq>>

\* The parameters are closed, or forced before, or there is no such instance.
ForceRefused(op) ==
    /\ op.op = "force"
    /\ \A t \in Instances(op.target) : ~insts[t].open \/ insts[t].forced
    /\ Raises

\* The template itself raises, with error() or any other exception.
TemplateError(op) == op.op = "raise" /\ Raises

-----------------------------------------------------------------------------
(* Leaving a body: the final flush, then what the calling method does with  *)
(* the finished child.                                                      *)

\* A slip: the final flush forgets the synonyms.
OwnFile == {Me.uname}

\* _flush_outfile writes the module's file and those of its synonyms.
Files == {Me.uname} \cup Me.syns
Text  == [cls |-> Me.cls, start |-> Me.start, kids |-> Me.kids, final |-> TRUE]

Written  == PutAll(outfiles, Files, Text)
WrittenJ == RecordedAll(outJ, outfiles, Files)

\* The return of _execute_child, and of the method that called it.
Returned(name) ==
    [insts EXCEPT ![Self].done = TRUE, ![Self].open = FALSE,
                  ![Self].uname = name, ![Self].ofile = name,
                  ![Me.parent].open = Frame.popen,
                  ![Me.parent].kids = Append(@, <<Me.iname, name>>)]

Register(js, keys) == /\ modJ' = RecordedAll(js, modules, keys)
                      /\ modules' = PutAll(modules, keys, Self)

\* A slip: the context manager has no finally.
RestoreOnReturn == active' = IF status = "raising" THEN active ELSE Frame.prev

\* The end of user_config.context, however the body ends.
RestoreContext == active' = Frame.prev

Finish(op, kind) ==
    /\ op = End
    /\ Frame.kind = kind
    /\ RestoreContext

FinishTop(op) ==
    /\ Finish(op, "top")
    /\ insts' = [insts EXCEPT ![Self].done = TRUE, ![Self].open = FALSE]
    /\ outfiles' = Written /\ outJ' = WrittenJ
    /\ stack' = <<>>
    /\ status' = "done"
    /\ UNCHANGED <<modules, modJ, derivs, ununiq>>

Journaled(frame) == frame.kind = "unique" /\ ~cfg.nocache
\* A slip: the second key takes the parameters the caller gave.
PostOfGiven == PostKey(Me.cls, Me.eff, Frame.sig)

\* The key of the final parameters, known once the body ran.
Post == PostKey(Me.cls, Me.val, Frame.sig)

\* A slip: no lookup when the parameter kept the value the caller gave.
TwinIfChanged == ~cfg.nocache /\ Me.val # Me.eff /\ Post \in DOMAIN modules

\* The lookup after the body ran: an earlier elaboration came out the same.
HasTwin == ~cfg.nocache /\ Post \in DOMAIN modules

\* unique_inst keeps the child: its dedup keys are stored under the journal,
\* which then closes, and its name is registered.
UniqueKept(op) ==
    /\ Finish(op, "unique")
    /\ ~HasTwin
    /\ insts' = Returned(Me.uname)
    /\ outfiles' = Written
    /\ IF cfg.nocache
       THEN /\ outJ' = WrittenJ
            /\ Register(modJ, {NameKey(Me.uname)})
       ELSE /\ outJ' = Front(WrittenJ)
            /\ Register(Front(modJ), {PreKey(Me.cls, Me.eff, Frame.sig), Post,
                                      NameKey(Me.uname)})
    /\ stack' = Advance(Front(stack))
    /\ UNCHANGED <<status, derivs, ununiq>>

\* The final parameters are those of an earlier elaboration: undo the child's
\* cache writes, take its number back if it is the last one given out, and
\* put a clone of the earlier module in its place.
UniqueDup(op) ==
    LET caller == Front(stack)
        k      == <<Me.cls, "unq">>
    IN  /\ Finish(op, "unique")
        /\ HasTwin
        /\ modules' = Undone(modules, Last(modJ)) /\ modJ' = Front(modJ)
        /\ outfiles' = Undone(Written, Last(WrittenJ)) /\ outJ' = Front(WrittenJ)
        /\ derivs' = [derivs EXCEPT ![k] = IF @ = Me.uname[3] THEN @ - 1 ELSE @]
        /\ LET src    == modules[Post]
               new    == Len(insts) + 1
               clone  == [insts[src] EXCEPT
                            !.parent = Me.parent, !.iname = Me.iname, !.path = Me.path,
                            !.kw = Me.kw, !.open = FALSE, !.subs = Empty,
                            !.kids = <<>>, !.cloneOf = src, !.by = Me.by]
           IN  insts' = Append([insts EXCEPT
                           ![Self].done = TRUE, ![Self].open = FALSE,
                           ![Me.parent].open = Frame.popen,
                           ![Me.parent].subs = Put(@, Me.iname, new),
                           ![Me.parent].kids = Append(@, <<Me.iname, clone.uname>>)],
                        clone)
        /\ stack' = Advance(caller)
        /\ UNCHANGED <<status, ununiq>>

\* unique_inst_param caches the child only now, "so a raising .vpy body
\* doesn't poison it".
ParamKept(op) ==
    /\ Finish(op, "param")
    /\ insts' = Returned(Me.uname)
    /\ outfiles' = Written /\ outJ' = WrittenJ
    /\ Register(modJ, {NameKey(Me.uname)} \cup
                      IF cfg.nocache THEN {}
                      ELSE {ParamKey(Me.cls, Me.eff, Frame.sig)})
    /\ stack' = Advance(Front(stack))
    /\ UNCHANGED <<status, derivs, ununiq>>

UnunqKept(op) ==
    /\ Finish(op, "ununq")
    /\ insts' = Returned(Me.uname)
    /\ outfiles' = Written /\ outJ' = WrittenJ
    /\ Register(modJ, {NameKey(Me.uname)})
    /\ ununiq' = Put(ununiq, Me.cls, [inst |-> Self, eff |-> Me.eff, sig |-> Frame.sig])
    /\ stack' = Advance(Front(stack))
    /\ UNCHANGED <<status, derivs>>

\* A slip: the two generations are not compared.
AnyText == TRUE

\* _compare_generated_files(tmp, base): same text once comments are dropped
\* and the temporary name is read as the base name.
SameText == /\ <<Me.cls>> \in DOMAIN Written
            /\ Written[<<Me.cls>>].final
            /\ Written[<<Me.cls>>].start = Me.start
            /\ Written[<<Me.cls>>].kids = Me.kids

\* The file _reelaborate_ununique deletes.
Temporary == Me.uname

\* _reelaborate_ununique: the two generations agree, the temporary file goes.
AgainSame(op) ==
    /\ Finish(op, "again")
    /\ SameText
    /\ insts' = Returned(<<Me.cls>>)
    /\ outfiles' = Drop(Written, Temporary)
    /\ outJ' = Recorded(WrittenJ, Written, Temporary)
    /\ stack' = Advance(Front(stack))
    /\ UNCHANGED <<status, modules, modJ, derivs, ununiq>>

\* They differ: an error in the caller; child and temporary file both stay.
AgainDiffers(op) ==
    /\ Finish(op, "again")
    /\ ~SameText
    /\ insts' = [insts EXCEPT ![Self].done = TRUE, ![Self].open = FALSE,
                              ![Me.parent].open = Frame.popen]
    /\ outfiles' = Written /\ outJ' = WrittenJ
    /\ stack' = Front(stack)
    /\ status' = "raising"
    /\ UNCHANGED <<modules, modJ, derivs, ununiq>>

-----------------------------------------------------------------------------
(* Exceptions. *)

\* The operation that raised stands in a try block of the template.
Guarded == /\ Frame.pc > 0
           /\ LET op == Known[Frame.pc] IN "catch" \in DOMAIN op /\ op.catch

\* A slip: the failed call is made again.
CatchRetries ==
    /\ status = "raising"
    /\ Guarded
    /\ status' = "running"
    /\ UNCHANGED <<cfg, script, insts, stack, active, caches, derivs, ununiq>>

Catch ==
    /\ status = "raising"
    /\ Guarded
    /\ status' = "running"
    /\ stack' = Advance(stack)
    /\ UNCHANGED <<cfg, script, insts, active, caches, derivs, ununiq>>

\* Slips: the journals stay open; only the files are rolled back.
CloseScopeNot ==
    UNCHANGED caches
CloseScopeForgetsFiles ==
    /\ UNCHANGED modules
    /\ IF Journaled(Frame)
       THEN /\ outfiles' = Undone(outfiles, Last(outJ))
            /\ modJ' = Front(modJ) /\ outJ' = Front(outJ)
       ELSE UNCHANGED outfiles /\ KeepJournals

\* The journals of the body's scope close without a rollback.
CloseScope ==
    /\ UNCHANGED <<modules, outfiles>>
    /\ IF Journaled(Frame)
       THEN modJ' = Front(modJ) /\ outJ' = Front(outJ)
       ELSE KeepJournals

\* The exception leaves the body: its scope closes, the caller is the active
\* module again and forgets the child.
Unwind ==
    /\ status = "raising"
    /\ ~Guarded
    /\ Len(stack) > 1
    /\ insts' = [insts EXCEPT ![Self].open = FALSE,
                              ![Me.parent].open = Frame.popen,
                              ![Me.parent].subs = Drop(@, Me.iname)]
    /\ CloseScope
    /\ RestoreContext
    /\ stack' = Front(stack)
    /\ UNCHANGED <<cfg, script, status, derivs, ununiq>>

\* It leaves the top body: nothing is flushed to disk.
Fail ==
    /\ status = "raising"
    /\ ~Guarded
    /\ Len(stack) = 1
    /\ RestoreContext
    /\ stack' = <<>>
    /\ status' = "failed"
    /\ UNCHANGED <<cfg, script, insts, caches, derivs, ununiq>>

-----------------------------------------------------------------------------
Init ==
    /\ cfg \in Settings
    /\ script = Empty
    /\ insts = <<NewInst(TopClass, 0, TopClass, <<TopClass>>, None, None,
                         <<TopClass>>, "top")>>
    /\ stack = <<[inst |-> 1, pc |-> 0, kind |-> "top", sig |-> {}, popen |-> FALSE,
                 prev |-> 0]>>
    /\ active = 1
    /\ status = "running"
    /\ modules = Put(Empty, NameKey(<<TopClass>>), 1)
    /\ modJ = <<>>
    /\ outfiles = Empty
    /\ outJ = <<>>
    /\ derivs = [k \in Classes \X {"unq", "tmp"} |-> 0]
    /\ ununiq = Empty

Step(op) ==
    \/ UniqueHit(op)    \/ UniqueMiss(op)
    \/ ParamHit(op)     \/ ParamMiss(op)
    \/ UnunqFirst(op)   \/ UnunqAlias(op)  \/ UnunqConflict(op) \/ UnunqAgain(op)
    \/ CloneInst(op)    \/ CloneRefused(op)
    \/ NameTaken(op)    \/ Synonym(op)
    \/ ForceParam(op)   \/ ForceRefused(op) \/ TemplateError(op)
    \/ FinishTop(op)    \/ UniqueKept(op)  \/ UniqueDup(op)
    \/ ParamKept(op)    \/ UnunqKept(op)
    \/ AgainSame(op)    \/ AgainDiffers(op)

Next ==
    \/ Begin
    \/ TooDeep
    \/ InBody /\ \E op \in NextOps : Perform(op) /\ Step(op)
    \/ Catch
    \/ Unwind
    \/ Fail

Spec == Init /\ [][Next]_vars

\* The interpreter keeps running as long as it has something to do.
FairSpec == Spec /\ WF_vars(Next)
=============================================================================

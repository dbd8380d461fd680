------------------------------- MODULE ConfigTree -------------------------------
(***************************************************************************)
(* The configuration trees of src/genesispy/config_handler.py: how JSON    *)
(* files, read one after another and from within .cfg scripts, are merged  *)
(* into one tree; how a value is looked up in it by instance path, singly  *)
(* and all at once; and how --json-out turns the elaborated instances into *)
(* such a tree again, which genesispy-json2xml and genesispy-xml2json may  *)
(* carry through XML before it is read.                                    *)
(*                                                                         *)
(* A node is a record [iname, params, subs]: params a sequence of          *)
(* [name, val], subs a sequence of nodes.  Either may be missing (Absent)  *)
(* or the "" that stands for an empty element (Blank).  The tree of the    *)
(* instances is a sequence in order of construction, parents first.        *)
(***************************************************************************)
EXTENDS SequencesExt

CONSTANTS
    Absent, Blank,      \* no such key, or no single value; the text ""
    Pointer,            \* a parameter in InstancePath form, which has no value
    Missing,            \* _MISSING, and "no node"
    Runs,               \* the runs: [json, cmd, bare, files, scripts, main, insts]
    Paths, Names,       \* what is looked up
    MaxNest             \* the interpreter's recursion limit, in scripts

ASSUME ConfigAssumption == MaxNest \in Nat \ {0}

VARIABLES
    run,        \* command line, files and, for --json-out, instances of this run
    db,         \* _param_db, Missing while empty
    cfgDb,      \* _cfg_scoped_db: <<path, name>> -> value
    stack,      \* scripts being executed: [file, pc]
    reads,      \* the JSON trees read, in order
    snap,       \* the snapshot written: its variant, its tree, and if it went
                \* through XML
    status      \* "start", "reading", "read", "failed", "written", "reread"

vars == <<run, db, cfgDb, stack, reads, snap, status>>

-----------------------------------------------------------------------------
(* Trees. *)

IsList(x) == x \notin {Absent, Blank}

\* _node_params, _node_subinstances
ParamsOf(node) == IF IsList(node.params) THEN node.params ELSE <<>>
SubsOf(node)   == IF IsList(node.subs) THEN node.subs ELSE <<>>

\* The first element of seq that satisfies P, or Missing.
First(seq, P(_)) ==
    LET hits == {i \in DOMAIN seq : P(seq[i])}
    IN  IF hits = {} THEN Missing ELSE seq[Min(hits)]

\* _find_node: the first sub-instance of each name on the path.
FindNode(tree, path) ==
    IF tree = Missing \/ tree.iname = Absent THEN Missing
    ELSE FoldLeft(LAMBDA node, token :
                     IF node = Missing THEN Missing
                     ELSE First(SubsOf(node), LAMBDA s : s.iname = token),
                  tree, Tail(path))

\* The root names another top: a ConfigError at the first lookup.
WrongTop(tree, path) == tree # Missing /\ tree.iname \notin {Absent, path[1]}

\* _find_param
FindParam(tree, path, name) ==
    LET node == FindNode(tree, path)
        item == IF node = Missing THEN Missing
                ELSE First(ParamsOf(node), LAMBDA p : p.name = name)
    IN  IF item = Missing \/ item.val = Pointer THEN Missing ELSE item.val

\* The nodes of a tree, each with its path, level by level.  Nodes with one
\* path stand in the order the depth-first walk of the code visits them.
RECURSIVE Levels(_)
Levels(level) ==
    IF level = <<>> THEN <<>>
    ELSE level \o Levels(FlattenSeq(
            [i \in DOMAIN level |->
                LET subs == SubsOf(level[i].node)
                IN  [j \in DOMAIN subs |->
                        [node |-> subs[j], path |-> Append(level[i].path, subs[j].iname)]]]))
Nodes(tree) == IF tree = Missing THEN <<>>
               ELSE Levels(<<[node |-> tree, path |-> <<tree.iname>>]>>)

\* A slip: the walk starts below the root.
EntriesBelowRoot(tree) ==
    FlattenSeq([i \in DOMAIN Nodes(tree) |->
        LET n == Nodes(tree)[i] IN
        IF Len(n.path) = 1 THEN <<>>
        ELSE [j \in DOMAIN ParamsOf(n.node) |->
                 [key |-> <<n.path, ParamsOf(n.node)[j].name>>, val |-> ParamsOf(n.node)[j].val]]])

\* _json_scoped_entries, in order, Pointers left in.
Entries(tree) ==
    FlattenSeq([i \in DOMAIN Nodes(tree) |->
        LET n == Nodes(tree)[i] IN
        [j \in DOMAIN ParamsOf(n.node) |->
            [key |-> <<n.path, ParamsOf(n.node)[j].name>>, val |-> ParamsOf(n.node)[j].val]]])

\* The dict it returns: the last value of a key stays.
ScopedEntries(tree) ==
    LET valued == IF tree = Missing \/ tree.iname = Absent THEN <<>>
                  ELSE SelectSeq(Entries(tree), LAMBDA e : e.val # Pointer)
    IN  [k \in {valued[i].key : i \in DOMAIN valued} |->
            valued[Max({i \in DOMAIN valued : valued[i].key = k})].val]

\* _validate_param_db: every parameter has a value or points to an instance,
\* no name twice on a node, every sub-instance named.
Valid(tree) ==
    \A n \in ToSet(Nodes(tree)) :
        /\ \A p \in ToSet(ParamsOf(n.node)) : p.val # Absent
        /\ \A i, j \in DOMAIN ParamsOf(n.node) :
              ParamsOf(n.node)[i].name = ParamsOf(n.node)[j].name => i = j
        /\ \A s \in ToSet(SubsOf(n.node)) : s.iname # Absent

\* A slip: the list read last comes first.
MergedListNewFirst(old, new) ==
    IF new = Absent THEN old
    ELSE IF IsList(old) /\ IsList(new) THEN new \o old ELSE new

\* A slip: the later file's list is the one kept.
MergedListReplaced(old, new) == IF new = Absent THEN old ELSE new

\* _deep_merge of one key: two lists are joined, anything else is replaced.
MergedList(old, new) ==
    IF new = Absent THEN old
    ELSE IF IsList(old) /\ IsList(new) THEN old \o new ELSE new

Merge(dst, new) ==
    [iname  |-> IF new.iname = Absent THEN dst.iname ELSE new.iname,
     params |-> MergedList(dst.params, new.params),
     subs   |-> MergedList(dst.subs, new.subs)]

-----------------------------------------------------------------------------
(* Reading. *)

\* read_json of the tree a file holds.
ReadJson(tree) ==
    IF tree # Missing /\ Valid(tree)
    THEN /\ db' = IF db = Missing THEN tree ELSE Merge(db, tree)
         /\ reads' = Append(reads, tree)
         /\ UNCHANGED status
    ELSE status' = "failed" /\ UNCHANGED <<db, reads>>

\* _ensure_cfg_handler: --json-cfg first, then the scripts.
ReadParamFile ==
    /\ status = "start"
    /\ stack = <<>>
    /\ run.json # Absent
    /\ db = Missing
    /\ ReadJson(run.files[run.json])
    /\ UNCHANGED <<run, cfgDb, stack, snap>>

RunMain ==
    /\ status = "start"
    /\ run.json # Absent => db # Missing
    /\ status' = "reading"
    /\ stack' = <<[file |-> run.main, pc |-> 1]>>
    /\ UNCHANGED <<run, db, cfgDb, reads, snap>>

Frame == Last(stack)
Advanced == [stack EXCEPT ![Len(stack)].pc = @ + 1]

\* The next call of the innermost script.
Call == /\ status = "reading"
        /\ stack # <<>>
        /\ Len(stack) <= MaxNest
        /\ Frame.pc <= Len(run.scripts[Frame.file])
        /\ UNCHANGED <<run, snap>>
Op == run.scripts[Frame.file][Frame.pc]

IncludeJson ==
    /\ Call /\ Op.op = "include" /\ Op.file \in DOMAIN run.files
    /\ ReadJson(run.files[Op.file])
    /\ stack' = Advanced
    /\ UNCHANGED cfgDb

IncludeCfg ==
    /\ Call /\ Op.op = "include" /\ Op.file \in DOMAIN run.scripts
    /\ stack' = Append(Advanced, [file |-> Op.file, pc |-> 1])
    /\ UNCHANGED <<db, cfgDb, reads, status>>

Configure ==
    /\ Call /\ Op.op = "configure"
    /\ cfgDb' = [k \in DOMAIN cfgDb \cup {Op.key} |->
                    IF k = Op.key THEN Op.val ELSE cfgDb[k]]
    /\ stack' = Advanced
    /\ UNCHANGED <<db, reads, status>>

RemoveConfiguration ==
    /\ Call /\ Op.op = "remove"
    /\ cfgDb' = [k \in DOMAIN cfgDb \ {Op.key} |-> cfgDb[k]]
    /\ stack' = Advanced
    /\ UNCHANGED <<db, reads, status>>

\* _get_configuration_with_priority: a scoped command-line value at once, else
\* the candidates; get_configuration raises when there is none.
Candidates(key) ==
    {c \in {run.bare, FindParam(db, key[1], key[2]),
            IF key \in DOMAIN cfgDb THEN cfgDb[key] ELSE Missing} : c # Missing}
GetRaises(key) ==
    /\ key \notin run.cmd
    /\ WrongTop(db, key[1]) \/ Candidates(key) = {}

GetConfiguration ==
    /\ Call /\ Op.op = "get"
    /\ status' = IF GetRaises(Op.key) THEN "failed" ELSE status
    /\ stack' = Advanced
    /\ UNCHANGED <<db, cfgDb, reads>>

ScriptEnd ==
    /\ status = "reading" /\ stack # <<>>
    /\ Frame.pc > Len(run.scripts[Frame.file])
    /\ stack' = Front(stack)
    /\ status' = IF Len(stack) = 1 THEN "read" ELSE status
    /\ UNCHANGED <<run, db, cfgDb, reads, snap>>

\* A script that includes itself ends in a RecursionError.
TooDeep ==
    /\ status = "reading" /\ Len(stack) > MaxNest
    /\ status' = "failed"
    /\ UNCHANGED <<run, db, cfgDb, stack, reads, snap>>

-----------------------------------------------------------------------------
(* --json-out: extract_stats of a tree of instances d. *)

Kids(d, i) == SelectSeq([n \in DOMAIN d |-> n], LAMBDA n : d[n].parent = i)

\* _split_params, the bucket the loader reads: not what a keyword or a force
\* set, and in the tiny file only what JSON or the command line set.
Kept(variant, p) == p.prio < 40 /\ (variant = "tiny" => p.prio >= 20)

Node(iname, params, subs) ==
    [iname |-> iname, params |-> IF params = <<>> THEN Absent ELSE params,
     subs |-> IF subs = <<>> THEN Absent ELSE subs]

\* A slip: a node counts by its own parameters.
HasOwnContent(isClone, node) == isClone \/ node.params # Absent

\* _has_content
HasContent(isClone, node) == isClone \/ node.params # Absent \/ node.subs # Absent

\* _synonym_stubs: a sibling entry for every synonym, without parameters.
Stubs(d, i) == [n \in DOMAIN d[i].syns |-> Node(d[i].syns[n], <<>>, <<>>)]

\* _stats_entry: a clone is listed, but its parameters and children are not.
RECURSIVE StatsEntry(_, _, _)
StatsEntry(d, i, variant) ==
    IF d[i].cloneOf # 0 THEN Node(d[i].iname, <<>>, <<>>)
    ELSE LET live == SelectSeq(d[i].params, LAMBDA p : Kept(variant, p))
             listed == SelectSeq(Kids(d, i), LAMBDA k :
                          \/ variant # "tiny"
                          \/ HasContent(d[k].cloneOf # 0, StatsEntry(d, k, variant)))
         IN  Node(d[i].iname,
                  [n \in DOMAIN live |-> [name |-> live[n].name, val |-> live[n].val]],
                  FlattenSeq([n \in DOMAIN listed |->
                      <<StatsEntry(d, listed[n], variant)>> \o Stubs(d, listed[n])]))

WriteJson(variant) ==
    /\ status = "read"
    /\ run.insts # <<>>
    /\ snap' = [variant |-> variant, tree |-> StatsEntry(run.insts, 1, variant), xml |-> FALSE]
    /\ status' = "written"
    /\ UNCHANGED <<run, db, cfgDb, stack, reads>>

Xml == INSTANCE XmlShape

\* The JSON of a node, and the node that the accessors see in a JSON.
RECURSIVE JsonOf(_), NodeOf(_)
ItemsOf(items, F(_)) == IF IsList(items) THEN Xml!List([n \in DOMAIN items |-> F(items[n])])
                        ELSE Xml!EmptyText
ParamJson(p) == Xml!Dict(<<"Name", "Val">>, <<Xml!Atom(p.name), p.val>>)
JsonOf(node) ==
    LET fields == SelectSeq(<<[key |-> "InstanceName", has |-> node.iname, val |-> Xml!Atom(node.iname)],
                              [key |-> "Parameters", has |-> node.params, val |-> ItemsOf(node.params, ParamJson)],
                              [key |-> "SubInstances", has |-> node.subs, val |-> ItemsOf(node.subs, JsonOf)]>>,
                            LAMBDA f : f.has # Absent)
    IN  Xml!Dict([n \in DOMAIN fields |-> fields[n].key], [n \in DOMAIN fields |-> fields[n].val])

\* _PARAM_VALUE_KEYS; a parameter must have exactly one of them.
ValueKeys == {"__Val__", "Val", "__ArrayType__", "__HashType__", "InstancePath"}
ParamOf(item) ==
    LET hits == {k \in ValueKeys : Xml!HasKey(item, k)}
    IN  [name |-> Xml!Get(item, "Name").is,
         val  |-> CASE Cardinality(hits) # 1      -> Absent
                    [] hits = {"InstancePath"}    -> Pointer
                    [] OTHER -> Xml!Get(item, CHOOSE k \in hits : TRUE)]
NodeOf(json) ==
    LET field(k, F(_)) == IF ~Xml!HasKey(json, k) THEN Absent
                          ELSE IF Xml!Get(json, k).is # "list" THEN Blank
                          ELSE [n \in DOMAIN Xml!Get(json, k).of |-> F(Xml!Get(json, k).of[n])]
    IN  [iname  |-> Xml!Get(json, "InstanceName").is,
         params |-> field("Parameters", ParamOf), subs |-> field("SubInstances", NodeOf)]

\* genesispy-json2xml, then genesispy-xml2json.
CarryThroughXml ==
    /\ status = "written"
    /\ ~snap.xml
    /\ snap' = [snap EXCEPT !.tree = NodeOf(Xml!ThereAndBack(JsonOf(@))), !.xml = TRUE]
    /\ UNCHANGED <<run, db, cfgDb, stack, reads, status>>

\* Another run is given the snapshot with --json-cfg, and no script.
Reread ==
    /\ status = "written"
    /\ status' = IF Valid(snap.tree) THEN "reread" ELSE "failed"
    /\ db' = IF Valid(snap.tree) THEN snap.tree ELSE Missing
    /\ reads' = <<snap.tree>>
    /\ cfgDb' = <<>>
    /\ UNCHANGED <<run, stack, snap>>

-----------------------------------------------------------------------------
Init ==
    /\ run \in Runs
    /\ db = Missing
    /\ cfgDb = <<>>
    /\ stack = <<>>
    /\ reads = <<>>
    /\ snap = Missing
    /\ status = "start"

Next ==
    \/ ReadParamFile \/ RunMain
    \/ IncludeJson \/ IncludeCfg \/ Configure \/ RemoveConfiguration
    \/ GetConfiguration \/ ScriptEnd \/ TooDeep
    \/ \E v \in {"full", "small", "tiny"} : WriteJson(v)
    \/ CarryThroughXml
    \/ Reread

Spec == Init /\ [][Next]_vars

-----------------------------------------------------------------------------
(* Properties *)

Keys == Paths \X Names
Found(key) == IF WrongTop(db, key[1]) THEN Missing ELSE FindParam(db, key[1], key[2])
FirstRun == status \notin {"written", "reread"}

\* No two files name different tops, which is an error at the first lookup.
OneTop == \A t, u \in ToSet(reads) : t.iname = u.iname \/ Absent \in {t.iname, u.iname}

\* No node and no parameter stands in the tree twice.
OnceEach(tree) ==
    \A m, n \in DOMAIN Nodes(tree) :
        /\ Nodes(tree)[m].path = Nodes(tree)[n].path => m = n
        /\ \A i, j \in DOMAIN ParamsOf(Nodes(tree)[m].node) :
              ParamsOf(Nodes(tree)[m].node)[i].name = ParamsOf(Nodes(tree)[m].node)[j].name => i = j

\* Files each of which describes instances of its own, the top apart, and
\* has no "" for a list: it replaces the lists read before.
NoBlanks ==
    \A t \in ToSet(reads) : \A n \in ToSet(Nodes(t)) : Blank \notin {n.node.params, n.node.subs}
Below(t) == {n.path : n \in {m \in ToSet(Nodes(t)) : Len(m.path) > 1}}
Apart ==
    /\ NoBlanks
    /\ \A t \in ToSet(reads) :
        /\ OnceEach(t)
        /\ \A u \in ToSet(reads) : t # u => Below(t) \cap Below(u) = {}

\* Reading accumulates: a value some file gives a parameter is not lost to
\* the files read after it, through whatever chain of includes; every key of
\* every file read still has a value one of the files gives it.  Of two files
\* that describe one instance below the top, lookups see the first alone.
Accumulates ==
    FirstRun /\ OneTop /\ Apart => \A t \in ToSet(reads) : \A key \in DOMAIN ScopedEntries(t) :
        \E u \in ToSet(reads) :
            key \in DOMAIN ScopedEntries(u) /\ Found(key) = ScopedEntries(u)[key]

\* The first file wins: once a lookup finds a value in the tree, no file read
\* later, nor the same file again, changes what it finds.
ReadsStick ==
    [][FirstRun' /\ OneTop' /\ NoBlanks' => \A key \in Keys : Found(key) # Missing => Found(key)' = Found(key)]_vars

\* The dedup signature and the lookups read the tree alike: where no node and
\* no parameter stands in it twice, the entries that enter the signature of
\* an instance are the values its body and those below it will read.
WalksAgree ==
    db # Missing /\ OnceEach(db) =>
        ScopedEntries(db) =
            [key \in {k \in Keys : Found(k) # Missing} |-> Found(key)]

PathOf(d, i) ==
    LET path[n \in 0 .. Len(d)] == IF n = 0 THEN <<>> ELSE Append(path[d[n].parent], d[n].iname)
    IN  path[i]

\* A stub that has the name of a later sibling would be found before it.
StubsApart ==
    \A i, j \in DOMAIN run.insts :
        run.insts[i].parent = run.insts[j].parent => run.insts[j].iname \notin ToSet(run.insts[i].syns)

\* "a snapshot can be fed back in", setting "values only on the instances
\* that were elaborated": read back, each variant gives every elaborated
\* instance the parameters the variant lists of it, and no other instance any.
\* Carried through XML it does so too, but for values the XML has no form for.
ReadsBack ==
    /\ status = "written" => Valid(snap.tree)
    /\ status = "reread" /\ StubsApart =>
          \A i \in DOMAIN run.insts :
              LET listed == IF run.insts[i].cloneOf # 0 THEN {}
                            ELSE {p \in ToSet(run.insts[i].params) : Kept(snap.variant, p)}
              IN  \A n \in Names :
                    LET found == Found(<<PathOf(run.insts, i), n>>)
                    IN  IF ~\E p \in listed : p.name = n THEN found = Missing
                        ELSE \E p \in listed :
                                /\ p.name = n
                                /\ IF snap.xml /\ ~Xml!Survives(p.val) THEN found # Missing
                                   ELSE found = p.val
=============================================================================

------------------------------ MODULE Parameters ------------------------------
(***************************************************************************)
(* How a parameter gets its value: the sources ConfigHandler               *)
(* (src/genesispy/config_handler.py) holds, the calls a template body      *)
(* makes on the parameter store of its UniqueModule                        *)
(* (src/genesispy/unique_module.py), and the account of what was used that *)
(* report_unused and --json-out give at the end.                           *)
(*                                                                         *)
(* Two instances are enough for every rule: the top, which no parent       *)
(* overrides, and one child "a" its body instantiates with or without a    *)
(* keyword.  What a source gives an instance is a map from <<instance,     *)
(* parameter>> to a value; --defaults give values to names of modules,     *)
(* which instances share.  A range is the set of values it allows.         *)
(***************************************************************************)
EXTENDS Naturals, Sequences, SequencesExt, TLC

CONSTANTS
    Names, Vals, None,
    Malformed,      \* a range _set_range refuses, as one of step zero
    Declarable,     \* the parameters bodies name; the others are misspelled
    Defaults,       \* values bodies give as in-source default
    Forceds,        \* values bodies force
    Ranges,         \* ranges bodies declare
    Keywords,       \* possible keyword arguments of the child's instantiation
    Setups,         \* possible command lines with the files they name: [specs,
                    \* global, json, files, entry, script], see given
    ModuleNames,    \* for each instance the --defaults entries it reads: the
                    \* name of its module, then that of its template
    CfgKeys, CfgVal, Prios, \* what a .cfg script configures, and at which priorities
    MaxCalls        \* bound on the calls of each body

Insts == {"top", "a"}

ASSUME ParameterAssumption ==
    /\ None \notin Vals /\ None \notin Insts /\ Malformed \notin Ranges \cup {None}
    /\ Declarable \subseteq Names
    /\ Defaults \cup Forceds \cup {CfgVal} \subseteq Vals
    /\ \A r \in Ranges : r \subseteq Vals
    /\ CfgKeys \subseteq Insts \X Names
    /\ None \notin Keywords
    /\ Prios \subseteq Nat \ {0, 7, 20, 30, 40, 50}   \* no ties with another source
    /\ \A s \in Setups : /\ s.script \in Nat /\ s.global \in BOOLEAN
                          /\ s.specs \in Seq(ToSet(s.specs)) /\ s.files \in Seq(ToSet(s.files))
    /\ DOMAIN ModuleNames = Insts
    /\ \A i \in Insts : ModuleNames[i] \in Seq(ToSet(ModuleNames[i]))
    /\ MaxCalls \in [Insts -> Nat]

VARIABLES
    given,      \* what this run was given: specs, the --parameter arguments, each
                \* [at, name, val] with at = None for a bare name; global, the flag
                \* --params-global; json; files, those of --defaults, each a map from
                \* the trails of its entries to their params; entry, the argument of
                \* --defaults-entry or None; script, the bound on the calls of a .cfg
    read,       \* how many of the specs and files were read
    src,        \* what they were read into: [cmd, bare, json, defaults]
    cfgDb,      \* _cfg_scoped_db: key -> [val, prio]
    used,       \* _used: the overrides a lookup consumed
    entries,    \* _defaults_read
    taken, forcedKeys,  \* _defaults_taken, _defaults_forced: <<entry, parameter>>
    params,     \* params[i]: parameter -> entry
    kw,         \* the keyword arguments the child was made with
    cur,        \* the instance whose body runs
    calls,      \* calls made by the .cfg script and by each body
    status,     \* "args", "cfg", "running", "raised", "done", "failed"
    tainted     \* <<instance, parameter>>: a call about it raised

vars == <<given, read, src, cfgDb, used, entries, taken, forcedKeys, params, kw, cur,
          calls, status, tainted>>
db    == <<given, read, src, cfgDb>>
accounts == <<entries, taken, forcedKeys>>
books == <<used, accounts>>

\* A slip: the values already there win.
MergedUnder(a, b) == a @@ b

\* dict.update: b's values win
Merged(a, b) == [x \in DOMAIN a \cup DOMAIN b |-> IF x \in DOMAIN b THEN b[x] ELSE a[x]]
With(f, k, v) == [x \in DOMAIN f \cup {k} |-> IF x = k THEN v ELSE f[x]]
Without(f, k) == [x \in DOMAIN f \ {k} |-> f[x]]
At(f, k) == IF k \in DOMAIN f THEN f[k] ELSE None

-----------------------------------------------------------------------------
(* ConfigHandler.__init__: the command line and the --defaults files. *)

Reading == /\ status = "args"
           /\ read' = read + 1
           /\ UNCHANGED <<given, cfgDb, books, params, kw, cur, calls, tainted>>

\* A slip: the last argument of a name counts.
NeverAgain(s) == FALSE
\* The name was given a value by an earlier argument.
Again(s) == IF s.at = None THEN s.name \in DOMAIN src.bare ELSE <<s.at, s.name>> \in DOMAIN src.cmd

\* _init_cmdln_from_manager, one --parameter.
TakeSpec ==
    /\ Reading
    /\ read < Len(given.specs)
    /\ LET s == given.specs[read + 1]
       IN  IF s.at = Malformed \/ (s.at = None /\ ~given.global) \/ Again(s)
           THEN status' = "failed" /\ UNCHANGED src
           ELSE /\ UNCHANGED status
                /\ src' = IF s.at = None THEN [src EXCEPT !.bare = With(@, s.name, s.val)]
                          ELSE [src EXCEPT !.cmd = With(@, <<s.at, s.name>>, s.val)]

\* The entries of a file by name, at whatever depth: a dict in an entry "only
\* groups".
EntriesOf(tree) ==
    [e \in {Last(t) : t \in DOMAIN tree} |-> tree[CHOOSE t \in DOMAIN tree : Last(t) = e]]
\* A slip: only the other files are looked at.
RepeatedElsewhere(tree) == \E t \in DOMAIN tree : Last(t) \in DOMAIN src.defaults
\* An entry may be there "once across all files".
Repeated(tree) == \/ \E t \in DOMAIN tree : Last(t) \in DOMAIN src.defaults
                  \/ \E t, u \in DOMAIN tree : t # u /\ Last(t) = Last(u)

\* read_defaults
ReadDefaults ==
    /\ Reading
    /\ Len(given.specs) <= read /\ read < Len(given.specs) + Len(given.files)
    /\ LET tree == given.files[read + 1 - Len(given.specs)]
       IN  IF Repeated(tree) THEN status' = "failed" /\ UNCHANGED src
           ELSE UNCHANGED status /\ src' = [src EXCEPT !.defaults = Merged(@, EntriesOf(tree))]

\* The entry the top reads first has to be in a file, and counts as read; then
\* the JSON files are read.
ArgumentsDone ==
    /\ status = "args"
    /\ read = Len(given.specs) + Len(given.files)
    /\ LET named == {given.entry} \ {None}
       IN  IF named \subseteq DOMAIN src.defaults
           THEN status' = "cfg" /\ entries' = named
           ELSE status' = "failed" /\ UNCHANGED entries
    /\ src' = [src EXCEPT !.json = given.json]
    /\ UNCHANGED <<given, read, cfgDb, used, taken, forcedKeys, params, kw, cur, calls, tainted>>

-----------------------------------------------------------------------------
(* The .cfg script. *)

CfgCall == /\ status = "cfg"
           /\ calls["cfg"] < given.script
           /\ calls' = [calls EXCEPT !["cfg"] = @ + 1]
           /\ UNCHANGED <<given, read, src, accounts, params, kw, cur, tainted>>

\* configure(path.name, value, priority=p): a lower priority is a no-op.
Configure(k, p) ==
    /\ CfgCall
    /\ cfgDb' = IF k \in DOMAIN cfgDb /\ p < cfgDb[k].prio THEN cfgDb
                ELSE With(cfgDb, k, [val |-> CfgVal, prio |-> p])
    /\ UNCHANGED <<used, status>>

RemoveConfiguration(k) ==
    /\ CfgCall
    /\ cfgDb' = Without(cfgDb, k)
    /\ UNCHANGED <<used, status>>

\* The values that apply to k, each with its priority.
Candidates(k) ==
    IF k \in DOMAIN src.cmd THEN {[prio |-> 30, val |-> src.cmd[k]]}
    ELSE {[prio |-> cfgDb[x].prio, val |-> cfgDb[x].val] : x \in DOMAIN cfgDb \cap {k}} \cup
         {[prio |-> 30, val |-> src.bare[n]] : n \in DOMAIN src.bare \cap {k[2]}} \cup
         {[prio |-> 20, val |-> src.json[x]] : x \in DOMAIN src.json \cap {k}}

Highest(C) == CHOOSE c \in C : \A d \in C : d.prio <= c.prio

\* A slip: a scoped command-line value returns before it is marked.
ConsultedLate(k) ==
    IF k \in DOMAIN src.cmd THEN {}
    ELSE {<<"cfg", x>> : x \in DOMAIN cfgDb \cap {k}} \cup
         {<<"bare", n>> : n \in DOMAIN src.bare \cap {k[2]}}

\* The overrides a lookup of k marks as used, outranked ones included.
Consulted(k) ==
    {<<"cmd", x>> : x \in DOMAIN src.cmd \cap {k}} \cup
    {<<"cfg", x>> : x \in DOMAIN cfgDb \cap {k}} \cup
    (IF k \in DOMAIN src.cmd THEN {}
     ELSE {<<"bare", n>> : n \in DOMAIN src.bare \cap {k[2]}})

\* get_configuration from the script; nothing found is a ConfigError, which
\* ends the run.
GetConfiguration(k) ==
    /\ CfgCall
    /\ used' = used \cup Consulted(k)
    /\ status' = IF Candidates(k) = {} THEN "failed" ELSE status
    /\ UNCHANGED cfgDb

CfgDone == /\ status = "cfg"
           /\ status' = "running"
           /\ UNCHANGED <<db, books, params, kw, cur, calls, tainted>>

-----------------------------------------------------------------------------
(* The parameter store. *)

NewEntry(v, declared) ==
    [val |-> v, default |-> v, state |-> "DEFINED", prio |-> 0, declared |-> declared,
     seenDecl |-> FALSE, seenForced |-> FALSE, range |-> None]

Store == params[cur]
Known(n) == n \in DOMAIN Store
InRange(e) == e.range # None => e.val \in e.range

\* A body makes a call about n.
Call(n) == /\ status = "running"
           /\ calls[cur] < MaxCalls[cur]
           /\ calls' = [calls EXCEPT ![cur] = @ + 1]
           /\ UNCHANGED <<db, kw, cur>>

Raise(n) == /\ status' = "raised"
            /\ tainted' = tainted \cup {<<cur, n>>}

Put(n, e) == params' = [params EXCEPT ![cur] = With(@, n, e)]

\* The entry is stored, and _range_check then raises or not.
PutChecked(n, e) ==
    /\ Put(n, e)
    /\ IF InRange(e) THEN UNCHANGED <<status, tainted>>
       ELSE Raise(n)

Refuse(n) == Raise(n) /\ UNCHANGED params

\* _declare, where it does not raise: a keyword's value outranks the default.
MayDeclare(n) == Known(n) => ~Store[n].seenDecl
Declared(n, d) ==
    LET e == IF Known(n) THEN Store[n] ELSE NewEntry(d, TRUE)
    IN  [e EXCEPT !.declared = TRUE, !.default = d, !.seenDecl = TRUE]

DefineParam(n, d) ==
    /\ Call(n)
    /\ UNCHANGED books
    /\ IF MayDeclare(n)
       THEN Put(n, Declared(n, d)) /\ UNCHANGED <<status, tainted>>
       ELSE Refuse(n)

\* The names an instance looks for in --defaults, and the places among them of
\* those there is an entry of, and an entry that holds n.
EntryNames(i) == (IF i = "top" THEN <<given.entry>> ELSE <<>>) \o ModuleNames[i]
Entered(i) == {x \in DOMAIN EntryNames(i) : EntryNames(i)[x] \in DOMAIN src.defaults}
Holding(i, n) == {x \in Entered(i) : n \in DOMAIN src.defaults[EntryNames(i)[x]]}

\* A slip: only the entry that gives the value is accounted for.
FirstOf(i, holding) == {EntryNames(i)[x] : x \in {y \in holding : y = Min(holding)}}
Accounted(i, holding) == {EntryNames(i)[x] : x \in holding}

\* module_default: the entries are read on every call, and a key counts in all
\* of them, "an outranked key is not a misspelled one".
ModuleDefault(n, forced) ==
    LET keys == Accounted(cur, Holding(cur, n)) \X {n}
    IN  /\ entries' = entries \cup Accounted(cur, Entered(cur))
        /\ IF forced THEN forcedKeys' = forcedKeys \cup keys /\ UNCHANGED taken
           ELSE taken' = taken \cup keys /\ UNCHANGED forcedKeys

\* The first entry that holds n.
DefaultOf(i, n) == src.defaults[EntryNames(i)[Min(Holding(i, n))]][n]

\* What parameter() makes of a declared entry nothing has overridden yet.
Looked(n, e) ==
    LET k == <<cur, n>>
    IN  IF Candidates(k) # {}
        THEN [e EXCEPT !.val = Highest(Candidates(k)).val,
                       !.prio = Highest(Candidates(k)).prio, !.state = "OVERRIDDEN"]
        ELSE IF Holding(cur, n) # {}
        THEN [e EXCEPT !.val = DefaultOf(cur, n), !.prio = 7, !.state = "OVERRIDDEN"]
        ELSE e

\* get_param: of a parameter the body has declared.
GetParam(n) ==
    /\ Call(n)
    /\ IF Known(n) /\ Store[n].declared THEN UNCHANGED <<status, tainted>> ELSE Raise(n)
    /\ UNCHANGED <<books, params>>

Settled(e) == e.state \in {"OVERRIDDEN", "FORCED"}

\* A slip: a value a keyword or a force supplied is returned unchecked.
PutResolvedUnchecked(n, e) ==
    IF Settled(e) THEN Put(n, e) /\ UNCHANGED <<status, tainted>>
    ELSE PutChecked(n, Looked(n, e))

\* parameter() once the range is in place: settled entries keep their value,
\* the others consult the configuration; both are checked.
PutResolved(n, e) == PutChecked(n, IF Settled(e) THEN e ELSE Looked(n, e))

\* parameter(n, d, min/max/step/list = r)
Parameter(n, d, r) ==
    /\ Call(n)
    /\ IF ~MayDeclare(n)
       THEN Refuse(n) /\ UNCHANGED books
       ELSE LET e == Declared(n, d)
            IN  IF r = Malformed \/ (r # None /\ e.range # None)
                THEN Put(n, e) /\ Raise(n) /\ UNCHANGED books
                ELSE LET ranged == [e EXCEPT !.range = IF r = None THEN @ ELSE r]
                     IN  /\ ModuleDefault(n, e.state = "FORCED")
                         /\ used' = IF Settled(e) THEN used
                                    ELSE used \cup Consulted(<<cur, n>>)
                         /\ PutResolved(n, ranged)

\* force_param's write: pinned at the top of the ladder.
Pinned(e, v) == [e EXCEPT !.seenForced = TRUE, !.declared = TRUE, !.val = v,
                          !.state = "FORCED", !.prio = 50]

ForceParam(n, v) ==
    /\ Call(n)
    /\ UNCHANGED books
    /\ IF Known(n) /\ Store[n].seenForced THEN Refuse(n)
       ELSE PutChecked(n, Pinned(IF Known(n) THEN Store[n] ELSE NewEntry(v, TRUE), v))

\* parameter(n, v, force=True, ... = r): there is no declaration, so a range
\* has no entry to go to unless the name is known.
ParameterForced(n, v, r) ==
    /\ Call(n)
    /\ IF r = Malformed \/ (r # None /\ (~Known(n) \/ Store[n].range # None))
       THEN Refuse(n) /\ UNCHANGED books
       ELSE LET e == IF Known(n) THEN Store[n] ELSE NewEntry(v, TRUE)
                ranged == [e EXCEPT !.range = IF r = None THEN @ ELSE r]
            IN  /\ ModuleDefault(n, TRUE)
                /\ UNCHANGED used
                /\ IF e.seenForced
                   THEN Put(n, ranged) /\ Raise(n)
                   ELSE PutChecked(n, Pinned(ranged, v))

ParamRange(n, r) ==
    /\ Call(n)
    /\ UNCHANGED books
    /\ IF ~Known(n) \/ Store[n].range # None \/ r = Malformed THEN Refuse(n)
       ELSE PutChecked(n, [Store[n] EXCEPT !.range = r])

\* A slip: an earlier force does not keep its value.
OverriddenAlways(e, v) == [e EXCEPT !.val = v, !.state = "OVERRIDDEN", !.prio = 40]

\* override_param's write.
Overridden(e, v) ==
    IF e.state = "FORCED" THEN e
    ELSE [e EXCEPT !.val = v, !.state = "OVERRIDDEN", !.prio = 40]

\* override_param called by the body on itself.
OverrideParam(n, v) ==
    /\ Call(n)
    /\ UNCHANGED books
    /\ LET e == Overridden(IF Known(n) THEN Store[n] ELSE NewEntry(v, FALSE), v)
       IN  IF e.state = "FORCED" THEN UNCHANGED <<params, status, tainted>>
           ELSE PutChecked(n, e)

-----------------------------------------------------------------------------
(* The child. *)

\* scoped_overrides_for("a"): .cfg values, then command-line ones.
Scoped ==
    Merged([n \in {m \in Names : <<"a", m>> \in DOMAIN cfgDb} |-> cfgDb[<<"a", n>>].val],
           [n \in {m \in Names : <<"a", m>> \in DOMAIN src.cmd} |-> src.cmd[<<"a", n>>]])

\* unique_inst: keywords over scoped overrides, each passed on by
\* override_param, whatever the child will declare.
Instantiate(k) ==
    LET eff == Merged(Scoped, k)
    IN  /\ status = "running" /\ cur = "top" /\ kw = None
        /\ kw' = k
        /\ used' = used \cup
             {<<"cfg", x>> : x \in DOMAIN cfgDb \cap ({"a"} \X Names)} \cup
             {<<"cmd", x>> : x \in DOMAIN src.cmd \cap ({"a"} \X Names)} \cup
             {<<"bare", n>> : n \in DOMAIN src.bare \cap DOMAIN Scoped}
        /\ params' = [params EXCEPT !["a"] =
             [n \in DOMAIN eff |-> Overridden(NewEntry(eff[n], FALSE), eff[n])]]
        /\ cur' = "a"
        /\ UNCHANGED <<db, accounts, calls, status, tainted>>

\* The child's body ends; or the top's, after its child.
Return ==
    /\ status = "running"
    /\ kw # None
    /\ IF cur = "a" THEN cur' = "top" /\ UNCHANGED status
       ELSE status' = "done" /\ UNCHANGED cur
    /\ UNCHANGED <<db, books, params, kw, calls, tainted>>

\* The template stands in a try block, or the run ends with the error.
Catch == /\ status = "raised"
         /\ status' = "running"
         /\ UNCHANGED <<db, books, params, kw, cur, calls, tainted>>

Fail == /\ status = "raised"
        /\ status' = "failed"
        /\ UNCHANGED <<db, books, params, kw, cur, calls, tainted>>

-----------------------------------------------------------------------------
Init ==
    /\ given \in Setups
    /\ read = 0
    /\ src = [cmd |-> <<>>, bare |-> <<>>, json |-> <<>>, defaults |-> <<>>]
    /\ cfgDb = <<>>
    /\ used = {} /\ entries = {} /\ taken = {} /\ forcedKeys = {}
    /\ params = [i \in Insts |-> <<>>]
    /\ kw = None
    /\ cur = "top"
    /\ calls = [c \in Insts \cup {"cfg"} |-> 0]
    /\ status = "args"
    /\ tainted = {}

BodyCall ==
    \E n \in Declarable :
        \/ \E d \in Defaults : DefineParam(n, d)
        \/ \E d \in Defaults, r \in Ranges \cup {None, Malformed} : Parameter(n, d, r)
        \/ \E v \in Forceds : ForceParam(n, v) \/ OverrideParam(n, v)
        \/ \E v \in Forceds, r \in Ranges \cup {None, Malformed} : ParameterForced(n, v, r)
        \/ \E r \in Ranges \cup {Malformed} : ParamRange(n, r)
        \/ GetParam(n)

Next ==
    \/ TakeSpec
    \/ ReadDefaults
    \/ ArgumentsDone
    \/ \E k \in CfgKeys :
          \/ \E p \in Prios : Configure(k, p)
          \/ RemoveConfiguration(k)
          \/ GetConfiguration(k)
    \/ CfgDone
    \/ BodyCall
    \/ \E k \in Keywords : Instantiate(k)
    \/ Return
    \/ Catch
    \/ Fail

Spec == Init /\ [][Next]_vars
=============================================================================

----------------------------- MODULE ModuleLoading -----------------------------
(* From template files to classes (Manager, template/emitter.py): a template  *)
(* is turned into a .py file in raw_dir, which outlives the process, and the  *)
(* class in it is imported when a module name is first used.  A name may be   *)
(* that of an input, of a file on the search paths, of a .py file an earlier  *)
(* process left (--gen-only), or of a synonym.                                *)
(*                                                                            *)
(* A template file is <<directory, stem, extension>>; what it contains is a   *)
(* version number, and there are versions that are no template (Malformed) or *)
(* whose class cannot be imported (Raising).  A generated file or class is    *)
(* told by where it came from.                                                *)
EXTENDS CommandLine

CONSTANTS
    Places,       \* files there may be
    Trees,        \* the ones there may be to begin with -> their versions
    Malformed,    \* versions that parse_vpy rejects
    Raising,      \* versions that parse, and raise when they are imported
    PyPath,       \* --py-path
    Exts,         \* the keys of extension_map, in order
    Safe,         \* the identifier made of a stem
    Names,        \* module names the templates use
    Includes,     \* what they include: <<stem, extension>>
    Top,          \* --top
    Targets,      \* names synonym_class is called for
    MaxProcesses, \* bound on the number of processes
    MaxEdits      \* bound on the number of changes to template files

VARIABLES
    raw,          \* stem of a .py file in raw_dir -> [path, version] it was made from
    mode,         \* "full", "parse" (--parse-only), "gen" (--gen-only), or "none"
    parsed,       \* how many inputs parse_files has handled
    generated,    \* _generated_modules: name -> stem of the .py file
    stemOwner,    \* _stem_owner: stem of a .py file -> template it is made from
    loaded,       \* _loaded_classes: name -> [path, version, line], where line
                  \* is the class's own name and those of its source classes
    sources,      \* parsed_source_files, as a set
    included,     \* INCLUDED_FILES, as a set
    ran,          \* the files whose text include() or pyinclude() has executed
    processes, edits

process == <<parsed, generated, stemOwner, loaded, sources, included, ran>>
vars    == <<files, raw, mode, arguments, process, processes, edits>>

InProcess == mode # "none"
Put(f, k, v) == [x \in DOMAIN f \cup {k} |-> IF x = k THEN v ELSE f[x]]

--------------------------------------------------------------------------------
(* Finding a template. *)

\* find_file: the first of these directories that has the file; <<>> if none.
FindFile(stem, ext, dirs) ==
    LET hits == {k \in DOMAIN dirs : <<dirs[k], stem, ext>> \in Exists}
    IN  IF hits = {} THEN <<>> ELSE <<dirs[Min(hits)], stem, ext>>

InputDirs    == srcPath \o incPath \o <<".">>
FallbackDirs == <<".">> \o srcPath

\* An input made absolute is not searched for.
FindInput(i) == IF i[1] = Relative THEN FindFile(i[2], i[3], InputDirs)
                ELSE IF i \in Exists THEN i ELSE <<>>

\* The first extension that has a file.
Lookup(name, dirs) ==
    LET hits == {k \in DOMAIN Exts : FindFile(name, Exts[k], dirs) # <<>>}
    IN  IF hits = {} THEN <<>> ELSE FindFile(name, Exts[Min(hits)], dirs)

InputsNamed(name) == {k \in DOMAIN inputs : inputs[k][2] = name}
FirstNamed(name)  == inputs[Min(InputsNamed(name))]

\* _template_for: what a synonym of this name would shadow.
TemplateFor(name) ==
    IF InputsNamed(name) # {} THEN FirstNamed(name) ELSE Lookup(name, InputDirs)

--------------------------------------------------------------------------------
(* _write_generated. *)

Stem(path) == Safe[path[2]]
Here == [raw |-> raw, generated |-> generated, stemOwner |-> stemOwner,
         loaded |-> loaded, sources |-> sources]
Become(r) == /\ raw' = r.raw
             /\ generated' = r.generated
             /\ stemOwner' = r.stemOwner
             /\ loaded' = r.loaded
             /\ sources' = r.sources

\* A slip: only the inputs, parsed ahead of any class, become prerequisites.
InputsOnly(path) == IF loaded = <<>> THEN sources \cup {path} ELSE sources
Recorded(path) == sources \cup {path}

\* A slip: two templates may share a stem.
AnyOwner(path) == TRUE
MayWrite(path) == Stem(path) \in DOMAIN stemOwner => stemOwner[Stem(path)] = path

Parses(path) == files[path] \notin Malformed

\* The stem is taken and the template noted before write_module parses it.
Claimed(path) ==
    [Here EXCEPT !.stemOwner = Put(stemOwner, Stem(path), path),
                 !.sources   = Recorded(path)]

\* The .py file is written and entered under the name it was looked for.
WriteGenerated(name, path) ==
    [Claimed(path) EXCEPT
        !.raw       = Put(raw, Stem(path), [path |-> path, version |-> files[path]]),
        !.generated = Put(generated, name, Stem(path))]

--------------------------------------------------------------------------------
(* The user and the process. *)

Edit(p) ==
    /\ edits < MaxEdits
    /\ reading = <<>>
    /\ edits' = edits + 1
    /\ \/ \E v \in {edits + 2} \cup Malformed : files' = Put(files, p, v)
       \/ p \in Exists /\ files' = [q \in Exists \ {p} |-> files[q]]
    /\ UNCHANGED <<raw, mode, arguments, process, processes>>

\* What a process finds in raw_dir when it starts.
\* A slip: in every mode, and not with --gen-only alone.
DiscoveredAlways(m) == [s \in DOMAIN raw |-> s]
Discovered(m) == IF m = "gen" THEN [s \in DOMAIN raw |-> s] ELSE <<>>

Start(m, c) ==
    /\ ~InProcess
    /\ processes < MaxProcesses
    /\ m = "gen" => raw # <<>>
    /\ processes' = processes + 1
    /\ mode' = m
    /\ Begin(c)
    /\ generated' = Discovered(m)
    /\ UNCHANGED <<files, raw, parsed, stemOwner, loaded, sources, included, ran, edits>>

Exit ==
    /\ mode' = "none"
    /\ Idle
    /\ parsed' = 0
    /\ generated' = <<>>
    /\ stemOwner' = <<>>
    /\ loaded' = <<>>
    /\ sources' = {}
    /\ included' = {}
    /\ ran' = {}
    /\ UNCHANGED <<files, raw, processes, edits>>

\* parse_args, before anything is read or written but the lists.
ParseArgs ==
    \/ ReadArguments /\ UNCHANGED <<files, raw, mode, process, processes, edits>>
    \/ UsageError /\ Exit

Argued  == InProcess /\ reading = <<>> /\ (inputs = <<>> => mode = "gen")
Parsing == Argued /\ mode # "gen" /\ parsed < Len(inputs)
Ready   == Argued /\ ~Parsing

\* parse_files, one input at a time.
ParseInput ==
    /\ Parsing
    /\ LET i    == inputs[parsed + 1]
           path == FindInput(i)
       IN  IF path # <<>> /\ MayWrite(path) /\ Parses(path)
           THEN /\ Become(WriteGenerated(i[2], path))
                /\ parsed' = parsed + 1
                /\ UNCHANGED <<files, mode, arguments, included, ran, processes, edits>>
           ELSE Exit

\* The process ends when it is through, or by an error, or is killed.
Finish == InProcess /\ Exit

--------------------------------------------------------------------------------
(* Loading classes. *)

\* _import_generated: the .py file is run, and must define a class of the name.
Import(r, name) ==
    LET py == r.raw[r.generated[name]]
    IN  IF r.generated[name] # name \/ py.version \in Raising THEN r
        ELSE [r EXCEPT !.loaded = Put(r.loaded, name,
                [path |-> py.path, version |-> py.version, line |-> <<name>>])]

\* Where a name without a .py file is looked for: an input of that stem, or the
\* search directories.
SearchedFor(name) ==
    IF InputsNamed(name) # {}
    THEN FindInput(FirstNamed(name))
    ELSE Lookup(name, FallbackDirs)

\* resolve_module_class.  An error leaves what was done before it: the template
\* that asked may catch it.
Resolved(name) ==
    LET path == SearchedFor(name)
    IN  CASE name \in DOMAIN loaded     -> Here
          [] name \notin DOMAIN loaded /\ name \in DOMAIN generated -> Import(Here, name)
          [] name \notin DOMAIN loaded /\ name \notin DOMAIN generated ->
                IF path = <<>> \/ ~MayWrite(path) THEN Here
                ELSE IF ~Parses(path) THEN Claimed(path)
                ELSE Import(WriteGenerated(name, path), name)

Shadowed(name) == TemplateFor(name)

\* synonym_class.  A name that has a class already keeps it, and the call is
\* refused unless that class descends from the source.
Subclass(r, src, target) ==
    [r EXCEPT !.loaded = Put(r.loaded, target, [r.loaded[src] EXCEPT !.line = <<target>> \o @])]
\* A slip: the last synonym of a name wins.
AliasedAnew(src, target) ==
    LET r == Resolved(src)
    IN  IF src \notin DOMAIN r.loaded \/ Shadowed(target) # <<>> THEN r
        ELSE Subclass(r, src, target)
Aliased(src, target) ==
    LET r == Resolved(src)
    IN  IF \/ src \notin DOMAIN r.loaded
           \/ target \in DOMAIN r.loaded
           \/ Shadowed(target) # <<>>
        THEN r ELSE Subclass(r, src, target)

Elaborating == Ready /\ mode # "parse" /\ Top \in DOMAIN loaded
Call(r) == /\ Elaborating
           /\ r # Here
           /\ Become(r)
           /\ UNCHANGED <<files, mode, arguments, parsed, included, ran, processes, edits>>

\* load_top_module does not search: the top is an input, or was one.
LoadTop ==
    /\ Ready
    /\ mode # "parse"
    /\ loaded = <<>>
    /\ Top \in DOMAIN generated
    /\ Become(Import(Here, Top))
    /\ UNCHANGED <<files, mode, arguments, parsed, included, ran, processes, edits>>

Resolve(name) == Call(Resolved(name))
SynonymClass(src, target) == Call(Aliased(src, target))

\* _include of user_config.py: the file is noted first; then it may not be a
\* template, or not one that parses.
Include(f) ==
    LET path == IF <<".", f[1], f[2]>> \in Exists THEN <<".", f[1], f[2]>>
                ELSE FindFile(f[1], f[2], incPath \o <<".">>)
    IN  /\ Elaborating
        /\ path # <<>>
        /\ included' = included \cup {path}
        /\ ran' \in {ran, IF f[2] \in ToSet(Exts) THEN ran \cup {path} ELSE ran}
        /\ UNCHANGED <<files, raw, mode, arguments, parsed, generated, stemOwner, loaded,
                       sources, processes, edits>>

\* pyinclude: a template, or Python that does not compile, is not noted.
PyInclude(f) ==
    LET path == IF <<".", f[1], f[2]>> \in Exists THEN <<".", f[1], f[2]>>
                ELSE FindFile(f[1], f[2], PyPath \o incPath)
    IN  /\ Elaborating
        /\ path # <<>>
        /\ f[2] \notin ToSet(Exts)
        /\ included' = included \cup {path}
        /\ ran' = ran \cup {path}
        /\ UNCHANGED <<files, raw, mode, arguments, parsed, generated, stemOwner, loaded,
                       sources, processes, edits>>

Init ==
    /\ files \in Trees
    /\ raw = <<>>
    /\ mode = "none"
    /\ InitArguments /\ parsed = 0
    /\ generated = <<>> /\ stemOwner = <<>>
    /\ loaded = <<>> /\ sources = {}
    /\ included = {} /\ ran = {}
    /\ processes = 0 /\ edits = 0

Next ==
    \/ \E p \in Places : Edit(p)
    \/ \E m \in {"full", "parse", "gen"}, c \in CommandLines : Start(m, c)
    \/ ParseArgs
    \/ ParseInput
    \/ LoadTop
    \/ \E n \in Names : Resolve(n)
    \/ \E s \in Names, t \in Targets : SynonymClass(s, t)
    \/ \E f \in Includes : Include(f)
    \/ \E f \in Includes : PyInclude(f)
    \/ Finish

Spec == Init /\ [][Next]_vars

--------------------------------------------------------------------------------
(* Properties *)

PyFile == [path : Places, version : Nat \ Malformed]
Stems  == {Safe[p[2]] : p \in Places}

TypeOK ==
    /\ Exists \subseteq Places
    /\ DOMAIN raw \subseteq Stems /\ \A s \in DOMAIN raw : raw[s] \in PyFile
    /\ \A n \in DOMAIN generated : generated[n] \in DOMAIN raw
    /\ DOMAIN stemOwner \subseteq Stems
    /\ sources \cup included \cup ran \subseteq Places
    /\ \A n \in DOMAIN loaded : Head(loaded[n].line) = n

Synonym(n) == Len(loaded[n].line) > 1
Full == mode = "full"

\* The user guide on .depend: "prerequisites are the parsed input templates".
\* Every template that made a class of the run is one of them, and the classes
\* are made from .py files of this run, whatever is left in raw_dir.
\* So is every file an include executed, also when the body then raised.
DependComplete ==
    /\ Full => \A n \in DOMAIN loaded : loaded[n].path \in sources
    /\ ran \subseteq sources \cup included

\* The lists of inputs are read once each; see CommandLine.
InputsListed == Argued /\ edits = 0 => ListsOnce(inputs)

\* What a name stands for depends on the inputs and the files alone: not on
\* the order in which names are used, errors that were caught, synonyms, or
\* what earlier processes left in raw_dir.
OrderFree ==
    Full /\ edits = 0 =>
        \A n \in DOMAIN loaded : ~Synonym(n) => loaded[n].path = SearchedFor(n)

\* _write_generated: "two templates cannot share a sanitised stem".  The .py
\* file of a class stays what the class was imported from; tracebacks are
\* mapped through it.
PyKept ==
    Full => \A n \in DOMAIN loaded :
                raw[Last(loaded[n].line)] = [path    |-> loaded[n].path,
                                             version |-> loaded[n].version]

\* Within a process a name never changes its class.
ClassesStable ==
    [][mode' = mode => \A n \in DOMAIN loaded : n \in DOMAIN loaded' /\ loaded'[n] = loaded[n]]_vars
=============================================================================

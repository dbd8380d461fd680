# A formal model of genesispy

genesispy turns a Verilog template hierarchy into Verilog: templates are
translated to Python classes, the classes are run, and while they run they
instantiate each other, read parameters and print text. This directory holds
TLA+ modules for the parts of it where order, sharing, failure or persistence
make the behaviour hard to see from the code, the TLC configurations that check
them on small instances, and TLAPS proofs of what holds for every instance.

Paths below are relative to the repository. `U` is
`src/genesispy/unique_module.py`, `C` `cache.py`, `H` `config_handler.py`,
`M` `manager.py`, `W` `output_writer.py`, `E` `template/emitter.py`, `P`
`template/parser.py`, `L` `cli.py`, `I` `user_config.py`, `V`
`tools/vp2vpy.py`, `J` `tools/jinja2j2.py`, `XJ` `tools/xml_json.py`.

## 1. Inventory

| Component | State | Operations | Hard behaviour |
|---|---|---|---|
| journaled caches (`C`) | MODULE_CACHE, OUTFILE_CONTENT_CACHE, one stack of journals each | set, delete, `journaled()`, `rollback_journal` | nesting; rollback writes past the recording methods; exceptions leave blocks |
| elaboration engine (`U`, `C`, `hashing.py`) | the instance tree, the call stack of bodies, the caches, the derivation counters, the registry of bare names | `unique_inst`, `unique_inst_param`, `ununique_inst`, `clone_inst`, `synonym`, `force_param`, `execute`, `error` | re-entrance: all of it runs inside bodies that call it again, raise, and catch |
| parameter store and configuration ladder (`U`, `H`) | `_params` of each instance; `.cfg`, JSON, `--parameter`, `--defaults` values; the sets of used, taken and forced names | `define_param`, `parameter`, `force_param`, `override_param`, `param_range`; `configure`, `remove_configuration`, `get_configuration`; `report_unused` | six sources and calls in any order; checks that raise after the write; an account settled at the end |
| product tags (`U` 1326-1391, `M` 552-588) | OUTFILE_TAGS, OUTFILE_ORDER | one pruned depth-first walk, promotion of tags | the walk prunes by file, the cone is decided by path, clones share subtrees |
| module loading (`M` 225-446, `E`) | `.py` files in `raw_dir`, `_generated_modules`, `_stem_owner`, `_loaded_classes` | `parse_files`, `--gen-only`, `load_top_module`, `resolve_module_class`, `synonym_class` | raw_dir outlives the process; four places a name can come from; caught errors |
| output writer (`W`, `M` 513-550) | files on disk | `flush_to_disk`, the lists, the clean script, `--clean`, `--stdout`, `--json-out` | runs that stop half-way; reruns with other flags; time stamps that Make reads |
| JSON configuration and snapshots (`H` 267-438, 607-735, 1087-1167) | the configuration tree, `.cfg` values, the scripts being run | `read_json`, merging, validation, `include`, lookups, `extract_stats` | files merged in the order they are read; three walks of one tree; a tree written from instances and read by names |
| template parser (`P`, `E`, `template/runtime.py`) | line, indent and block state of a scanner; the line map | `_parse_vpy_genesis`, `_parse_vpy_j2`, `build_line_map` | a second block stack beside Python's; statements over several lines |
| command line (`L`) | inputs, search directories, lists read | `parse_args`, `_expand_listfiles` | lists that name each other |
| includes (`I`) | the active manager and module, INCLUDED_FILES | `context`, `include`, `pyinclude` | exceptions; prerequisites |
| template converters (`V`, `J`) | a stack of open blocks; issues or TODOs so far | one record or span at a time; `render_expr`, `_ExprRewriter` | three readers of one text: the converter, the scanner and Python each keep blocks of their own; expressions put together as text |
| XML conversion (`XJ`) | none | `xml_to_json`, `json_to_xml` | two representations told apart by names and counts |
| reporting, `gvpy_cli.py`, demos | none or one file | | |

**Interaction.** The command line gives `Manager.execute` the
inputs and directories; it parses the inputs (module loading and the template
parser), builds
the configuration, and runs the top's body. Bodies call into the elaboration
engine, which asks the configuration for overrides, asks the manager for
classes, and writes the caches; all of these are process globals, and the
program has one thread. When the top has returned, the manager tags the files
and the output writer puts them on disk. The journaled caches are used by
`unique_inst` alone, once per call under way.

**What makes each part correct** is the list of properties in section 4; the
places in the code where each could go wrong are the hazards of
`PROJECT.json`.

## 2. Modules

| Module | Models | Built on |
|---|---|---|
| `Journal` | one recording dict and its journal, as operators | |
| `JournaledCache` | `C` as a state machine | `Journal` |
| `SnapshotStore` | abstract: a store with a full copy per open block | |
| `JournaledCacheProofs` | theorems | `JournaledCache` |
| `Elaboration` | the engine | `Journal` |
| `ElaborationSafety` | its properties | `Elaboration` |
| `ElaborationProofs` | theorems: scopes close; parameters are sealed; what any step does to the instances, one of nine moves | `ElaborationSafety` |
| `HierarchyProofs` | theorems about the hierarchy: dedup keys are honest, dedup is sound and complete, no module contains itself | `ElaborationProofs` |
| `Parameters`, `ParameterSafety` | the parameter store and the ladder; properties | |
| `ParameterProofs` | theorems | `ParameterSafety` |
| `ProductTags` | the walk and the promotion of tags | |
| `TagProofs` | theorems: the tags are those of the hierarchy, the order is bottom-up | `ProductTags` |
| `CommandLine` | `parse_args` with its list files | |
| `ModuleLoading` | from template files to classes, and includes, over several processes | `CommandLine` |
| `LoadingProofs` | theorems: inputs from lists, prerequisites, `.py` files, names and classes | `ModuleLoading` |
| `OutputFiles` | what a sequence of runs leaves on disk | |
| `OutputProofs` | theorems: a run converges, Make's targets are safe, cleaning is complete | `OutputFiles` |
| `ConfigTree` | the configuration tree: read, merged, looked up, written, read again, also through XML | `XmlShape` |
| `Scanners` | the two template scanners, line by line and token by token, and Python's reading of what they emit | |
| `Template` | an author's template given to both scanners | `Scanners` |
| `TemplateProofs` | theorems: output is in its block, lines name their items | `Template` |
| `PythonExpr` | how Python groups the text of an expression | |
| `JinjaExpr`, `JinjaPort` | `genesispy-jinja2j2`: its expressions; a Jinja2 template converted, scanned, read | `PythonExpr`, `Scanners` |
| `PerlExpr`, `PerlPort` | `genesispy-vp2vpy`: its expressions; a Genesis2 template converted, scanned, read | `PythonExpr`, `Scanners` |
| `XmlShape` | a tree of JSON written as XML elements and read again | |
| `MC*` | instances for TLC | |

`Elaboration` uses the operators of `Journal` for both its caches, so what is
proved of them in `JournaledCacheProofs` is about the same definitions.
`ProductTags` starts from the trees `Elaboration` can leave, and `OutputFiles`
from the tags and texts those two produce; they meet in the definitions of a
tree and of a design, not in a common state. `Parameters` and `Elaboration` take
the values addressed to a path as given; `ConfigTree` says how they come out of
the files. `Scanners` is shared by three modules: an author writing for one of the
flavours, and the two converters whose output the flavours read. The `TypeOK` of the larger modules documents the shape of the state;
only that of the journals is a property of a run, because the proofs rest on it.

### 2.1 Journaled caches

`dict` is the mapping, `journals` the stack of active journals, innermost last.
`SetItem`/`DelItem` are `_JournaledDict.__setitem__`/`__delitem__` with
`_record`: the value before the *first* touch goes into every open journal that
has none for the key. `Rollback` is `rollback_journal`, which writes with
`dict.__setitem__` and therefore records nothing. `Open` and `Close` are the two
ends of `journaled()`, `Close` being also its `finally`.

The abstract specification `SnapshotStore` keeps a full copy of the store for
each open block. `ImplementsSnapshots` is refinement under
`store <- dict, saved[i] <- Undone(dict, journals[i])`: the journal of a block
stands for the copy it would restore.

### 2.2 Elaboration

A body is a list of operations chosen from `Ops` the first time a class runs
with a start value, and replayed afterwards: a template is deterministic, but
unknown. `stack` holds one frame per body under execution; a step is either the
next operation of the innermost body (the call), or what its caller does when it
returns. So `unique_inst` is `UniqueHit` (pre-elaboration key found) or
`UniqueMiss` (instance made, journals opened, body entered), later
`UniqueKept` or `UniqueDup` (post-elaboration key found: rollback and clone).
`unique_inst_param`, `ununique_inst` with its regeneration and comparison,
`clone_inst`, `synonym` and `force_param` are done the same way; the instance the
first and the last act on is named by steps from the caller or from the top
(`Instances`: `get_parent`, `get_subinst`, dotted paths), so it may be anywhere in
the hierarchy, and a step that leads nowhere raises. An exception
sets `status` to `raising`; `Catch` is a try block of a body, `Unwind` the frame
left by it with its `finally` clauses, those of `journaled` and of `user_config.context`, `Fail` the end in `Manager.execute`.

Abstractions: every class has one parameter; a module name is a tuple such as
`<<"p", "unq", 2>>` and stands for the file too (the extension is a constant of
the class); keys are tuples of what the signature hashes; a text is
`[cls, start, final]` plus what identifies the instance that wrote it. Overrides
address instances by path and come from one of three tiers.

### 2.3 Parameters

Two instances, the top and a child; `param_range` may be refused for the form of
its arguments (`Malformed`) before anything is stored. `given` is what the run was
started with. `TakeSpec` reads one `--parameter` argument, scoped or bare, into
`src`, `ReadDefaults` one `--defaults` file, whose entries may be at any depth; either
ends the run on a name that was there before. `ArgumentsDone` checks
`--defaults-entry` and adds JSON, then a `.cfg` script makes calls, then the bodies
do. The child's module was made from the top's template, so the two read one
`--defaults` entry in common, after one the top is told to read and one the child's
module name gives. An entry of `params` has the fields of the dict `_new_entry`
makes. A check that raises does so after the write, as in the code, and the
pair it was about is remembered in `tainted`, because the template may catch
the exception and go on. Ranges are sets of allowed values (whether a range is
given by min, max, step or a list is left out), and the priorities of `.cfg` values are taken apart
from those of other sources so that there are no ties. `EntryNames` are the names an
instance looks for in `--defaults`; `Entered` are the places among them of entries that
there are, `Holding` those of entries that hold the parameter: all of them count as read
or taken, and the first one's value is used.

### 2.4 Product tags

`tree` is any tree of at most `MaxObjs` instances that elaboration can make: an
instance is appended by a body still running, afresh or as a clone. The walk is
a stack of frames, one step per visit; `Promote` is one turn of the loop in
`_populate_outfile_tags`.

### 2.5 Command line, module loading, includes

State survives the process in `files` (the templates) and `raw` (the `.py`
files). `Start` begins a full, `--parse-only` or `--gen-only` process with a
command line. Then `ReadArguments` takes the lines of the list files one at a
time: `reading` is the stack of lists being read, which is also the `ancestors`
of `_expand_listfiles`, and `processed` is its set of that name. A bare path is
kept as written, a directive's is made absolute and dropped if it is not there.
`UsageError` is `parser.error`. `ParseInput` is one turn of `parse_files`;
`Resolve` and `SynonymClass` are the calls a template makes, in any order,
computed from a record of the manager's attributes so that an error can leave
what was done before it: nothing, if there is no such template or its stem is
taken; the stem and the note for `.depend` (`Claimed`), if it does not parse; also the
`.py` file and its entry, if that cannot be imported. `Include` and `PyInclude` look a
file up, note it and run it. A template is `<<directory, stem, extension>>`, its text a
version number, some of which do not parse (`Malformed`) or raise on import
(`Raising`), and the sanitising of stems a constant function. The class hierarchy
made by `synonym_class` is the sequence `line` of class names.

Several tokens on one line of a list are several lines here; files are not
changed while lists are read; the warnings for empty lists and repeated inputs,
environment variables in paths, and the cache of compiled `pyinclude` bodies are
left out.

### 2.6 Output files

A run has every text in memory when it begins to write, so it is a sequence of
disk operations, computed by `Program` from the flags and the design (what the
sources elaborate to); the operators of that computation are the functions of
`output_writer.py`. A file is emptied and filled in two steps, a directory
removed file by file, and `Stop` ends a run anywhere. Each file remembers the
number of the run that wrote it (its time stamp) and that run's flags. A design
is given with its tags; paths are `<<directory, stem, extension>>`, directories
are flat. The log is written when the run warns. A truncated script is not run,
and sources are edited between runs, not during one.

### 2.7 Configuration tree

A node is `[iname, params, subs]` with sequences for the lists, since order and
repetition decide what a lookup finds; a list may be missing or the `""` an
empty XML element becomes. `ReadParamFile`, `IncludeJson` and `IncludeCfg` are
the three ways a file gets in, each a whole `read_json` (parse, `Valid`, `Merge`; a
parameter without exactly one value, a pointer counting as one, is refused)
or a script pushed on `stack`; `Configure`, `RemoveConfiguration` and
`GetConfiguration` are the calls of a script. `FindParam` is the lookup of one
value, `ScopedEntries` the walk that collects them all for the dedup signature,
`StatsEntry` the tree `--json-out` makes of the instances in one of its three
variants. Written trees go through `XmlShape` as well: `json_to_xml` makes elements
(`FromNative`, `Elements`: wrappers for plural names, `ArrayItem`, `HashItem`), the
reader groups elements of one name (`Grouped`), and `xml_to_json` makes values of
them again (`ToNative`); a value is a leaf, a list or a record. Several `--cfg` files are one main script that includes them.

### 2.8 Templates

An author writes items: blocks of loops or others, statements over one or more
lines, `else` arms, comments, lines of output. `style` says how blocks are
closed at each level. Each item is given to both scanners in the form it has in
their flavour, so `scan` holds the state of two parsers on one template;
`python` is what Python makes of their output: the blocks it is in, by
indentation, and whether one is due. Of a line only its indent, its open brackets
and its role are kept. Directives begin in the first column of their line.

### 2.9 From Jinja2

`JinjaPort` has four readers of one template. The author knows which blocks are
open (`open`); `convert` has its `stack`; the j2 scanner has the state `scan` from
`Scanners`; `python` is what Python makes of the scanner's lines. An item of the
author becomes the tokens `_rewrite_stmt_span` puts out, at once read by the next
two. A statement is classed by what the converter does with it: an opener or arm
that is ported, ported with an issue in its head, or left as a comment; a closer;
`set` or `include`, likewise; a block on one line; `raw`. `Holding` says what an
expression in any of these leaves: nothing, an issue and a `_TODO_` name, or, for the
filter `escape`, an issue alone. With `strict` the first span that cannot be ported stops
the run; the last kind of issue does not.

`JinjaExpr` takes a tree, `Visit` is `_ExprRewriter` with its tables, the text is a
sequence of words, and `PythonExpr!Parse` groups it by Python's precedences
(comparisons as chains). Filters and tests are those whose text has a shape of its
own: a trailer, a call, a bare comparison, a conditional.

### 2.10 From Genesis2

`PerlPort` is built the same way: `FileTranslator.stack` against the author's
blocks, and the genesis scanner behind it, where the indent of a line of output
comes from the opener or sentinel before it. Its items are the records
`_handle_directive` tells apart: openers in several layouts, `} else {` chains,
closers with a semicolon or not, one-line blocks, postfix conditionals, comments,
statements that need a helper, and constructs with no equivalent. PPI is external:
what it finds in a record is part of the item's style. `_merge_continuations`
joins a postfix line to a comment ending in `)`, which is `held`. `odd` is a history
variable: the first construct of the template that puts output in another block without
a TODO (section 5), a postfix conditional, or any other; the properties say which
templates they are about by it, and no action reads it.

In `PerlExpr` the author's tree is first written with as few parentheses as Perl
allows (`Written`); `render_expr` sees those words and replaces them from left to
right (`Pieces`), taking the piece before and the operand after an operator that
becomes a call; ternaries are split before (`Render`).

## 3. Runs and bounds

| Run | Instance | Why that is enough |
|---|---|---|
| `journals` | 2 keys, 2 values, 3 open blocks | rollback of the middle block with one inside and one outside needs 3 |
| `elaboration` | 4 classes, 10 programs, bodies of at most 3 operations, values 0/1, recursion to 4 | each program is aimed at one mechanism: two or three instantiations of one class below two instances of another are what every dedup, rollback and comparison needs; a body names itself, its child, its parent, an elder of its parent and a grandchild of the top, of which each is refused or not for another reason; depth 4 lets a class occur below itself twice and overflow |
| `tags` | all trees of at most 6 instances, no clones of clones | a shared subtree with a child, met inside and outside the cone, needs 5 |
| `parameters` | every combination of the sources for one parameter of the top and the child; 1 call by the top's and 2 by the child's body; 2 `.cfg` calls for some; `--defaults` entries of the common template, the child and the command line in two files and a group; arguments and entries given twice; `.cfg` priorities below `--defaults`, between JSON and bare arguments, and above those | declaring, then forcing or overriding; a value configured and removed again |
| `outputs` | 2 command lines, 3 designs, 3 runs, 2 of which stop early | a run, a second that stops, a third that must repair; or a run, a clean, a run |
| `loading` | 8 files in 4 directories, at most 5 of them at first; 11 command lines over 7 list files (a diamond, a ring, one of each directive); 2 processes, 1 change of a file | a process, then another over its raw_dir, with a template edited between or during, also into one that does not parse; a name whose template does not parse or raises on import, beside another it might be taken from; every way a list can be met again |
| `config` | 3 JSON files of up to 3 nodes, 2 scripts of up to 2 calls, includes 3 deep; designs of 4 instances with a clone and a synonym | a file read first, between and last, or twice, and a script that includes its includer |
| `template` | 8 items, blocks 3 deep, statements of up to 2 lines, 5 ways to close blocks | a block closed in a block and text after it need 5 items; a third level shows that the stack, not its top alone, is right |
| `jinja` | 6 items, blocks 2 deep; all expressions of up to two operators, and those that join two of one operator | a block with two arms in a block, and text after it; an operator inside another on either side |
| `perl` | 5 items, blocks 2 deep; the same for Perl's operators | a block opened, chained, closed, text and a statement; a construct of each style before and after |

`alias_lost` and `perl_moves` check one property each, which states what a document
or comment says, and TLC finds the shortest behaviour where the code does otherwise
(section 5).

`CHECK_DEADLOCK FALSE` is set where the system stops: a finished elaboration, a
finished walk, the last run the bound allows.

**Fairness.** Only `Terminates` needs any: `WF_vars(Next)`. The interpreter is
one thread that never waits, so it takes a step whenever there is one. Nothing
is assumed about which; no body is assumed to end, since bodies are bounded
lists and recursion is bounded by the interpreter.

## 4. Properties

*Journals.* `JournalsNest`: a key in an inner journal is in every outer one;
this is what makes a rollback that records nothing harmless.
`ImplementsSnapshots`: refinement of the abstract store.

*Elaboration.* `ScopesClose` (one journal per `unique_inst` under way, and the
active module is the one whose body runs, also while an exception unwinds and after); `KeysHonest` (a dedup key, or an entry of the
registry of bare names, leads to a finished module with the parameters and overrides
it spells); `NoTwins` (dedup
complete) and `DedupSound` (a path served by a shared module would have read the
same value on its own); `KeysStable`;
`FilesKept` and `FilesFaithful` (the file of each elaborated instance, and of each
one a key or the registry leads to, is there and holds its own text); `Acyclic`; `SynonymServed`; `ParamsSealed`; `Terminates`.
`DedupSound` is stated while no body calls `force_param` outside a declaration:
modules are then shared by final values, on purpose; and for settings with `OneScale`,
since a signature has the scoped values but not their sources (section 5).

*Parameters.* `LadderHolds` (the value is that of the highest rung of
user-guide 6.2, the rungs computed from what was given, so that a second argument of
a name or a second entry cannot get lost). The rungs have four levels: keywords;
scoped arguments; bare arguments (30), JSON (20) and `.cfg` values, by priority;
`--defaults` entries, by place. A `.cfg` script may give any priority (`H` 865, the
default is 10): one above 30 beats a bare argument but never a scoped one,
and one below 7 still beats `--defaults`. `RangeHolds`, `ForcedPinned`, `ReportsTrue` (an override that
decides a value is never reported unused; a `--defaults` entry or key is only if no
instance that reads the entry declared it, or, "is forced", had its value).

*Tags.* `TagsExact` (the file of every occurrence in the cone is in the synthesis
list, one outside it in the verification list below the top of the cone, and no
file is in a list without an occurrence that puts it there) and `BottomUp`, both
against the hierarchy with clones unrolled.

*Loading.* `InputsListed` (the inputs are what the list files say, each list
read once however many ways lead to it, its paths in their order and after those
of the command line, and no list leads to itself; `ListsOnce` counts the places
where a path is written, without the walk);
`DependComplete` (every template that made a class, and every file an include
ran, is a prerequisite in `.depend`, and no class comes from a stale `.py`);
`OrderFree` (what a name stands for is a function of inputs and files);
`PyKept` (the `.py` of a loaded class is not overwritten by another template);
`ClassesStable`.

*Outputs.* `Converges` (a run that gets to its end leaves exactly its texts,
whatever was there); `MakeSafe` (a target newer than the sources names only files with the text of
these sources, although runs stopped half-way); `CleanComplete` (`--clean`, or
the script, leaves nothing its flags have written).

*Configuration tree.* `Accumulates` (no value of a file is lost to a later one),
`ReadsStick` (the first file that gives a value wins, for good), `WalksAgree`
(the signature hashes what the lookups will find), `ReadsBack` (a snapshot read
back gives each elaborated instance the parameters listed of it, and no other
any). Their preconditions (`OneTop`, `Apart`, `OnceEach`, `NoBlanks`,
`StubsApart`) are the cases where the code differs, listed in section 5.

*Templates.* `InItsBlock` (a line of output is emitted in the blocks it was
written in, and j2 takes each closing for the one of its opener, while no block
closed by a keyword holds one that is not); `LinesTrue` (every line of Python
names a line of the item it was made of, for j2 the first).

*Converters.* `PlainPorted` and `ReachesTodo` say that what was ported without an
issue or TODO (or, of Jinja2, what `--strict` lets pass) keeps each line of output in
the blocks the author put it in; each names the templates for which that is so, and
section 5 what happens to others.
`ElseTold`: a loop's `else` is never taken for a conditional's or the reverse,
which needs the stack to be right through everything before. `PostfixCovered`, of
`perl_moves`, adds templates with postfix conditionals, and no other exception, to those
of `ReachesTodo`; it is what the user guide says and does not hold. `BackInStep`: whatever
came before, while the translator's stack holds the author's blocks, the next
statement lands in them. `ReadsAsWritten` and `OperatorsKept`: the text of an
expression, read by Python's precedences, is the author's tree; their preconditions
(`TestsApart`, `PrecedenceHolds`) say exactly which operands are not safe.

## 5. Disagreements the runs show

- `alias_lost`: a template that instantiates itself and forces its parameter can
  hit, after elaboration, the key of a module elaborated inside the scope being
  rolled back. The clone then names a file that was rolled back (`U` 762).
- `perl_moves`: `STMT if COND;` becomes an opener and its body without a sentinel;
  the scanner keeps the deeper indent, and the next line of output is emitted under
  the condition (`V` 1480). The behaviour found is these two lines, in a template
  that needs no helper.

Met while modelling, and handled by a precondition or left out of a property:

- `UNUNIQUE_REGISTRY` is not journaled; a rollback takes the file of a bare-named
  module made inside it and leaves the registration (`U` 962). The programs
  explored do not combine the two.
- The dedup signature does not know which source a value has; a JSON value and an
  equal `.cfg` value make two paths look alike although a bare `--parameter`
  outranks only one of them (`H` 788), so a path is served by a module that reads
  another value than it would have, against the docstring at `U` 650. `OneScale`, the
  precondition of `DedupSound`, excludes settings that have all three; the run explores
  bare values with either tier.
- A scoped override is marked used when it is handed to the child, so a misspelled
  one is not reported, against user-guide line 322 (`H` 809); `ReportsTrue` is about
  the other direction.
- In j2 flavour a `with`, `try`, `def` or `class` block in a loop, closed without a
  keyword, leaves its indent on `block_stack`; the loop's `{% endfor %}` pops that,
  and the text after the loop is emitted in it (`P` 710).
- The walk of the tags follows `_clone_of` once; with `--synth-top` at a clone of
  a clone the modules below are missing (`U` 1386). `CloneOfClone` is FALSE.
- A scoped override has the priority of a keyword once applied, so `--json-out`
  leaves it out of `Parameters` (`H` 1133): `Kept` says which are listed.
- Where two JSON files describe one instance below the top, their lists are
  concatenated: lookups take the first node of a name, the walk for the signature
  the last, and a `""` for a list in a later file replaces the lists before it,
  all against the recursive merge `_deep_merge` describes. A later file's root
  `InstanceName` replaces the earlier one.
- A synonym stub that has the name of a later sibling is found before it when the
  snapshot is read back.
- In j2 flavour, white space before a `{%` that begins its line counts as a piece
  of output: the next line emitted carries the directive's line number, and at the
  end of the file a blank line is emitted.
- The user guide (line 811) says a path of a list file that does not exist is kept
  as written; that holds for bare paths, and a directive's is dropped with a
  warning, as it says at line 1236.
- A `.cfg` value for an instantiated path outranks JSON, because
  `scoped_overrides_for` hands it over like a keyword, though the user guide calls
  `.cfg` the lowest source; `LadderHolds` leaves such parameters out. For the same
  reason the parameter footer calls a scoped override "parent instantiation".
- With `--no-module-cache`, between `unique_inst_param` without parameters and
  `ununique_inst`, and where a body calls `ununique_inst` for its own class with
  other parameters, two elaborations get one bare name and the later text replaces
  the earlier without an error, though the user guide (line 1249) says they
  "can't both keep the bare name": the registry has no entry without the cache, and
  none of a body under way (`U` 959). The programs explored keep these apart;
  a program with the third violates `FilesFaithful` within eight states.
- A block elaborated again by `ununique_inst` has a temporary name, so `clone_inst`
  in its body does not recognise the block's first elaboration as itself (`U` 873).
  `Acyclic` holds all the same: the texts then differ and the call is refused.
- Below a clone there is no path: whether `get_instance_obj` finds an instance
  depends on whether dedup replaced the one above it (`U` 1241).
- The second occurrence of a module above `--synth-top` is pruned with its
  subtree, so a module of the cone below it may be tagged synth only:
  `TagsExact` asks for single occurrences above.
- `parameter(..., force=True)` with a range on an unknown name raises `KeyError`.
- A clean removes directories before lists. Stopped in between, it leaves lists
  that name nothing and look up to date; `MakeSafe` exempts it.
  A list killed between being emptied and filled is new and torn: `MakeSafe` speaks of
  whole lists.
- A `.vlist.verif`, a module file or a product list that a later run no longer
  emits stays; `Converges` is about the files of the run.
- A list whose text does not change keeps its time stamp, so Make runs genesispy
  again as long as a source is newer.
- `_generated_modules` has the plain stem of an input, the class the sanitised
  one: an input `a-b.vpy` cannot be instantiated as `a-b` (no such class) or `a_b`
  (not found) in a full run, and can as `a_b` with `--gen-only`.
- `synonym_class(A, C)` returns `C` when `C` was made from a `B` that descends from
  `A`, though its docstring says a different source raises.
- `genesispy-jinja2j2` puts `{% set %}`, and a block in a block, at indent 0 inside
  a block of indent 0: a statement in a block ends it for Python, so the lines after
  it are unconditional, and a nested block makes `parse_vpy` raise or Python fail, without
  an issue. `PlainPorted` is about blocks that hold lines of output and comments.
- `a + b is defined` becomes `(a + (b) is not None)`, which compares the sum: a test
  with a bare comparison for its text needs parentheses of its own as an operand
  (`TestsApart`).
- A recursive `for` is left as a comment and not pushed, but its `endfor` pops, so
  that an `else` after it may be taken for that of an outer block (`lost`).
- `genesispy-vp2vpy` puts the helpers of a file first, each a `def` with no sentinel:
  the lines of output before the first statement are emitted inside it (`V` 2018).
  This and the next are other cases than `perl_moves`, kept out of it by `odd`.
- `my $i = 0; while (...) {` loses its first statement and its closer gets no
  sentinel; a one-line `sub` gets none either; a comment that ends in `)` is joined
  with a one-line block after it, and the block is gone.
- The comment at `V` 518 says each binary operation is put in parentheses; none is,
  so `!$a == $b`, `$a * $b . $c` or a ternary as an operand mean something else
  afterwards (`PrecedenceHolds`).
- Through XML an empty list comes back as `[""]` and an absent value as `""`.

## 6. Proofs

`JournaledCacheProofs` proves, for every set of keys and values and every
nesting depth:

- `TypeCorrect`: `Spec => []TypeOK`;
- `NestingCorrect`: `Spec => []JournalsNest`;
- `SnapshotsCorrect`: `Spec => ImplementsSnapshots`, refinement of the snapshot store.

The inductive invariant is `TypeOK /\ JournalsNest`. `JournalsNest` is needed for
the refinement: when block *i* rolls back, an outer block *h* must still stand for
its own copy, and `Undone(Undone(d, J_i), J_h) = Undone(d, J_h)` only if `J_h` has
every key `J_i` restores. Lemmas state what a write, a delete and a rollback do to
`Undone(d, j)`, and that each keeps dicts dicts and journals nested. The
assumptions are those of `JournaledCache`: the sentinel is not a value.

`ParameterProofs` proves, for any keywords, values, `--defaults` entries and bound
on the calls:

- `RangeHoldsAlways`: `Spec => []RangeHolds`;
- `ForcedStays`: `Spec => ForcedPinned`;
- `LadderHoldsAlways`: `Spec => []LadderHolds`;
- `ReportsTrueAlways`: `Spec => []ReportsTrue`.

`RangeHolds` is inductive only together with the shape of the store (every entry
has its fields, a forced one knows that it is) and with `NoChildYet`: making the
child replaces its table, which must be empty then. Every call a body or a `.cfg`
script makes is a `StoreStep`: it changes at most one entry of the table in use,
pins that entry if it was forced, and leaves it in its range or the pair in
`tainted`. One lemma says so of each call, and one that such a step keeps the
invariant.

For the other two the invariant is `SourceInv`. `Stage` says that what has been read so
far is exactly what the arguments and files before the current one say: no argument
and no entry is lost to a later one, since a second one of its name ends the run
(a `--defaults` entry is found by the last part of its path, at any depth and in any
file). `AllSourced` keeps with every value where it came from: a body's own force or
override, the values the child was made with, or a lookup, and in the last two cases
that what decided it was accounted for then. `Passed` says that the child has settled
all it was made with before its body runs, so no lookup there replaces it, and
`KeysForced` that a key counted as forced is so in an instance that reads its
entry. Once the reading is over the sources no longer change, so the value that was highest
when it was looked up still is when the account is settled. A highest rung is there because a lookup has at most
three candidates and the names it looks for are finitely many. The
assumptions are those of `Parameters`: markers are not values, `.cfg` priorities differ
from those of the other sources, arguments, files and module names are finite sequences.

`ElaborationProofs` proves, for any classes, programs, overrides, lengths of bodies
and depth of recursion:

- `ScopesCloseAlways`: `Spec => []ScopesClose`;
- `ParamsSealedAlways`: `Spec => ParamsSealed`.

For the first the steps are of three kinds, and one lemma is about each: within a
body, into one, out of one. The strengthening is that only the first frame is the
top's and that each frame remembers as active the module of the one below it;
then a frame that is entered adds to the scopes what it adds to the journals, and
one that is left, by a return or by an exception, takes both away. For the second
the strengthening is `SealInv`: only the innermost body has open parameters,
wherever the instance it forces is, the
bodies under execution are parents of one another (so that the parent a return
opens again is the body it returns to), and caches, journals, registry and
sub-instances lead to instances there are (so that a clone is made of one). What
is open matters only while a body runs: an exception that leaves the top body
leaves its parameters open. The
assumption used is `ClassAssumption`, for the depth limit.

Its last part prepares the others: `Next` has some thirty disjuncts, but to
the instances, the stack and the dedup keys each does one of nine things (`Moves`),
and the invariants below are carried along moves.

`HierarchyProofs` proves, under the same assumptions:

- `KeysHonestAlways`: `Spec => []KeysHonest`;
- `DedupSoundAlways`: `Spec => []DedupSound`;
- `AcyclicAlways`: `Spec => []Acyclic`;
- `NoTwinsAlways`: `Spec => []NoTwins`.

The invariant of the first two is `DedupInv`. A key is honest when it is stored
because a body reads its parameter once, when it begins, and only `force_param`
changes it since (`ReadOnce`); it stays honest because what it leads to is finished,
sealed and not among the bodies that run (`Working`). All of it has to be said of the
journals as well (`Ways`), for a rollback brings their bindings back. `Tree` relates
an instance to the one above it, and `Shares` a clone to its source: same class, same
overrides below. `DedupSound` follows by induction on the depth of an occurrence in
the unrolled hierarchy: equal signatures of two paths give equal signatures, and
equal values read, at each name below them.

`Acyclic` speaks of the instances that hang off the top, but is inductive for all
there ever were (`Loopless`). `clone_inst` compares module names, so one also needs
that a clone has the name of its source until that is finished (`NamedAlike`); that is
why a body under a temporary name does no harm.

`NoTwins` needs that what `unique_inst` kept is found under the key of its final
parameters (`Filed`), so that a second one would have been made a clone of it. A
rollback could take that key away and leave the instance, namely one of a scope
entered after the instance was made that noted the key: `Unmarked` says no such
scope has. `Rank` is the place of a frame's journal among the journals, `Kinds`
and `MadeSince` say which frames have one and what was made since they were entered.
That an instance which dropped off the top with a rollback never comes back
(`HangsBefore`) is what lets `Filed` be about instances in the hierarchy only.

`LoadingProofs` proves, for any templates, list files, command lines, search
directories and number of processes:

- `InputsListedAlways`: `Spec => []InputsListed`;
- `DependAlways`: `Spec => []DependComplete`;
- `PyKeptAlways`: `Spec => []PyKept`;
- `OrderFreeAlways`: `Spec => []OrderFree`;
- `ClassesStay`: `Spec => ClassesStable`.

For the last four the invariant is about a full process: a name is filed under its own
identifier, the owner of that identifier has the name, and the file was made from the
owner. So no template is written over the file of another, and what a class was
imported from stays. An owner need not have a file, since the stem is taken before the
template is parsed: a lookup that fails there keeps the invariant as well (`ClaimKept`).
With `--gen-only` none of this holds, `raw_dir` having no owners, and only `ClassesStay`
speaks of it.

For the inputs it is `Walk`. `Stack` and `Opened` say that the lists being read lead
from one to the next, each once, and that what is named by a line behind has been read
or is the list above. `Acyclic` says, without a walk of its own, that the lists which
have been read lead only to such lists, that the command line leads to each, and that
for each there is a set of lists closed under naming which it leads into and is not
in: a list is finished only if it was not met again inside itself. `Counted` and
`Ordered` match the inputs with the lines behind the walk. When the walk ends
these sets are those of the reference `Below`, which is defined level by level; that it
is the smallest closed set (`BelowIs`) is proved by counting: a level that is not
closed has more lists than the one before. The assumption is that of `CommandLine`:
there are finitely many lists, with finitely many lines, and a command line is not one.
`InputsListed` speaks of the processes before the first edit of a template, since a
directive's path is taken only if it is there.

`OutputProofs` proves, for any command lines, designs and numbers of runs and stops:

- `ConvergesAlways`: `Spec => []Converges`;
- `MakeSafeAlways`: `Spec => []MakeSafe`;
- `CleanCompleteAlways`: `Spec => []CleanComplete`.

A name determines the text that a run writes under it (`StepIs`), so no operation of
a run undoes an earlier one, and the invariant can say of a run under way that what it
has behind it is done (`Progress`), whatever was on disk when it began. A list is
written when the files it names are (`ListAfterFiles`); a later run truncates such a
file only if its text differs, and then the sources were edited since the list was
written, which Make sees (`MakeInv`). `Owned` says that the flags that wrote a file
cover it, so a sweep with them takes it away, and `Scripts` that a script which was
not cut short is the one for its flags. The assumptions are two. `DesignAssumption`: modules have
names of their own, as the engine gives them. `FlagsAssumption`: a command line asks for
files of different names, none of them like a template's or a module's; no `raw_dir` is
the `synth` or `verif` directory of any command line; and what Make rebuilds for one
is not, say, the log of another. The program checks none of this: with a product file
named like the log, one is written over the other.

`TagProofs` proves, for any number of instances and any `--synth-top`, and for every
tree of instances elaboration can leave that has no clone of a clone:

- `TagsExactAlways`: `~CloneOfClone => (Spec => []TagsExact)`;
- `BottomUpAlways`: `~CloneOfClone => (Spec => []BottomUp)`.

The hypothesis is needed: `_collect_prod_list` looks through `_clone_of` once
(`U` 1386), so below a clone of a clone it finds no children (section 5). A tree is
what `Grown` makes: a body ends after those it runs, and what it aliases is not under
way, so a module finishes after those it has instances of (`Before`), the hierarchy
is no deeper than there are instances, and what holds at its top and is inherited
going down holds of every occurrence (`OccurrenceInduction`). The invariant of the
walk (`Walk`) ties the stack, the list and the two sets of files together. A file that is
met again is on the list, not under way, because what is under way finishes later
(`SeenTold`); with that the list is bottom-up at every step, and the order made of it
inherits this (`Compiled`). For the tags, `Sided` says that what the walk has behind
it was seen on the side it is on, and that each entry of the list has an occurrence on
its side below which this holds. That closes both sides downwards except at
`--synth-top` itself, which may be entered from a module that was pruned on another
path; so `OnWay` says that the way to it is never pruned. The assumption is
`BoundAssumption`.

`TemplateProofs` proves, for templates of any length and depth, any way of closing
blocks and any lines of output:

- `InItsBlockAlways`: `Spec => []InItsBlock`;
- `LinesTrueAlways`: `Spec => []LinesTrue`.

Both follow from `TInv`, which says where the scanners and Python stand between two
items. In genesis flavour the emit indent is the depth of the author's blocks, and
Python has these blocks open, perhaps with others inside them that a comment has
closed for the author only, or waits for the body of the innermost (`PyIs`). In j2
flavour the emit indent follows a stack that a closing pops and nothing else does: a
block left by a comment or by the indent of the next statement stays on it, and an
opener is pushed only if it is deeper than the top. Where `KeywordsInside`
holds there is a level above which no block is closed by a keyword and below
which every one is (`Lowest`, `LowExists`). From that level to the author's depth the
stack has every block, and what has been left over from those above stays below them
(`StackIs`); so a closing finds its own opener. For `LinesTrue` the invariant counts
the lines of both forms of the template (`JShape`, `GOk`). Before a step can be
reasoned about, the scanners and Python's tokenizer, which are recursive functions over
lines and tokens, are unfolded: a statement has one or two lines, and a line of
output any number of tokens, over which `AllPieces` is an induction. The assumptions are
those of `Template`: a statement has one further line at most (`ContinuedAssumption`), and
a line of output is made of text, expressions and comments (`TextAssumption`).

**Model-checked only.** `Terminates` is liveness, which the prover does not do.
Recursive functions inside definitions (`Origin`, `Within`, `Unrolled`, the levels of
`Hierarchy` and `Below`) were reasoned about by induction over the natural numbers, by way of sets of
numbers and the well-foundedness of `<`; so were the scanners, which are recursive
functions of a position for that reason. Recursion over nested records is beyond that, so
what `ConfigTree` and the expressions of the converters compute stays with TLC. The
block bookkeeping of the converters (`PlainPorted`, `ElseTold`, `ReachesTodo`,
`BackInStep`) is not recursive; each of these would need an invariant that ties four
readers of a template together, of which `TInv` has two, and is only model-checked.

`KeysStable`, `FilesKept` and `FilesFaithful` hold of the programs the run
explores and not of all programs: a rollback that takes back a module which
an alias outside the scope stands for (`alias_lost`), and recursion in which an
enclosing instance binds the key again that one inside it was found under, break the
first; the two observations on bare names in section 5 the other two.
`SynonymServed` is about the same files and is not attempted.

## 7. Plan

Built so far: journals, elaboration, parameters, tags, module loading and outputs
with their theorems, templates with theirs, the command line, the configuration tree and
its XML form, the two converters. What is left, in order:

1. Theorems about the block bookkeeping of the converters, from `TInv` of
   `TemplateProofs` for the scanner behind them. `ConfigTree` and the expressions of
   the converters work on trees recursively and stay with TLC.
2. Searches of the hierarchy (`search_subinst`), as part of `Elaboration`.
3. Directives that do not begin in the first column, in `Template`.
4. Elaboration and the output writer composed, so that the files of a run are
   those its bodies wrote, not a design's.

Not modelled: the text of generated Verilog and Python, wording and formatting,
floating-point steps of ranges, symbolic links and permissions; of the converters
the Perl helper process, regular expressions, strings and most builtins (tables of
texts), and their command lines; `gvpy` (a single template, no hierarchy, the
scanners and parameters already modelled); `demos/` and `lib/`, which are examples
and data, with the Python helpers of theirs such as `demos/dsp/lib/qfmt.py`.

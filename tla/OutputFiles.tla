------------------------------ MODULE OutputFiles ------------------------------
(* What a sequence of runs of the program leaves on disk (output_writer.py,   *)
(* Manager.flush_outputs, Manager.clean).  A run has all its texts in memory  *)
(* when it begins to write, so it is a sequence of operations on the disk,    *)
(* fixed by the command line and by what the sources elaborate to; it may     *)
(* stop anywhere, killed or by an exception, and the next one finds what it   *)
(* left.  Directories are flat, and a path is <<directory, stem, extension>>. *)
EXTENDS Naturals, Sequences, SequencesExt

CONSTANTS
    Flags,     \* command lines by name: see FlagsAssumption
    Designs,   \* what the sources may elaborate to: see DesignAssumption
    None,      \* an optional file that is not asked for
    MaxRuns,   \* bound on the runs of one behaviour
    MaxStops   \* bound on the runs that do not get to their end

Flavors == {"all", "synth", "verif"}
TagSet  == {"synth", "verif", "synth_and_verif"}
Modes   == {"gen", "parse", "stdout", "clean", "script"}

VARIABLES
    disk,      \* existing path -> [text, whole, at, by]: the content, whether
               \* it is all there, the run that wrote it and its command line
    design,    \* what the sources elaborate to now
    edited,    \* the number of runs before the sources were last edited
    job,       \* the current or last run: its mode and command line
    todo,      \* the operations it still has to do
    run,       \* the number of runs so far
    stops,     \* the number of them that stopped early
    swept,     \* the command lines whose outputs were ever removed
    cut        \* whether a removal was ever left half-way

vars == <<disk, design, edited, job, todo, run, stops, swept, cut>>

--------------------------------------------------------------------------------
(* The operations. *)

Put(p, t)    == [op |-> "put", path |-> p, text |-> t]      \* unless it has that text
Create(p, t) == [op |-> "create", path |-> p, text |-> t]
RemoveOne(p) == [op |-> "remove", path |-> p]
RemoveDir(d) == [op |-> "rmtree", dir |-> d]

If(cond, seq)   == IF cond THEN seq ELSE <<>>
Map(F(_), seq)  == [i \in DOMAIN seq |-> F(seq[i])]
Each(F(_), seq) == FlattenSeq(Map(F, seq))
Asked(p, F(_))  == If(p # None, F(p))

--------------------------------------------------------------------------------
(* flush_to_disk and the lists. *)

Dest(f, m) == <<IF m.tag = "verif" THEN f.verif ELSE f.synth, m.name, ".v">>

Filtered(f, m) == \/ f.flavor = "synth" /\ m.tag = "verif"
                  \/ f.flavor = "verif" /\ m.tag = "synth"

\* written["ordered"]
Written(f, d) == Each(LAMBDA m : If(~Filtered(f, m), <<m>>), d.files)
InVerif(m) == m.tag # "synth"
InSynth(m) == m.tag # "verif"
PathsOf(f, ms) == Map(LAMBDA m : Dest(f, m), ms)

FlushToDisk(f, d) ==
    Each(LAMBDA m : If(f.genRaw, <<Put(<<f.raw, m.name, ".v">>, m.text)>>) \o
                    If(~Filtered(f, m), <<Put(Dest(f, m), m.text)>>), d.files)

Vlist(f)      == <<f.out, f.top, ".vlist">>
VerifVlist(f) == <<f.out, f.top, ".vlist.verif">>
Depend(f)     == IF f.depend # None THEN f.depend ELSE <<f.out, f.top, ".depend">>
\* The file Make is told to rebuild.
Target(f)     == IF f.product # None THEN f.product ELSE Vlist(f)

WriteFileLists(f, d) ==
    LET ms == Written(f, d)
        vs == SelectSeq(ms, InVerif)
    IN  If(f.product = None,
           <<Put(Vlist(f), PathsOf(f, ms))>> \o
           If(vs # <<>>, <<Put(VerifVlist(f), PathsOf(f, vs))>>)) \o
        <<Put(Depend(f), <<Target(f), d.sources>>)>>

SynthSide(p) == <<p[1], p[2], ".synth" \o p[3]>>
VerifSide(p) == <<p[1], p[2], ".verif" \o p[3]>>

WriteProductLists(f, d) ==
    LET ms == Written(f, d)
    IN  <<Put(f.product, PathsOf(f, ms))>> \o
        If(~f.single, <<Put(SynthSide(f.product), PathsOf(f, SelectSeq(ms, InSynth))),
                        Put(VerifSide(f.product), PathsOf(f, SelectSeq(ms, InVerif)))>>)

WritePathfile(f) == Asked(f.pathfile, LAMBDA p : <<Put(p, f.top)>>)

JsonTriple(p) == <<p, <<p[1], p[2] \o "-small", p[3]>>, <<p[1], p[2] \o "-tiny", p[3]>>>>
WriteJson(f, d) ==
    Asked(f.json, LAMBDA j : Map(LAMBDA p : Create(p, d.sources), JsonTriple(j)))

--------------------------------------------------------------------------------
(* Cleaning. *)

CleanDirs(f) == <<f.raw, f.synth, f.verif>>
Products(f) ==
    <<Vlist(f), VerifVlist(f), Depend(f)>> \o
    Asked(f.pathfile, LAMBDA p : <<p>>) \o
    Asked(f.product, LAMBDA p : <<p>> \o If(~f.single, <<SynthSide(p), VerifSide(p)>>))
\* A slip: of the JSON files only the full one is known.
CleanFilesFullJson(f) ==
    Products(f) \o Asked(f.json, LAMBDA p : <<p>>) \o <<f.log>>
CleanFiles(f) ==
    Products(f) \o Asked(f.json, JsonTriple) \o <<f.log>>

Script(f) == <<f.out, "genesispy_clean", ".sh">>

\* What --clean does, and what the script that a run leaves does.
CleanOutputs(f) == Map(RemoveDir, CleanDirs(f)) \o
                   Map(RemoveOne, CleanFiles(f) \o <<Script(f)>>)
WriteCleanScript(f) == <<Put(Script(f), CleanOutputs(f))>>

--------------------------------------------------------------------------------
(* A run. *)

WriteRaw(f, d) == Map(LAMBDA s : Create(<<f.raw, s, ".py">>, d.sources), d.templates)
Warnings(f, d) == If(d.warns, <<Create(f.log, f.top)>>)

\* A slip: the lists are written before the files they name.
FlushListsFirst(f, d) ==
    WriteFileLists(f, d) \o If(f.product # None, WriteProductLists(f, d)) \o
    FlushToDisk(f, d) \o WriteCleanScript(f) \o WritePathfile(f)
FlushOutputs(f, d) ==
    FlushToDisk(f, d) \o WriteFileLists(f, d) \o WriteCleanScript(f) \o
    If(f.product # None, WriteProductLists(f, d)) \o WritePathfile(f)

Program(mode, f, d) ==
    IF mode = "clean" THEN CleanOutputs(f)
    ELSE WriteRaw(f, d) \o
         If(mode # "parse",
            Warnings(f, d) \o
            (IF mode = "stdout" THEN <<RemoveDir(f.raw)>> ELSE FlushOutputs(f, d)) \o
            WriteJson(f, d))

--------------------------------------------------------------------------------
(* What the parameters are. *)

\* A command line asks for files of different names, none of which a template
\* or module might have, and keeps raw_dir for itself; two command lines may
\* share files, but what Make is to rebuild for one is no other kind of file
\* for another.
ASSUME FlagsAssumption ==
    /\ DOMAIN Flags # {}
    /\ \A g \in DOMAIN Flags :
          LET f == Flags[g]
          IN  /\ IsInjective(CleanFiles(f))
              /\ \A p \in ToSet(CleanFiles(f)) : p[3] \notin {".v", ".py", ".sh"}
              /\ \A h \in DOMAIN Flags :
                    /\ f.raw \notin {Flags[h].synth, Flags[h].verif}
                    /\ Target(f) \in ToSet(CleanFiles(Flags[h])) =>
                          Target(f) \in {Vlist(Flags[h]), Target(Flags[h])}
    /\ MaxRuns \in Nat /\ MaxStops \in Nat

\* Modules have names of their own.
ASSUME DesignAssumption ==
    \A d \in Designs :
        /\ d.files \in Seq(ToSet(d.files)) /\ d.templates \in Seq(ToSet(d.templates))
        /\ \A m, n \in ToSet(d.files) : m.name = n.name => m = n

--------------------------------------------------------------------------------
(* Behaviours. *)

Idle   == todo = <<>>
Exists == DOMAIN disk
Without(paths) == [p \in Exists \ paths |-> disk[p]]
Start(mode, g, ops) ==
    /\ Idle
    /\ run < MaxRuns
    /\ run' = run + 1
    /\ job' = [mode |-> mode, flags |-> g, done |-> FALSE]
    /\ todo' = ops
    /\ swept' = IF mode \in {"clean", "script"} THEN swept \cup {g} ELSE swept
    /\ UNCHANGED <<disk, design, edited, stops, cut>>

Execute(mode, g) == Start(mode, g, Program(mode, Flags[g], design))

\* The user runs the script that an earlier run left.
RunScript(p) ==
    /\ p[3] = ".sh"
    /\ disk[p].whole
    /\ Start("script", disk[p].by, disk[p].text)

\* The user edits the templates or the configuration, between runs.
Edit(d) ==
    /\ Idle
    /\ d # design
    /\ run < MaxRuns
    /\ design' = d
    /\ edited' = run
    /\ UNCHANGED <<disk, job, todo, run, stops, swept, cut>>

\* A slip: a file that exists is taken for written.
UpToDateIfThere(o) == o.op = "put" /\ o.path \in Exists

UpToDate(o) == /\ o.op = "put"
               /\ o.path \in Exists
               /\ disk[o.path].whole
               /\ disk[o.path].text = o.text

Rest(ops) ==
    /\ todo' = ops
    /\ job' = [job EXCEPT !.done = ops = <<>>]
    /\ UNCHANGED <<design, edited, run, stops, swept, cut>>

File(o, whole) == [text |-> o.text, whole |-> whole, at |-> run, by |-> job.flags]
Have(o, whole) == disk' = [p \in Exists \cup {o.path} |->
                             IF p = o.path THEN File(o, whole) ELSE disk[p]]

LeaveAlone ==
    LET o == Head(todo)
    IN  UpToDate(o) /\ UNCHANGED disk /\ Rest(Tail(todo))

\* open("w") empties the file, or makes an empty one ...
Truncate ==
    LET o == Head(todo)
    IN  /\ o.op \in {"put", "create"}
        /\ ~UpToDate(o)
        /\ Have(o, FALSE)
        /\ Rest(<<[o EXCEPT !.op = "fill"]>> \o Tail(todo))

\* ... and the text comes later.
Fill ==
    LET o == Head(todo)
    IN  o.op = "fill" /\ Have(o, TRUE) /\ Rest(Tail(todo))

RemoveFile ==
    LET o == Head(todo)
    IN  o.op = "remove" /\ disk' = Without({o.path}) /\ Rest(Tail(todo))

\* One file of a directory after the other, in any order.
RemoveTree ==
    LET o  == Head(todo)
        In == {p \in Exists : p[1] = o.dir}
    IN  /\ o.op = "rmtree"
        /\ \/ \E p \in In : disk' = Without({p}) /\ Rest(todo)
           \/ In = {} /\ UNCHANGED disk /\ Rest(Tail(todo))

\* The run is killed, or ends with an exception.
Stop ==
    /\ stops < MaxStops
    /\ todo' = <<>>
    /\ stops' = stops + 1
    /\ cut' = (cut \/ job.mode \in {"clean", "script"})
    /\ UNCHANGED <<disk, design, edited, job, run, swept>>

Step == ~Idle /\ (LeaveAlone \/ Truncate \/ Fill \/ RemoveFile \/ RemoveTree \/ Stop)

Init ==
    /\ disk = <<>>
    /\ design \in Designs
    /\ edited = 0
    /\ job = [mode |-> "gen", flags |-> CHOOSE g \in DOMAIN Flags : TRUE, done |-> FALSE]
    /\ todo = <<>>
    /\ run = 0
    /\ stops = 0
    /\ swept = {}
    /\ cut = FALSE

Next ==
    \/ \E mode \in Modes \ {"script"}, g \in DOMAIN Flags : Execute(mode, g)
    \/ \E p \in Exists : RunScript(p)
    \/ \E d \in Designs : Edit(d)
    \/ Step

Spec == Init /\ [][Next]_vars

--------------------------------------------------------------------------------
(* Properties *)

Rested == Idle /\ run > 0

Exts == {".v", ".py", ".vlist", ".vlist.verif", ".depend", ".sh", ".log", ".path",
         ".vf", ".synth.vf", ".verif.vf", ".json"}

\* Every file has a name of the kinds the user guide lists.
TypeOK ==
    /\ \A p \in Exists : p[3] \in Exts
    /\ \A p \in Exists : disk[p].at \in 1 .. run /\ disk[p].by \in DOMAIN Flags
    /\ design \in Designs
    /\ edited \in 0 .. run
    /\ stops \in 0 .. MaxStops
    /\ job.mode \in Modes

\* The docstring of flush_to_disk: "an entry whose on-disk content matches the
\* cached content is left untouched", any other is rewritten.  So a run that
\* got to its end has left every file it emits with the text it made, whole,
\* whatever earlier runs, stopped anywhere, left behind.
Converges ==
    LET ops == Program(job.mode, Flags[job.flags], design)
    IN  Rested /\ job.done /\ job.mode \in {"gen", "parse"} /\ edited < run =>
            \A i \in DOMAIN ops :
                /\ ops[i].path \in Exists
                /\ disk[ops[i].path].whole
                /\ disk[ops[i].path].text = ops[i].text

Sweeping == ~Idle /\ job.mode \in {"clean", "script"}
\* Files were taken away only with the command line of this list, to the end.
Unswept(l) == ~cut /\ ~Sweeping /\ swept \subseteq {disk[l].by}
Entries(l) == ToSet(disk[l].text)

\* Make takes the target of the .depend file for up to date when it is newer
\* than the sources.  If it is, and is whole, every file it names has the text
\* of these sources: a run that stopped early left the target old.
MakeSafe ==
    \A g \in DOMAIN Flags :
        LET l     == Target(Flags[g])
            fresh == l \in Exists /\ disk[l].whole /\ disk[l].at > edited
        IN  Idle /\ fresh /\ Unswept(l) =>
                \A m \in ToSet(design.files) :
                    LET p == Dest(Flags[disk[l].by], m)
                    IN  p \in Entries(l) =>
                            p \in Exists /\ disk[p].whole /\ disk[p].text = m.text

\* The user guide on --clean: "every product the same flags would have
\* written", and of the script: "removes the same set".  Nothing written by
\* runs with these flags is left, whatever the sources were then and wherever
\* those runs stopped.
CleanComplete ==
    Rested /\ job.done /\ job.mode \in {"clean", "script"} =>
        \A p \in Exists : disk[p].by # job.flags

=============================================================================

------------------------------ MODULE CommandLine ------------------------------
(* The inputs and search directories of a process (parse_args of cli.py and   *)
(* Manager.__init__): those given on the command line, then those of the      *)
(* --input-list files in order.  A list file may name others; one that names  *)
(* itself in the end is a usage error, one met again is passed over.          *)
(*                                                                            *)
(* A line of a list is [op, arg]: a bare path, or a directive with one path   *)
(* (several on a line are several lines).  An input kept as it was written    *)
(* is <<Relative, stem, extension>>; a directive's is made absolute.          *)
EXTENDS Naturals, SequencesExt

CONSTANTS
    SrcPath, IncPath,  \* --src-path and --inc-path; "." is the invocation's
    CommandLines, \* [inputs, lists]: --input and --input-list
    Lists,        \* list file -> its lines; told by its real path
    Relative

Argv == "argv"
ASSUME CommandLineAssumption ==
    /\ Argv \notin DOMAIN Lists
    /\ \A c \in CommandLines : c.inputs \in Seq(ToSet(c.inputs)) /\ c.lists \in Seq(ToSet(c.lists))
    /\ IsFiniteSet(DOMAIN Lists)
    /\ \A l \in DOMAIN Lists : Lists[l] \in Seq(ToSet(Lists[l]))

VARIABLES
    files,        \* existing template file -> its version
    command,      \* the member of CommandLines this process was started with
    reading,      \* the lists being read, outermost first: [list, next]; at
                  \* the bottom the command line itself
    processed,    \* the lists read to their end
    inputs,       \* input_files
    srcPath, incPath

arguments == <<command, reading, processed, inputs, srcPath, incPath>>

Exists == DOMAIN files

Lines(l) ==
    IF l = Argv
    THEN [i \in DOMAIN command.lists |-> [op |-> "--input-list", arg |-> command.lists[i]]]
    ELSE Lists[l]

Frame     == Last(reading)
More      == reading # <<>> /\ Frame.next <= Len(Lines(Frame.list))
Line      == Lines(Frame.list)[Frame.next]
Advanced  == [reading EXCEPT ![Len(reading)].next = @ + 1]
Ancestors == {reading[i].list : i \in DOMAIN reading}

\* _resolve_listfile_path: a directive is dropped when its path is not there.
There(line) ==
    CASE line.op = "--input"      -> line.arg \in Exists
      [] line.op = "--input-list" -> line.arg \in DOMAIN Lists
      [] OTHER                    -> TRUE

\* A slip: a list met again is read again.
NeverExpanded(l) == FALSE
Expanded(l) == l \in processed

Begin(c) ==
    /\ command' = c
    /\ reading' = <<[list |-> Argv, next |-> 1]>>
    /\ processed' = {}
    /\ inputs' = c.inputs
    /\ srcPath' = SrcPath
    /\ incPath' = IncPath

\* The next line, when it is not another list.
TakePath ==
    /\ More /\ There(Line)
    /\ Line.op \in {"bare", "--input", "--src-path", "--inc-path"}
    /\ inputs'  = IF Line.op \in {"bare", "--input"} THEN Append(inputs, Line.arg) ELSE inputs
    /\ srcPath' = IF Line.op = "--src-path" THEN Append(srcPath, Line.arg) ELSE srcPath
    /\ incPath' = IF Line.op = "--inc-path" THEN Append(incPath, Line.arg) ELSE incPath
    /\ reading' = Advanced
    /\ UNCHANGED <<command, processed>>

\* A path that is not there, or a list that has been read.
PassOver ==
    /\ More
    /\ \/ ~There(Line) /\ Frame.list # Argv
       \/ Line.op = "--input-list" /\ There(Line) /\ Line.arg \notin Ancestors /\ Expanded(Line.arg)
    /\ reading' = Advanced
    /\ UNCHANGED <<command, processed, inputs, srcPath, incPath>>

OpenList ==
    /\ More /\ Line.op = "--input-list" /\ There(Line)
    /\ Line.arg \notin Ancestors /\ ~Expanded(Line.arg)
    /\ reading' = Append(Advanced, [list |-> Line.arg, next |-> 1])
    /\ UNCHANGED <<command, processed, inputs, srcPath, incPath>>

EndOfList ==
    /\ reading # <<>> /\ ~More
    /\ reading' = Front(reading)
    /\ processed' = (processed \cup {Frame.list}) \ {Argv}
    /\ UNCHANGED <<command, inputs, srcPath, incPath>>

ReadArguments == TakePath \/ PassOver \/ OpenList \/ EndOfList

\* parser.error: a cycle, a list that cannot be read, an unbalanced quote.
UsageError ==
    /\ More
    /\ \/ Line.op = "--input-list" /\ Line.arg \in Ancestors
       \/ ~There(Line) /\ Frame.list = Argv
       \/ Line.op = "unbalanced"

NoArguments == [inputs |-> <<>>, lists |-> <<>>]
Idle ==
    /\ command' = NoArguments
    /\ reading' = <<>>
    /\ processed' = {}
    /\ inputs' = <<>>
    /\ srcPath' = <<>>
    /\ incPath' = <<>>

InitArguments ==
    /\ command = NoArguments
    /\ reading = <<>>
    /\ processed = {}
    /\ inputs = <<>>
    /\ srcPath = <<>>
    /\ incPath = <<>>

--------------------------------------------------------------------------------
(* What the lists say, without the walk. *)

Named(ls) == {line.arg : line \in {k \in UNION {ToSet(Lines(l)) : l \in ls} :
                                     k.op = "--input-list" /\ k.arg \in DOMAIN Lists}}
Below(ls) ==
    LET level[n \in 0 .. Cardinality(DOMAIN Lists)] ==
            IF n = 0 THEN Named(ls) ELSE level[n - 1] \cup Named(level[n - 1])
    IN  level[Cardinality(DOMAIN Lists)]

\* The inputs that are written in the lists ls: <<list, number of the line>>.
Taken(line) == line.op \in {"bare", "--input"} /\ There(line)
Spots(ls) == UNION {{<<l, i>> : i \in {k \in DOMAIN Lines(l) : Taken(Lines(l)[k])}} : l \in ls}
PathAt(spot) == Lines(spot[1])[spot[2]].arg

Times(p, seq) == Cardinality({i \in DOMAIN seq : seq[i] = p})

\* The inputs hold those of the command line, then each path of each list that
\* is named, directly or through others, as often as it is written and no
\* oftener, however many ways lead to the list; the paths of a list in their
\* order.  If a list leads to itself there is no such list of inputs.
ListsOnce(argued) ==
    LET lists == Below({Argv})
        spots == Spots(lists)
    IN  /\ \A l \in lists : l \notin Below({l})
        /\ IsPrefix(command.inputs, argued)
        /\ \A p \in ToSet(argued) \cup {PathAt(s) : s \in spots} :
              Times(p, argued) = Times(p, command.inputs) + Cardinality({s \in spots : PathAt(s) = p})
        /\ \A s, t \in spots : s[1] = t[1] /\ s[2] < t[2] =>
              \E m, n \in DOMAIN argued :
                  /\ Len(command.inputs) < m /\ m < n
                  /\ argued[m] = PathAt(s) /\ argued[n] = PathAt(t)
=============================================================================

-------------------------------- MODULE Scanners --------------------------------
(***************************************************************************)
(* The two scanners of src/genesispy/template/parser.py and what Python    *)
(* makes of their output.  _parse_vpy_genesis reads a template by lines,   *)
(* _parse_vpy_j2 by tokens; each line they put out carries the line of the *)
(* template that the line map of template/runtime.py names for it.         *)
(*                                                                         *)
(* Of a directive only what the scanners look at is kept: its indent in    *)
(* units of four spaces, the lines it spans, whether it is code, opens a   *)
(* block or closes one.                                                    *)
(***************************************************************************)
EXTENDS Integers, SequencesExt

\* What the scanners read: lines of the genesis flavour, tokens of j2.  "stray"
\* is a {% %} with something else on its line.
Line(what, indent, delta) == [what |-> what, indent |-> indent, delta |-> delta]
Token(what, indent, newlines) == [what |-> what, indent |-> indent, newlines |-> newlines]
LineEnd == Token("newline", 0, 1)

-----------------------------------------------------------------------------
(* What the scanners put out: lines of Python, each with the line of the   *)
(* template the # line directive before it names.                          *)

OutLine(indent, code, starts, opener, mark) ==
    [indent |-> indent, code |-> code, starts |-> starts, opener |-> opener, mark |-> mark]
NoCode(mark) == OutLine(0, FALSE, TRUE, FALSE, mark)

\* _parse_vpy_genesis, one line: a statement whose brackets stay open goes on,
\* and its first line sets the indent, its last line decides on the block.
Blank(s) == [s EXCEPT !.out = Append(@, NoCode(s.line + 1))]
Directive(s, l) ==
    LET inside   == s.brackets > 0
        stmt     == IF inside THEN s.stmt ELSE l.indent
        brackets == IF s.brackets + l.delta > 0 THEN s.brackets + l.delta ELSE 0
    IN  [s EXCEPT !.out = Append(@, OutLine(l.indent, l.what # "comment", ~inside,
                                            brackets = 0 /\ l.what = "opener", s.line + 1)),
                  !.stmt = stmt,
                  !.brackets = brackets,
                  !.emit = IF brackets > 0 THEN @
                           ELSE stmt + (IF l.what = "opener" THEN 1 ELSE 0)]
Emit(s) == [s EXCEPT !.out = Append(@, OutLine(s.emit, TRUE, TRUE, FALSE, s.line + 1))]
GenesisLine(s, l) ==
    LET t == CASE l.what = "blank" -> Blank(s)
               [] l.what = "text"  -> Emit(s)
               [] OTHER            -> Directive(s, l)
    IN  [t EXCEPT !.line = @ + 1]
GenesisLines(s, lines) ==
    LET after[n \in 0 .. Len(lines)] ==
            IF n = 0 THEN s ELSE GenesisLine(after[n - 1], lines[n])
    IN  after[Len(lines)]

\* _parse_vpy_j2, one token.  "first" is line_pieces_lineno, 0 for None; a
\* directive takes the end of its last line with it.
Piece(s) == [s EXCEPT !.first = IF @ = 0 THEN s.line ELSE @]
Flush(s) == [s EXCEPT !.out = Append(@, OutLine(s.emit, TRUE, TRUE, FALSE,
                                                IF s.first = 0 THEN s.line ELSE s.first)),
                      !.first = 0]
\* {% endfor %} and {% # endfor %}
CloseTop(s) ==
    IF s.stack = <<>> THEN [s EXCEPT !.raised = TRUE]
    ELSE [s EXCEPT !.out = Append(@, NoCode(s.line)), !.emit = Last(s.stack), !.stack = Front(@)]

\* A slip: every opener is pushed.
DeepensAlways(s, t) == t.what = "opener"
\* A block is entered where the directive deepens the stack; an else does not.
Deepens(s, t) == t.what = "opener" /\ (s.stack = <<>> \/ t.indent > Last(s.stack))

Code(s, t) ==
    [s EXCEPT !.out = @ \o [n \in 1 .. t.newlines |->
                        OutLine(t.indent, t.what # "comment", n = 1,
                                n = t.newlines /\ t.what = "opener", s.line)],
              !.emit = t.indent + (IF t.what = "opener" THEN 1 ELSE 0),
              !.stack = IF Deepens(s, t) THEN Append(@, t.indent) ELSE @]

\* A slip: every token is on one line.
NewlinesOne(t) == IF t.what \in {"chars", "expr", "note"} THEN 0 ELSE 1
\* The line ends a token contains.
Newlines(t) == t.newlines

J2Token(s, t) ==
    LET u == CASE t.what \in {"chars", "expr"} -> Piece(s)
               [] t.what = "note"    -> s
               [] t.what = "newline" -> Flush(s)
               [] t.what = "close"   -> CloseTop(s)
               [] t.what = "blank"   -> [s EXCEPT !.out = Append(@, NoCode(s.line))]
               [] t.what = "stray"   -> [s EXCEPT !.raised = TRUE]
               [] OTHER              -> Code(s, t)
    IN  IF s.raised THEN s ELSE [u EXCEPT !.line = @ + Newlines(t)]
J2Tokens(s, tokens) ==
    LET after[n \in 0 .. Len(tokens)] ==
            IF n = 0 THEN s ELSE J2Token(after[n - 1], tokens[n])
    IN  after[Len(tokens)]

\* The end of the file flushes what is pending.
AtEnd(s) == IF s.first = 0 THEN s ELSE Flush(s)

GenesisStart == [emit |-> 0, brackets |-> 0, stmt |-> 0, line |-> 0, out |-> <<>>]
J2Start == [emit |-> 0, stack |-> <<>>, first |-> 0, line |-> 1, raised |-> FALSE, out |-> <<>>]

-----------------------------------------------------------------------------
(* Python: blocks by indent, as its tokenizer makes them.                  *)

\* The blocks that a line of some indent is not to the left of.
Kept(blocks, indent) ==
    SubSeq(blocks, 1, Max({0} \cup {n \in DOMAIN blocks : blocks[n].indent <= indent}))
Level(blocks) == IF blocks = <<>> THEN 0 ELSE Last(blocks).indent

\* One line: a comment, a blank or the continuation of a statement opens and
\* closes nothing.  id is what a block opened here is called.
Read(p, l, id) ==
    LET kept == Kept(p.blocks, l.indent)
        q == IF ~l.code \/ ~l.starts THEN p
             ELSE IF p.due = 0
             THEN [p EXCEPT !.blocks = kept, !.failed = @ \/ Level(kept) # l.indent]
             ELSE [p EXCEPT !.blocks = Append(@, [indent |-> l.indent, id |-> p.due]),
                            !.due = 0, !.failed = @ \/ l.indent <= Level(p.blocks)]
    IN  IF l.code /\ l.opener THEN [q EXCEPT !.due = id] ELSE q

Reading(p, lines, id) ==
    LET after[n \in 0 .. Len(lines)] ==
            IF n = 0 THEN p ELSE Read(after[n - 1], lines[n], id)
    IN  after[Len(lines)]

NothingRead == [blocks |-> <<>>, due |-> 0, failed |-> FALSE]
\* The blocks Python is in, by what they were called.
Inside(p) == [n \in DOMAIN p.blocks |-> p.blocks[n].id]
=============================================================================

------------------------------- MODULE JinjaPort -------------------------------
(***************************************************************************)
(* genesispy-jinja2j2 (tools/jinja2j2.py) and what becomes of a template   *)
(* it ported.  An author has a template for stock Jinja2; convert rewrites *)
(* it span by span, parse_vpy(syntax="j2") reads what it puts out, and     *)
(* Python what the scanner makes of that.                                  *)
(*                                                                         *)
(* In strict mode, the default, the first span that cannot be ported ends  *)
(* the run; in best effort it leaves a comment and an issue.               *)
(***************************************************************************)
EXTENDS Scanners, JinjaExpr

CONSTANTS Exprs,        \* the expressions of {{ }}
          MaxItems, MaxDepth

VARIABLES
    strict,     \* --strict
    open,       \* the blocks the author is in: word, and number of the opening item
    plain,      \* no block so far holds a block, a statement or nothing at all
    item,       \* the item just written
    stack,      \* block_stack of convert
    issues,     \* how many there are
    stopped,    \* convert raised _Unmappable
    lost,       \* a loop was left as a comment
    scan, python

vars == <<strict, open, plain, item, stack, issues, stopped, lost, scan, python>>

Loops == {"for", "while"}

-----------------------------------------------------------------------------
(* _rewrite_stmt_span: the tokens it puts out, the issues it has and the   *)
(* stack it leaves.  Bodies are stripped: whatever the layout of the       *)
(* source, what is put out begins right after "{% ", at indent 0.          *)

Rewritten(what, stk) == [tokens |-> <<Token(what, 0, 1)>>, issues |-> 0, fatal |-> FALSE,
                         stack |-> stk]
Unmappable == [tokens |-> <<Token("note", 0, 0), LineEnd>>, issues |-> 1, fatal |-> TRUE,
               stack |-> stack]
\* An expression in it: with no equivalent it leaves an issue and a _TODO_ name,
\* and a filter that does nothing here an issue that --strict lets pass.
Holding(r, expr) == CASE expr = "fine"    -> r
                      [] expr = "dropped" -> [r EXCEPT !.issues = 1]
                      [] expr = "unknown" -> [r EXCEPT !.issues = 1, !.fatal = TRUE]

\* A slip: they pass through, and pop nothing.
CloserPasses == Rewritten("close", stack)
\* _CLOSERS "pass through; pop the corresponding opener".
Closer == Rewritten("close", IF stack = <<>> THEN stack ELSE Front(stack))

\* for, while and if: a recursive for stays behind.
Opener(word, head) ==
    IF head = "recursive" THEN Unmappable
    ELSE Holding(Rewritten("opener", Append(stack, word)), head)

\* A slip: an arm gains no colon.
MidBlockBare(word) ==
    IF word = "else" /\ stack # <<>> /\ Last(stack) \in Loops THEN Unmappable
    ELSE Rewritten("plain", stack)
\* else of a loop "runs only when the iterable was empty" in Jinja2.
MidBlock(word) ==
    IF word = "else" /\ stack # <<>> /\ Last(stack) \in Loops THEN Unmappable
    ELSE Rewritten("opener", stack)

\* set with a value, and include of a file.  set-blocks, the other forms of
\* include, and _UNMAPPABLE_KEYWORDS, openers and closers, stay behind.
Statement(body) == IF body = "rejected" THEN Unmappable ELSE Holding(Rewritten("plain", stack), body)

\* A block on one line.
OnOneLine(head) ==
    [Opener("if", head) EXCEPT !.tokens = <<Token("stray", 0, 0), LineEnd>>, !.stack = stack]

\* raw in best effort: the TODO, then all up to endraw as it is.
RawBlock == [Unmappable EXCEPT !.tokens = <<Token("note", 0, 0), Token("stray", 0, 0), LineEnd>>]

TextLine(tokens) == [tokens |-> tokens, issues |-> 0, fatal |-> FALSE, stack |-> stack]

-----------------------------------------------------------------------------
(* The author's items, each converted and read.                            *)

\* The expressions of a head, a statement or a line of output.
Heads == {"fine", "dropped", "unknown"}

Depth == Len(open)
NoExpr == Name("a")

Write(kind, r, expr) ==
    LET id   == item.id + 1
        stop == strict /\ r.fatal
        s    == J2Tokens([scan EXCEPT !.out = <<>>], r.tokens)
    IN  /\ ~stopped
        /\ id <= MaxItems
        /\ item' = [id |-> id, kind |-> kind, mapped |-> ~r.fatal, expr |-> expr,
                    of |-> IF open = <<>> THEN "" ELSE Last(open).word]
        /\ stopped' = stop
        /\ issues' = issues + r.issues
        /\ IF stop THEN UNCHANGED <<stack, scan, python>>
           ELSE /\ stack' = r.stack
                /\ scan' = s
                /\ python' = Reading(python, s.out, id)
        /\ UNCHANGED strict

Nonempty == open = <<>> \/ Last(open).filled
Fill(blocks) == IF blocks = <<>> THEN blocks
                ELSE Append(Front(blocks), [Last(blocks) EXCEPT !.filled = TRUE])
Block(word) == [word |-> word, id |-> item'.id, filled |-> FALSE]

OpenBlock(word, head) ==
    /\ Depth < MaxDepth
    /\ head = "recursive" => word = "for"
    /\ Write("code", Opener(word, head), NoExpr)
    /\ open' = Append(Fill(open), Block(word))
    /\ plain' = (plain /\ open = <<>>)
    /\ lost' = (lost \/ head = "recursive")

Arm(word, head) ==
    /\ Depth > 0
    /\ head # "fine" => word = "elif"
    /\ IF word = "elif" THEN Last(open).word = "if" ELSE Last(open).word \in Loops \cup {"if"}
    /\ Write(word, Holding(MidBlock(word), head), NoExpr)
    /\ open' = Append(Front(open), Block(IF word = "elif" THEN "if" ELSE "else"))
    /\ plain' = (plain /\ Nonempty)
    /\ UNCHANGED lost

CloseBlock ==
    /\ Depth > 0
    /\ Write("code", IF Last(open).word = "macro" THEN Statement("rejected") ELSE Closer, NoExpr)
    /\ open' = Front(open)
    /\ plain' = (plain /\ Nonempty)
    /\ UNCHANGED lost

\* macro, call, block, with, filter, a set-block.
OpenOther ==
    /\ Depth < MaxDepth
    /\ Write("code", Statement("rejected"), NoExpr)
    /\ open' = Append(Fill(open), Block("macro"))
    /\ plain' = FALSE
    /\ UNCHANGED lost

SetOrInclude(body) ==
    /\ Write("code", Statement(body), NoExpr)
    /\ plain' = (plain /\ open = <<>>)
    /\ open' = Fill(open)
    /\ UNCHANGED lost

Inline(head) ==
    /\ Write("code", OnOneLine(head), NoExpr)
    /\ plain' = FALSE
    /\ open' = Fill(open)
    /\ UNCHANGED lost

Raw ==
    /\ Write("code", RawBlock, NoExpr)
    /\ plain' = FALSE
    /\ open' = Fill(open)
    /\ UNCHANGED lost

\* A comment of one or two lines, alone on them: a line of output, too.
Note(newlines) ==
    /\ Write("note", TextLine(<<Token("note", 0, newlines), LineEnd>>), NoExpr)
    /\ open' = Fill(open)
    /\ UNCHANGED <<plain, lost>>

\* A line of output with an expression.
Output(expr, body) ==
    /\ Write("text", Holding(TextLine(<<Token("expr", 0, 0), LineEnd>>), body), expr)
    /\ open' = Fill(open)
    /\ UNCHANGED <<plain, lost>>

Init ==
    /\ strict \in BOOLEAN
    /\ open = <<>> /\ plain = TRUE
    /\ item = [id |-> 0, kind |-> "none", mapped |-> TRUE, expr |-> NoExpr, of |-> ""]
    /\ stack = <<>> /\ issues = 0 /\ stopped = FALSE /\ lost = FALSE
    /\ scan = J2Start
    /\ python = NothingRead

Next ==
    \/ \E w \in Loops \cup {"if"}, h \in Heads \cup {"recursive"} : OpenBlock(w, h)
    \/ \E w \in {"elif", "else"}, h \in Heads : Arm(w, h)
    \/ CloseBlock
    \/ OpenOther
    \/ \E b \in Heads \cup {"rejected"} : SetOrInclude(b)
    \/ \E h \in Heads : Inline(h)
    \/ Raw
    \/ \E n \in 0 .. 1 : Note(n)
    \/ \E b \in Heads : Output(NoExpr, b)
    \/ item.id = 0 /\ \E e \in Exprs : Output(e, "fine")

Spec == Init /\ [][Next]_vars

-----------------------------------------------------------------------------
(* Properties *)

AuthorsBlocks == [n \in DOMAIN open |-> open[n].id]

\* What the j2 flavour makes of the template so far is what Jinja2 would:
\* the scanner and Python take it, and a line of output is in its blocks.
Elaborates ==
    /\ ~scan.raised /\ ~python.failed
    /\ open = <<>> => python.due = 0
    /\ item.kind = "text" => Inside(python) = AuthorsBlocks

\* A template whose blocks hold lines of output and comments only, some in
\* every arm, keeps every line of output in the arm it was written for when it
\* is ported without an issue, or --strict lets it through.
PlainPorted == plain /\ (issues = 0 \/ (strict /\ ~stopped)) => Elaborates

\* An else is Python's if and only if it was not a loop's: closers keep the
\* stack true, through arms, rejected blocks and issues, as long as no loop
\* was left as a comment.
ElseTold == item.kind = "else" /\ ~lost => (item.mapped <=> item.of = "if")

\* The Python text of an expression is read as the tree the author wrote,
\* unless a test that becomes a bare comparison stands in it as the operand
\* of something that binds tighter or compares.
ReadsAsWritten == TestsApart(item.expr) => Faithful(item.expr)
=============================================================================

-------------------------------- MODULE PerlPort --------------------------------
(***************************************************************************)
(* genesispy-vp2vpy (tools/vp2vpy.py) and what becomes of a template it    *)
(* ported.  An author has a Genesis2 template; FileTranslator rewrites it  *)
(* line by line with a stack of the blocks it saw opened, _parse_vpy_-     *)
(* genesis reads the lines it puts out, and Python what the scanner makes  *)
(* of those.                                                               *)
(*                                                                         *)
(* A construct without an equivalent is left as a TODO, which --strict     *)
(* turns into the end of the run.                                          *)
(***************************************************************************)
EXTENDS Scanners, PerlExpr

CONSTANTS Exprs,        \* the expressions between backticks
          MaxItems, MaxDepth

VARIABLES
    strict,     \* --strict
    helpers,    \* "due" or "met": a line of the template, to come or seen, needs a
                \* helper, which is put out first; or "none"
    open,       \* the blocks the author is in: kind, and number of the opening item
    item,       \* the item just written
    held,       \* it is a comment that ends with ")"
    stack,      \* FileTranslator.stack: kind and src_line
    todos,      \* there are some
    stopped,    \* _handle_unmappable raised
    odd,        \* what there is of the constructs that ReachesTodo leaves out:
                \* "none", "postfix" conditionals only, or "other" ones
    moved,      \* a line of output was read in other blocks than its own, or one dropped
    scan, python

vars == <<strict, helpers, open, item, held, stack, todos, stopped, odd, moved, scan, python>>

\* foreach, while and until are as for; unless is as if.
Kinds == {"for", "if", "sub"}

-----------------------------------------------------------------------------
(* What one record of the template becomes: lines, and the stack after it. *)

At(depth, whats) == [n \in DOMAIN whats |->
    Line(whats[n], depth + (IF n > 1 /\ whats[n] = "plain" THEN 1 ELSE 0), 0)]
\* A slip: the lines are put out as they were rendered.
PutFlat(whats) == [lines |-> At(0, whats), stack |-> stack, todo |-> FALSE, drops |-> FALSE]
Put(whats)    == [lines |-> At(Len(stack), whats), stack |-> stack, todo |-> FALSE, drops |-> FALSE]
\* _handle_unmappable: the reason and the Perl line, at the depth of the stack.
Todo(blocks)  == [lines |-> At(Len(blocks), <<"comment", "comment">>), stack |-> blocks,
                  todo |-> TRUE, drops |-> FALSE]
Dropped       == [Put(<<>>) EXCEPT !.drops = TRUE]

Push(r, kind, id) == [r EXCEPT !.stack = Append(@, [kind |-> kind, id |-> id])]

\* A compound or a sub on one line; only the first gets a sentinel.
WholeCompound   == Put(<<"opener", "plain", "comment">>)
WholeSub        == Put(<<"opener", "plain">>)
OnOneLine(kind) == IF kind = "sub" THEN WholeSub ELSE WholeCompound

\* _is_postfix_continuation: joined to the comment before it, all is comment.
Joined(kind) == held /\ kind # "sub"

\* A line ending in "{" is an opener: its head with an empty body is parsed,
\* and _translate_opener takes the first compound of what PPI finds.  "led" by
\* a statement, the statement goes, the kind is unknown, and it is not joined;
\* after a label, or joined, there is no compound to take; with a comment after
\* the brace it is no opener but a whole block.
OpenerLine(kind, style, id) ==
    CASE style = "commented" -> IF Joined(kind) THEN Dropped ELSE OnOneLine(kind)
      [] style = "labelled" \/ (style = "plain" /\ Joined(kind)) -> Todo(stack)
      [] style = "led"       -> Push([Put(<<"opener">>) EXCEPT !.drops = TRUE], "unknown", id)
      [] OTHER               -> Push(Put(<<"opener">>), kind, id)

\* A slip: the sentinel keeps the indent of the body.
CloserInner ==
    IF stack = <<>> THEN Todo(stack)
    ELSE [lines |-> IF Last(stack).kind = "unknown" THEN <<>> ELSE At(Len(stack), <<"comment">>),
          stack |-> Front(stack), todo |-> FALSE, drops |-> FALSE]
\* "}" alone, or with a comment.  _sentinel_for has none for unknown.
Closer ==
    IF stack = <<>> THEN Todo(stack)
    ELSE [lines |-> IF Last(stack).kind = "unknown" THEN <<>> ELSE At(Len(stack) - 1, <<"comment">>),
          stack |-> Front(stack), todo |-> FALSE, drops |-> FALSE]

\* "} else {" and "} elsif (...) {": the arm before is popped, then the line
\* has to match.  With the brace on a line of its own, a closer and a head
\* PPI finds no compound in.
Chain(style, id) ==
    CASE style = "split" -> [Todo(Closer.stack) EXCEPT !.lines = Closer.lines \o @]
      [] stack = <<>>    -> Todo(stack)
      [] style = "commented" -> Todo(Front(stack))
      [] OTHER -> [lines |-> At(Len(stack) - 1, <<"opener">>),
                   stack |-> Append(Front(stack), [kind |-> "if", id |-> id]),
                   todo |-> FALSE, drops |-> FALSE]

-----------------------------------------------------------------------------
(* The author's items, each translated and read.                           *)

Depth == Len(open)
AuthorsBlocks == [n \in DOMAIN open |-> open[n].id]
Id == item.id + 1

Write(kind, r, blocks, expr) ==
    LET s == GenesisLines([scan EXCEPT !.out = <<>>], r.lines)
        p == Reading(python, s.out, Id)
    IN  /\ ~stopped /\ ~python.failed
        /\ Id <= MaxItems
        /\ open' = blocks
        /\ item' = [id |-> Id, kind |-> kind, expr |-> expr]
        /\ stopped' = (strict /\ r.todo)
        /\ todos' = (todos \/ r.todo)
        /\ IF stopped' THEN UNCHANGED <<stack, moved, scan, python>>
           ELSE /\ stack' = r.stack
                /\ scan' = s
                /\ python' = p
                /\ moved' = (moved \/ r.drops \/ (kind = "text" /\ Inside(p) # AuthorsBlocks))
        /\ UNCHANGED strict

NoExpr == Name("a")
Record(r, blocks) == Write("code", r, blocks, NoExpr) /\ held' = FALSE
Told == UNCHANGED <<odd, helpers>>
Odd(kind) == odd' = (IF odd \in {"none", kind} THEN kind ELSE "other") /\ UNCHANGED helpers

OpenBlock(kind, style) ==
    /\ Depth < MaxDepth
    /\ Record(OpenerLine(kind, style, Id), Append(open, [kind |-> kind, id |-> Id]))
    /\ IF style = "led" \/ (style = "commented" /\ (kind = "sub" \/ held)) THEN Odd("other") ELSE Told

Arm(kind, style) ==
    /\ Depth > 0 /\ Last(open).kind = "if"
    /\ Record(Chain(style, Id), Append(Front(open), [kind |-> kind, id |-> Id]))
    /\ Told

\* "};" is a statement PPI cannot place the brace of.
CloseBlock(style) ==
    /\ Depth > 0
    /\ Record(IF style = "semicolon" THEN Todo(stack) ELSE Closer, Front(open))
    /\ Told

\* helped: rendered with a call of a helper.
Statement(mapped, helped) ==
    /\ helped => mapped /\ helpers # "none"
    /\ Write(IF mapped THEN "statement" ELSE "code",
             IF mapped THEN Put(<<"plain">>) ELSE Todo(stack), open, NoExpr)
    /\ held' = FALSE
    /\ helpers' = IF helped THEN "met" ELSE helpers
    /\ UNCHANGED odd

OneLine(kind) ==
    /\ Record(IF Joined(kind) THEN Dropped ELSE OnOneLine(kind), open)
    /\ IF Joined(kind) \/ kind = "sub" THEN Odd("other") ELSE Told

\* STMT if COND;
Postfix ==
    /\ Record(Put(<<"opener", "plain">>), open)
    /\ Odd("postfix")

\* PPI finds no statement in a comment: nothing is put out.
Note(paren) ==
    /\ Write("note", Put(<<>>), open, NoExpr)
    /\ held' = paren
    /\ Told

Empty == Record(Put(<<"blank">>), open) /\ Told

\* A line of Verilog; an expression in it may have no equivalent.
Output(expr, mapped) ==
    LET line == Put(<<"text">>)
    IN  /\ Write("text", IF mapped THEN line ELSE [Todo(stack) EXCEPT !.lines = @ \o line.lines],
                 open, expr)
        /\ held' = FALSE
        /\ Told

\* The prelude: a def for each helper, before all other lines.
Prelude == GenesisLines(GenesisStart, IF helpers = "due" THEN At(0, <<"opener", "plain">>) ELSE <<>>)

Init ==
    /\ strict \in BOOLEAN /\ helpers \in {"none", "due"}
    /\ open = <<>> /\ held = FALSE
    /\ item = [id |-> 0, kind |-> "none", expr |-> NoExpr]
    /\ stack = <<>> /\ todos = FALSE /\ stopped = FALSE
    /\ odd = (IF helpers = "none" THEN "none" ELSE "other") /\ moved = FALSE
    /\ scan = Prelude
    /\ python = Reading(NothingRead, scan.out, -1)

Next ==
    \/ \E k \in Kinds, s \in {"plain", "commented", "labelled", "led"} : OpenBlock(k, s)
    \/ \E k \in {"if", "else"}, s \in {"plain", "commented", "split"} : Arm(k, s)
    \/ \E s \in {"plain", "semicolon"} : CloseBlock(s)
    \/ \E m, h \in BOOLEAN : Statement(m, h)
    \/ \E k \in Kinds : OneLine(k)
    \/ Postfix
    \/ \E p \in BOOLEAN : Note(p)
    \/ Empty
    \/ \E m \in BOOLEAN : Output(NoExpr, m)
    \/ item.id = 0 /\ \E e \in Exprs : Output(e, TRUE)

Spec == Init /\ [][Next]_vars

-----------------------------------------------------------------------------
(* Properties *)

\* The whole template is there, and Python has taken it.
Done == open = <<>> /\ helpers # "due" /\ python.due = 0 /\ ~python.failed

\* A template with blocks opened, chained and closed in any of the styles
\* above, one-line blocks and constructs without an equivalent in between: if
\* not one TODO was left, every line of output is in its own blocks and none
\* is gone.  Helpers, postfix conditionals, one-line subs, a statement before
\* an opener and a block joined to a comment are not of those.
ReachesTodo == odd = "none" /\ Done /\ ~todos => ~moved

\* Whatever came before, a postfix conditional or a misplaced line: while the
\* stack holds the author's blocks, the next statement is read in them.
BackInStep ==
    item.kind = "statement" /\ [n \in DOMAIN stack |-> stack[n].id] = AuthorsBlocks =>
        stopped \/ python.failed \/ Inside(python) = AuthorsBlocks

\* An expression is read as the tree the author wrote, where Python's
\* precedences group it as Perl's did without parentheses.
OperatorsKept == PrecedenceHolds(item.expr) => Faithful(item.expr)

\* doc/user-guide.md: "The translator covers ... (with `# endX` sentinel
\* injection), postfix conditionals", and what it does not recognise "reaches
\* that TODO path".  So a postfix conditional that leaves no TODO moves nothing.
PostfixCovered == odd \in {"none", "postfix"} /\ Done /\ ~todos => ~moved
=============================================================================

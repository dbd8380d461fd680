-------------------------------- MODULE Template --------------------------------
(***************************************************************************)
(* An author writes a template item by item: blocks, statements, comments  *)
(* and lines of output, each in both flavours of template/parser.py.  Both *)
(* Scanners take each item and Python what they make of it.                *)
(***************************************************************************)
EXTENDS Scanners

CONSTANTS
    Styles,         \* how authors close blocks: Closings for each level of nesting
    Continued,      \* the indents of the further lines of a statement
    Texts,          \* lines of output, as sequences of j2 tokens
    MaxItems, MaxDepth

\* "keyword" and "sentinel" are {% endfor %} and {% # endfor %}, which both are
\* //; # endfor in the other flavour; "comment" is any other comment, as
\* # endwith; "dedent" closes by the lower indent of the next statement.
Closings == {"keyword", "sentinel", "comment", "dedent"}
Keywords == {"keyword", "sentinel"}
ASSUME BoundAssumption == MaxItems \in Nat /\ MaxDepth \in Nat
ASSUME StyleAssumption == Styles \subseteq [1 .. MaxDepth -> SUBSET Closings]
\* A statement has one further line at most.
ASSUME ContinuedAssumption == \A further \in Continued : further \in Seq(Nat) /\ Len(further) <= 1
ASSUME TextAssumption ==
    Texts \subseteq Seq([what : {"chars", "expr", "note"}, indent : Nat, newlines : Nat])

Flavours == {"genesis", "j2"}

VARIABLES
    style,      \* how this author closes blocks
    open,       \* the blocks the author is in, by number of the opening item
    bodiless,   \* nothing stands in the innermost block yet
    item,       \* the item just written: number, kind, its first and last line
    scan,       \* flavour -> the variables of the scanner
    python      \* flavour -> the blocks Python is in, and whether one is due

vars == <<style, open, bodiless, item, scan, python>>

-----------------------------------------------------------------------------
(* The author writes an item, both scanners take it, and Python what they  *)
(* make of it.                                                             *)

Depth == Len(open)
Ends(tokens) ==
    LET ends[n \in 0 .. Len(tokens)] ==
            IF n = 0 THEN 0 ELSE ends[n - 1] + tokens[n].newlines
    IN  ends[Len(tokens)]

Write(kind, lines, tokens, end) ==
    LET id == item.id + 1
        clean(f) == [scan[f] EXCEPT !.out = <<>>]
        j2 == J2Tokens(clean("j2"), tokens)
        after == [f \in Flavours |-> IF f = "genesis" THEN GenesisLines(clean(f), lines)
                                     ELSE IF end THEN AtEnd(j2) ELSE j2]
    IN  /\ item.kind # "end"
        /\ id <= MaxItems
        /\ scan' = after
        /\ python' = [f \in Flavours |-> Reading(python[f], after[f].out, id)]
        /\ item' = [id |-> id, kind |-> kind,
                    first |-> [f \in Flavours |-> item.last[f] + 1],
                    last  |-> [f \in Flavours |-> item.last[f] +
                                  IF f = "genesis" THEN Len(lines)
                                  ELSE Ends(tokens) + IF end /\ tokens # <<>> THEN 1 ELSE 0]]
        /\ UNCHANGED style

\* A statement of one or two lines in block k, from which the deeper blocks
\* are closed by its indent.
StatementIn(k, what, further) ==
    /\ IF k = Depth THEN TRUE ELSE ~bodiless /\ \A d \in k + 1 .. Depth : "dedent" \in style[d]
    /\ Write("code",
             IF further = <<>> THEN <<Line(what, k, 0)>>
             ELSE <<Line("plain", k, 1), Line(what, further[1], 0 - 1)>>,
             <<Token(what, k, 1 + Len(further))>>, FALSE)

OpenBlock(k, further) ==
    /\ k < MaxDepth
    /\ StatementIn(k, "opener", further)
    /\ open' = Append(SubSeq(open, 1, k), item'.id)
    /\ bodiless' = TRUE

Simple(k, further) ==
    /\ StatementIn(k, "plain", further)
    /\ open' = SubSeq(open, 1, k)
    /\ bodiless' = FALSE

\* else:, elif, except: the next arm of the block the author is in.
MidBlock ==
    /\ Depth > 0 /\ ~bodiless
    /\ Write("code", <<Line("opener", Depth - 1, 0)>>, <<Token("opener", Depth - 1, 1)>>, FALSE)
    /\ open' = Append(Front(open), item'.id)
    /\ bodiless' = TRUE

CloseBlock(closing) ==
    /\ Depth > 0 /\ ~bodiless
    /\ closing \in style[Depth] \ {"dedent"}
    /\ Write("code", <<Line("comment", Depth - 1, 0)>>,
             <<Token(IF closing = "comment" THEN "comment" ELSE "close", Depth - 1, 1)>>, FALSE)
    /\ open' = Front(open)
    /\ UNCHANGED bodiless

NoteToSelf ==
    /\ Write("code", <<Line("comment", Depth, 0)>>, <<Token("comment", Depth, 1)>>, FALSE)
    /\ UNCHANGED <<open, bodiless>>

BlankDirective ==
    /\ Write("code", <<Line("blank", 0, 0)>>, <<Token("blank", 0, 1)>>, FALSE)
    /\ UNCHANGED <<open, bodiless>>

Output(tokens) ==
    /\ Write("text", <<Line("text", 0, 0)>>, Append(tokens, LineEnd), FALSE)
    /\ bodiless' = FALSE
    /\ UNCHANGED open

\* The file ends, perhaps with a line that has no end.
EndOfFile(tokens) ==
    /\ ~bodiless
    /\ Write("end", IF tokens = <<>> THEN <<>> ELSE <<Line("text", 0, 0)>>, tokens, TRUE)
    /\ UNCHANGED <<open, bodiless>>

Init ==
    /\ style \in Styles
    /\ open = <<>>
    /\ bodiless = FALSE
    /\ item = [id |-> 0, kind |-> "none", first |-> [f \in Flavours |-> 0], last |-> [f \in Flavours |-> 0]]
    /\ scan = [f \in Flavours |->
                  IF f = "genesis" THEN GenesisStart ELSE J2Start]
    /\ python = [f \in Flavours |-> NothingRead]

Next ==
    \/ \E k \in 0 .. Depth, further \in Continued : OpenBlock(k, further)
    \/ \E k \in 0 .. Depth, further \in Continued : Simple(k, further)
    \/ MidBlock
    \/ \E c \in Closings : CloseBlock(c)
    \/ NoteToSelf
    \/ BlankDirective
    \/ \E ts \in Texts : Output(ts)
    \/ \E ts \in Texts : EndOfFile(ts)

Spec == Init /\ [][Next]_vars

-----------------------------------------------------------------------------
(* Properties *)

InBlocks(f) == Inside(python[f])

\* Nothing in a block that has a closing keyword is closed without one.
KeywordsInside ==
    \A d \in 1 .. MaxDepth : style[d] \cap Keywords # {} =>
        \A e \in d + 1 .. MaxDepth : style[e] \subseteq Keywords

\* A line of output is emitted in the blocks the author wrote it in, whatever
\* statements, arms and comments stand before it, and what is around it is
\* Python; j2 also takes every closing for the one of its opener.
InItsBlock ==
    /\ ~python["genesis"].failed
    /\ item.kind = "text" => InBlocks("genesis") = open
    /\ KeywordsInside =>
          /\ ~scan["j2"].raised /\ ~python["j2"].failed
          /\ item.kind = "text" => InBlocks("j2") = open

\* A traceback from any line of Python leads into the item that line was made
\* of; "tracebacks land on the opener line": to its first line, for j2.
LinesTrue ==
    \A f \in Flavours : \A n \in DOMAIN scan[f].out :
        LET mark == scan[f].out[n].mark IN
        /\ mark \in item.first[f] .. item.last[f]
        /\ item.kind = "code" =>
              mark = item.first[f] + IF f = "genesis" THEN n - 1 ELSE 0
=============================================================================

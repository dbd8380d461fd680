------------------------------- MODULE PythonExpr -------------------------------
(***************************************************************************)
(* How Python reads the text of an expression, for the two conversion      *)
(* tools of src/genesispy/tools that write such texts.                     *)
(*                                                                         *)
(* A text is a sequence of words: names and operators, parentheses and     *)
(* calls with the text inside them kept as it is, and trailers (.attr,     *)
(* .join(...), [...]), which belong to the operand before them.            *)
(***************************************************************************)
EXTENDS Integers, FiniteSetsExt, SequencesExt

\* Trees: an operator with its operands, or a name.
Tree(op, args) == [op |-> op, args |-> args]
Name(x)        == Tree(x, <<>>)
NotPython      == Name("SyntaxError")

Word(x)           == <<[what |-> x, inner |-> <<>>]>>
Enclosed(x, text) == <<[what |-> x, inner |-> text]>>
Paren(text)       == Enclosed("()", text)

\* Loosest first.  Comparisons form a chain; the other infix operators
\* group to the left.
Compares == {"is not", "==", "!=", "<"}
PrefixOps == {"not", "-"}
Levels   == <<{","}, {"if", "else"}, {"or"}, {"and"}, {"not"}, Compares, {"|"}, {"^"}, {"&"},
              {"+"}, {"*", "%"}, {"-"}>>
Trailers == {".attr", ".upper", ".join", "[]"}
Operators == UNION Range(Levels)

Where(text, ops) == {n \in DOMAIN text : text[n].what \in ops}

\* The tree of a text without operators looser than those of this level.
RECURSIVE Parse(_, _)
Parse(text, level) ==
    LET ops     == IF level > Len(Levels) THEN {} ELSE Levels[level]
        at      == Where(text, ops)
        Part(m, n) == Parse(SubSeq(text, m, n), level + 1)
        word    == Last(text)
        inside  == IF word.inner = <<>> THEN <<>> ELSE <<Parse(word.inner, 1)>>
    IN  CASE text = <<>> -> NotPython
          [] text # <<>> /\ level > Len(Levels) ->
                IF word.what \in Operators \/ (Len(text) > 1) # (word.what \in Trailers) THEN NotPython
                ELSE IF Len(text) > 1 THEN Tree(word.what, <<Parse(Front(text), level)>> \o inside)
                ELSE IF word.what = "()" THEN Head(inside) ELSE Tree(word.what, inside)
          [] text # <<>> /\ level <= Len(Levels) /\ at = {} -> Parse(text, level + 1)
          [] at # {} /\ ops = {"if", "else"} ->
                LET i == Min(at)
                    j == Min(at \ {i})
                IN  Tree("if", <<Part(1, i - 1), Part(i + 1, j - 1), Part(j + 1, Len(text))>>)
          [] at # {} /\ ops \subseteq PrefixOps ->
                IF 1 \in at THEN Tree(text[1].what, <<Parse(Tail(text), level)>>) ELSE NotPython
          [] at # {} /\ ops = Compares ->
                LET until(i) == Min({n \in at : n > i} \cup {Len(text) + 1})
                    link(i)  == Tree(text[i].what, <<Part(i + 1, until(i) - 1)>>)
                IN  Tree("compare", <<Part(1, Min(at) - 1)>> \o
                            [n \in 1 .. Cardinality(at) |-> link(SetToSortSeq(at, <)[n])])
          [] at # {} /\ ops \notin {{"if", "else"}, Compares} /\ ~(ops \subseteq PrefixOps) ->
                LET i == Max(at)
                IN  Tree(text[i].what, <<Parse(SubSeq(text, 1, i - 1), level), Part(i + 1, Len(text))>>)

Compare(l, op, r) == Tree("compare", <<l, Tree(op, <<r>>)>>)
=============================================================================

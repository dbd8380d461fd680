-------------------------------- MODULE PerlExpr --------------------------------
(***************************************************************************)
(* The expressions of tools/vp2vpy.py.  render_expr does not see a tree:   *)
(* PPI gives it the words as they stand, groups in parentheses apart, and  *)
(* it puts Python words in their place, from left to right.                *)
(***************************************************************************)
EXTENDS PythonExpr

-----------------------------------------------------------------------------
(* What the author writes: the tree by Perl's precedences, with as few     *)
(* parentheses as they allow.                                              *)

\* Loosest first, of perlop.
PerlLevels == <<{"or", "xor"}, {"and"}, {"not"}, {"?"}, {".."}, {"||"}, {"&&"}, {"|", "^"}, {"&"},
                {"==", "<=>"}, {"<"}, {"length"}, {"+", "."}, {"*"}, {"=~"}, {"!", "neg"}, {"->"}>>
Behind   == {"=~", "->"}                \* these stand behind their operand
Unaries  == {"not", "!", "neg", "length"} \cup Behind
Alone    == {"==", "<=>", "<", ".."}    \* these do not associate
PerlOperators == UNION Range(PerlLevels)
LevelOf(op) == CHOOSE n \in DOMAIN PerlLevels : op \in PerlLevels[n]

RECURSIVE Written(_)
\* Operand n of op stands in parentheses.  not and length take what begins
\* with one for their arguments.
Grouped(op, n, e) ==
    /\ e.args # <<>>
    /\ \/ LevelOf(e.op) < LevelOf(op)
       \/ op \in {"not", "length"} /\ Head(Written(e)).what = "()"
       \/ LevelOf(e.op) = LevelOf(op) /\ \/ op \in Alone
                                         \/ op = "?" /\ n = 1
                                         \/ op \notin Unaries \cup {"?"} /\ n = 2

Written(e) ==
    LET w == [n \in DOMAIN e.args |-> IF Grouped(e.op, n, e.args[n]) THEN Paren(Written(e.args[n]))
                                      ELSE Written(e.args[n])]
    IN  CASE w = <<>>      -> Word(e.op)
          [] e.op = "?"    -> w[1] \o Word("?") \o w[2] \o Word(":") \o w[3]
          [] e.op \in Behind -> w[1] \o Word(e.op)
          [] Len(w) = 1    -> Word(e.op) \o w[1]
          [] OTHER         -> w[1] \o Word(e.op) \o w[2]

-----------------------------------------------------------------------------
(* render_expr.                                                            *)

\* INFIX_OPERATOR_MAP and PREFIX_OPERATOR_MAP, and names.
Spelled(x) == CASE x = "&&" -> "and"
                [] x = "||" -> "or"
                [] x = "xor" -> "!="
                [] x = "!"   -> "not"
                [] x = "neg" -> "-"
                [] OTHER     -> x

\* _stringified: what begins as a string is left alone.
Stringified(text) == IF Head(text).what = "str" THEN text ELSE Enclosed("str", text)

Search(text)   == Paren(Enclosed("re.search", text) \o Word("is not") \o Word("None"))
PyRange(l, r)  == Enclosed("range", l \o Word(",") \o Paren(r) \o Word("+") \o Word("1"))
Cmp(l, r)      == Enclosed("_vp2vpy_cmp", l \o Word(",") \o r)
Concat(l, r)   == Stringified(l) \o Word("+") \o Stringified(r)
Length(text)   == Enclosed("len", text)

\* _consume_operand: where the operand at the head of a text ends, one word
\* and the subscripts behind it.
OperandEnd(text) ==
    Max({n \in DOMAIN text : \A k \in 2 .. n : text[k].what = "->"})

\* A slip: every ":" there is.
ColonsAny(text, q) == {n \in Where(text, {":"}) : n > q}
\* The ":" after the "?" at q that are not those of another ternary.
Colons(text, q) ==
    {n \in Where(text, {":"}) : n > q
        /\ Cardinality(Where(SubSeq(text, q + 1, n - 1), {"?"}))
           = Cardinality(Where(SubSeq(text, q + 1, n - 1), {":"}))}

\* render_expr keeps a list of rendered pieces.  An operator that becomes a
\* call takes the piece before it, and ".", <=> the operand after it; length
\* without parentheses takes a variable.
RECURSIVE Render(_), Pieces(_, _)
Pieces(text, done) ==
    IF text = <<>> THEN FlattenSeq(done)
    ELSE LET op   == Head(text).what
             left == Last(done)
             rest == Tail(text)
             right == Render(SubSeq(rest, 1, OperandEnd(rest)))
             After(n) == SubSeq(rest, n, Len(rest))
             Joined(t, n) == Pieces(After(n), Append(Front(done), t))
             Called(t, n) == Pieces(After(n), Append(done, Length(t)))
         IN  CASE op = "=~"  -> Joined(Search(left), 1)
               [] op = "->"  -> Joined(left \o Word("[]"), 1)
               [] op = ".."  -> Joined(PyRange(left, Render(rest)), Len(text))
               [] op = "."   -> Joined(Concat(left, right), OperandEnd(rest) + 1)
               [] op = "<=>" -> Joined(Cmp(left, right), OperandEnd(rest) + 1)
               [] op = "length" ->
                    IF rest = <<>> \/ Head(rest).what \in PerlOperators THEN Word("Unmappable")
                    ELSE IF Head(rest).what = "()" THEN Called(Render(Head(rest).inner), 2)
                    ELSE Called(right, OperandEnd(rest) + 1)
               [] op = "()"  -> Pieces(rest, Append(done, Paren(Render(Head(text).inner))))
               [] OTHER      -> Pieces(rest, Append(done, Word(Spelled(op))))
Render(text) ==
    LET q == Min(Where(text, {"?"}))
        c == Min(Colons(text, q))
    IN  CASE Where(text, {"?", ":"}) = {} -> Pieces(text, <<>>)
          [] Where(text, {"?", ":"}) # {} /\ (Where(text, {"?"}) = {} \/ Colons(text, q) = {}) ->
                Word("Unmappable")
          [] OTHER -> Paren(Render(SubSeq(text, q + 1, c - 1)) \o Word("if")
                            \o Render(SubSeq(text, 1, q - 1)) \o Word("else")
                            \o Render(SubSeq(text, c + 1, Len(text))))

-----------------------------------------------------------------------------
(* What the Perl expression says, as a tree of Python.                     *)

\* A left operand that is a concatenation is a string already.
Str(e, m, n) == IF n = 1 /\ e.op = "." THEN m ELSE Tree("str", <<m>>)

RECURSIVE Meant(_)
Meant(e) ==
    LET m == [n \in DOMAIN e.args |-> Meant(e.args[n])]
    IN  CASE m = <<>> -> e
          [] e.op \in {"<", "=="} -> Compare(m[1], e.op, m[2])
          [] e.op = "xor" -> Compare(m[1], "!=", m[2])
          [] e.op = "."   -> Tree("+", <<Str(e.args[1], m[1], 1), Str(e.args[2], m[2], 2)>>)
          [] e.op = "<=>" -> Tree("_vp2vpy_cmp", <<Tree(",", m)>>)
          [] e.op = ".."  -> Tree("range", <<Tree(",", <<m[1], Tree("+", <<m[2], Name("1")>>)>>)>>)
          [] e.op = "=~"  -> Compare(Tree("re.search", m), "is not", Name("None"))
          [] e.op = "?"   -> Tree("if", <<m[2], m[1], m[3]>>)
          [] e.op = "->"  -> Tree("[]", m)
          [] e.op = "length" -> Tree("len", m)
          [] OTHER        -> Tree(Spelled(e.op), m)

\* Python reads the text as the author meant it.
Faithful(e) == Parse(Render(Written(e)), 1) = Meant(e)

\* Where an operand without parentheses stays one: a ternary is taken apart at
\* its own operators; a subscript goes with what it stands behind; the operators
\* that become calls need one piece at their left and one operand at their
\* right, ".." takes all that follows, length a variable; for all others
\* Python has to bind the operand tighter, as Perl did.
Calls      == {"=~", ".", "<=>", ".."}
PyLevel(op) == CHOOSE n \in DOMAIN Levels : (IF op = "." THEN "+" ELSE Spelled(op)) \in Levels[n]
Holds(op, n, c) ==
    \/ op = "?" \/ c = "->"
    \/ op = ".." /\ n = 2
    \/ op \in Calls /\ n = 1 /\ c \in (Calls \ {".."}) \cup {"length"}
    \/ /\ op \notin Calls \cup {"length"}
       /\ c \notin {"?", ".."}
       /\ \/ c \in {"=~", "<=>", "length"}
          \/ PyLevel(c) > PyLevel(op)
          \/ PyLevel(c) = PyLevel(op) /\ n = 1 /\ Spelled(op) \notin Compares
RECURSIVE PrecedenceHolds(_)
PrecedenceHolds(e) ==
    \A n \in DOMAIN e.args :
        LET c == e.args[n]
        IN  /\ PrecedenceHolds(c)
            /\ c.args = <<>> \/ Grouped(e.op, n, c) \/ Holds(e.op, n, c.op)
=============================================================================

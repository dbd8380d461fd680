------------------------------- MODULE JinjaExpr -------------------------------
(***************************************************************************)
(* The expressions of tools/jinja2j2.py: _ExprRewriter turns a tree of     *)
(* Jinja2 into the text of a Python expression, and Python reads that text *)
(* by its own precedences.                                                 *)
(***************************************************************************)
EXTENDS PythonExpr

-----------------------------------------------------------------------------
(* Jinja2 to text.                                                         *)

Infix     == {"+", "*", "and", "or", "<"}
Chain     == "< <"      \* two comparisons in one node
\* Tests that become a bare comparison, a call or a text with parentheses.
BareTests == {"defined", "equalto"}
Tests     == BareTests \cup {"odd", "string"}
Filters   == {"upper", "length", "default", "join", "safe"}

\* A slip: no parentheses around the result.
UnaryBare(op, t) == Word(op) \o t
\* v_Neg and v_Not; _binop, and v_Compare with one operator and with two;
\* v_CondExpr.
Unary(op, t)     == Paren(Word(op) \o t)
Binary(op, l, r) == Paren(l \o Word(op) \o r)
Chained(x, y, z) == Paren(x \o Word("<") \o y \o Word("<") \o z)
Cond(x, test, y) == Paren(x \o Word("if") \o test \o Word("else") \o y)

\* _FILTER_TABLE, _TEST_TABLE: target and argument as the entries place them.
Filter(name, t, a) ==
    CASE name = "upper"   -> Paren(t) \o Word(".upper")
      [] name = "length"  -> Enclosed("len", t)
      [] name = "default" -> Cond(t, t \o Word("is not") \o Word("None"), a)
      [] name = "join"    -> a \o Enclosed(".join", t)
      [] name = "safe"    -> t
Test(name, t, a) ==
    CASE name = "defined" -> Paren(t) \o Word("is not") \o Word("None")
      [] name = "equalto" -> Paren(t) \o Word("==") \o Paren(a)
      [] name = "odd"     -> Paren(Paren(t) \o Word("%") \o Word("2") \o Word("==") \o Word("1"))
      [] name = "string"  -> Enclosed("isinstance", t)

\* visit and the v_ methods.
RECURSIVE Visit(_)
Visit(e) ==
    LET v == [n \in DOMAIN e.args |-> Visit(e.args[n])]
    IN  CASE v = <<>>              -> Word(e.op)
          [] e.op \in {"-", "not"} -> Unary(e.op, v[1])
          [] e.op \in Infix        -> Binary(e.op, v[1], v[2])
          [] e.op = Chain          -> Chained(v[1], v[2], v[3])
          [] e.op = ".attr"        -> v[1] \o Word(".attr")
          [] e.op = "if"           -> Cond(v[1], v[2], v[3])
          [] e.op \in Filters      -> Filter(e.op, v[1], Last(v))
          [] e.op \in Tests        -> Test(e.op, v[1], Last(v))

-----------------------------------------------------------------------------
(* What the Jinja2 expression says, as a tree of Python.                   *)

RECURSIVE Meant(_)
Meant(e) ==
    LET m == [n \in DOMAIN e.args |-> Meant(e.args[n])]
        t == m[1]
        a == Last(m)
    IN  CASE e.op = "<"       -> Compare(t, "<", a)
          [] e.op = Chain     -> Tree("compare", <<t, Tree("<", <<m[2]>>), Tree("<", <<a>>)>>)
          [] e.op = "upper"   -> Tree(".upper", <<t>>)
          [] e.op = "length"  -> Tree("len", <<t>>)
          [] e.op = "default" -> Tree("if", <<t, Compare(t, "is not", Name("None")), a>>)
          [] e.op = "join"    -> Tree(".join", <<a, t>>)
          [] e.op = "safe"    -> t
          [] e.op = "defined" -> Compare(t, "is not", Name("None"))
          [] e.op = "equalto" -> Compare(t, "==", a)
          [] e.op = "odd"     -> Compare(Tree("%", <<t, Name("2")>>), "==", Name("1"))
          [] e.op = "string"  -> Tree("isinstance", <<t>>)
          [] OTHER            -> Tree(e.op, m)

\* The text of the rewriter means what the author wrote.
Faithful(e) == Parse(Visit(e), 1) = Meant(e)

\* The text of e is a bare comparison, at its outermost.
RECURSIVE Bare(_)
Bare(e) == \/ e.op \in BareTests
           \/ e.op = "safe" /\ Bare(e.args[1])
\* Where a bare comparison has neighbours that bind tighter, or compare too.
Tight(op) == CASE op \in {"-", "+", "*", "<", ".attr"} -> {1, 2}
               [] op = Chain     -> {1, 2, 3}
               [] op = "default" -> {1}
               [] op = "join"    -> {2}
               [] OTHER          -> {}
\* No test stands where its text would fall apart.
RECURSIVE TestsApart(_)
TestsApart(e) ==
    \A n \in DOMAIN e.args :
        /\ TestsApart(e.args[n])
        /\ n \in Tight(e.op) => ~Bare(e.args[n])
=============================================================================

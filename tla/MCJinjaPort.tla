------------------------------ MODULE MCJinjaPort ------------------------------
(* Instances of JinjaPort for TLC.                                            *)
EXTENDS JinjaPort

\* All expressions of one or two operators, and those that join two of these.
Unaries  == {"-", "not", ".attr"} \cup {"upper", "length", "safe", "defined", "odd", "string"}
Binaries == Infix \cup {"default", "join", "equalto"}
Over(S, T) == {Tree(u, <<s>>) : u \in Unaries, s \in S}
              \cup {Tree(b, <<s, t>>) : b \in Binaries, s \in S, t \in T}
              \cup {Tree(b, <<t, s>>) : b \in Binaries, s \in S, t \in T}
              \cup {Tree("if", <<s, t, NoExpr>>) : s \in S, t \in T}
              \cup {Tree(Chain, <<s, t, NoExpr>>) : s \in S, t \in T}
              \cup {Tree(Chain, <<NoExpr, s, t>>) : s \in S, t \in T}
One == Over({NoExpr}, {NoExpr})
AllExprs == One \cup Over(One, One \cup {NoExpr})
=============================================================================

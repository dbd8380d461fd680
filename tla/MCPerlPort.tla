------------------------------- MODULE MCPerlPort -------------------------------
(* Instances of PerlPort for TLC.                                             *)
EXTENDS PerlPort

\* All expressions of one operator, those of two, and those that join two of
\* one operator each.
Binaries == {"or", "xor", "and", "..", "||", "&&", "|", "^", "&", "==", "<=>", "<", "+", ".", "*"}
Over(S, T) == {Tree(u, <<s>>) : u \in Unaries, s \in S}
              \cup {Tree(b, <<s, t>>) : b \in Binaries, s \in S, t \in T}
              \cup {Tree(b, <<t, s>>) : b \in Binaries, s \in S, t \in T}
              \cup {Tree("?", <<s, t, NoExpr>>) : s \in S, t \in T}
              \cup {Tree("?", <<NoExpr, s, t>>) : s \in S, t \in T}
One == Over({NoExpr}, {NoExpr})
AllExprs == One \cup Over(One, One \cup {NoExpr})
NoExprs == {}
=============================================================================

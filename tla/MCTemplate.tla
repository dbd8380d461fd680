------------------------------ MODULE MCTemplate ------------------------------
(* Instances of Template for TLC.                                            *)
EXTENDS Template

Chars   == Token("chars", 0, 0)
Expr(n) == Token("expr", 0, n)
Note(n) == Token("note", 0, n)

\* An empty line, a comment alone, and a comment, an expression and text.
Lines == {<<>>, <<Note(1)>>, <<Note(1), Expr(1), Chars>>}

Further == {<<>>, <<2>>}

Free == {"comment", "dedent"}
Same(forms) == <<forms, forms, forms>>
AllStyles == {Same(Keywords), Same(Free), Same(Closings),
              <<Closings, Keywords, Keywords>>, <<Free, Keywords, Keywords>>}
=============================================================================

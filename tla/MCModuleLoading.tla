--------------------------- MODULE MCModuleLoading ---------------------------
(* Source directory x, include directory i and the directory of the          *)
(* invocation; a stem with two extensions, one in two directories, and two   *)
(* that become one identifier.                                               *)
EXTENDS ModuleLoading, TLC

Src == <<"x">>
Inc == <<"i">>
TwoExts == <<".vpy", ".svpy">>
Py  == <<"p">>
Always == {<<"x", "top", ".vpy">>, <<"p", "l", ".py">>}
Sometimes == {<<"x", "a", ".vpy">>, <<"x", "a", ".svpy">>, <<".", "a", ".vpy">>,
              <<"i", "s", ".vpy">>, <<"x", "a-b", ".vpy">>, <<".", "a_b", ".vpy">>}
AllPlaces == Always \cup Sometimes
Subsets(n) == {t \in SUBSET Sometimes :
                 /\ Cardinality(t) <= n
                 /\ <<".", "a_b", ".vpy">> \in t => <<"x", "a-b", ".vpy">> \in t}
\* In smaller trees one that a name is found by may be broken.
Broken == {<<<<"x", "a", ".vpy">>, 0>>, <<<<"x", "a", ".vpy">>, 9>>, <<<<"x", "a-b", ".vpy">>, 0>>,
           <<<<".", "a_b", ".vpy">>, 0>>, <<<<".", "a_b", ".vpy">>, 9>>}
NoTemplate == {0}
NoModule == {9}
AllTrees ==
    {[p \in Always \cup t |-> 1] : t \in Subsets(3)} \cup
    {[p \in Always \cup t \cup {b[1]} |-> IF p = b[1] THEN b[2] ELSE 1] :
        t \in {{}, {<<".", "a", ".vpy">>}, {<<"x", "a-b", ".vpy">>}}, b \in Broken}
SafeOf == [s \in {"top", "a", "s", "a_b", "l"} |-> s] @@ "a-b" :> "a_b"

In(stem) == <<Relative, stem, ".vpy">>
Bare(stem)  == [op |-> "bare", arg |-> In(stem)]
Line1(o, p) == [op |-> o, arg |-> p]
List(l) == Line1("--input-list", l)

\* One list with a diamond below it, two that name each other, one with each
\* directive.
AllLists ==
    [l \in {"all", "left", "right", "shared", "ring", "back", "dirs"} |->
        CASE l = "all"    -> <<Bare("top"), List("left"), List("right"), List("none")>>
          [] l = "left"   -> <<List("shared")>>
          [] l = "right"  -> <<List("shared"), Bare("s")>>
          [] l = "shared" -> <<Bare("a"), Line1("--input", <<"x", "a", ".svpy">>)>>
          [] l = "ring"   -> <<Bare("top"), List("back")>>
          [] l = "back"   -> <<List("ring")>>
          [] OTHER        -> <<Line1("--inc-path", "."), Line1("--src-path", "i"),
                               Line1("--input", <<".", "a_b", ".vpy">>), Bare("top")>>]

AllCommands ==
    {[inputs |-> i, lists |-> <<>>] :
        i \in {<<>>, <<In("top")>>, <<In("top"), In("a")>>,
               <<In("a"), <<Relative, "a", ".svpy">>, In("top")>>,
               <<In("top"), In("a-b")>>, <<In("top"), In("a_b")>>}} \cup
    {[inputs |-> <<>>, lists |-> l] :
        l \in {<<"all">>, <<"ring">>, <<"dirs">>, <<"shared", "none">>}} \cup
    {[inputs |-> <<In("top")>>, lists |-> <<"right", "left", "right">>]}
AllNames == {"a", "a-b", "a_b", "s"}
AllTargets == {"a", "s"}
AllIncludes == {<<"s", ".vpy">>, <<"l", ".py">>}
=============================================================================

----------------------------- MODULE MCConfigTree -----------------------------
(* Instances of ConfigTree for TLC.  A design has a top with the instances x *)
(* and y and one below x; values tell the files they come from apart.        *)
EXTENDS ConfigTree

Item(n, v)  == [name |-> n, val |-> v]
Leaf(x, ps) == [iname |-> x, params |-> ps, subs |-> Absent]
Top(ps, ss) == [iname |-> "top", params |-> ps, subs |-> ss]

AllPaths == {<<"other">>, <<"top">>, <<"top", "x">>, <<"top", "y">>, <<"top", "x", "z">>}
Ws  == {"W"}
WVs == {"W", "V"}

\* Contents of file f: nothing, values of the top, of x or y, of z below x.
WithZ(f) == [iname |-> "x", params |-> <<Item("W", f)>>,
             subs |-> <<Leaf("z", <<Item("W", f)>>)>>]
Tops(f) == {Top(Absent, Absent), Top(<<Item("W", f)>>, Absent),
            Top(<<Item("V", f), Item("W", Pointer)>>, Absent),
            [Top(<<Item("W", f)>>, Absent) EXCEPT !.iname = Absent],
            [Top(<<Item("V", f)>>, Absent) EXCEPT !.iname = "other"]}
Rejected(f) == {Top(<<Item("W", f), Item("W", 0)>>, Absent), Top(Blank, <<Leaf(Absent, Blank)>>),
                Top(<<Item("V", f), Item("W", Absent)>>, Absent)}
OfX(f) == {Top(Absent, <<Leaf("x", <<Item("W", f)>>)>>), Top(<<Item("V", f)>>, <<WithZ(f)>>),
           Top(Absent, <<Leaf("x", Blank), Leaf("x", <<Item("W", f)>>)>>)}
OfY == Top(Absent, <<Leaf("y", <<Item("W", 3), Item("V", 3)>>)>>)

Inc(f)  == [op |-> "include", file |-> f]
On(o, k) == [op |-> o, key |-> k, val |-> 9]
TopW == <<<<"top">>, "W">>
XW   == <<<<"top", "x">>, "W">>

MainCalls == {Inc("b.json"), Inc("c.json"), Inc("sub.cfg"),
              On("configure", XW), On("remove", XW), On("get", XW), On("get", TopW)}
SubCalls  == {<<>>, <<Inc("b.json")>>, <<Inc("main.cfg")>>, <<Inc("c.json"), On("get", XW)>>}

Run(json, cmd, bare, a, b, c, main, sub) ==
    [json |-> json, cmd |-> cmd, bare |-> bare,
     files |-> [f \in {"a.json", "b.json", "c.json"} |->
                  CASE f = "a.json" -> a [] f = "b.json" -> b [] OTHER -> c],
     scripts |-> [f \in {"main.cfg", "sub.cfg"} |-> IF f = "main.cfg" THEN main ELSE sub],
     main |-> "main.cfg", insts |-> <<>>]

Mains == UNION {[1 .. n -> MainCalls] : n \in 1 .. 2}

\* One file describes the top, one x, one y or x; in any order and through any
\* includes, each possibly read twice.
Reading ==
    {Run(j, {}, Missing, a, b, c, m, s) :
        j \in {Absent, "a.json"}, a \in Tops(1), b \in OfX(2),
        c \in {OfY, Top(Blank, <<Leaf("x", <<Item("V", 3)>>)>>)}, m \in Mains, s \in SubCalls} \cup
    {Run("a.json", cmd, bare, a, b, Missing, m, <<>>) :
        cmd \in {{}, {XW}}, bare \in {Missing, 8}, a \in {Top(<<Item("W", 1)>>, Absent)},
        b \in Tops(2) \cup Rejected(2), m \in Mains}

-----------------------------------------------------------------------------
Number  == Xml!Atom("number")
Numbers == Xml!List(<<Number, Number>>)
Values  == {Xml!Atom("word"), Xml!Atom("null"), Xml!Atom("digits"), Numbers, Xml!List(<<>>),
            Xml!List(<<Numbers, Xml!List(<<Numbers>>)>>),
            Xml!Dict(<<"k", "Val">>, <<Number, Xml!Dict(<<>>, <<>>)>>),
            Xml!Dict(<<"Parameter">>, <<Xml!List(<<Xml!Dict(<<"Val">>, <<Numbers>>)>>)>>)}

Inst(p, x, c, ps, syns) == [parent |-> p, iname |-> x, cloneOf |-> c, params |-> ps, syns |-> syns]
W(v, r)     == <<[name |-> "W", val |-> v, prio |-> r]>>
Pars(prios) == {<<>>} \cup {W(Number, r) : r \in prios}
Prios == {0, 10, 20, 30, 40}

\* x and what is below it; y an instance or a clone of x; a synonym of x.
Trees(synonyms) ==
    {<<Inst(0, "top", 0, t, <<>>), Inst(1, "x", 0, x, syn), Inst(2, "z", 0, z, <<>>),
       Inst(1, "y", c, IF c = 0 THEN y ELSE x, IF c = 0 THEN <<>> ELSE syn)>> :
        t \in Pars({0, 20}), x \in Pars(Prios) \cup {W(v, 20) : v \in Values}, z \in Pars(Prios), y \in Pars({20}),
        c \in {0, 2}, syn \in {<<>>, <<synonyms>>}}
Writing(synonyms) ==
    {[Run(Absent, {}, Missing, Missing, Missing, Missing, <<>>, <<>>) EXCEPT !.insts = t] :
        t \in Trees(synonyms)}

All == Reading \cup Writing("sp") \cup Writing("y")
=============================================================================

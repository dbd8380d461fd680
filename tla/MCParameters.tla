----------------------------- MODULE MCParameters -----------------------------
(* Instances of Parameters for TLC.  Every source has a value of its own, so *)
(* that the value of a parameter tells where it came from: 0 in the source   *)
(* text, 2 .cfg, 3 JSON, 4 bare and 5 scoped command line, 6 keyword, 7      *)
(* forced; 1, 8 and 9 the --defaults entries of the template "top", of the   *)
(* child's module "a" and the one the command line names; 10 what is given   *)
(* again.                                                                    *)
EXTENDS ParameterSafety

D  == {"D"}
Values == 0 .. 10
Zero   == {0}
Seven  == {7}
Low    == {{0, 1, 2, 3, 7}}
Kws    == {<<>>, "D" :> 6}
AD     == {<<"a", "D">>}
BothD  == Insts \X {"D"}
\* Below --defaults, between the JSON files and the command line, above it.
CfgPrios == {5, 25, 35}

\* The child's module was made from the top's template, under a name.
Modules == [i \in Insts |-> IF i = "top" THEN <<"top">> ELSE <<"a", "top">>]

Arg(at, v) == [at |-> at, name |-> "D", val |-> v]
Args    == <<Arg("top", 5), Arg("a", 5), Arg(None, 4)>>
Chosen(S) == SelectSeq(Args, LAMBDA s : s \in S)
On(keys, v) == {[k \in S |-> v] : S \in SUBSET keys}
Given(specs, global, json, files, entry, script) ==
    [specs |-> specs, global |-> global, json |-> json, files |-> files, entry |-> entry,
     script |-> script]

\* --defaults: a group, the template's entry in it, and the entry the command
\* line names; in another file that of the child's module.  Some may be absent.
Entry(e) == "D" :> (CASE e = "top" -> 1 [] e = "a" -> 8 [] e = "e" -> 9)
FilesFor(S) == <<[t \in {<<"g">>} \cup {u \in {<<"g", "top">>, <<"e">>} : Last(u) \in S} |->
                    IF t = <<"g">> THEN <<>> ELSE Entry(Last(t))],
                 [t \in {<<x>> : x \in S \cap {"a"}} |-> Entry("a")]>>
Named(S) == IF "e" \in S THEN "e" ELSE None

\* Any combination of sources for the parameter D of the two instances; a few
\* of them to go with two calls of a .cfg script; and arguments that end the
\* run: a name given twice, bare names that are not allowed, a malformed one;
\* an entry there twice, or not there.
Sources == {Given(Chosen(S), TRUE, j, FilesFor(F), Named(F), 0) :
               S \in SUBSET ToSet(Args), j \in On(BothD, 3), F \in SUBSET {"top", "a", "e"}}
Scripts == {Given(Chosen(S), TRUE, j, FilesFor(F), None, 2) :
               S \in SUBSET ToSet(Args), j \in {<<>>, [k \in BothD |-> 3]}, F \in SUBSET {"top"}}
Top(v)  == <<"top">> :> ("D" :> v)
InGroup == (<<"g">> :> <<>>) @@ (<<"g", "top">> :> ("D" :> 1))
Wrong   == {Given(specs, g, <<>>, <<>>, None, 0) : g \in BOOLEAN,
               specs \in {<<x, [y EXCEPT !.val = 10]>> : x, y \in ToSet(Args)} \cup {<<Arg(Malformed, 5)>>}}
           \cup {Given(<<>>, TRUE, <<>>, files, e, 0) : e \in {None, "e"}, files \in
               {<<InGroup @@ Top(10)>>, <<Top(1), Top(10)>>, <<>>}}
AnySource == Sources \cup Scripts \cup Wrong
OneAndTwo == [i \in Insts |-> IF i = "top" THEN 1 ELSE 2]
=============================================================================

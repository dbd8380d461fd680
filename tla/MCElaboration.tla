----------------------------- MODULE MCElaboration -----------------------------
(* Instances of Elaboration for TLC.  Classes: a top module, a block p with  *)
(* sub-instances, a leaf c, a leaf f whose parameter is forced.  A program   *)
(* says what the bodies of each class may do; each is aimed at one part of   *)
(* the engine and small enough to be explored to the end.                    *)
EXTENDS ElaborationSafety

Four == {"top", "p", "c", "f"}
Bits == {0, 1}

Zero       == [c \in Four |-> 0]
LeafForced == [c \in Four |-> IF c = "f" THEN 1 ELSE None]

\* The bodies of a program, and their lengths.
Bodies(top, p, c) == [x \in Four |-> CASE x = "top" -> top [] x = "p" -> p
                                       [] x = "c" -> c [] OTHER -> {}]
Lengths(top, p, c) == [x \in Four |-> CASE x = "top" -> top [] x = "p" -> p
                                        [] x = "c" -> c [] OTHER -> 0]

\* Calls of one instantiation method.
Calls(kinds, classes, names, kws, catches) ==
    [op : kinds, cls : classes, iname : names, kw : kws, catch : catches]
Raise  == {[op |-> "raise"]}
Clones(refs, catches) ==
    [op : {"clone"}, src : refs, iname : {"y"}, kw : {None}, catch : catches]
Forces(refs, catches) == [op : {"force"}, target : refs, val : {1}, catch : catches]

\* Instances a body names: itself, its sub-instance, others of the hierarchy.
Own     == {<<"self">>, <<"self", "x">>}
Elders  == {<<"top", "x">>, <<"top", "x", "x">>}
Parent  == {<<"self", "parent">>}
XY == {"x", "y"}

Programs == [
    \* keywords, raising bodies and try blocks
    unique |-> Bodies(
        Calls({"unique"}, {"p"}, XY, {None}, BOOLEAN)
            \cup Calls({"unique"}, {"p"}, XY, {0, 1}, {FALSE}),
        Calls({"unique"}, {"c"}, {"x"}, {None, 1}, {FALSE}) \cup Raise,
        Raise),
    \* overrides at and below the instances being deduplicated
    scoped |-> Bodies(
        Calls({"unique", "param"}, {"p"}, XY, {None, 1}, {FALSE}),
        Calls({"unique"}, {"c"}, XY, {None, 1}, {FALSE}),
        {}),
    \* a leaf that forces its parameter, whatever it is given
    forced |-> Bodies(
        Calls({"unique", "param"}, {"f"}, XY, {None, 0, 1}, {FALSE}), {}, {}),
    \* bare-named modules, aliased, refused or regenerated
    ununique |-> Bodies(
        Calls({"ununq"}, {"p"}, XY, {None, 1}, BOOLEAN)
            \cup Calls({"unique"}, {"p"}, XY, {None}, {FALSE}),
        Calls({"unique", "ununq"}, {"c"}, {"x"}, {None, 1}, {FALSE})
            \cup Clones({<<"top", "x">>}, {TRUE}),
        Raise),
    \* p instantiates p and clones what it can name
    recursive |-> Bodies(
        Calls({"unique"}, {"p"}, XY, {None, 0, 1}, BOOLEAN),
        Calls({"unique"}, {"p"}, {"x"}, {None, 0, 1}, {FALSE})
            \cup Clones(Own \cup Elders, {FALSE}),
        {}),
    \* force_param before, during and after elaboration
    force |-> Bodies(
        Calls({"unique"}, {"p"}, XY, {None, 1}, {FALSE}) \cup Forces(Own, BOOLEAN),
        Calls({"unique"}, {"c"}, {"x"}, {None}, BOOLEAN) \cup Forces({<<"self">>} \cup Parent, BOOLEAN)
            \cup Forces({<<"top", "x", "x">>}, {FALSE}),
        Raise),
    \* synonyms, clones and names already taken
    names |-> Bodies(
        Calls({"unique"}, {"p"}, XY, {None}, BOOLEAN)
            \cup Calls({"unique"}, {"p"}, XY, {0, 1}, {FALSE})
            \cup Clones(Own, {FALSE}),
        Calls({"unique"}, {"c"}, {"x"}, {None}, {FALSE})
            \cup {[op |-> "synonym", name |-> <<"sp">>]} \cup Raise,
        {}),
    \* a block that contains itself and forces its parameter
    lost |-> Bodies(
        Calls({"unique"}, {"p"}, {"x"}, {0}, {FALSE}),
        Calls({"unique"}, {"p"}, {"x"}, {1}, {FALSE}) \cup Forces({<<"self">>}, {FALSE}),
        {})]

Lens == [unique |-> Lengths(3, 2, 1), scoped |-> Lengths(3, 1, 0),
         forced |-> Lengths(2, 0, 0), ununique |-> Lengths(3, 1, 1),
         recursive |-> Lengths(2, 2, 0), force |-> Lengths(2, 2, 1),
         names |-> Lengths(3, 2, 0), lost |-> Lengths(1, 2, 0)]

-----------------------------------------------------------------------------
(* External configurations. *)

Plain(prog) == [over |-> {}, bare |-> None, nocache |-> FALSE, prog |-> prog]
Over(path, tier, v) == [path |-> <<"top">> \o path, tier |-> tier, val |-> v]
Given(prog, overs)  == [Plain(prog) EXCEPT !.over = overs]

\* Scoped overrides of a block, of a leaf below one block, of both leaves.
ScopedOvers ==
    {{}} \cup
    {{Over(q, t, 1)} : q \in {<<"x">>, <<"x", "x">>}, t \in {"json", "cfg", "cmdln"}} \cup
    {{Over(<<"x", "x">>, t, 1), Over(<<"y", "x">>, u, 1)} : t, u \in {"json", "cfg"}}

\* A value without a path beside scoped ones.
Bare(setting) == [setting EXCEPT !.bare = 1]
BareOvers == {{}, {Over(<<"x", "x">>, "cfg", 0)}, {Over(<<"x", "x">>, "json", 0)},
              {Over(<<"x", "x">>, "cfg", 0), Over(<<"y", "x">>, "json", 0)}}

All == {Plain(p) : p \in {"unique", "forced", "recursive", "force", "names"}} \cup
       {[Plain(p) EXCEPT !.nocache = TRUE] : p \in {"recursive", "force"}} \cup
       {Given("scoped", o) : o \in ScopedOvers} \cup
       {Bare(Given("scoped", o)) : o \in BareOvers} \cup
       {Given("ununique", o) : o \in {{}, {Over(<<"x", "x">>, "cfg", 1)},
                                      {Over(<<"y", "x">>, "json", 0)}}}

\* The run that reproduces a disagreement between the code and its comment.
Lost  == {Plain("lost")}
=============================================================================

--------------------------- MODULE ParameterSafety ---------------------------
(* What Parameters promises about values, ranges and the final account.     *)
EXTENDS Parameters

TypeOK ==
    /\ status \in {"args", "cfg", "running", "raised", "done", "failed"}
    /\ cur \in Insts
    /\ DOMAIN cfgDb \subseteq CfgKeys
    /\ used \subseteq {"cmd", "cfg"} \X (Insts \X Names) \cup {"bare"} \X Names
    /\ entries \subseteq DOMAIN src.defaults
    /\ taken \cup forcedKeys \subseteq entries \X Names
    /\ \A i \in Insts : \A n \in DOMAIN params[i] :
          LET e == params[i][n]
          IN  /\ e.val \in Vals /\ e.default \in Vals
              /\ e.prio \in {0, 7, 20, 30, 40, 50} \cup Prios
              /\ e.range \in Ranges \cup {None}
              /\ e.state = "FORCED" <=> e.seenForced

-----------------------------------------------------------------------------
(* The ladder of user-guide.md 6.2, as a set of rungs; the arguments and   *)
(* files as they were given, whatever was made of them.  A rung is higher  *)
(* by its level; only the bare arguments, the JSON files and .cfg scripts, *)
(* which may give any priority, are of one level.                          *)

Rungs(i, n) ==
    LET k == <<i, n>>
        Rung(level, prio, val, key) == [level |-> level, prio |-> prio, val |-> val, key |-> key]
        Argued(at) == {s \in ToSet(given.specs) : s.at = at /\ s.name = n}
        names == EntryNames(i)
        Holders(f, x) == {t \in DOMAIN f : Last(t) = names[x] /\ n \in DOMAIN f[t]}
    IN  (IF i = "a" /\ kw # None THEN {Rung(4, 0, kw[y], y) : y \in DOMAIN kw \cap {n}} ELSE {}) \cup
        {Rung(3, 0, s.val, k) : s \in Argued(i)} \cup
        {Rung(2, 30, s.val, n) : s \in Argued(None)} \cup
        {Rung(2, 20, given.json[x], x) : x \in DOMAIN given.json \cap {k}} \cup
        {Rung(2, cfgDb[x].prio, cfgDb[x].val, x) : x \in DOMAIN cfgDb \cap {k}} \cup
        UNION {{Rung(1, Len(names) - x, f[t][n], names[x]) : t \in Holders(f, x)}
               : f \in ToSet(given.files), x \in DOMAIN names}

Above(r, s) == s.level < r.level \/ (s.level = r.level /\ s.prio <= r.prio)
HighestRung(i, n) == CHOOSE r \in Rungs(i, n) : \A s \in Rungs(i, n) : Above(r, s)

\* The body declared n with parameter(), which returned, and nothing it did
\* itself settled the value (the values bodies force are no source's).
Read(i, n) ==
    /\ n \in DOMAIN params[i]
    /\ <<i, n>> \notin tainted
    /\ LET e == params[i][n]
       IN  e.declared /\ e.seenDecl /\ e.state = "OVERRIDDEN" /\ e.val \notin Forceds

\* A parameter nothing in the program forced has the value of the highest
\* rung that names it, on the top as on a child, also where the child got it
\* through override_param before its body ran: of the arguments and files no
\* value is lost to another of its rung, as a second argument of one name, or
\* an entry of one name in another file or deeper in the same.  (A child's
\* .cfg value is the exception, see the README.)
LadderHolds ==
    \A i \in Insts, n \in Names :
        Read(i, n) /\ (i = "top" \/ <<i, n>> \notin DOMAIN cfgDb) =>
            params[i][n].val = HighestRung(i, n).val

\* No value of a declared parameter is ever outside its declared range, as
\* long as no call about it raised.
RangeHolds ==
    \A i \in Insts : \A n \in DOMAIN params[i] :
        InRange(params[i][n]) \/ <<i, n>> \in tainted

\* A forced value stays, whatever declarations, overrides, forces or
\* configuration lookups follow.
ForcedPinned ==
    [][\A i \in Insts : \A n \in DOMAIN params[i] :
          params[i][n].state = "FORCED" =>
              /\ params'[i][n].val = params[i][n].val
              /\ params'[i][n].state = "FORCED"]_vars

\* report_unused: overrides; entries of --defaults; keys of those read, with
\* what is said of them.
Overrides == {<<"cmd", k>> : k \in DOMAIN src.cmd} \cup
             {<<"cfg", k>> : k \in DOMAIN cfgDb} \cup
             {<<"bare", n>> : n \in DOMAIN src.bare}
Unused == Overrides \ used
UnusedEntries == DOMAIN src.defaults \ entries
NeverUsed(e, n) == /\ e \in entries /\ n \in DOMAIN src.defaults[e]
                   /\ <<e, n>> \notin taken \cup forcedKeys
IsForced(e, n)  == <<e, n>> \in forcedKeys \ taken

\* An override that decides the value of a parameter a body declared is never
\* reported as unused, so --strict-unused cannot fail a run over it.  Of the
\* --defaults, an entry is reported only if no module read it; a key as "was
\* never used" only if no body declared it in an instance that reads the entry,
\* be it outranked there by another source or entry; as "is forced" only if
\* it is, in such an instance, and no other took its value.
ReportsTrue ==
    /\ status = "done" =>
          \A i \in Insts, n \in Names :
              Read(i, n) /\ (i = "top" \/ <<i, n>> \notin DOMAIN cfgDb) =>
                  LET top == HighestRung(i, n)
                  IN  /\ top.level = 3 => <<"cmd", top.key>> \notin Unused
                      /\ top.level = 2 /\ top.prio = 30 => <<"bare", top.key>> \notin Unused
                      /\ top.level = 2 /\ top.prio \in Prios => <<"cfg", top.key>> \notin Unused
                      /\ params[i][n].prio # 40 => \A e \in ToSet(EntryNames(i)) :
                            e \notin UnusedEntries /\ ~NeverUsed(e, n)
    /\ \A e \in DOMAIN src.defaults, n \in Names : IsForced(e, n) =>
          /\ \E i \in Insts : /\ e \in Accounted(i, Entered(i)) /\ n \in DOMAIN params[i]
                              /\ params[i][n].state = "FORCED"
          /\ \A i \in Insts : n \in DOMAIN params[i] /\ params[i][n].prio = 7 =>
                e # EntryNames(i)[Min(Holding(i, n))]
=============================================================================

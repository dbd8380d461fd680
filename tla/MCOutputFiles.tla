---------------------------- MODULE MCOutputFiles ----------------------------
(* Two command lines that share their directories, and three states of the   *)
(* sources: with a synthesis cone, without one, and with a module renamed.   *)
EXTENDS OutputFiles, TLC

Plain == [top |-> "top", raw |-> "raw", out |-> "synth", synth |-> "synth",
          verif |-> "verif", genRaw |-> TRUE, flavor |-> "all", product |-> None,
          single |-> FALSE, depend |-> None, pathfile |-> None, json |-> None,
          log |-> <<".", "genesispy", ".log">>]
Product == [Plain EXCEPT !.genRaw = FALSE, !.flavor = "synth",
                         !.product = <<".", "all", ".vf">>,
                         !.pathfile = <<".", "dirs", ".path">>,
                         !.json = <<".", "snapshot", ".json">>]
BothFlags == "plain" :> Plain @@ "product" :> Product

Module(name, tag, text) == [name |-> name, tag |-> tag, text |-> text]
Design(files, n) == [files |-> files, templates |-> <<"top">>, sources |-> n, warns |-> n = 1]
AllDesigns == {Design(<<Module("leaf", "synth_and_verif", 1), Module("top", "verif", 1)>>, 1),
               Design(<<Module("leaf", "synth", 2)>>, 2),
               Design(<<Module("leaf2", "synth", 1), Module("top", "verif", 1)>>, 3)}
=============================================================================

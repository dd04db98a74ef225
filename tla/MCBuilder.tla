----------------------------- MODULE MCBuilder -----------------------------
(* Instances of Builder: the commands that are given. *)
EXTENDS Builder

Build(proj, mods, full, offline, skip, listed, tight) ==
    [cmd |-> "build", proj |-> proj, mods |-> mods, full |-> full, offline |-> offline, skip |-> skip,
     listed |-> listed, tight |-> tight]

Builds == {Build("app", <<>>, FALSE, FALSE, "none", {"exe"}, {}),
           Build("app", <<"lang", "develop">>, FALSE, FALSE, "none", Files, {"words"}),
           Build("app", <<"lang">>, TRUE, TRUE, "none", Files, {}),
           Build("app", <<>>, FALSE, TRUE, "run", Files, {}), Build("app", <<>>, FALSE, FALSE, "commit", Files, {}),
           Build("tool", <<>>, FALSE, FALSE, "commit", Files, {})}

Others == {[cmd |-> "run", proj |-> "app", debug |-> TRUE, offline |-> FALSE],
           [cmd |-> "run", proj |-> "tool", debug |-> FALSE, offline |-> TRUE],
           [cmd |-> "uab", proj |-> "app"], [cmd |-> "layer", proj |-> "app"],
           [cmd |-> "push", proj |-> "app", mods |-> <<"develop", "lang">>],
           [cmd |-> "import", proj |-> "app"], [cmd |-> "remove", proj |-> "app"]}

NewBases == {<<"base", "binary">>, <<"base", "runtime">>}

EveryCommand == Builds \cup Others
=============================================================================

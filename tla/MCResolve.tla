------------------------------ MODULE MCResolve ------------------------------
(***************************************************************************)
(* Constants for Resolve: two repositories, a package with versions whose  *)
(* text order differs from their order, of three and of four parts.        *)
(***************************************************************************)
EXTENDS Resolve

MCShipped == [default |-> "stable", repos |-> ("stable" :> "u1")]

Op(what, name, url) == [what |-> what, name |-> name, url |-> url]

MCSaved == {[default |-> "stable", repos |-> [stable |-> "u1", next |-> "u1"]]}

MCThisVersion == <<1, 7, 5>>

MCWrittenBy == {<<1, 5, 0>>, MCThisVersion}

MCOps == {Op("add", "next", "u2"), Op("set-default", "next", ""),
          Op("update", "stable", "u2"), Op("remove", "next", "")}

Layer(version, module, deleted) ==
    [id |-> "app", channel |-> "main", version |-> version, arch |-> "x86_64", module |-> module,
     deleted |-> deleted, kind |-> "app"]

MCLocals ==
    {<<>>,
     <<Layer(<<1, 9, 0, 0>>, "binary", FALSE)>>,
     <<Layer(<<1, 10, 0, 0>>, "binary", FALSE)>>,
     <<Layer(<<1, 9, 0>>, "binary", FALSE), Layer(<<1, 8, 0, 0>>, "binary", FALSE)>>,
     <<Layer(<<1, 8, 0, 0>>, "binary", FALSE), Layer(<<1, 9, 0, 1>>, "binary", FALSE)>>,
     <<Layer(<<1, 9, 0, 0>>, "binary", FALSE), Layer(<<1, 10, 0, 0>>, "binary", FALSE)>>,
     <<Layer(<<1, 9, 0, 1>>, "binary", TRUE), Layer(<<1, 9, 0, 0>>, "develop", FALSE),
       Layer(<<1, 9, 0, 0>>, "binary", FALSE)>>}

AskFor(version) == [channel |-> "", id |-> "app", version |-> version, arch |-> "unknown"]

MCAsked == {AskFor(<<>>), AskFor(<<1, 9, 0>>)}

MCSlow == {<<"update", <<Layer(<<1, 9, 0, 0>>, "binary", FALSE)>>, AskFor(<<>>)>>}

Record(id, version, module) ==
    [id |-> id, channel |-> "main", version |-> version, arch |-> "x86_64", module |-> module]

MCFiles == {Record("app", <<1, 9, 0, 0>>, "binary"), Record("app", <<1, 9, 0>>, "binary"),
            Record("app", <<1, 10, 0, 0>>, "runtime"), Record("app", <<1, 9, 0, 0>>, "develop")}

MCRecords ==
    [stable |-> {Record("app", <<1, 9, 0>>, "binary"), Record("app", <<1, 9, 0, 0>>, "binary"),
                 Record("app", <<1, 10, 0, 0>>, "runtime"), Record("app2", <<3, 0, 0, 0>>, "binary")},
     next   |-> {Record("app", <<1, 9, 0, 1>>, "binary"), Record("app", <<2, 0, 0, 0>>, "develop"),
                 Record("app", <<1, 100, 0, 0>>, "binary")}]

Symmetry == Permutations(Clients)
=============================================================================

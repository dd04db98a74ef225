----------------------------- MODULE MCContainer -----------------------------
(* The hosts and packages a start may meet. *)
EXTENDS Container

Everything == Things \ {"bad permissions", "bad localtime", "private config"}
Usual == [has |-> Everything, base |-> BasePaths, usual |-> TRUE, dirs |-> Dirs, links |-> {}, allowed |-> {}, disallowed |-> {},
          binds |-> <<>>]

(* What a base may lack: nothing, a file or a directory a mount needs, the *)
(* directory above it, and up to three of them together.                   *)
Lacking == {<<"etc", "passwd">>, <<"etc", "ssl", "certs">>, <<"etc", "profile.d", "00env.sh">>,
            <<"usr", "share", "fonts">>, <<"usr", "lib", "locale">>, <<"usr", "lib">>, <<"run">>, <<"etc", "resolvconf">>}

Without(l) == {p \in BasePaths : \A q \in l : ~IsPrefix(q, p)}
SomeBases == {[Usual EXCEPT !.base = Without(l)] : l \in {k \in SUBSET Lacking : Cardinality(k) <= 3}}

(* Hosts without one thing, with almost nothing, or with something broken. *)
SomeHosts == {[Usual EXCEPT !.has = Everything \ {t}] : t \in Everything}
             \cup {[Usual EXCEPT !.has = @ \cup {t}] : t \in Things \ Everything}
             \cup {[Usual EXCEPT !.has = {}, !.usual = FALSE]}

(* Homes: where HOME is, what permissions.json says, and symbolic links.   *)
SomeHomes == {[Usual EXCEPT !.usual = u, !.links = l, !.allowed = a, !.disallowed = d] :
                u \in BOOLEAN, l \in {{}, {"Documents"}}, a \in {{}, Dirs}, d \in {{}, {"Documents"}}}

(* Packages that bind a new directory, one in a directory of the base, and *)
(* one over what others have mounted.                                      *)
SomeBinds == {[Usual EXCEPT !.binds = b, !.base = Without(l)] :
                b \in {<<<<"data">>>>, <<<<"usr", "data">>>>, <<<<"usr", "share", "data">>, <<"usr", "data">>>>, <<<<"usr", "share">>>>},
                l \in {{}, {<<"usr", "share", "fonts">>}}}

AllHosts == SomeBases \cup SomeHosts \cup SomeHomes \cup SomeBinds
==============================================================================

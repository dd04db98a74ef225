-------------------------- MODULE MCTaskScheduler --------------------------
(* Instances of TaskScheduler: which requests the clients may make. *)
EXTENDS TaskScheduler

CONSTANTS r1, r2

Install(ref, ask) == [kind |-> "install", refs |-> <<ref>>, ask |-> ask]
File(ref, ask) == [kind |-> "file", refs |-> <<ref>>, ask |-> ask]
Update(refs) == [kind |-> "update", refs |-> refs, ask |-> FALSE]
Uninstall(ref) == [kind |-> "uninstall", refs |-> <<ref>>, ask |-> FALSE]

(* Single packages, with and without a question to the user. *)
Singles == {Install(r1, TRUE), Update(<<r2>>), Uninstall(r2)}

(* Every kind of request, an update of two packages included. *)
EveryKind == {Install(r1, TRUE), File(r2, TRUE), Update(<<r1, r2>>), Uninstall(r2)}

Symmetry == Permutations(Tasks)
=============================================================================

---------------------------- MODULE LayerStore ----------------------------
(***************************************************************************)
(* What RepoCache promises to whoever reads states.json, ll-cli among      *)
(* them: a durable table of layers that changes one layer at a time.  A    *)
(* layer is absent, live, or kept only for the apps still using it.        *)
(***************************************************************************)
CONSTANT Layers

VARIABLE listed

Status == {"absent", "live", "deleted"}

Init == listed = [l \in Layers |-> "absent"]

Add(l) == listed[l] = "absent" /\ listed' = [listed EXCEPT ![l] = "live"]

Remove(l) == listed[l] # "absent" /\ listed' = [listed EXCEPT ![l] = "absent"]

Mark(l, status) ==
    /\ listed[l] # "absent"
    /\ status # "absent"
    /\ listed' = [listed EXCEPT ![l] = status]

Next == \E l \in Layers : Add(l) \/ Remove(l) \/ \E s \in Status : Mark(l, s)

Spec == Init /\ [][Next]_listed
=============================================================================

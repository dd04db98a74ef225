------------------------------ MODULE Container ------------------------------
(***************************************************************************)
(* A container from ll-cli to the application: ContainerConfig writes its  *)
(* config.json and says what mounting it amounts to, then the processes of *)
(* Box start, with the mounts reduced to read-only and other ones.         *)
(***************************************************************************)
EXTENDS Box, ContainerConfig

allVars == <<vars, buildVars>>

ContainerInit == Init /\ BuildInit

(* The OCI runtime is called.  The processes need nothing more of the      *)
(* configuration than Box has.                                             *)
HandOver ==
    /\ phase = "mounted" /\ phase' = "handed"
    /\ host' = CHOOSE h \in Hosts : TRUE
    /\ next' = 1 /\ skips' = 0 /\ mounts' = <<>> /\ env' = {} /\ places' = <<>> /\ made' = <<>>

InBox(A) == phase = "handed" /\ A /\ UNCHANGED buildVars

ContainerNext ==
    \/ (BuildNext \/ HandOver) /\ UNCHANGED vars
    \/ InBox(Next)

(* As in Box; nothing is claimed to follow from the configuration.         *)
ContainerSpec ==
    /\ ContainerInit /\ [][ContainerNext]_allVars
    /\ WF_allVars(InBox(BoxStep)) /\ WF_allVars(InBox(EntryStep)) /\ WF_allVars(InBox(InitStep))
==============================================================================

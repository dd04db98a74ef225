---------------------------- MODULE JobExecutor ----------------------------
(***************************************************************************)
(* What the package manager promises about a Search or a Prune request: it *)
(* is accepted, it is executed exactly once, requests are started in the   *)
(* order they were accepted, and never more than Slots are being executed. *)
(* Nothing is said of events, counters or posted invocations: JobQueue is  *)
(* the mechanism, and is shown to implement this module.                   *)
(***************************************************************************)
EXTENDS Naturals, Sequences

CONSTANTS Jobs,   \* the requests a client may submit
          Slots   \* how many may be executing at the same time

VARIABLES waiting,    \* accepted and not started, oldest first
          executing,  \* started and not finished, in the order they started
          order       \* every accepted request, in the order of acceptance

vars == <<waiting, executing, order>>

Elems(s) == {s[i] : i \in DOMAIN s}

Init == waiting = <<>> /\ executing = <<>> /\ order = <<>>

Accept(j) ==
    /\ j \notin Elems(order)
    /\ waiting' = Append(waiting, j)
    /\ order' = Append(order, j)
    /\ UNCHANGED executing

Start ==
    /\ waiting # <<>>
    /\ Len(executing) < Slots
    /\ executing' = Append(executing, Head(waiting))
    /\ waiting' = Tail(waiting)
    /\ UNCHANGED order

(* The job that started last finishes first: a job executing below it is   *)
(* suspended in the event loop that delivered the later one.               *)
Finish ==
    /\ executing # <<>>
    /\ executing' = SubSeq(executing, 1, Len(executing) - 1)
    /\ UNCHANGED <<waiting, order>>

Next == (\E j \in Jobs : Accept(j)) \/ Start \/ Finish

SafeSpec == Init /\ [][Next]_vars

Spec == SafeSpec /\ WF_vars(Start) /\ WF_vars(Finish)
=============================================================================

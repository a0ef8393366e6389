---------------------------- MODULE FarmService ----------------------------
(***************************************************************************)
(* What the engine promises the farms of the default path, abstractly: a   *)
(* set of farms that are up and a set of farms whose traffic the kernel    *)
(* dispatches.  Every change is made on behalf of one farm f, and it may   *)
(* change f's membership of both sets but nobody else's; a farm starts     *)
(* being served only while it is up.  A restart of the service drops     *)
(* every farm's service at once.                                          *)
(***************************************************************************)
EXTENDS Naturals

CONSTANT Farms

VARIABLES up, served,
  incarnation  \* which run of the service this is, modulo 2

Init == up = {} /\ served = {} /\ incarnation = 0

\* One configuration change or rulerize call for farm f.
Step(f) ==
  /\ up' \subseteq Farms
  /\ served' \subseteq Farms
  /\ up' \ {f} = up \ {f}
  /\ served' \ {f} = served \ {f}
  /\ f \in served' \ served => f \in up'
  /\ UNCHANGED incarnation

\* A restart of the service: nothing is served until the farms are
\* started again, and every farm that was up is up again.
Restart ==
  /\ incarnation' = 1 - incarnation
  /\ served' = {}
  /\ up \subseteq up' /\ up' \subseteq Farms

Spec == Init /\ [][Restart \/ \E f \in Farms : Step(f)]_<<up, served, incarnation>>
=============================================================================

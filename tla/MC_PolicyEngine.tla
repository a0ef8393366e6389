--------------------------- MODULE MC_PolicyEngine ---------------------------
(* A dsr farm A on device E0 linked to policy P, a dsr farm B on E0 that  *)
(* never validates, a second policy Q that no farm uses, and one element X *)
(* in each policy.  The further specifications restrict the farms' inputs *)
(* to the ones a scenario needs.                                           *)
EXTENDS PolicyEngine

CONSTANTS A, B, E0, P, Q, X

MCFarms    == {A, B}
MCValid    == {A}
MCFamily   == [f \in MCFarms |-> "ipv4"]
MCMode     == [f \in MCFarms |-> "dsr"]
MCShape    == [f \in MCFarms |-> "IPPORT"]
MCNElems   == [f \in MCFarms |-> 1]
MCNBcks    == [f \in MCFarms |-> 1]
MCSrcAddr  == {}
MCIface    == [f \in MCFarms |-> E0]
MCIfLen    == [i \in {E0} |-> 4]
MCFarmPols == (A :> {P}) @@ (B :> {})
MCNoPols   == [f \in MCFarms |-> {}]

\* Farm A started and reloaded only: a configuration change of a running
\* farm (farm_set_attribute -> farm_set_action(f, ACTION_RELOAD)).
NextReload ==
  \/ SetStateP(A, "up")
  \/ SetActionP(A, "RELOAD")
  \/ \E u \in BOOLEAN : RulerizeRunPol(A, u)

SpecReload == InitP /\ [][NextReload]_varsP
MCNone     == {}                         \* no forward, flowtable or output farm
=============================================================================

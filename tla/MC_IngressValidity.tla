------------------------- MODULE MC_IngressValidity -------------------------
(* A dsr farm A and a stlsdnat farm B on one device, whose interface      *)
(* information the configuration and the backend events change.           *)
EXTENDS TLC, IngressValidity

CONSTANTS A, B, E0

MCFarms    == {A, B}
MCFamily   == [f \in MCFarms |-> "ipv4"]
MCMode     == (A :> "dsr") @@ (B :> "stlsdnat")
MCShape    == [f \in MCFarms |-> "IPPORT"]
MCOne      == [f \in MCFarms |-> 1]
MCIface    == [f \in MCFarms |-> E0]
MCIfLen    == [i \in {E0} |-> 4]         \* "eth0"
MCNone     == {}                         \* no forward, flowtable or output farm
=============================================================================

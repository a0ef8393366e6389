-------------------------- MODULE MC_IngressEngine --------------------------
(* Ingress farms on one or two devices: a dsr farm A and a stlsdnat farm B, *)
(* and for the composed run a dnat farm C of the default path.             *)
EXTENDS IngressEngine

CONSTANTS A, B, C, E0, E1

MCFarms    == {A, B}
MCFarms3   == {A, B, C}
MCFamily   == [f \in MCFarms3 |-> "ipv4"]
MCMode     == (A :> "dsr") @@ (B :> "stlsdnat") @@ (C :> "dnat")
MCModeDsr  == [f \in MCFarms3 |-> "dsr"]
MCShape    == [f \in MCFarms3 |-> "IPPORT"]
MCNElems   == [f \in MCFarms3 |-> 1]
MCNBcks    == [f \in MCFarms3 |-> 1]
MCSrcAddr  == {}
MCValid    == MCFarms3
MCIfLen    == [i \in {E0, E1} |-> 4]         \* "eth0", "eth1"
\* Devices: all on E0; B answering on E1; A and B on different devices.
MCIface    == [f \in MCFarms3 |-> E0]
MCOface    == [f \in MCFarms3 |-> E0]
MCOfaceB1  == (A :> E0) @@ (B :> E1) @@ (C :> E0)
MCIfaceB1  == (A :> E0) @@ (B :> E1) @@ (C :> E0)
MCNone     == {}                         \* no forward, flowtable or output farm
=============================================================================

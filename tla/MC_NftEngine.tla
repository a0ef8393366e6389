---------------------------- MODULE MC_NftEngine ----------------------------
(* Two farms of the default path sharing the ipv4 table: an snat farm that *)
(* masquerades and a dnat farm, both with a virtual address and port.     *)
EXTENDS NftEngine

CONSTANTS A, B

MCFarms     == {A, B}
MCFamily    == [f \in MCFarms |-> "ipv4"]
MCMode      == (A :> "snat") @@ (B :> "dnat")
MCShape     == [f \in MCFarms |-> "IPPORT"]
MCNElems    == [f \in MCFarms |-> 1]
MCNBcks     == [f \in MCFarms |-> 1]
MCNBcksB2   == (A :> 1) @@ (B :> 2)                \* B forwards to two backends
MCSrcAddr   == {}
MCValid     == MCFarms
\* Variants for the runs that exercise one code path each.
MCShapeNoPort == [f \in MCFarms |-> "IP"]           \* farms without ports
MCShapeMixed  == (A :> "IPPORT") @@ (B :> "IP")      \* one with, one without
MCSrcAddrA    == {A}                                 \* A snats to its address
MCFamilyInet  == (A :> "inet") @@ (B :> "ipv4")      \* A serves both families
MCModeDnat    == [f \in MCFarms |-> "dnat"]
MCValidA      == {A}                                 \* B never validates
MCNone     == {}                         \* no forward, flowtable or output farm
MCFarmB    == {B}                        \* B forwards through a flowtable and has output rules
=============================================================================

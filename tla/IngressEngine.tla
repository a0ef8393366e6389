---------------------------- MODULE IngressEngine ----------------------------
(***************************************************************************)
(* The ingress path of the engine (src/src/nft.c) for the farms of modes   *)
(* dsr and stlsdnat, composed with the default path of NftEngine: both     *)
(* kinds of farm share the farm state machine, the rulerize loop and the   *)
(* kernel ruleset.                                                         *)
(*                                                                         *)
(* An ingress farm is built in the netdev table: a base chain per device   *)
(* ("ingress-<iface>", and "ingress-dnat-<oface>" for stlsdnat), a service *)
(* map per device and a farm chain.  What the engine knows about the       *)
(* devices is kept in two arrays of NFTLB_MAX_IFACES entries               *)
(* (nft_base_rules.ndv_ingress_rules and ndv_ingress_dnat_rules), each     *)
(* entry holding the device name and the base rule bits built on it.  The  *)
(* arrays are modelled slot by slot, freed entries included, because       *)
(* del_ndv_base frees an entry without compacting the array.               *)
(*                                                                         *)
(* Ingress farms are ipv4 farms here: the base chain of a device is shared *)
(* by both families in the code and its per-family bits (rules_v4/v6) are  *)
(* only modelled for ipv4.  Session maps are not modelled, and neither    *)
(* are ingress policies here: the policy count is 0 (PolicyEngine adds     *)
(* them).                                                                  *)
(***************************************************************************)
EXTENDS NftEngine

CONSTANTS
  Iface,      \* Iface[f]: f->iface, the device an ingress farm listens on
  Oface,      \* Oface[f]: f->oface, the device a stlsdnat farm answers on
  IfLen,      \* IfLen[i]: strlen of device name i
  MaxIfaces   \* NFTLB_MAX_IFACES

VARIABLES
  ndv,        \* the two device arrays: [slot, n] per ingress stage
  icnt        \* service_counters of the ingress stages (ipv4)

varsI == <<vars, ndv, icnt>>

IngStages == {"ING_FILTER", "ING_DNAT"}
Ingress   == {f \in Farms : Mode[f] \in {"dsr", "stlsdnat"}}

ASSUME \A f \in Ingress : Family[f] = "ipv4"
\* The forward stage's run_base_table for the netdev table consults the
\* device arrays this module tracks; the ingress runs use no forward farm.
ASSUME Fwd = {}

\* An array slot that was never written, and a struct if_base_rule.
NoEntry == [used |-> FALSE]
Entry(i) == [used |-> TRUE, name |-> i, rules |-> {}, live |-> TRUE, size |-> IfLen[i]]

\* Kernel objects of the netdev table.
IngChain(st, i) == BaseChain("netdev", <<st, i>>)
IngMap(f, st)   == SvcMap("netdev", <<st, Iface[f]>>, Shape[f])
IngFarmChain(f, st) == FarmChain("netdev", <<st, Iface[f]>>, f)
IngElem(f, st)  == Elem("netdev", <<st, Iface[f]>>, Shape[f], f)
BackMap(f)      == MarkMap("netdev", <<"back", f>>)

\* run_base_chain: the device whose base chain a stage uses.
Dev(f, st) == IF st = "ING_FILTER" THEN Iface[f] ELSE Oface[f]

\* get_ndv_base: the first of the n_interfaces slots whose name is i, 0 if
\* none.  strcmp on a freed entry reads freed memory; e.uaf says whether
\* that memory still holds the old name.
GetNdv(e, l, i) ==
  LET ks == {k \in 1..e.ndv[l].n :
               LET x == e.ndv[l].slot[k] IN x.used /\ x.name = i /\ (x.live \/ e.uaf)}
  IN IF ks = {} THEN 0 ELSE Min(ks)

\* add_ndv_base: refused when the array is full, else a new entry at n.
AddNdv(e, l, i) ==
  IF e.ndv[l].n = MaxIfaces THEN e
  ELSE LET n == e.ndv[l].n IN
       [e EXCEPT !.ndv[l].slot[n + 1] = Entry(i), !.ndv[l].n = n + 1]

\* get_rules_applied for an ingress stage: get or add the device's entry.
GetRulesApplied(e, l, i) == IF GetNdv(e, l, i) # 0 THEN e ELSE AddNdv(e, l, i)

\* del_ndv_base: free the entry (its pointer stays in the array) and
\* decrement n_interfaces.
DelNdv(e, l, i) ==
  LET k == GetNdv(e, l, i) IN
  IF k = 0 THEN e
  ELSE [e EXCEPT !.ndv[l].slot[k].live = FALSE,
                 !.ndv[l].n = IF @ > 0 THEN @ - 1 ELSE @]

\* Mutant: the netdev table is deleted without consulting the policy count.
RunBaseTableIngNoPolicyCount(e, a) ==
  LET idle == e.ndv["ING_FILTER"].n = 0 /\ e.ndv["ING_DNAT"].n = 0 IN
  CASE a \in Stops /\ "netdev" \in e.tables /\ idle ->
         [Put(e, <<Del(Table("netdev"))>>) EXCEPT !.tables = @ \ {"netdev"}]
    [] a \in Starts /\ "netdev" \notin e.tables /\ idle ->
         [Put(e, <<Add(Table("netdev"))>>) EXCEPT !.tables = @ \cup {"netdev"}]
    [] OTHER -> e

\* run_base_table for NFTLB_F_CHAIN_ING_FILTER: the netdev table.  Its
\* delete also needs ndv_ingress_policies (e.npol) at 0; its create does not.
RunBaseTableIng(e, a) ==
  LET idle == e.ndv["ING_FILTER"].n = 0 /\ e.ndv["ING_DNAT"].n = 0 IN
  CASE a \in Stops /\ "netdev" \in e.tables /\ idle /\ e.npol = 0 ->
         [Put(e, <<Del(Table("netdev"))>>) EXCEPT !.tables = @ \ {"netdev"}]
    [] a \in Starts /\ "netdev" \notin e.tables /\ idle ->
         [Put(e, <<Add(Table("netdev"))>>) EXCEPT !.tables = @ \cup {"netdev"}]
    [] OTHER -> e

\* The two stop tests of run_base_chain on the bits of the device entry:
\* a shape whose stage counter is zero, and the chain with a zero counter.
ShapesIdle(e, st, bits) == \E b \in bits \cap Shapes : e.icnt[st][CounterKey({b})] = 0

\* Mutant: the chain is deleted without consulting its counter.
ChainIdleNoCount(e, st, bits) == "CHAIN" \in bits

ChainIdle(e, st, bits) == "CHAIN" \in bits /\ e.icnt[st][CounterKey({"CHAIN"})] = 0

\* run_base_chain for an ingress stage.  The entry of the device is got or
\* added first (a full array makes it return 1 with nothing emitted); the
\* counters it consults are those of the stage, for every device.
RunBaseChainIng(e, f, st, a) ==
  LET e0 == GetRulesApplied(e, st, Dev(f, st))
      k  == GetNdv(e0, st, Dev(f, st))
      bc == IngChain(st, Dev(f, st))
      sm == IngMap(f, st)
      sh == Shape[f]
      bits(x) == x.ndv[st].slot[k].rules
      e1 == IF ShapesIdle(e0, st, bits(e0))
            THEN [Put(e0, <<Flush(bc), Del(sm)>>) EXCEPT !.ndv[st].slot[k].rules = @ \ Shapes]
            ELSE e0
      e2 == IF ChainIdle(e1, st, bits(e1))
            THEN DelNdv([Put(e1, <<Del(bc)>>) EXCEPT !.ndv[st].slot[k].rules = @ \ {"CHAIN"}],
                        st, Iface[f])
            ELSE e1
      e3 == IF "CHAIN" \notin bits(e0)
            THEN [Put(e0, <<Add(bc)>>) EXCEPT !.ndv[st].slot[k].rules = @ \cup {"CHAIN"}]
            ELSE e0
      e4 == IF sh \notin bits(e3)
            THEN [Put(e3, <<Add(sm), Add(Rule(bc, "vmap", sm))>>)
                    EXCEPT !.ndv[st].slot[k].rules = @ \cup {sh}]
            ELSE e3
  IN CASE k = 0        -> e0
       [] a \in Stops  -> e2
       [] OTHER        -> e4

\* update_service_counters for an ingress stage.
UpdateServiceCountersIng(e, f, st, n, a) ==
  LET k == CounterKey(RulesNeeded(f))
      c == e.icnt[st][k]
  IN CASE a \in Starts -> [e EXCEPT !.icnt[st][k] = c + n]
       [] c >= n       -> [e EXCEPT !.icnt[st][k] = c - n]
       [] OTHER        -> e

\* run_farm_rules_gen_srv_map_by_protocol: f's elements of the device map.
SrvMapIng(e, f, st, a) ==
  IF NElems[f] = 0 THEN e
  ELSE UpdateServiceCountersIng(
         Put(e, <<Statement(IF a \in Starts THEN "add" ELSE "del", IngElem(f, st))>>),
         f, st, NElems[f], a)

\* Mutant: only a START records the stage; a RELOAD clears it.
RunVsrvIngStartOnly(e, f, st, a) ==
  LET has   == st \in e.chains[f]
      fc    == IngFarmChain(f, st)
      smart == CASE a = "RELOAD" /\ ~has -> "START"
                 [] a = "START" /\ has   -> "RELOAD"
                 [] a \in Stops /\ ~has  -> "NONE"
                 [] OTHER                -> a
      e1 == CASE smart = "RELOAD" -> Put(e, <<Flush(fc)>>)
              [] smart = "START"  -> SrvMapIng(Put(e, <<Add(fc)>>), f, st, a)
              [] smart \in Stops  -> Put(SrvMapIng(e, f, st, a), <<Del(fc)>>)
              [] OTHER            -> e
  IN [e1 EXCEPT !.chains[f] = IF a = "START" THEN @ \cup {st} ELSE @ \ {st}]

\* run_farm_rules_gen_vsrv for an ingress stage (the same smart action as
\* RunVsrv; nft_chains records the stage bit).
RunVsrvIng(e, f, st, a) ==
  LET has   == st \in e.chains[f]
      fc    == IngFarmChain(f, st)
      smart == CASE a = "RELOAD" /\ ~has -> "START"
                 [] a = "START" /\ has   -> "RELOAD"
                 [] a \in Stops /\ ~has  -> "NONE"
                 [] OTHER                -> a
      e1 == CASE smart = "RELOAD" -> Put(e, <<Flush(fc)>>)
              [] smart = "START"  -> SrvMapIng(Put(e, <<Add(fc)>>), f, st, a)
              [] smart \in Stops  -> Put(SrvMapIng(e, f, st, a), <<Del(fc)>>)
              [] OTHER            -> e
  IN [e1 EXCEPT !.chains[f] = IF a \in Starts THEN @ \cup {st} ELSE @ \ {st}]

\* run_farm_rules_gen_nat for dsr and stlsdnat: the forwarding rule of the
\* farm chain (stlsdnat first records the client in map-<name>-back).
GenNatIng(e, f) ==
  LET fc == IngFarmChain(f, "ING_FILTER") IN
  CASE NBcks[f] = 0 -> e
    [] Mode[f] = "dsr" -> Put(e, <<Add(Rule(fc, "fwd", NoRef))>>)
    [] OTHER -> Put(e, <<Add(Rule(fc, "update", BackMap(f))), Add(Rule(fc, "fwd", NoRef))>>)

\* run_farm_stlsnat: the return path of a stlsdnat farm on its oface.
\* run_farm_map adds the map on START only and deletes it on STOP/DELETE.
RunFarmStlsnat(e, f, a) ==
  LET mapAdd == IF a = "START" THEN <<Add(BackMap(f))>> ELSE <<>>
      rule   == Add(Rule(IngFarmChain(f, "ING_DNAT"), "dnat", BackMap(f)))
  IN CASE Mode[f] # "stlsdnat" -> e
       [] a \in Stops ->
            RunBaseChainIng(Put(RunVsrvIng(e, f, "ING_DNAT", a), <<Del(BackMap(f))>>),
                            f, "ING_DNAT", a)
       [] OTHER ->
            Put(RunVsrvIng(RunBaseChainIng(e, f, "ING_DNAT", a), f, "ING_DNAT", a),
                mapAdd \o <<rule>>)

\* run_farm_rules, case VALUE_MODE_DSR / VALUE_MODE_STLSDNAT.
RunFarmRulesIng(e, f, a) ==
  LET e1 == RunBaseChainIng(RunBaseTableIng(e, a), f, "ING_FILTER", a)
  IN GenNatIng(RunFarmStlsnat(RunVsrvIng(e1, f, "ING_FILTER", a), f, a), f)

\* del_farm_rules, branch farm_is_ingress_mode.
DelFarmRulesIng(e, f) ==
  LET e1 == RunVsrvIng(e, f, "ING_FILTER", "DELETE")
      e2 == RunFarmStlsnat(RunBaseChainIng(e1, f, "ING_FILTER", "DELETE"), f, "DELETE")
  IN RunBaseTableIng(e2, "DELETE")

BookkeepingIng(u) ==
  [tables |-> tables, chains |-> chains, ndv |-> ndv, icnt |-> icnt, npol |-> 0,
   uaf |-> u, cmds |-> <<>>]

InitI ==
  /\ Init
  /\ ndv = [l \in IngStages |-> [slot |-> [k \in 1..MaxIfaces |-> NoEntry], n |-> 0]]
  /\ icnt = [st \in IngStages |-> [sh \in Shapes |-> 0]]

\* exec_cmd on the buffer e built for farm f, then nft_actions_done: the
\* tracker updates are kept whatever the kernel answered.
ApplyIng(f, e) ==
  LET out == IF Serialize THEN RunSerial(ruleset, e.cmds) ELSE RunBatch(ruleset, e.cmds)
  IN /\ \A st \in IngStages, sh \in Shapes : e.icnt[st][sh] <= MaxSvcCount
     /\ tables' = e.tables
     /\ chains' = e.chains
     /\ ndv' = e.ndv
     /\ icnt' = e.icnt
     /\ ruleset' = out[2]
     /\ accepted' = out[1]
     /\ state' = [state EXCEPT ![f] = Revalidated(f).state]
     /\ action' = [action EXCEPT ![f] = "NONE"]
     /\ UNCHANGED <<base, cnt, valid, incarnation, ftprio>>

\* farm_rulerize -> nft_rulerize for an ingress farm: run_farm (or del_farm)
\* builds the buffer, exec_cmd runs it, nft_actions_done clears the action.
\* The action and the buffer are bound once, with \E over a singleton.
RulerizeRunIng(f, u) ==
  /\ action[f] # "NONE"
  /\ ~Unrulerizable(f)
  /\ \E a \in {Revalidated(f).action} :
     \E e \in {IF a \in Starts THEN RunFarmRulesIng(BookkeepingIng(u), f, a)
                                ELSE DelFarmRulesIng(BookkeepingIng(u), f)} :
       ApplyIng(f, e)

\* clean_rules_counters, with reset_ndv_base on both ingress lists: every
\* interface entry is freed and n_interfaces is zeroed, and the ingress
\* shape counters go back to zero.
CleanRulesCounters ==
  /\ ndv' = [l \in IngStages |-> [slot |-> [k \in 1..MaxIfaces |-> NoEntry], n |-> 0]]
  /\ icnt' = [st \in IngStages |-> [sh \in Shapes |-> 0]]

\* A restart of nftlb (NftEngine's Restart): nft_check_tables and
\* nft_reset also delete the netdev table, and clean_rules_counters
\* empties the interface lists.
RestartI == Restart /\ CleanRulesCounters

NextI ==
  \/ RestartI
  \/ \E a \in {"START", "STOP", "RELOAD"} : SetActionAll(a) /\ UNCHANGED <<ndv, icnt>>
  \/ \E f \in Farms :
       \/ /\ \/ \E a \in {"START", "STOP", "RELOAD"} : SetAction(f, a)
             \/ \E s \in {"up", "off"} : SetState(f, s)
             \/ RulerizeRefused(f)
             \/ f \notin Ingress /\ RulerizeRun(f)
          /\ UNCHANGED <<ndv, icnt>>
       \/ f \in Ingress /\ \E u \in BOOLEAN : RulerizeRunIng(f, u)

SpecI == InitI /\ [][NextI]_varsI

(***************************************************************************)
(* Properties.                                                             *)
(***************************************************************************)

\* The objects through which a packet reaches ingress farm f.
IngPath(f, st) ==
  {IngChain(st, Dev(f, st)), Rule(IngChain(st, Dev(f, st)), "vmap", IngMap(f, st)),
   IngMap(f, st), IngElem(f, st), IngFarmChain(f, st)}

IngServed(f) ==
  /\ IngPath(f, "ING_FILTER") \subseteq ruleset
  /\ Mode[f] = "stlsdnat" => IngPath(f, "ING_DNAT") \cup {BackMap(f)} \subseteq ruleset

\* The refinement mapping onto FarmService for both kinds of farm.
FSI == INSTANCE FarmService
         WITH up <- {f \in Farms : state[f] = "up"},
              incarnation <- incarnation,
              served <- {f \in Farms \ Ingress : Mode[f] # "local" /\ \A fam \in FamsOf(f) : FarmServed(f, fam)}
                        \cup {f \in Ingress : IngServed(f)}

\* Ingress and default farms together implement FarmService: starting,
\* reloading or stopping one farm never changes whether another farm,
\* on the same device or not, is served, although they share the netdev
\* table, device base chains, device service maps and stage counters.
IngressRefined == FSI!Spec

\* The kernel forwards to an ingress farm only while the engine records it
\* as built: a stop deletes the farm's elements from the device map it
\* shares with other farms before nft_chains forgets the stage, and a
\* reload leaves the stage recorded.
ServedOnlyWhenBuilt == \A f \in Ingress : IngServed(f) => "ING_FILTER" \in chains[f]

\* A device base chain stays in the kernel only while some built ingress
\* farm uses that device: run_base_chain deletes it when the last farm
\* on the device stops.
DeviceChainsUsed ==
  \A l \in IngStages : \A i \in {Dev(f, l) : f \in Ingress} :
    IngChain(l, i) \in ruleset => \E f \in Ingress : Dev(f, l) = i /\ l \in chains[f]

\* The live entries among the first n_interfaces slots of each device
\* array are exactly the devices whose base chain the kernel has, and no
\* freed entry is among them: get_ndv_base, add_ndv_base and del_ndv_base
\* keep the array in step with the chains run_base_chain adds and deletes.
NdvMatchesKernel ==
  \A l \in IngStages :
    /\ \A k \in 1..ndv[l].n : ndv[l].slot[k].used /\ ndv[l].slot[k].live
    /\ {ndv[l].slot[k].name : k \in 1..ndv[l].n} =
         {i \in {Dev(f, l) : f \in Ingress} : IngChain(l, i) \in ruleset}

\* The name buffer of every live device entry holds the name and its NUL:
\* add_ndv_base allocates it before sprintf copies the name into it.
IfnameFits ==
  \A l \in IngStages : \A k \in 1..ndv[l].n :
    ndv[l].slot[k].live => IfLen[ndv[l].slot[k].name] + 1 <= ndv[l].slot[k].size
=============================================================================

------------------------------ MODULE NftEngine ------------------------------
(***************************************************************************)
(* The nftlb rule synthesis engine (src/src/nft.c) for the farms of the    *)
(* default path (modes snat, dnat, local) together with the farm action    *)
(* state machine that drives it (src/src/farms.c).                         *)
(*                                                                         *)
(* The engine keeps process-wide bookkeeping of what it believes exists in *)
(* the kernel: the active tables (nft_base_rules.tables), the base chains  *)
(* and dispatch shapes per stage (dnat/snat/filter_rules_v4/v6), the       *)
(* service counters (service_counters) and, per farm, the stages it has    *)
(* built (f->nft_chains).  One rulerize call builds one buffer of nft      *)
(* statements from that bookkeeping, updating it as it goes, and hands the *)
(* buffer to libnftables; the resulting kernel ruleset is `ruleset`.       *)
(*                                                                         *)
(* The synthesis is written as operators over a record e with the fields   *)
(* of the bookkeeping and `cmds`, the buffer built so far, so that each    *)
(* operator is the C function it is named after.                           *)
(***************************************************************************)
EXTENDS Integers, FiniteSets, NftRuleset, FarmActions

CONSTANTS
  Family,       \* Family[f] \in {"ipv4", "ipv6", "inet"}
  Mode,         \* Mode[f] \in {"snat", "dnat", "local"}
  Shape,        \* "IP": no port, "PORT": no virtual address, "IPPORT": both
  NElems,       \* elements a farm puts in a service map (ports x protocols)
  NBcks,        \* usable backends of a farm
  SrcAddr,      \* farms with a source address (no masquerade)
  Serialize,    \* the global `serialize` option
  MaxSvcCount,  \* bound on every service counter
  Fwd,          \* need_forward: farms that log forward or offload flows
  Flow,         \* farm_needs_flowtable: farms with flow offload (in Fwd)
  Out,          \* need_output: farms with intra-connect
  MaxFtPrio     \* bound on nftlb_flowtable_prio

VARIABLES tables, base, cnt, chains, ruleset, accepted,
  incarnation, \* which run of the nftlb process this is, modulo 2
  ftprio       \* nftlb_flowtable_prio above NFTLB_FLOWTABLE_BASE_PRIO

vars == <<tables, base, cnt, chains, action, state, valid, ruleset, accepted, incarnation, ftprio>>

ASSUME Flow \subseteq Fwd

Fams    == {"ipv4", "ipv6"}
Stages  == {"PRE_DNAT", "POS_SNAT", "PRE_FILTER", "FWD_FILTER", "OUT_FILTER", "OUT_DNAT"}
Shapes  == {"IP", "PORT", "IPPORT"}
Bits    == {"CHAIN"} \cup Shapes        \* NFTLB_IP_ACTIVE is "CHAIN"
\* run_farm / del_farm: the families a farm is built for, IPv4 first.
FamSeq(f) == CASE Family[f] = "ipv4" -> <<"ipv4">>
               [] Family[f] = "ipv6" -> <<"ipv6">>
               [] Family[f] = "inet" -> <<"ipv4", "ipv6">>

FamsOf(f) == ToSet(FamSeq(f))

Masquerade(f) == Mode[f] \in {"snat", "local"} /\ f \notin SrcAddr

\* farm_get_mark differs from DEFAULT_MARK (f->mark itself is the default).
Marked(f) == Masquerade(f)

\* Backend elements of the postrouting mark map: none when the backend
\* marks carry the masquerade bit.
SnatElems(f) == IF Masquerade(f) THEN 0 ELSE NBcks[f]

RulesNeeded(f) == {"CHAIN", Shape[f]}

\* get_service_counter: the counter a set of rule bits is looked up in.
CounterKey(bits) == IF "PORT" \in bits THEN "PORT"
                    ELSE IF "IP" \in bits THEN "IP"
                    ELSE "IPPORT"

Add(o)   == Statement("add", o)
Del(o)   == Statement("del", o)
Flush(o) == Statement("flush", o)
Put(e, s) == [e EXCEPT !.cmds = @ \o s]

\* Mutant: the table's bit is not cleared when the table is deleted.
RunBaseTableKeepBit(e, st, fam, a) ==
  LET idle == e.base[fam]["PRE_DNAT"] = {} /\ e.base[fam]["PRE_FILTER"] = {}
  IN CASE st \notin {"PRE_DNAT", "PRE_FILTER"} -> e
       [] a \in Stops /\ fam \in e.tables /\ idle -> Put(e, <<Del(Table(fam))>>)
       [] a \in Starts /\ fam \notin e.tables /\ idle ->
            [Put(e, <<Add(Table(fam))>>) EXCEPT !.tables = @ \cup {fam}]
       [] OTHER -> e

RunBaseTable(e, st, fam, a) ==
  LET idle == e.base[fam]["PRE_DNAT"] = {} /\ e.base[fam]["PRE_FILTER"] = {}
  IN CASE st \notin {"PRE_DNAT", "PRE_FILTER"} -> e
       [] a \in Stops /\ fam \in e.tables /\ idle ->
            [Put(e, <<Del(Table(fam))>>) EXCEPT !.tables = @ \ {fam}]
       [] a \in Starts /\ fam \notin e.tables /\ idle ->
            [Put(e, <<Add(Table(fam))>>) EXCEPT !.tables = @ \cup {fam}]
       [] OTHER -> e

\* The fixed rules of a base chain: filter_ctmark, postrouting_masquerade
\* and postrouting_bckmark (its mark map is named after f's shape).
ChainHead(f, st, fam) ==
  LET bc == BaseChain(fam, st) IN
  IF st = "PRE_FILTER" THEN <<Add(Rule(bc, "ctmark", NoRef))>>
  ELSE IF st = "POS_SNAT"
       THEN <<Add(Rule(bc, "masq", NoRef)), Add(MarkMap(fam, Shape[f])),
              Add(Rule(bc, "bckmark", MarkMap(fam, Shape[f])))>>
       ELSE <<>>

\* Mutant: the base chain is not flushed before its service map is deleted.
RunBaseChainStopNoFlush(e, f, st, fam) ==
  LET bc == BaseChain(fam, st)
      sh == Shape[f]
      e1 == IF \E x \in e.base[fam][st] \cap Shapes : e.cnt[fam][st][CounterKey({x})] = 0
            THEN [Put(e, ChainHead(f, st, fam) \o <<Del(SvcMap(fam, st, sh))>>)
                    EXCEPT !.base[fam][st] = @ \ Shapes]
            ELSE e
      drop == st # "POS_SNAT" /\ "CHAIN" \in e1.base[fam][st]
                /\ e1.cnt[fam][st][CounterKey({"CHAIN"})] = 0
  IN CASE drop /\ st = "PRE_DNAT" ->
            [Put(e1, <<Del(bc), Del(BaseChain(fam, "POS_SNAT")), Del(MarkMap(fam, sh))>>)
               EXCEPT !.base[fam][st] = @ \ {"CHAIN"}, !.base[fam]["POS_SNAT"] = {}]
       [] drop -> [Put(e1, <<Del(bc)>>) EXCEPT !.base[fam][st] = @ \ {"CHAIN"}]
       [] OTHER -> e1

RunBaseChainStop(e, f, st, fam) ==
  LET bc == BaseChain(fam, st)
      sh == Shape[f]
      e1 == IF \E x \in e.base[fam][st] \cap Shapes : e.cnt[fam][st][CounterKey({x})] = 0
            THEN [Put(e, <<Flush(bc)>> \o ChainHead(f, st, fam) \o <<Del(SvcMap(fam, st, sh))>>)
                    EXCEPT !.base[fam][st] = @ \ Shapes]
            ELSE e
      drop == st # "POS_SNAT" /\ "CHAIN" \in e1.base[fam][st]
                /\ e1.cnt[fam][st][CounterKey({"CHAIN"})] = 0
  IN CASE drop /\ st = "PRE_DNAT" ->
            [Put(e1, <<Del(bc), Del(BaseChain(fam, "POS_SNAT")), Del(MarkMap(fam, sh))>>)
               EXCEPT !.base[fam][st] = @ \ {"CHAIN"}, !.base[fam]["POS_SNAT"] = {}]
       [] drop -> [Put(e1, <<Del(bc)>>) EXCEPT !.base[fam][st] = @ \ {"CHAIN"}]
       [] OTHER -> e1

RunBaseChainStart(e, f, st, fam) ==
  LET bc == BaseChain(fam, st)
      sh == Shape[f]
      e1 == IF "CHAIN" \notin e.base[fam][st]
            THEN [Put(e, <<Add(bc)>> \o ChainHead(f, st, fam))
                    EXCEPT !.base[fam][st] = @ \cup {"CHAIN"}]
            ELSE e
      tag == IF st = "POS_SNAT" THEN "snat" ELSE "vmap"
      wanted == st # "POS_SNAT" \/ (Mode[f] = "snat" /\ ~Masquerade(f))
  IN IF sh \notin e1.base[fam][st] /\ wanted
     THEN [Put(e1, <<Add(SvcMap(fam, st, sh)), Add(Rule(bc, tag, SvcMap(fam, st, sh)))>>)
             EXCEPT !.base[fam][st] = @ \cup {sh}]
     ELSE e1

RunBaseChain(e, f, st, fam, a) ==
  IF a \in Stops THEN RunBaseChainStop(e, f, st, fam) ELSE RunBaseChainStart(e, f, st, fam)

\* Mutant: the decrement is not guarded against a counter below qty.
UpdateServiceCountersUnguarded(e, f, st, fam, n, a) ==
  LET k == CounterKey(RulesNeeded(f))
      c == e.cnt[fam][st][k]
  IN IF a \in Starts THEN [e EXCEPT !.cnt[fam][st][k] = c + n]
                     ELSE [e EXCEPT !.cnt[fam][st][k] = c - n]

\* Mutant: elements added by a RELOAD are not counted.
UpdateServiceCountersStartOnly(e, f, st, fam, n, a) ==
  LET k == CounterKey(RulesNeeded(f))
      c == e.cnt[fam][st][k]
  IN CASE a = "START" -> [e EXCEPT !.cnt[fam][st][k] = c + n]
       [] a \in Stops /\ c >= n -> [e EXCEPT !.cnt[fam][st][k] = c - n]
       [] OTHER -> e

UpdateServiceCounters(e, f, st, fam, n, a) ==
  LET k == CounterKey(RulesNeeded(f))
      c == e.cnt[fam][st][k]
  IN CASE a \in Starts -> [e EXCEPT !.cnt[fam][st][k] = c + n]
       [] c >= n       -> [e EXCEPT !.cnt[fam][st][k] = c - n]
       [] OTHER        -> e

\* run_farm_rules_gen_srv_map_by_protocol: the farm's elements of the
\* stage's service map (keyed by backend mark in postrouting).
\* The forward map is keyed by backend mark: one element per usable
\* backend (their marks differ from DEFAULT_MARK).
SrvMap(e, f, st, fam, a) ==
  LET n  == CASE st = "POS_SNAT"   -> SnatElems(f)
              [] st = "FWD_FILTER" -> NBcks[f]
              [] OTHER             -> NElems[f]
      o  == IF st = "POS_SNAT" THEN MarkElem(fam, Shape[f], f) ELSE Elem(fam, st, Shape[f], f)
      op == IF a \in Starts THEN "add" ELSE "del"
  IN IF n = 0 THEN e
     ELSE UpdateServiceCounters(Put(e, <<Statement(op, o)>>), f, st, fam, n, a)

\* run_farm_rules_gen_chain: the farm chain of a stage; the output stages
\* use the prerouting farm chains and leave them alone.
GenChain(e, f, st, fam, op) ==
  IF st \in {"OUT_FILTER", "OUT_DNAT"} THEN e
  ELSE Put(e, <<Statement(op, FarmChain(fam, st, f))>>)

\* Mutant: a reload of a built stage also regenerates its elements.
RunVsrvRecount(e, f, st, fam, a) ==
  LET has   == st \in e.chains[f]
      smart == CASE a = "RELOAD" /\ ~has -> "START"
                 [] a = "START" /\ has   -> "RELOAD"
                 [] a \in Stops /\ ~has  -> "NONE"
                 [] OTHER                -> a
      e1 == CASE smart = "RELOAD" -> SrvMap(GenChain(e, f, st, fam, "flush"), f, st, fam, a)
              [] smart = "START"  -> SrvMap(GenChain(e, f, st, fam, "add"), f, st, fam, a)
              [] smart \in Stops  -> GenChain(SrvMap(e, f, st, fam, a), f, st, fam, "del")
              [] OTHER            -> e
  IN [e1 EXCEPT !.chains[f] = IF a \in Starts THEN @ \cup {st} ELSE @ \ {st}]

RunVsrv(e, f, st, fam, a) ==
  LET has   == st \in e.chains[f]
      smart == CASE a = "RELOAD" /\ ~has -> "START"
                 [] a = "START" /\ has   -> "RELOAD"
                 [] a \in Stops /\ ~has  -> "NONE"
                 [] OTHER                -> a
      e1 == CASE smart = "RELOAD" -> GenChain(e, f, st, fam, "flush")
              [] smart = "START"  -> SrvMap(GenChain(e, f, st, fam, "add"), f, st, fam, a)
              [] smart \in Stops  -> GenChain(SrvMap(e, f, st, fam, a), f, st, fam, "del")
              [] OTHER            -> e
  IN [e1 EXCEPT !.chains[f] = IF a \in Starts THEN @ \cup {st} ELSE @ \ {st}]

\* run_farm_rules_filter_marks: the ct mark rule of the farm filter chain.
\* Mutant: the mark rule is regenerated on RELOAD only.
FilterMarksOnReload(e, f, fam, a) ==
  IF a = "RELOAD" /\ Marked(f)
  THEN Put(e, <<Add(Rule(FarmChain(fam, "PRE_FILTER", f), "marks", NoRef))>>)
  ELSE e

FilterMarks(e, f, fam, a) ==
  IF a \in Starts /\ Marked(f)
  THEN Put(e, <<Add(Rule(FarmChain(fam, "PRE_FILTER", f), "marks", NoRef))>>)
  ELSE e

RunFarmRulesFilter(e, f, fam, a) ==
  CASE Mode[f] = "local" -> e
    [] a \in Starts ->
         FilterMarks(RunVsrv(RunBaseChain(RunBaseTable(e, "PRE_FILTER", fam, "START"),
                                          f, "PRE_FILTER", fam, "START"),
                             f, "PRE_FILTER", fam, a), f, fam, a)
    [] OTHER ->
         RunBaseTable(RunBaseChain(RunVsrv(e, f, "PRE_FILTER", fam, a),
                                   f, "PRE_FILTER", fam, a), "PRE_FILTER", fam, a)

\* run_farm_rules_gen_nat: the dnat rule of the farm nat chain.
GenNat(e, f, fam) ==
  IF NBcks[f] = 0 THEN e
  ELSE Put(e, <<Add(Rule(FarmChain(fam, "PRE_DNAT", f), "dnat", NoRef))>>)

RunFarmSnat(e, f, fam, a) ==
  IF Mode[f] # "snat" THEN e ELSE SrvMap(e, f, "POS_SNAT", fam, a)

\* run_base_table for NFTLB_F_CHAIN_ING_FILTER with RELOAD, as the forward
\* stage calls it: the netdev table is created when its bit is clear (the
\* device arrays it also consults are empty on the default path).
RunBaseTableNetdev(e) ==
  IF "netdev" \in e.tables THEN e
  ELSE [Put(e, <<Add(Table("netdev"))>>) EXCEPT !.tables = @ \cup {"netdev"}]

\* run_farm_flowtable: the farm's flowtable (its devices are those of the
\* farm, which has an input interface since it validates); START adds it
\* at nftlb_flowtable_prio++, STOP deletes it and decrements the priority.
RunFarmFlowtable(e, f, fam, a) ==
  CASE f \notin Flow -> e
    [] a = "START"  -> Put(e, <<Add(FlowTable(fam, f))>>)
    [] a \in Stops  -> Put(e, <<Del(FlowTable(fam, f))>>)
    [] OTHER        -> e

\* nftlb_flowtable_prio after a buffer: one up for every flowtable added,
\* one down for every flowtable deleted, whatever the kernel answers.
FlowtablePrio(p, cmds) ==
  LET n(op) == Len(SelectSeq(cmds, LAMBDA s : s.op = op /\ Kind(s.obj) = "ftable"))
  IN p + n("add") - n("del")

\* run_farm_gen_flowtable_rules: the rule of the forward farm chain that
\* offloads the farm's flows to its flowtable.
RunFarmGenFlowtableRules(e, f, fam) ==
  IF f \notin Flow THEN e
  ELSE Put(e, <<Add(Rule(FarmChain(fam, "FWD_FILTER", f), "flow", FlowTable(fam, f)))>>)

\* run_farm_rules_forward (the log rules of the chain are left out).  A
\* RELOAD starts with run_base_table for the netdev table.
RunFarmRulesForward(e, f, fam, a) ==
  LET st == "FWD_FILTER" IN
  CASE f \notin Fwd -> e
    [] a = "START" ->
         RunFarmGenFlowtableRules(
           RunFarmFlowtable(RunVsrv(RunBaseChain(e, f, st, fam, a), f, st, fam, a), f, fam, a),
           f, fam)
    [] a = "RELOAD" ->
         RunFarmGenFlowtableRules(
           RunVsrv(RunBaseChain(RunBaseTableNetdev(e), f, st, fam, a), f, st, fam, a), f, fam)
    [] OTHER ->
         RunBaseChain(RunFarmFlowtable(RunVsrv(e, f, st, fam, a), f, fam, a), f, st, fam, a)

\* run_farm_rules_output: the output filter and output nat stages, whose
\* service maps jump to the prerouting farm chains.
RunFarmRulesOutput(e, f, fam, a) ==
  LET of == "OUT_FILTER"
      od == "OUT_DNAT"
  IN CASE f \notin Out -> e
       [] a \in Starts ->
            RunVsrv(RunBaseChain(RunVsrv(RunBaseChain(e, f, of, fam, a), f, of, fam, a),
                                 f, od, fam, a), f, od, fam, a)
       [] OTHER ->
            RunBaseChain(RunBaseChain(RunVsrv(RunVsrv(e, f, of, fam, a), f, od, fam, a),
                                      f, of, fam, a), f, od, fam, a)

RunFarmRules(e, f, fam, a) ==
  IF Mode[f] = "local" THEN RunFarmRulesFilter(e, f, fam, a)
  ELSE LET e1 == RunBaseTable(e, "PRE_DNAT", fam, a)
           e2 == RunBaseChain(e1, f, "PRE_DNAT", fam, a)
           e3 == RunBaseChain(e2, f, "POS_SNAT", fam, a)
           e4 == RunFarmRulesFilter(e3, f, fam, a)
           e5 == GenNat(RunVsrv(e4, f, "PRE_DNAT", fam, a), f, fam)
           e6 == RunFarmRulesOutput(RunFarmRulesForward(e5, f, fam, a), f, fam, a)
       IN RunFarmSnat(e6, f, fam, a)

\* Mutant: the table is not released after the last farm of the family.
DelFarmRulesKeepTable(e, f, fam) ==
  LET e0 == IF e.chains[f] \cap {"OUT_FILTER", "OUT_DNAT"} # {}
            THEN RunFarmRulesOutput(e, f, fam, "DELETE") ELSE e
      ef == IF "PRE_FILTER" \in e0.chains[f]
            THEN RunFarmRulesFilter(e0, f, fam, "DELETE") ELSE e0
      e1 == IF "FWD_FILTER" \in ef.chains[f]
            THEN RunFarmRulesForward(ef, f, fam, "DELETE") ELSE ef
      e2 == RunBaseChain(RunFarmSnat(e1, f, fam, "DELETE"), f, "POS_SNAT", fam, "DELETE")
  IN RunBaseChain(RunVsrv(e2, f, "PRE_DNAT", fam, "DELETE"), f, "PRE_DNAT", fam, "DELETE")

\* Mutant: the forward stage is not torn down.
DelFarmRulesKeepForward(e, f, fam) ==
  LET e0 == IF e.chains[f] \cap {"OUT_FILTER", "OUT_DNAT"} # {}
            THEN RunFarmRulesOutput(e, f, fam, "DELETE") ELSE e
      e1 == IF "PRE_FILTER" \in e0.chains[f]
            THEN RunFarmRulesFilter(e0, f, fam, "DELETE") ELSE e0
      e2 == RunBaseChain(RunFarmSnat(e1, f, fam, "DELETE"), f, "POS_SNAT", fam, "DELETE")
      e3 == RunBaseChain(RunVsrv(e2, f, "PRE_DNAT", fam, "DELETE"), f, "PRE_DNAT", fam, "DELETE")
  IN RunBaseTable(e3, "PRE_DNAT", fam, "DELETE")

DelFarmRules(e, f, fam) ==
  LET e0 == IF e.chains[f] \cap {"OUT_FILTER", "OUT_DNAT"} # {}
            THEN RunFarmRulesOutput(e, f, fam, "DELETE") ELSE e
      ef == IF "PRE_FILTER" \in e0.chains[f]
            THEN RunFarmRulesFilter(e0, f, fam, "DELETE") ELSE e0
      e1 == IF "FWD_FILTER" \in ef.chains[f]
            THEN RunFarmRulesForward(ef, f, fam, "DELETE") ELSE ef
      e2 == RunBaseChain(RunFarmSnat(e1, f, fam, "DELETE"), f, "POS_SNAT", fam, "DELETE")
      e3 == RunBaseChain(RunVsrv(e2, f, "PRE_DNAT", fam, "DELETE"), f, "PRE_DNAT", fam, "DELETE")
  IN RunBaseTable(e3, "PRE_DNAT", fam, "DELETE")

\* run_farm and del_farm: every family of the farm, in order.
RECURSIVE ForFams(_, _, _, _)
ForFams(e, f, a, fs) ==
  IF fs = <<>> THEN e
  ELSE ForFams(IF a \in Starts THEN RunFarmRules(e, f, Head(fs), a)
                               ELSE DelFarmRules(e, f, Head(fs)), f, a, Tail(fs))

Bookkeeping == [tables |-> tables, base |-> base, cnt |-> cnt, chains |-> chains, cmds |-> <<>>]

(***************************************************************************)
(* The engine driven by the farm action state machine of FarmActions.     *)
(***************************************************************************)

Init ==
  /\ tables = {}
  /\ base = [fam \in Fams |-> [st \in Stages |-> {}]]
  /\ cnt = [fam \in Fams |-> [st \in Stages |-> [sh \in Shapes |-> 0]]]
  /\ chains = [f \in Farms |-> {}]
  /\ FarmInit
  /\ ruleset = {}
  /\ accepted = TRUE
  /\ incarnation = 0
  /\ ftprio = 0

\* The configuration changes and farm_rulerize refusing a farm leave the
\* engine's bookkeeping and the kernel alone.
SetAction(f, a) == FarmSetAction(f, a) /\ UNCHANGED <<tables, base, cnt, chains, ruleset, accepted, incarnation, ftprio>>

SetActionAll(a) == FarmSetActionAll(a) /\ UNCHANGED <<tables, base, cnt, chains, ruleset, accepted, incarnation, ftprio>>

SetState(f, new) == FarmSetState(f, new) /\ UNCHANGED <<tables, base, cnt, chains, ruleset, accepted, incarnation, ftprio>>

RulerizeRefused(f) == FarmRefused(f) /\ UNCHANGED <<tables, base, cnt, chains, ruleset, accepted, incarnation, ftprio>>

\* farm_rulerize -> nft_rulerize: build the buffer, run it with
\* exec_cmd (whose error is only logged), then nft_actions_done.  The
\* buffer and the kernel's answer are bound once, with \E over a singleton.
RulerizeRun(f) ==
  LET r == Revalidated(f) IN
  /\ action[f] # "NONE"
  /\ ~Unrulerizable(f)
  /\ \E e \in {ForFams(Bookkeeping, f, r.action, FamSeq(f))} :
     \E out \in {IF Serialize THEN RunSerial(ruleset, e.cmds) ELSE RunBatch(ruleset, e.cmds)} :
       /\ \A fam \in Fams, st \in Stages, sh \in Shapes : e.cnt[fam][st][sh] <= MaxSvcCount
       /\ tables' = e.tables
       /\ base' = e.base
       /\ cnt' = e.cnt
       /\ chains' = e.chains
       /\ ruleset' = out[2]
       /\ accepted' = out[1]
       /\ state' = [state EXCEPT ![f] = r.state]
       /\ action' = [action EXCEPT ![f] = "NONE"]
       /\ FlowtablePrio(ftprio, e.cmds) \in -MaxFtPrio..MaxFtPrio
       /\ ftprio' = FlowtablePrio(ftprio, e.cmds)
       /\ UNCHANGED <<valid, incarnation>>

\* nft_reset (called by the embedding program, not by farms.c): delete the
\* table of every family with base rules, then clean_rules_counters, which
\* clears the per-stage bits but neither nft_base_rules.tables, the
\* service counters nor any farm's nft_chains.
NftReset ==
  LET cmds == SetToSeq({Del(Table(fam)) : fam \in {x \in Fams : \E st \in Stages : base[x][st] # {}}})
      out  == IF Serialize THEN RunSerial(ruleset, cmds) ELSE RunBatch(ruleset, cmds)
  IN /\ base' = [fam \in Fams |-> [st \in Stages |-> {}]]
     /\ ruleset' = out[2]
     /\ accepted' = out[1]
     /\ UNCHANGED <<tables, cnt, chains, action, state, valid, incarnation, ftprio>>

\* Mutant: nft_check_tables does not look for the ip table.
CheckTablesNoIpv4(rs) == {fam \in {"ipv6", "netdev"} : Table(fam) \in rs}

\* nft_check_tables: the families whose nftlb table the kernel lists.  For
\* them dnat_rules_v4, dnat_rules_v6 and ndv_ingress_rules.n_interfaces
\* become non-zero, which is exactly what makes nft_reset delete them.
CheckTables(rs) == {fam \in {"ipv4", "ipv6", "netdev"} : Table(fam) \in rs}

\* A restart of nftlb, at any point: the new process starts with the
\* tracker and the farms zeroed (static storage, farm_create); the kernel
\* keeps what the old one left.  nft_check_tables finds the old tables, and
\* main, on finding one, calls nft_reset, whose batch deletes them and
\* whose clean_rules_counters zeroes the bits again.  The configuration is
\* then loaded: each farm configured up gets farm_set_state(up), a START.
Restart ==
  LET cmds == SetToSeq({Del(Table(fam)) : fam \in CheckTables(ruleset)})
      out  == IF Serialize THEN RunSerial(ruleset, cmds) ELSE RunBatch(ruleset, cmds)
  IN /\ tables' = {}
     /\ base' = [fam \in Fams |-> [st \in Stages |-> {}]]
     /\ cnt' = [fam \in Fams |-> [st \in Stages |-> [sh \in Shapes |-> 0]]]
     /\ chains' = [f \in Farms |-> {}]
     /\ ruleset' = out[2]
     /\ accepted' = out[1]
     /\ state' = [f \in Farms |-> IF state[f] = "off" THEN "off" ELSE "up"]
     /\ action' = [f \in Farms |-> IF state[f] = "off" THEN "NONE" ELSE "START"]
     /\ incarnation' = 1 - incarnation
     /\ ftprio' = 0
     /\ UNCHANGED valid

Next ==
  \/ Restart
  \/ \E a \in {"START", "STOP", "RELOAD"} : SetActionAll(a)
  \/ \E f \in Farms :
       \/ \E a \in {"START", "STOP", "RELOAD"} : SetAction(f, a)
       \/ \E s \in {"up", "off"} : SetState(f, s)
       \/ RulerizeRefused(f)
       \/ RulerizeRun(f)

\* farm_s_rulerize calls farm_rulerize on every farm after each
\* configuration change is applied: farm_rulerize is weakly fair, whether
\* it refuses the farm or builds it.
Spec == Init /\ [][Next]_vars /\ \A f \in Farms : WF_vars(RulerizeRefused(f) \/ RulerizeRun(f))

\* The same system with nft_reset called at any point.
SpecReset == Init /\ [][Next \/ NftReset]_vars

(***************************************************************************)
(* Properties.                                                             *)
(***************************************************************************)

TypeOK ==
  /\ tables \subseteq Fams \cup {"netdev"}
  /\ base \in [Fams -> [Stages -> SUBSET Bits]]
  /\ cnt \in [Fams -> [Stages -> [Shapes -> Nat]]]
  /\ chains \in [Farms -> SUBSET Stages]
  /\ action \in [Farms -> Actions]
  /\ state \in [Farms -> States]
  /\ accepted \in BOOLEAN
  /\ incarnation \in {0, 1}
  /\ ftprio \in -MaxFtPrio..MaxFtPrio

\* The path a packet for farm f takes through a stage: the base chain,
\* its dispatch rule, the shape's service map, f's elements in it and the
\* chain of f they jump to (a prerouting chain for the output stages).
StagePath(f, fam, st) ==
  LET sm == SvcMap(fam, st, Shape[f]) IN
  {BaseChain(fam, st), Rule(BaseChain(fam, st), "vmap", sm), sm,
   Elem(fam, st, Shape[f], f), FarmChain(fam, ChainStage(st), f)}

\* The forward and output stages a farm needs (need_forward, need_output).
ExtraStages(f) ==
  (IF f \in Fwd THEN {"FWD_FILTER"} ELSE {}) \cup (IF f \in Out THEN {"OUT_FILTER", "OUT_DNAT"} ELSE {})

FarmServed(f, fam) ==
  \A st \in {"PRE_DNAT", "PRE_FILTER"} : StagePath(f, fam, st) \subseteq ruleset

\* Every buffer nft_rulerize hands to nft_run_cmd_from_buffer is accepted:
\* the bookkeeping never makes the engine add into, flush or delete an
\* object the kernel does not have (exec_cmd only logs the error).
BatchAccepted == accepted

\* A snat/dnat farm is reachable through both prerouting stages of each of
\* its families exactly when f->nft_chains says it is built: stopping one
\* farm never tears down the base chains, service maps or dispatch rules
\* another farm still uses (the reference counting of run_base_chain).
DispatchMatchesFarms ==
  \A f \in Farms : \A fam \in FamsOf(f) :
    Mode[f] # "local" => ("PRE_DNAT" \in chains[f] <=> FarmServed(f, fam))

\* A farm that forwards, or has output rules, is reachable through the
\* forward hook and both output hooks exactly while its prerouting stages
\* are built: run_farm_rules builds these stages after the nat chain,
\* del_farm_rules tears them down from the per-stage bits, and the output
\* maps jump to prerouting chains that a STOP deletes after them.
ExtraStagesMatchFarms ==
  \A f \in Farms : \A fam \in FamsOf(f) : \A st \in ExtraStages(f) :
    Mode[f] # "local" => ("PRE_DNAT" \in chains[f] <=> StagePath(f, fam, st) \subseteq ruleset)

\* The nftlb table of a family exists exactly while some farm of that
\* family has stages built (run_base_table creates it with the first farm
\* and deletes it after the last one).
TableRefcount ==
  \A fam \in Fams :
    Table(fam) \in ruleset <=> \E f \in Farms : fam \in FamsOf(f) /\ chains[f] # {}

\* The tables the engine believes exist (nft_base_rules.tables) are the
\* tables the kernel has: run_base_table adds a table only when its bit is
\* clear and deletes it only when set, so a stale bit makes the engine add
\* chains into a missing table or never release an existing one.
TablesTracked == \A fam \in Fams : fam \in tables <=> Table(fam) \in ruleset

\* Once no action is pending, a farm that is not up has no stage built:
\* setting a running farm off queues a STOP (farm_set_state), and
\* farm_set_action must not let that STOP be lost before farm_rulerize.
OffFarmsTornDown ==
  \A f \in Farms : action[f] = "NONE" /\ state[f] # "up" => chains[f] = {}

\* Elements the kernel holds for farm f in the (fam, st) service map (one
\* per backend mark in the forward map).
KernelElems(f, fam, st) ==
  CASE st = "POS_SNAT" /\ MarkElem(fam, Shape[f], f) \in ruleset -> SnatElems(f)
    [] st = "FWD_FILTER" /\ Elem(fam, st, Shape[f], f) \in ruleset -> NBcks[f]
    [] st # "POS_SNAT" /\ Elem(fam, st, Shape[f], f) \in ruleset -> NElems[f]
    [] OTHER -> 0

\* Each service counter equals the number of elements the kernel holds in
\* the service maps it counts: update_service_counters adds what a start
\* or reload emits and subtracts what a stop deletes, and run_base_chain
\* relies on a zero counter meaning an empty map.
CounterMatchesKernel ==
  \A fam \in Fams, st \in Stages, sh \in Shapes :
    cnt[fam][st][sh] =
      MapThenSumSet(LAMBDA f : IF Shape[f] = sh THEN KernelElems(f, fam, st) ELSE 0, Farms)

\* A START of a farm that is already running (smart dispatch turns it into
\* a reload of its chains) leaves the kernel ruleset as it was.
StartIdempotent ==
  [][\A f \in Farms :
       (action[f] = "START" /\ "PRE_DNAT" \in chains[f] /\ RulerizeRun(f))
          => ruleset' = ruleset]_vars

\* The refinement mapping onto the abstract service of FarmService: the
\* farms whose state is up, and the snat/dnat farms the kernel dispatches
\* in every family they are built for.
FS == INSTANCE FarmService
        WITH up <- {f \in Farms : state[f] = "up"},
             incarnation <- incarnation,
             served <- {f \in Farms : Mode[f] # "local" /\ \A fam \in FamsOf(f) : FarmServed(f, fam)}

\* The engine implements FarmService: a rulerize call or a configuration
\* change of one farm never starts or stops the service of another farm
\* (shared base chains, service maps and tables are reference counted),
\* and a farm becomes served only while it is up.
FarmServiceRefined == FS!Spec

=============================================================================

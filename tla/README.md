# TLA+ models of nftlb

This directory holds TLA+ models of the nftlb control plane in `src/`. nftlb turns
farms (virtual services) into nftables statements. It keeps the kernel ruleset in step
as farms are started, reloaded, stopped and deleted. The models are checked with TLC.

## 1. The system

| Part | Source | State | Operations |
|---|---|---|---|
| Farm action/state machine | `src/src/farms.c`, `src/src/config.c` | per farm: `state` (up/down/off/conferr), `action` (pending START/STOP/RELOAD/DELETE/NONE) | `farm_set_state`, `farm_set_action`, `farm_rulerize`, `farm_s_rulerize`, the `state`/`action`/`weight` configuration keys |
| Rule synthesis engine | `src/src/nft.c` | none of its own: it reads the farm and writes the tracker and the buffer | `nft_rulerize` → `run_farm`/`del_farm` → `run_farm_rules` → base table, base chains, per-farm chains (`run_farm_rules_gen_vsrv`), service elements, nat, filter, snat, forward, output, ingress, sessions, policies |
| Base-topology tracker | `src/src/nft.c` (`nft_base_rules`, `service_counters`, `f->nft_chains`) | table bits per family; per stage and family a bitmask of the base chain (`NFTLB_IP_ACTIVE`) and the dispatch shapes built (IP, PORT, IP+PORT); element counters per shape; per farm the stages built | `run_base_table`, `run_base_chain`, `update_service_counters`, `nft_reset`, `nft_check_tables` |
| Forward, output and flowtable stages | `src/src/nft.c` (`run_farm_rules_forward`, `run_farm_rules_output`, `run_farm_flowtable`) | `nftlb_flowtable_prio`; the FWD and OUT bits of `nft_base_rules` and `f->nft_chains` | a forward chain whose map is keyed by backend mark, a flowtable and its `flow add` rule; output filter and nat maps that jump to the prerouting farm chains |
| Command buffer | `src/utils/src/u_sbuffer.c` | `size`, `next`, `data` | create, concat (with resize), reset, clean |
| Execution backend adapter | `src/src/nft.c` `exec_cmd*` | a libnftables context | run a buffer as one transaction, or, with `serialize`, each statement as it is written |
| Weighted backend map | `src/src/nft.c` `run_farm_rules_gen_bck_map` | the farm's backend list | generate `numgen ... map { lo-hi : backend }` |
| Policies | `src/src/nft.c` (`run_policy_set`, `run_set_elements`, `run_farm_ingress_policies`), `src/src/farms.c` (`policies_action`), `src/src/config.c` | per policy a pending action and its elements' actions; `ndv_ingress_policies`; per farm `policies_action` | `nft_rulerize_policies`, the policy and element `action` keys, the farm's policy rules built by `run_farm_rules` |

**How the parts interact.** The configuration layer sets a farm's state and pending
action through `farm_set_attribute`. `farm_s_rulerize` then calls `farm_rulerize` for
each farm. That call either refuses the farm (it becomes conferr or stays down) or calls
`nft_rulerize`. `nft_rulerize` builds one buffer of statements for every family of the
farm. While it does so, it decides from the tracker whether each shared object must be
created, reused or deleted, and it updates the tracker as it goes. Then:

1. it hands the buffer to libnftables (`exec_cmd`), which only logs an error;
2. it clears the farm's pending action (`nft_actions_done`).

The tracker is the only state shared between farms. It is the engine's belief about the
kernel, and nothing re-reads the kernel to correct it.

**What is hard.**
- A shared base chain, map or table is created by one farm and deleted by another.
- Counters, bits and the kernel can drift apart after a rejected batch. `nft_actions_done`
  runs whatever the result was.
- An inet farm runs the same stage code twice (IPv4, then IPv6) against one per-farm
  bitmask.
- Pending actions are merged by enum order.
- The buffer grows at a boundary.

## 2. Modules

| Module | Models | State ↔ code |
|---|---|---|
| `NftRuleset` | the environment: nf_tables' rules for add/delete/flush of tables, chains, maps, elements and rules, and libnftables' all-or-nothing buffer (`RunBatch`) or per-statement application (`RunSerial`) | kernel objects are tuples (`Table`, `BaseChain`, `SvcMap`, `MarkMap`, `FarmChain`, `Elem`, `MarkElem`, `Rule`) |
| `NftEngine` | the engine for the default path (snat, dnat, local) with the tracker, and the farm state machine | `tables` = `nft_base_rules.tables`; `base[fam][stage]` = `dnat/snat/filter_rules_v4/v6` bits; `cnt[fam][stage][shape]` = `service_counters`; `chains[f]` = `f->nft_chains`; `state`, `action` = `f->state`, `f->action`; `ruleset` = the kernel; `accepted` = whether the last `exec_cmd` succeeded; `ftprio` = `nftlb_flowtable_prio` above its base; `incarnation` = which run of the process this is, modulo 2 |
| `FarmActions` | the farm action/state machine of `farms.c`: `farm_set_action`, `farm_s_set_action`, `farm_set_state`, `farm_rulerize`, with `nft_actions_done` seen from the farm | `state`, `action` = `f->state`, `f->action`; `valid` = the farms `farm_validate` accepts |
| `FarmService` | the abstract service a farm configuration promises: which farms are up, and which the kernel serves. A step of one farm changes neither for another farm, and a farm only becomes served while it is up; a restart (`Restart`) ends every farm's service at once and leaves the farms that were up still up | `up`, `served` |
| `MC_NftEngine` | two farms `A`, `B` and the variants the runs use | |
| `IngressEngine` | the ingress path (dsr, stlsdnat) composed with `NftEngine` in one system | as `NftEngine`, plus `ndv[stage]` = `ndv_ingress_rules` / `ndv_ingress_dnat_rules` (slot by slot: name, rule bits, whether freed, allocated name size; and `n_interfaces`), and `icnt[stage][shape]` = the ING_FILTER/ING_DNAT `service_counters` |
| `MC_IngressEngine` | farms `A` (dsr), `B` (stlsdnat), `C` (dnat), devices `E0`, `E1` | |
| `CommandBuffer` | `u_sbuffer.c` with text abstracted to its length | `size`, `next`, `data` ∈ {null, live, freed}, `dropped` |
| `BackendMap` | the weighted backend map and the backend list edits that feed it | `bcks` = `f->backends` (weight, available) |
| `PolicyEngine` | ingress policies composed with `IngressEngine`: policy sets and elements in the netdev table, the policy count, and the farms' `saddr @policy` rules | as `IngressEngine`, plus `pact[f]` = `f->policies_action`, `npol` = `ndv_ingress_policies`, `paction[p]` = `p->action`, `eaction[p][x]` = `e->action`, and `plive[p]` = the policy is configured |
| `IngressValidity` | `IngressEngine` with `farm_validate` as state: the interface keys, `farm_set_netinfo` / `farm_set_oface_info` and `farm_s_set_backend_ether_by_oifidx` | as `IngressEngine`, plus `iok[f]` = `farmaddress_s_validate_iface(f)` and `ook[f]` = `farm_validate_oface(f)`; `valid` is recomputed from them after every step that changes them |
| `MC_IngressValidity` | dsr farm `A` and stlsdnat farm `B` on device `E0` | |
| `MC_PolicyEngine` | dsr farm `A` linked to policy `P`, dsr farm `B` that never validates, unused policy `Q`, element `X`; `SpecReload`, in which only `A` is started and reloaded | |

**The engine as operators.** Each C function of the synthesis is an operator over a
record `e` that holds the tracker and `cmds`, the statements emitted so far. Each
operator carries the name of its function:

- `RunBaseTable`
- `RunBaseChainStart` / `RunBaseChainStop`
- `UpdateServiceCounters`
- `SrvMap` (the service-map elements)
- `RunVsrv` (smart START/RELOAD/STOP dispatch)
- `FilterMarks`, `RunFarmRulesFilter`
- `GenNat`, `RunFarmSnat`
- `GenChain` (`run_farm_rules_gen_chain`, which leaves the output stages' chains alone)
- `RunFarmRulesForward`, `RunFarmFlowtable`, `RunFarmGenFlowtableRules`,
  `RunBaseTableNetdev` (the forward stage; its RELOAD calls `run_base_table` for the
  netdev table)
- `RunFarmRulesOutput` (the output filter and output nat stages)
- `RunFarmRules`, `DelFarmRules`
- `ForFams` (the family loop of `run_farm`/`del_farm`)

The action `RulerizeRun(f)` is the whole of `farm_rulerize` → `nft_rulerize`. It builds
the buffer from the current tracker and commits the new tracker. It applies the buffer
to `ruleset` through `NftRuleset`, and it clears the action, whether or not the batch was
accepted, as `nft_actions_done` does. It also moves `ftprio` by the flowtables the
buffer adds and deletes (`FlowtablePrio`), within the bound `MaxFtPrio`. The other
actions are:

- `RulerizeRefused(f)`: the refusal branch of `farm_rulerize`;
- `SetAction(f, a)`: the `action` key;
- `SetState(f, s)`: the `state` key (a configured `conferr` is ignored, farms.c:1190);
- `SetActionAll(a)`: the `action` key without a farm name (`farm_s_set_action`);
- `NftReset`: `nft_reset`, used only by `SpecReset`;
- `Restart`: a restart of nftlb at any point (the fault model). The kernel keeps the
  ruleset. The new process starts with the tracker, the counters and `nft_chains` zeroed
  (static storage and `farm_create`). `CheckTables` (`nft_check_tables`) finds the nftlb
  tables left in the kernel. `nft_reset` then deletes exactly those in one batch. The
  configuration is loaded again: every farm that was not off gets `farm_set_state(up)`,
  so it is up with a START pending. Which caller runs `nft_check_tables` and
  `nft_reset`, and in which order, is not in the repository (main). The order is taken
  from spec section 7 ("re-derive state via a reset-and-rebuild path"), so `Restart` is
  marked spec-modelled in the map. `IngressEngine`'s `RestartI` adds
  `CleanRulesCounters` (`clean_rules_counters` and `reset_ndv_base`), which empties the
  device arrays.

These farm-side actions are those of `FarmActions`, which `NftEngine` extends, with the
engine's variables unchanged.

**The ingress path.** `IngressEngine` adds the operators `GetNdv`, `AddNdv`, `DelNdv` and
`GetRulesApplied` (the device arrays), `RunBaseTableIng` (the netdev table),
`RunBaseChainIng` (a device base chain and its service map), `RunVsrvIng`, `GenNatIng`,
`RunFarmStlsnat` (the return path and the back map), `RunFarmRulesIng` and
`DelFarmRulesIng`. `RulerizeRunIng(f, u)` is `nft_rulerize` for an ingress farm. `u`
chooses what `strcmp` reads in a freed device entry: the old name or something else. The
code reads freed memory there (nft.c:412), and the outcome depends on the allocator.

**Policies.** `PolicyEngine` adds these operators:
- `RunPolicySet` and `RunSetElements`: a policy's own buffer;
- `RunFarmIngressPolicies`: a farm's policy rules, which `RunFarmRulesPol` places
  between the farm chain and the return path, as `run_farm_rules` does;
- `PolAction`: what `farm_set_action` leaves in `policies_action`.

On the delete path `del_farm_rules` first calls `run_farm_ingress_policies(STOP)`
(nft.c:2418). The model leaves that call out: its statements concern the farm chain that
the same batch deletes, so they do not change the resulting ruleset.

Its actions are:
- `PolicyRulerize(p)`: `nft_rulerize_policies`. It keeps the count and the table bit
  whatever the kernel answered.
- `PolicySetAction` and `ElementSetAction`: `config_set_policy_action` and
  `config_set_element_action`.
- The farm actions of `IngressEngine`, extended with `policies_action`.
- `SetLogRtlimitP(f)`: the `logrtlimit` key. `farm_set_attribute` sets
  `policies_action` to RELOAD when the farm needs policies, and
  `farm_pos_actionable` queues a farm RELOAD.
- `SetReloadStartP`: `farm_s_set_reload_start`, a START for every up farm.

`run_base_table` deletes the netdev table only when `ndv_ingress_policies` is 0. It
creates the table without looking at the count. `IngressEngine` models both tests with
the count fixed at 0.

Part of the policy behaviour comes from the spec, because `policies.c`, `elements.c` and
`farmpolicy.c` are not in the repository:
- A policy is started when created, reloaded or flushed while it exists, and stopped
  when removed.
- A policy a farm uses is not removed.
- Each request is rulerized before the next one.
- An element change is applied by a RELOAD of its policy.
- Farm-policy links are fixed.
- The initial state is the one after the configuration loaded: the linked policies'
  sets are built.

**Changing validity.** In the other modules `valid` keeps its initial value, the
constant `Valid`. `IngressValidity` changes it. An ingress farm validates while both its
input interface (`iok`) and its output interface (`ook`) are resolved. These change as
follows:
- `SetIfaceKey(f, v)`: the `iface`, `ethaddr` and `iethaddr` keys. Whether the new name
  resolves (`v`) is decided by the address code, which is not in the repository.
  `farm_pre_actionable` does not stop the farm for these keys, and `farm_pos_actionable`
  queues a RELOAD.
- `SetOfaceKey(f, v)`: the `oface` key. `farm_set_netinfo` may replace the configured
  name from the route to the first backend.
- `farm_set_netinfo` also runs inside `farm_set_action` when the action is replaced, and
  in `farm_set_state` when a farm comes up (`NetinfoOnAction`, `SetStateV`). A route
  exists or does not (`rt`): this is host state.
- `BackendEtherByOifidx(m)`: the neighbour-event handler. It puts every farm that does
  not validate in conferr, and gives a RELOAD to the farms `m` that hold the backend. The
  `farm_rulerize` the handler runs right after that RELOAD is the farm's next rulerize
  step in the model.

The helper/protocol check is taken to hold. A helper or protocol change goes through
`farm_pre_actionable`'s STOP first.

**Data abstractions.**
- A farm is reduced to what decides which objects exist: its mode, family, shape
  (`Shape`: no port → IP, no virtual address → PORT, else IPPORT), its number of service
  elements (`NElems`, ports × protocols) and usable backends (`NBcks`), and whether it
  masquerades (`SrcAddr`).
- `farm_validate` is the set `valid`: constant except in `IngressValidity`.
- Rule text, schedulers, helpers, limits, logging, queues and tcp-strict only change the
  text inside a farm chain. They are left out.
- The constants `Fwd`, `Flow` and `Out` are the farms for which `need_forward`,
  `farm_needs_flowtable` and `need_output` hold (`Flow` ⊆ `Fwd`). The forward chain's
  log rules are rule text and are left out. A flowtable farm is taken to have an input
  interface, since it validates only with one.
- The fixed rules of a base chain (`ctmark`, `masquerade`, `bckmark`) are kept, because
  they reference maps that decide whether a delete is accepted.

**Compositions.** `IngressEngine` extends `NftEngine`, which extends `FarmActions` and
`NftRuleset`. Default and ingress farms share the state machine, the rulerize loop, the
tables bookkeeping and the kernel. `NftEngine` and `IngressEngine` are shown to implement
`FarmService` by `INSTANCE ... WITH` refinement mappings (`FS`, `FSI`). `NftEngine` extends `NftRuleset`: the engine's batches are run against
the kernel model. `IngressValidity` extends `IngressEngine`, and `PolicyEngine` extends it too. `MC_NftEngine` instantiates `NftEngine`. `CommandBuffer` and
`BackendMap` stand alone. In the C code the buffer underlies every statement `Put`
appends, and the weighted map is the text of the `marks` rule `FilterMarks` emits.

## 3. Runs

Every engine run has two ipv4 farms, `MaxSvcCount = 3` and `Serialize = FALSE`.

| Run | cfg | Expect | What it checks |
|---|---|---|---|
| engine | `MC_NftEngine.cfg` | pass, 784 states | A masquerading snat farm A and a dnat farm B, both IPPORT. B also forwards (two backends, so two forward elements) and has output rules, without a flowtable. Checks `BatchAccepted` (every batch accepted), `DispatchMatchesFarms` (a non-local farm's dispatch path through both prerouting stages exists iff its nft_chains says it is built), `TableRefcount` (the table exists iff some farm of the family has stages), `TablesTracked` (`nft_base_rules.tables` = the tables in the kernel), `CounterMatchesKernel` (each service counter = the elements the kernel holds in the maps it counts, forward and output maps included), `ExtraStagesMatchFarms` (a forward or output farm's path through the forward hook and both output hooks exists iff its prerouting stages are built) and `StartIdempotent` (a START of a built farm leaves the ruleset unchanged, spec §8). Also checks `FarmServiceRefined`: the engine implements `FarmService`, so no step of one farm starts or stops the service of another, and a restart leaves no farm served. Every state is also checked after `Restart` (nft_check_tables, nft_reset, reload): the invariants hold across a restart with a ruleset left in the kernel. |
| ingress | `MC_IngressEngine.cfg` | pass, 56084 states, about 80 s | dsr `A`, stlsdnat `B` and dnat `C` on one device. Checks `IngressRefined` (both paths together implement `FarmService`) and `ServedOnlyWhenBuilt` (the kernel forwards to an ingress farm only while `nft_chains` records it). `RestartI` is among the steps. |
| ingress_reload | `MC_IngressEngine_reload.cfg` | violation | `BatchAccepted` for a stlsdnat farm that is stopped while up and then reloaded. |
| ingress_restop | `MC_IngressEngine_restop.cfg` | violation | `NdvMatchesKernel` (the live entries of each device array are the devices whose chain exists) under a repeated STOP. |
| ingress_devices | `MC_IngressEngine_devices.cfg` | violation (further configuration) | `DeviceChainsUsed` (a device chain exists only while a built farm uses the device), with two dsr farms on `E0` and `E1`. |
| ingress_oface | `MC_IngressEngine_oface.cfg` | violation (further configuration) | `NdvMatchesKernel` for a stlsdnat farm whose oface differs from its iface. |
| ingress_capacity | `MC_IngressEngine_capacity.cfg` | violation (further configuration) | `BatchAccepted` with `MaxIfaces = 1` and two devices. |
| ingress_ifname | `MC_IngressEngine_ifname.cfg` | violation (further configuration) | `IfnameFits`: every live entry's name buffer holds the name and its NUL. |
| engine_srcaddr | `MC_NftEngine_srcaddr.cfg` | pass (further configuration), 784 states | A snats to its own address, so postrouting mark elements are emitted. B never validates and goes to conferr. Checks `TypeOK` (counters never underflow), `DispatchMatchesFarms` and `TableRefcount`. |
| noport_stop | `MC_NftEngine_noport.cfg` | violation (further configuration) | `DispatchMatchesFarms` with two dnat farms without ports. |
| mixed_shapes_stop | `MC_NftEngine_mixed.cfg` | violation (further configuration) | `DispatchMatchesFarms` with an IPPORT farm and an IP farm. |
| flow_reload | `MC_NftEngine_flow.cfg` | violation, 290 states | `BatchAccepted` with B also a flowtable farm (forward, output and flowtable, two backends). |
| policy | `MC_PolicyEngine.cfg` | pass, 104160 states, about 30 s | `PolicyCountMatchesKernel`: `ndv_ingress_policies` equals the number of policy sets in the kernel, under every farm action and state change, policy action, element change and rulerize call. |
| policy_reload | `MC_PolicyEngine_reload.cfg` | violation | `PoliciesEnforced` (a served farm has a `saddr @p` rule for each of its policies whose set exists), with farm `A` only started and reloaded (`SpecReload`). |
| policy_stop | `MC_PolicyEngine_stop.cfg` | violation (further configuration) | `PoliciesEnforced` under the full `SpecP`. |
| policy_leak | `MC_PolicyEngine_leak.cfg` | violation (further configuration) | `NetdevTableNeeded` (the netdev table exists only while a policy set or a device chain is in it), with no farm linked to `P` or `Q`. |
| ingress_conferr | `MC_IngressValidity.cfg` | violation | `ConferrNotServed` (a conferr farm has no rules in the kernel, spec §7) while interface keys and backend events change validity. |
| restop | `MC_NftEngine_restop.cfg` | violation (further configuration) | `BatchAccepted` with A snatting to its address. |
| inet_start | `MC_NftEngine_inet.cfg` | violation | `BatchAccepted` with A an inet farm. |
| reload_drift | `MC_NftEngine_drift.cfg` | violation (further configuration) | `CounterMatchesKernel` with A snatting to its address. |
| reset_tables | `MC_NftEngine_reset.cfg` | violation (further configuration) | `TablesTracked` under `SpecReset`, where `nft_reset` may run at any point. |
| lost_stop | `MC_NftEngine_lostStop.cfg` | violation | `OffFarmsTornDown`: once no action is pending, a farm that is not up has no stages. |
| buffer | `MC_CommandBuffer.cfg` | pass, 1250 states | `NulInBounds`: after every append, `next < size`, so vsnprintf's `len + 1` bytes fit. `EXTRA_SIZE` and the default size are 4. The statement lengths 0, 1, 4, 5 and 9 hit exact fits, single and multiple growth blocks. |
| backend_map | `MC_BackendMap.cfg` | pass, 259 states | Only `MapPartitionsWeight`: the generated ranges equal the reference partition (spec §8), cover `0..total_weight-1` and never overlap. Checked for all lists of up to 3 backends with weights 1..3 and any availability. |

Rows marked *further configuration* are reproductions kept beside the twelve runs of
PROJECT.json. `IngressEngine` also defines `IfnameFits` and `DeviceChainsUsed`, which only these
further configurations check. Run them with `tlc -config <cfg> MC_NftEngine`, `MC_IngressEngine` or `MC_PolicyEngine`. TLC
finds the named property violated under each one marked violation. Under engine_srcaddr,
all the named properties hold.

**Findings.** Each violation run is a disagreement between the code and the spec's
invariants (§3, §4.1, §4.2, §7, §8):

1. **noport_stop** (nft.c:1154). The base-chain delete tests the `NFTLB_IP_ACTIVE`
   counter, which `get_service_counter` maps to `proto_ip_port_cnt`. For farms without
   ports that counter stays 0. Trace: start A, start B, stop A. The prerouting base chain
   and the postrouting chain are deleted while B runs.
2. **mixed_shapes_stop** (nft.c:1143). When one shape's counter reaches zero,
   `run_base_chain` flushes the whole base chain and clears every shape bit. Trace:
   start B (IP), start A (IPPORT), stop A. B's vmap dispatch rule is gone.
3. **restop** (nft.c:1511). `run_farm_snat` emits element deletes without consulting
   `nft_chains`. Trace: start A, stop A, stop A. The batch is rejected. With this,
   nft.c:2560 (actions are cleared even on failure) diverges from spec §2 ("on success").
4. **inet_start** (nft.c:1499). `nft_chains` has no family dimension. The IPv6 pass of an
   inet START takes the smart RELOAD branch and flushes an ip6 chain that does not exist.
   The first start of any inet farm is rejected.
5. **reload_drift** (nft.c:305). Every RELOAD of an snat farm re-counts its postrouting
   elements. Trace: start A, reload A. The counter is 2 while the kernel holds 1 element.
6. **reset_tables** (nft.c:2507). `nft_reset` leaves `nft_base_rules.tables` set. The
   next START adds its chains into a table that is gone.
7. **lost_stop** (farms.c:1307). A STOP cannot replace a pending START, because
   START < STOP in the enum. Trace: running farm A gets `action: start`, then
   `state: off`. `farm_rulerize` refuses the START and A stays off with its rules in the
   kernel.
8. **ingress_reload** (nft.c:989, 1537). `run_farm_map` adds the back map only on
   `ACTION_START`. Trace: start B, action stop (B stays up), reload. The smart START
   rebuilds the return chain, and its rule refers to the deleted map. The batch is rejected.
9. **ingress_restop** (nft.c:1084, 635). `get_rules_applied` gets or adds the device entry
   before the action is looked at. A STOP of an unbuilt farm adds an entry with no chain.
   `n_interfaces` is then non-zero, so the netdev table is never created again.
10. **ingress_devices** (nft.c:1153). The stop test uses the stage-wide counter, but the
    chain is per device. Stopping A on `E0` while B runs on `E1` leaves `ingress-E0`.
11. **ingress_oface** (nft.c:1159). The stop deletes the chain of `f->oface`, but
    `del_ndv_base` frees the entry of `f->iface`.
12. **ingress_capacity** (nft.c:423, 1085). When the array is full, `run_base_chain`
    returns 1 and emits nothing. Its caller then adds elements into the missing map.
13. **ingress_ifname** (nft.c:437). `malloc(strlen(ifname))` is one byte short of what
    `sprintf` writes.
14. **policy_reload** (farms.c:1299, nft.c:1483). A farm RELOAD never sets
    `policies_action`. The smart RELOAD of a built dsr farm flushes its farm chain, and
    `run_farm_rules_gen_nat` puts back only the forwarding rule. Trace: A up, rulerize
    (A is built with its rule `saddr @P`), `action: reload`, rulerize. A is served and
    `P`'s set is in the kernel, but A no longer filters with it.
15. **policy_stop** (farms.c:1299, 1307). `farm_set_action` writes the new action into
    `policies_action` before the rank test that keeps a pending START. Trace: `action:
    start` for all farms, A up, then `action: stop` for all farms. A's pending action
    stays START, its `policies_action` becomes STOP, and the START builds A without its
    policy rule.
16. **policy_leak** (nft.c:2647). A policy STOP deletes the netdev table only when
    `obj_get_total_policies() == 1`. Trace: start P and Q, stop P. With two policies
    configured, the table stays with nothing in it, and no later policy STOP removes it
    either.

17. **ingress_conferr** (farms.c:1434, 1380, 1293). The `iface` key is not one that
    `farm_pre_actionable` stops a farm for. Trace:
    - A is started and built.
    - `iface` is set to a name that does not resolve, which queues a RELOAD.
    - A neighbour event (or `farm_rulerize`) finds A invalid and puts it in conferr.
    A's ingress path stays in the kernel. A STOP of A is then dropped by
    `farm_set_action`, because A is conferr and still does not validate.

18. **flow_reload** (nft.c:2161, 2113). The RELOAD branch of `run_farm_rules_forward`
    adds `flow add @ft-<name>` but only START adds the flowtable. Trace: B up and built,
    `action: stop` (B stays up, its flowtable is deleted), `action: reload`. The reload
    rule names a flowtable that does not exist, and the batch is rejected. The run flow_reload
    shows it; the engine run therefore keeps `Flow` empty.

**Bounds.**
- Two farms are the least that exercise sharing: the creator and the deleter of a shared
  object differ.
- One element and one backend per farm are enough, because the counters are compared
  with zero and the element counts only scale them.
- Farm B has two backends, so the forward map's count (one element per backend mark)
  differs from the other maps' counts.
- `MaxFtPrio = 2` bounds `nftlb_flowtable_prio`: two flowtable adds without a delete.
- `MaxSvcCount = 3` bounds the counters. It only blocks `RulerizeRun` after three
  RELOAD-inflations, which the engine run never reaches: that run's counters match the
  kernel.
- The engine state spaces are exhausted (no states left on the queue).
- The policy runs use two policies, the least that lets one of them be unused and
  stopped while the other is linked, or that reaches the `obj_get_total_policies() == 1`
  test with the count above 1. They use one element, because elements are added and
  deleted one statement per action, and `MaxIfaces = 1`. `MaxPolCount = 2` bounds
  `ndv_ingress_policies`. The pass run never reaches it (the count matches the sets,
  and there are two).

- The validity run uses one dsr and one stlsdnat farm on one device. Each interface
  flag is a boolean, which covers every resolution outcome.
- The ingress runs use three farms (one per kind) on one device, or two farms on two
  devices where the device dimension matters. `MaxIfaces = 2` gives the array a free slot
  after every device is used. The capacity run uses 1 to reach the full array.

**Fairness.** `farm_s_rulerize` runs after every applied configuration and calls
`farm_rulerize` for every farm, so a rulerize call on a farm with a pending action is
weakly fair: `FarmSpec` and `Spec` have `WF` on `FarmRefused(f) \/ FarmRulerized(f)`
(resp. `RulerizeRefused(f) \/ RulerizeRun(f)`). No run checks a liveness property. That
every pending action is eventually consumed follows from this fairness alone, because both
actions of a rulerize call reset the action to NONE; it says nothing about the code beyond
those two assignments. TLC's evaluation of `ENABLED RulerizeRun(f)` (the whole synthesis
pipeline) does not finish in reasonable time, so the engines' `Spec` is checked for safety
and refinement only. `SpecI`, `SpecP` and `SpecV` have no
fairness: their runs check only safety and refinement.

**Refinement.** `FarmService` says what a farm configuration promises. `FS` (in
`NftEngine`) and `FSI` (in `IngressEngine`) map the engines onto it:
- `up` is the farms whose state is up;
- `served` is the farms whose full dispatch path the kernel holds.
Each engine's `Spec` is checked to imply `FarmService!Spec`.

**Mutants.** Every property of a passing run is broken by a mutant of the code it is
about (PROJECT.json "mutants"):

- a base-chain stop without the flush;
- counters that ignore RELOAD;
- a delete that keeps the table;
- a delete that skips the forward stage (breaks `ExtraStagesMatchFarms`);
- a stop that keeps the table bit;
- a smart RELOAD that re-adds elements;
- a mark rule emitted only on RELOAD;
- a buffer grown only on overrun;
- weight ranges that overlap;
- a device chain deleted without its counter (breaks `IngressRefined`);
- a stop that keeps `nft_chains` set only for START (breaks `ServedOnlyWhenBuilt`);
- a netdev table deleted without looking at `ndv_ingress_policies` (breaks
  `PolicyCountMatchesKernel`).

## 4. Not modelled, and the plan

Not modelled, with the reason:

- **Ingress path, parts of it.** Ingress farms are ipv4 only. The shared device chain's
  `rules_v6` bits and session maps are not modelled. `reset_ndv_base` appears only in
  `RestartI`: `NftReset` at an arbitrary point (`SpecReset`) leaves the device arrays
  alone.
- **Policies, parts of them.** The following are not modelled:
  - the code of `policies.c`, `elements.c` and `farmpolicy.c`, which is not in the
    repository;
  - deleting a policy, and linking or unlinking a farm;
  - the policies of default-path (snat, dnat, local) farms, which build their own
    netdev chain in `run_farm_ingress_policies`;
  - the white-before-black order of the rules, which is rule text.
- **Sessions and the reload flags.** `run_farm_rules_sessions` and the reload flags
  (`reload_action`) are not modelled. Spec §9 raises the STOP-before-START order of the
  flags as an open question.
- **Forward, output and flowtable stages, parts of them.** They are in `NftEngine`, but
  no passing run has a flowtable farm, because of flow_reload (a run of its own). The priority drift of
  `nftlb_flowtable_prio` (a START of a built farm increments it again) and the netdev
  table that a forward RELOAD creates and nothing deletes are therefore listed as hazards
  without a property. The ingress modules assume no forward farm (`ASSUME Fwd = {}`),
  because the forward RELOAD's netdev test reads the device arrays they track.
- **Restart, parts of it.** `Restart` is part of the engine and ingress runs. It is not
  part of `PolicyEngine` or `IngressValidity`: after a restart those modules would also
  have to re-derive the policy sets and the interface information from the
  configuration, which is not in the repository. A restart without `nft_reset` is
  undefined behaviour: `nft_check_tables` leaves `interfaces[0]` NULL for
  `get_ndv_base` (nft.c:2529, nft.c:412), so there is no outcome to model.
- **Changing validity, parts of it.** `IngressValidity` covers ingress farms. It does
  not cover:
  - farms that need policies and validate their input interface;
  - flowtable farms;
  - the helper/protocol check, which a STOP precedes.
- **Farm DELETE.** `farm_set_action(DELETE)` (farms.c:1302) calls `farm_delete` at once.
  That frees the farm without `del_farm`, and with it the `nft_chains` bits a later
  `del_farm` would need. Nothing in the repository rulerizes the farm with DELETE first.
  Whether the server (not in the repository) does so is unknown, so the model has no
  DELETE action. Modelling it would also need farms that can leave `Farms`, which every
  module takes as fixed.
- **Liveness of service.** Whether a farm left up is eventually served is not checked.
  It needs fairness on the engine's rulerize, which TLC cannot evaluate in time (see
  Fairness).
- **Not planned:** configuration parsing, logging, string utilities and the rule text
  itself. These are I/O or text with no state the engine reads.

The map records which source lines each definition stands for. A few definitions are
marked `spec_modelled` because their code is not in the repository: the action enum of
`config.h`, and the backend list operations and `total_weight` of `backends.c`. `nft.c`
includes `sbuffer.h`, which is not in the repository either. Its buffer is taken to
behave as `u_sbuffer.c`. `nft_rulerize_farms` (farms.c:1440) is taken to be
`nft_rulerize`.

---------------------------- MODULE PolicyEngine ----------------------------
(***************************************************************************)
(* Ingress policies (src/src/nft.c, src/src/farms.c, src/src/config.c)     *)
(* composed with the ingress path of IngressEngine.                        *)
(*                                                                         *)
(* A policy is a named set of addresses in the netdev table ("add set      *)
(* netdev nftlb <p>"), its elements the set's elements.  It is built by    *)
(* nft_rulerize_policies, which runs its pending action on its own buffer  *)
(* (run_policy_set) and counts the live sets in ndv_ingress_policies, the  *)
(* count run_base_table consults before deleting the netdev table.  A      *)
(* farm linked to policies (f->policies, policies_used > 0) drops or       *)
(* accepts their addresses with one rule "saddr @<p>" per policy in its    *)
(* ingress farm chain; run_farm_ingress_policies adds those rules when the *)
(* farm's policies_action is START or RELOAD.  policies_action is set by   *)
(* farm_set_action.                                                        *)
(*                                                                         *)
(* The policy and element objects live in policies.c and elements.c, which *)
(* are not in the repository: what the configuration does to a policy's   *)
(* and an element's pending action is taken from the specification (an     *)
(* action field the configuration layer sets before the engine runs).      *)
(* The links between farms and policies are fixed (FarmPols), policies are *)
(* never deleted, so obj_get_total_policies() is Cardinality(Pols), and    *)
(* only ingress farms (dsr, stlsdnat) have policies.                       *)
(***************************************************************************)
EXTENDS IngressEngine

CONSTANTS
  Pols,       \* policy names
  Elems,      \* element data, every policy holding each of them
  FarmPols,   \* FarmPols[f]: the policies of f->policies
  MaxPolCount \* bound on ndv_ingress_policies (an unsigned int)

VARIABLES
  pact,       \* pact[f]: f->policies_action
  npol,       \* nft_base_rules.ndv_ingress_policies
  paction,    \* paction[p]: p->action
  eaction,    \* eaction[p][x]: e->action of element x of policy p
  plive       \* plive[p]: policy p is configured (created and not stopped)

varsP == <<varsI, pact, npol, paction, eaction, plive>>

ASSUME \A f \in Farms : FarmPols[f] # {} => f \in Ingress

PolActions == {"START", "STOP", "RELOAD", "FLUSH"}

\* The policies some farm links to.
Linked == UNION {FarmPols[f] : f \in Farms}

NSet(p)     == PolSet("netdev", p)
NElem(p, x) == SetElem("netdev", p, x)
PolRule(f, p) == Rule(IngFarmChain(f, "ING_FILTER"), "saddr", NSet(p))

(***************************************************************************)
(* farms.c: policies_action.                                               *)
(***************************************************************************)

\* farm_needs_policies.
NeedsPolicies(f, pa) == FarmPols[f] # {} \/ pa # "NONE"

\* farm_set_action(f, a) on a farm in state s: the policies_action it
\* leaves.  A STOP of a conferr farm clears it; a STOP of a farm that is
\* not up returns before it is touched; a RELOAD, as such, never sets it.
PolAction(f, a, s, pa) ==
  LET force == a = "STOP" /\ s = "conferr"
      s1  == IF force /\ f \in valid THEN "up" ELSE s
      pa1 == IF force THEN "NONE" ELSE pa
      a1  == IF a = "RELOAD" /\ s1 \notin {"up", "conferr"} THEN "START" ELSE a
  IN CASE a = "STOP" /\ s1 # "up"                       -> pa1
       [] a1 \notin {"NONE", "RELOAD"} /\ FarmPols[f] # {} -> a1
       [] OTHER                                         -> pa1

\* farm_set_state(f, new): farm_set_action with START or STOP.
PolActionOnState(f, new) ==
  CASE state[f] # "up" /\ new = "up" -> PolAction(f, "START", state[f], pact[f])
    [] state[f] = "up" /\ new # "up" -> PolAction(f, "STOP", state[f], pact[f])
    [] OTHER                         -> pact[f]

\* farm_rulerize: a conferr farm that validates is set up first.
RevalidatedPact(f) ==
  IF state[f] = "conferr" /\ f \in valid
  THEN PolAction(f, "START", "conferr", pact[f]) ELSE pact[f]

(***************************************************************************)
(* nft.c: the farm's policy rules.                                         *)
(***************************************************************************)

\* run_farm_ingress_policies for an ingress farm, with
\* run_farm_rules_ingress_policies: on START or RELOAD, a rule "saddr @p"
\* in the farm chain for each of its policies, the white ones first.
RunFarmIngressPolicies(e, f, pa) ==
  IF NeedsPolicies(f, pa) /\ pa \in Starts
  THEN Put(e, SetToSeq({Add(PolRule(f, p)) : p \in FarmPols[f]}))
  ELSE e

\* run_farm_rules, case VALUE_MODE_DSR / VALUE_MODE_STLSDNAT, with the
\* policies after the farm chain.
RunFarmRulesPol(e, f, a, pa) ==
  LET e1 == RunBaseChainIng(RunBaseTableIng(e, a), f, "ING_FILTER", a)
  IN GenNatIng(RunFarmStlsnat(RunFarmIngressPolicies(RunVsrvIng(e1, f, "ING_FILTER", a), f, pa),
                              f, a), f)

BookkeepingPol(u) ==
  [BookkeepingIng(u) EXCEPT !.npol = npol] @@ [eact |-> eaction]

(***************************************************************************)
(* nft.c: the policy's own buffer.                                         *)
(***************************************************************************)

\* run_set_elements: on START every element is added; on RELOAD the
\* elements pending START are added and those pending STOP deleted.  The
\* elements it emits have their action cleared.
RunSetElements(e, p, a) ==
  LET adds == IF a = "START" THEN Elems ELSE {x \in Elems : e.eact[p][x] = "START"}
      dels == IF a = "RELOAD" THEN {x \in Elems : e.eact[p][x] = "STOP"} ELSE {}
      e1   == IF adds = {} THEN e ELSE Put(e, SetToSeq({Add(NElem(p, x)) : x \in adds}))
      e2   == IF dels = {} THEN e1 ELSE Put(e1, SetToSeq({Del(NElem(p, x)) : x \in dels}))
  IN IF a \notin Starts THEN e
     ELSE [e2 EXCEPT !.eact[p] = [x \in Elems |-> IF x \in adds \cup dels THEN "NONE" ELSE @[x]]]

\* run_policy_set.
RunPolicySet(e, p, a) ==
  CASE a = "START" ->
         RunSetElements([Put(RunBaseTableIng(e, "START"), <<Add(NSet(p))>>)
                           EXCEPT !.npol = @ + 1], p, a)
    [] a = "RELOAD" -> RunSetElements(e, p, a)
    [] a = "FLUSH"  -> Put(e, <<Flush(NSet(p))>>)
    [] a \in Stops  ->
         LET e1 == [Put(e, <<Del(NSet(p))>>) EXCEPT !.npol = IF @ > 0 THEN @ - 1 ELSE @]
         IN IF Cardinality(Pols) = 1 THEN RunBaseTableIng(e1, "DELETE") ELSE e1
    [] OTHER -> e

(***************************************************************************)
(* Actions.                                                                *)
(***************************************************************************)

\* The state after the configuration created the linked policies and
\* nft_rulerize_policies built them: a farm links to an existing policy.
InitP ==
  /\ FarmInit
  /\ base = [fam \in Fams |-> [st \in Stages |-> {}]]
  /\ cnt = [fam \in Fams |-> [st \in Stages |-> [sh \in Shapes |-> 0]]]
  /\ chains = [f \in Farms |-> {}]
  /\ ndv = [l \in IngStages |-> [slot |-> [k \in 1..MaxIfaces |-> NoEntry], n |-> 0]]
  /\ icnt = [st \in IngStages |-> [sh \in Shapes |-> 0]]
  /\ tables = IF Linked = {} THEN {} ELSE {"netdev"}
  /\ ruleset = IF Linked = {} THEN {}
               ELSE {Table("netdev")} \cup {NSet(p) : p \in Linked}
                      \cup {NElem(p, x) : p \in Linked, x \in Elems}
  /\ accepted = TRUE
  /\ incarnation = 0
  /\ ftprio = 0
  /\ pact = [f \in Farms |-> "NONE"]
  /\ npol = Cardinality(Linked)
  /\ paction = [p \in Pols |-> "NONE"]
  /\ eaction = [p \in Pols |-> [x \in Elems |-> "NONE"]]
  /\ plive = [p \in Pols |-> p \in Linked]

PolVarsUnchanged == UNCHANGED <<npol, paction, eaction, plive>>

\* The farm's "action" key, for one farm or for all.
SetActionP(f, a) ==
  /\ SetAction(f, a)
  /\ pact' = [pact EXCEPT ![f] = PolAction(f, a, state[f], pact[f])]
  /\ UNCHANGED <<ndv, icnt>> /\ PolVarsUnchanged

SetActionAllP(a) ==
  /\ SetActionAll(a)
  /\ pact' = [f \in Farms |-> PolAction(f, a, state[f], pact[f])]
  /\ UNCHANGED <<ndv, icnt>> /\ PolVarsUnchanged

\* farm_set_attribute of the logrtlimit key: policies_action becomes
\* RELOAD when the farm needs policies.  The per-link farmpolicy action it
\* also sets is written, never read, by nft.c, and is left out.
LogRtlimitPact(f) == IF NeedsPolicies(f, pact[f]) THEN "RELOAD" ELSE pact[f]

\* A changed logrtlimit key, then farm_pos_actionable: the farm gets
\* farm_set_action(f, ACTION_RELOAD), as for the verdict and every key
\* farm_pos_actionable does not list.
SetLogRtlimitP(f) ==
  LET pa == LogRtlimitPact(f) IN
  /\ SetAction(f, "RELOAD")
  /\ pact' = [pact EXCEPT ![f] = PolAction(f, "RELOAD", state[f], pa)]
  /\ UNCHANGED <<ndv, icnt>> /\ PolVarsUnchanged

\* farm_s_set_reload_start: farm_set_action(f, ACTION_START) on every farm
\* that is up.
SetReloadStartP ==
  LET ups == {f \in Farms : state[f] = "up"}
      r(f) == SetActionResult(f, "START", state[f], action[f])
  IN /\ action' = [f \in Farms |-> IF f \in ups THEN r(f).action ELSE action[f]]
     /\ state' = [f \in Farms |-> IF f \in ups THEN r(f).state ELSE state[f]]
     /\ pact' = [f \in Farms |-> IF f \in ups THEN PolAction(f, "START", state[f], pact[f])
                                             ELSE pact[f]]
     /\ UNCHANGED <<tables, base, cnt, chains, valid, ruleset, accepted, ndv, icnt, incarnation, ftprio>>
     /\ PolVarsUnchanged

\* The farm's "state" key.
SetStateP(f, s) ==
  /\ SetState(f, s)
  /\ pact' = [pact EXCEPT ![f] = PolActionOnState(f, s)]
  /\ UNCHANGED <<ndv, icnt>> /\ PolVarsUnchanged

\* farm_rulerize refusing the farm (conferr -> up -> conferr on the way).
RulerizeRefusedP(f) ==
  /\ RulerizeRefused(f)
  /\ pact' = [pact EXCEPT ![f] = RevalidatedPact(f)]
  /\ UNCHANGED <<ndv, icnt>> /\ PolVarsUnchanged

\* farm_rulerize -> nft_rulerize for an ingress farm with its policies;
\* run_farm_ingress_policies leaves policies_action at NONE.  On the delete
\* path del_farm_rules first calls run_farm_ingress_policies(STOP)
\* (nft.c:2418); its statements concern the farm chain that the same batch
\* deletes, so DelFarmRulesIng leaves them out.
RulerizeRunPol(f, u) ==
  /\ action[f] # "NONE"
  /\ ~Unrulerizable(f)
  /\ \E a \in {Revalidated(f).action} :
     \E e \in {IF a \in Starts THEN RunFarmRulesPol(BookkeepingPol(u), f, a, RevalidatedPact(f))
                                ELSE DelFarmRulesIng(BookkeepingPol(u), f)} :
       /\ ApplyIng(f, e)
       /\ pact' = [pact EXCEPT ![f] = "NONE"]
       /\ PolVarsUnchanged

\* config_set_policy_action, for one policy (policy_set_action) or all
\* (policy_s_set_action): the policy's pending action, which the request
\* rulerizes before the next one.  A policy is started when it is created,
\* reloaded or flushed while it exists, and stopped when it is removed,
\* which a policy that a farm uses is not.
PolicySetAction(ps, a) ==
  /\ \A p \in ps :
       /\ paction[p] = "NONE"
       /\ IF a = "START" THEN ~plive[p] ELSE plive[p]
       /\ a \in Stops => p \notin Linked
  /\ paction' = [p \in Pols |-> IF p \in ps THEN a ELSE paction[p]]
  /\ plive' = [p \in Pols |-> IF p \in ps THEN a \notin Stops ELSE plive[p]]
  /\ UNCHANGED <<vars, ndv, icnt, pact, npol, eaction>>

\* config_set_element_action, for one element (element_set_action) or all
\* of the policy's (element_s_set_action), applied by a RELOAD of the
\* policy.
ElementSetAction(p, xs, a) ==
  /\ plive[p] /\ paction[p] = "NONE"
  /\ eaction' = [eaction EXCEPT ![p] = [x \in Elems |-> IF x \in xs THEN a ELSE @[x]]]
  /\ paction' = [paction EXCEPT ![p] = "RELOAD"]
  /\ UNCHANGED <<vars, ndv, icnt, pact, npol, plive>>

\* nft_rulerize_policies: run_policy_set on its own buffer, exec_cmd with
\* its result ignored, and p->action cleared.
PolicyRulerize(p) ==
  /\ paction[p] # "NONE"
  /\ \E e \in {RunPolicySet(BookkeepingPol(FALSE), p, paction[p])} :
       LET out == IF Serialize THEN RunSerial(ruleset, e.cmds) ELSE RunBatch(ruleset, e.cmds)
       IN /\ e.npol <= MaxPolCount
          /\ tables' = e.tables
          /\ npol' = e.npol
          /\ eaction' = e.eact
          /\ ruleset' = out[2]
          /\ accepted' = out[1]
          /\ paction' = [paction EXCEPT ![p] = "NONE"]
          /\ UNCHANGED <<action, state, valid, base, cnt, chains, ndv, icnt, pact, plive, incarnation, ftprio>>

NextP ==
  \/ \E a \in {"START", "STOP", "RELOAD"} : SetActionAllP(a)
  \/ \E f \in Farms :
       \/ \E a \in {"START", "STOP", "RELOAD"} : SetActionP(f, a)
       \/ \E s \in {"up", "off"} : SetStateP(f, s)
       \/ SetLogRtlimitP(f)
       \/ RulerizeRefusedP(f)
       \/ f \in Ingress /\ \E u \in BOOLEAN : RulerizeRunPol(f, u)
  \/ SetReloadStartP
  \/ \E a \in PolActions : \/ PolicySetAction(Pols, a)
                            \/ \E p \in Pols : PolicySetAction({p}, a)
  \/ \E p \in Pols, a \in {"START", "STOP"} :
       \/ ElementSetAction(p, Elems, a)
       \/ \E x \in Elems : ElementSetAction(p, {x}, a)
  \/ \E p \in Pols : PolicyRulerize(p)

SpecP == InitP /\ [][NextP]_varsP

(***************************************************************************)
(* Properties.                                                             *)
(***************************************************************************)

PolTypeOK ==
  /\ pact \in [Farms -> Actions]
  /\ npol \in Nat
  /\ paction \in [Pols -> PolActions \cup {"NONE"}]
  /\ eaction \in [Pols -> [Elems -> {"START", "STOP", "NONE"}]]
  /\ plive \in [Pols -> BOOLEAN]

\* Every farm linked to a policy filters with it while it serves: a farm
\* the kernel forwards to has a rule "saddr @p" for each of its policies
\* whose set exists.  The rules are added by run_farm_ingress_policies when
\* policies_action is START or RELOAD, and farm_set_action decides that
\* action apart from f->action, so a build of the farm chain
\* (run_farm_rules_gen_vsrv adds it on START and flushes it on RELOAD) can
\* leave it without them.
PoliciesEnforced ==
  \A f \in Ingress : \A p \in FarmPols[f] :
    IngServed(f) /\ NSet(p) \in ruleset => PolRule(f, p) \in ruleset

\* ndv_ingress_policies counts the policy sets the kernel holds:
\* run_policy_set counts a set up on START and down on STOP, and
\* run_base_table must not delete the netdev table, and the sets in it,
\* when the last ingress farm stops while policies are live.
PolicyCountMatchesKernel == npol = Cardinality({p \in Pols : NSet(p) \in ruleset})

\* The netdev table stays only while something in it is used: a policy
\* set or a device base chain.  run_policy_set deletes it on the STOP of
\* a policy only when obj_get_total_policies() is 1.
NetdevTableNeeded ==
  Table("netdev") \in ruleset =>
    \/ \E p \in Pols : NSet(p) \in ruleset
    \/ \E l \in IngStages, f \in Ingress : IngChain(l, Dev(f, l)) \in ruleset
=============================================================================

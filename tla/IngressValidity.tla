--------------------------- MODULE IngressValidity ---------------------------
(***************************************************************************)
(* The ingress engine with farm_validate as state (src/src/farms.c).  An   *)
(* ingress farm (dsr, stlsdnat) validates only while its input interface  *)
(* (the farm address's iface and iethaddr) and its output interface       *)
(* (f->oface, f->oethaddr) are resolved; IngressEngine takes the farms    *)
(* that validate as a constant, here they are the farms whose interface   *)
(* information is resolved now:                                            *)
(*   iok[f]  farmaddress_s_validate_iface(f)                               *)
(*   ook[f]  farm_validate_oface(f)                                        *)
(* They change through the interface keys of the configuration and        *)
(* through farm_set_netinfo, which re-resolves the output interface of an *)
(* up ingress farm from the route to its first backend.  Whether a name   *)
(* resolves, or a route exists, is the host's business (netlink, the      *)
(* address code), and is a choice at each step.  The helper/protocol      *)
(* check of farm_validate is taken to hold (helper none) and the farms    *)
(* use no policies.                                                       *)
(***************************************************************************)
EXTENDS IngressEngine

VARIABLES
  iok,   \* input interface information of the farm resolved
  ook    \* output interface information of the farm resolved

\* farm_is_ingress_mode.
IsIngressMode(f) == Mode[f] \in {"dsr", "stlsdnat"}

\* farm_validate for farms with helper none and no policies, given the
\* interface information io, oo: an ingress farm needs both its interfaces
\* resolved (farmaddress_s_validate_iface, and farm_validate_oface: a name
\* and an ether address, neither empty).
ValidWith(io, oo) == {f \in Farms : IsIngressMode(f) => io[f] /\ oo[f]}

varsV == <<varsI, iok, ook>>

\* The farms are configured with their interfaces resolved.
InitV ==
  /\ InitI
  /\ iok = [f \in Farms |-> TRUE]
  /\ ook = [f \in Farms |-> TRUE]
  /\ valid = ValidWith(iok, ook)

\* farm_set_netinfo(f) with the farm in state st, then farm_set_oface_info:
\* only an up ingress farm is looked at; with a route to its first backend
\* (rt) f->oface and f->oethaddr are set from it, without one (-1) they
\* are left as they were (o).
SetNetinfo(f, st, rt, o) == IF IsIngressMode(f) /\ st = "up" /\ rt THEN TRUE ELSE o

\* farm_set_action calls farm_set_netinfo when it replaces the action,
\* with the state it has left the farm in.
NetinfoOnAction(fs) ==
  \E rt \in [fs -> BOOLEAN] :
    ook' = [f \in Farms |-> IF f \in fs /\ action'[f] # action[f]
                           THEN SetNetinfo(f, state'[f], rt[f], ook[f]) ELSE ook[f]]

\* farm_validate, called afresh by every later step, sees the new
\* interface information.
Revalidate == valid' = ValidWith(iok', ook')

EngineUnchanged == UNCHANGED <<tables, base, cnt, chains, ruleset, accepted, ndv, icnt, incarnation, ftprio>>

\* The "action" key, for the farms fs (one farm, or all of them).
SetActionV(fs, a) ==
  /\ SetActionOn(fs, a)
  /\ NetinfoOnAction(fs)
  /\ UNCHANGED iok /\ EngineUnchanged
  /\ Revalidate

\* The "state" key: farm_set_state to up runs farm_set_action(START) while
\* the farm is still down (its farm_set_netinfo returns at once), then
\* farm_set_netinfo once the farm is up.
SetStateV(f, s) ==
  /\ StateChange(f, s)
  /\ \E rt \in BOOLEAN :
       ook' = [ook EXCEPT ![f] = IF state[f] # "up" /\ s = "up" THEN SetNetinfo(f, "up", rt, @) ELSE @]
  /\ UNCHANGED iok /\ EngineUnchanged
  /\ Revalidate

\* The iface, ethaddr and iethaddr keys of farm_set_attribute: the farm
\* address's input interface information is replaced, and resolves (v)
\* or not; none of these keys is one farm_pre_actionable stops the farm
\* for, and farm_pos_actionable answers them with farm_set_action(RELOAD).
SetIfaceKey(f, v) ==
  /\ iok' = [iok EXCEPT ![f] = v]
  /\ SetActionOn({f}, "RELOAD")
  /\ NetinfoOnAction({f})
  /\ EngineUnchanged
  /\ Revalidate

\* The oface key: f->oface is set to the configured name (v: a name that
\* resolves, or an empty one) and farm_set_netinfo may replace it from the
\* route to the backend; farm_pos_actionable then queues a RELOAD, whose
\* farm_set_netinfo finds the same route.
SetOfaceKey(f, v) ==
  /\ \E rt \in BOOLEAN : ook' = [ook EXCEPT ![f] = SetNetinfo(f, state[f], rt, v)]
  /\ SetActionOn({f}, "RELOAD")
  /\ UNCHANGED iok /\ EngineUnchanged
  /\ Revalidate

\* farm_s_set_backend_ether_by_oifidx, on a neighbour event for a backend
\* address: every farm that does not validate is put in conferr
\* (farm_set_state, whose farm_set_action(NONE) changes nothing), and each
\* farm m holding a backend with that address gets a RELOAD.  The
\* farm_rulerize that follows the RELOAD is that farm's next rulerize step.
BackendEtherByOifidx(m) ==
  LET bad == {f \in Farms : f \notin valid}
      r(f) == SetActionResult(f, "RELOAD", state[f], action[f])
  IN /\ m \cap bad = {}
     /\ state' = [f \in Farms |-> IF f \in bad THEN "conferr"
                                  ELSE IF f \in m THEN r(f).state ELSE state[f]]
     /\ action' = [f \in Farms |-> IF f \in m THEN r(f).action ELSE action[f]]
     /\ NetinfoOnAction(m)
     /\ UNCHANGED iok /\ EngineUnchanged
     /\ Revalidate

\* farm_rulerize, with the validity of the moment.
RulerizeV(f) ==
  /\ \/ RulerizeRefused(f) /\ UNCHANGED <<ndv, icnt>>
     \/ f \notin Ingress /\ RulerizeRun(f) /\ UNCHANGED <<ndv, icnt>>
     \/ f \in Ingress /\ \E u \in BOOLEAN : RulerizeRunIng(f, u)
  /\ UNCHANGED <<iok, ook>>

NextV ==
  \/ \E a \in {"START", "STOP", "RELOAD"} : SetActionV(Farms, a)
  \/ \E m \in SUBSET Farms : BackendEtherByOifidx(m)
  \/ \E f \in Farms :
       \/ \E a \in {"START", "STOP", "RELOAD"} : SetActionV({f}, a)
       \/ \E s \in {"up", "off"} : SetStateV(f, s)
       \/ \E v \in BOOLEAN : SetIfaceKey(f, v) \/ SetOfaceKey(f, v)
       \/ RulerizeV(f)

SpecV == InitV /\ [][NextV]_varsV

(***************************************************************************)
(* Properties.                                                             *)
(***************************************************************************)

TypeOKV == TypeOK /\ iok \in [Farms -> BOOLEAN] /\ ook \in [Farms -> BOOLEAN]

\* A farm in conferr has no rules in the kernel: spec section 7 says of a
\* farm that fails validation that no rules for it exist until validation
\* succeeds.  farm_rulerize (farms.c:1431-1437) and
\* farm_s_set_backend_ether_by_oifidx (farms.c:1378-1381) move a running
\* farm to conferr without a STOP, and a STOP of a conferr farm that still
\* does not validate is dropped by farm_set_action.
ConferrNotServed == \A f \in Ingress : state[f] = "conferr" => ~IngServed(f)
=============================================================================

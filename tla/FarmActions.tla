---------------------------- MODULE FarmActions ----------------------------
(***************************************************************************)
(* The farm action state machine of src/src/farms.c: the state a farm is   *)
(* configured in and the action pending on it, set by the "action" and     *)
(* "state" keys of the configuration (farm_set_action, farm_set_state) and *)
(* consumed by farm_rulerize, which farm_s_rulerize calls on every farm    *)
(* after each configuration change.  What nft_rulerize does to the kernel  *)
(* is the business of NftEngine, which extends this module; here a         *)
(* rulerize call is only its effect on f->state and f->action.             *)
(* Which farms farm_validate accepts is the variable valid: every step   *)
(* here leaves it alone, and IngressValidity changes it.                  *)
(***************************************************************************)
EXTENDS Integers

CONSTANTS
  Farms,        \* farm names
  Valid         \* farms for which farm_validate() holds at the start

VARIABLES action, state,
  valid         \* farms for which farm_validate() holds now

faVars == <<action, state, valid>>

Starts  == {"START", "RELOAD"}
Stops   == {"STOP", "DELETE"}
Actions == {"START", "STOP", "RELOAD", "NONE"}
States  == {"up", "off", "conferr"}

\* enum actions of config.h: the priority order farm_set_action compares.
Rank(a) == CASE a = "START" -> 0 [] a = "STOP" -> 1 [] a = "RELOAD" -> 2
             [] a = "DELETE" -> 4 [] a = "NONE" -> 5

\* farm_set_action(f, a) on a farm in state s with pending action act: the
\* resulting state and pending action.
SetActionResult(f, a, s, act) ==
  LET force == a = "STOP" /\ s = "conferr"
      s1 == IF force /\ f \in valid THEN "up" ELSE s
      a1 == IF a = "RELOAD" /\ s1 \notin {"up", "conferr"} THEN "START" ELSE a
  IN IF a = "STOP" /\ s1 # "up"
     THEN [state |-> s1, action |-> act]
     ELSE [state |-> s1, action |-> IF Rank(act) > Rank(a1) \/ force THEN a1 ELSE act]

FarmInit ==
  /\ action = [f \in Farms |-> "NONE"]
  /\ state = [f \in Farms |-> "off"]
  /\ valid = Valid

\* farm_set_action(f, a) on each farm f of fs: the state and pending
\* action it leaves them in.
SetActionOn(fs, a) ==
  LET r(f) == SetActionResult(f, a, state[f], action[f]) IN
  /\ state' = [f \in Farms |-> IF f \in fs THEN r(f).state ELSE state[f]]
  /\ action' = [f \in Farms |-> IF f \in fs THEN r(f).action ELSE action[f]]

\* The "action" key of a farm (config_set_farm_action -> farm_set_action).
FarmSetAction(f, a) == SetActionOn({f}, a) /\ UNCHANGED valid

\* The "action" key without a farm name (config_set_farm_action ->
\* farm_s_set_action): farm_set_action on every farm.
FarmSetActionAll(a) == SetActionOn(Farms, a) /\ UNCHANGED valid

\* farm_set_state(f, new) for new up or off (down behaves as off, and a
\* configured conferr is ignored): the state and pending action it leaves.
StateChange(f, new) ==
  LET old == state[f]
      a   == CASE old # "up" /\ new = "up" -> SetActionResult(f, "START", old, action[f]).action
               [] old = "up" /\ new # "up" -> SetActionResult(f, "STOP", old, action[f]).action
               [] OTHER                    -> action[f]
  IN /\ state' = [state EXCEPT ![f] = new]
     /\ action' = [action EXCEPT ![f] = a]

\* The "state" key of a farm (farm_set_attribute -> farm_set_state).
FarmSetState(f, new) == StateChange(f, new) /\ UNCHANGED valid

\* farm_rulerize: after farm_set_state(f, UP) for a conferr farm that now
\* validates, the state and pending action the rest of it sees.
Revalidated(f) ==
  IF state[f] = "conferr" /\ f \in valid
  THEN [state |-> "up", action |-> SetActionResult(f, "START", "conferr", action[f]).action]
  ELSE [state |-> state[f], action |-> action[f]]

Unrulerizable(f) ==
  LET r == Revalidated(f) IN
  (r.action \in Starts /\ ~(r.state = "up" /\ f \in valid)) \/ r.state = "conferr"

\* farm_rulerize refusing the farm: an up farm becomes conferr.
FarmRefused(f) ==
  LET r == Revalidated(f) IN
  /\ action[f] # "NONE"
  /\ Unrulerizable(f)
  /\ state' = [state EXCEPT ![f] = IF r.state = "up" THEN "conferr" ELSE r.state]
  /\ action' = [action EXCEPT ![f] = "NONE"]
  /\ UNCHANGED valid

\* farm_rulerize -> nft_rulerize -> nft_actions_done, seen from the farm.
FarmRulerized(f) ==
  /\ action[f] # "NONE"
  /\ ~Unrulerizable(f)
  /\ state' = [state EXCEPT ![f] = Revalidated(f).state]
  /\ action' = [action EXCEPT ![f] = "NONE"]
  /\ UNCHANGED valid

FarmNext ==
  \/ \E a \in {"START", "STOP", "RELOAD"} : FarmSetActionAll(a)
  \/ \E f \in Farms :
       \/ \E a \in {"START", "STOP", "RELOAD"} : FarmSetAction(f, a)
       \/ \E s \in {"up", "off"} : FarmSetState(f, s)
       \/ FarmRefused(f)
       \/ FarmRulerized(f)

\* farm_s_rulerize calls farm_rulerize on every farm after each change.
FarmSpec == FarmInit /\ [][FarmNext]_faVars
              /\ \A f \in Farms : WF_faVars(FarmRefused(f) \/ FarmRulerized(f))

FarmTypeOK == action \in [Farms -> Actions] /\ state \in [Farms -> States]

=============================================================================

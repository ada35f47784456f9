------------------------- MODULE StackHealthProofs -------------------------
(***************************************************************************)
(* Theorems about StackHealth, for any number of overlapping health        *)
(* checks, units and rules.                                                *)
(***************************************************************************)
EXTENDS StackHealth, TLAPS

----------------------------------------------------------------------------
(* Types and the lock. *)

(* Both scripts' control variables after their common steps. *)
LEMMA NextRuleTypes ==
    ASSUME TypeOK, NEW p \in Runners, NextRule(p)
    PROVE  /\ run' \in [Runners -> Runs] /\ rule' \in [Runners -> Rules]
           /\ \A q \in Runners \ {p} : rule'[q] = rule[q] /\ run'[q] = run[q]
           /\ run'[p] # "delete"
<1>1. CASE rule[p] < NRules
  <2>1. rule[p] + 1 \in Rules
    BY <1>1, HealthAssumption DEF TypeOK, Rules
  <2> QED
    BY <1>1, <2>1 DEF TypeOK, NextRule, Runs
<1>2. CASE ~(rule[p] < NRules)
  BY <1>2 DEF TypeOK, NextRule, Runs
<1> QED
  BY <1>1, <1>2

LEMMA NextUnitTypes ==
    ASSUME TypeOK, NEW c \in Checkers, NextUnit(c)
    PROVE  /\ step' \in [Checkers -> Steps] /\ u' \in [Checkers -> Units]
           /\ run' \in [Runners -> Runs] /\ rule' \in [Runners -> Rules]
           /\ \A d \in Checkers \ {c} : step'[d] = step[d]
<1>1. CASE u[c] < NUnits
  <2>1. u[c] + 1 \in Units
    BY <1>1, HealthAssumption DEF TypeOK, Units
  <2> QED
    BY <1>1, <2>1 DEF TypeOK, NextUnit, Steps
<1>2. CASE ~(u[c] < NUnits)
  <2>1. c \in Runners
    BY DEF Runners
  <2>2. 1 \in Rules
    BY HealthAssumption DEF Rules
  <2> QED
    BY <1>2, <2>1, <2>2 DEF TypeOK, NextUnit, Begin, Steps, Runs
<1> QED
  BY <1>1, <1>2

(* A run of the dedupe script keeps every type and leaves the health       *)
(* checks alone.                                                           *)
LEMMA DedupeTypes ==
    ASSUME TypeOK, NEW p \in Runners, Dedupe(p)
    PROVE  TypeOK' /\ UNCHANGED checkVars
<1>1. CASE CountRules(p)
  BY <1>1 DEF CountRules, TypeOK, Runs, checkVars, tableVars
<1>2. CASE DeleteRule(p)
  <2>1. /\ copies' \in [Rules -> Nat] /\ count' \in [Runners -> Nat]
        /\ run' \in [Runners -> Runs] /\ rule' \in [Runners -> Rules]
    BY <1>2, NextRuleTypes DEF DeleteRule, TypeOK, More
  <2> QED
    BY <1>2, <2>1 DEF DeleteRule, TypeOK, checkVars
<1>3. CASE RuleDone(p)
  BY <1>3, NextRuleTypes DEF RuleDone, TypeOK, checkVars, tableVars
<1> QED
  BY <1>1, <1>2, <1>3 DEF Dedupe

LEMMA ServiceTypes ==
    ASSUME TypeOK, StartService
    PROVE  TypeOK' /\ UNCHANGED checkVars
<1>1. 1 \in Rules
  BY HealthAssumption DEF Rules
<1> QED
  BY <1>1 DEF StartService, Begin, TypeOK, Runs, Runners, checkVars, tableVars

LEMMA RestTypes ==
    ASSUME TypeOK, UnitFails \/ QcmapAdds
    PROVE  TypeOK' /\ UNCHANGED checkVars
<1>1. CASE UnitFails
  BY <1>1 DEF UnitFails, TypeOK, checkVars, dedupeVars, tableVars
<1>2. CASE QcmapAdds
  BY <1>2, HealthAssumption
     DEF QcmapAdds, TypeOK, checkVars, dedupeVars
<1> QED
  BY <1>1, <1>2

(* A health check keeps every type, and acts only under the lock. *)
LEMMA CheckKeeps ==
    ASSUME TypeOK, OneCheck, NEW c \in Checkers, Check(c) \/ KillCheck(c)
    PROVE  TypeOK' /\ OneCheck'
<1> USE DEF TypeOK, OneCheck, Inside
<1>1. CASE StartCheck(c)
  BY <1>1 DEF StartCheck, Steps, dedupeVars, tableVars
<1>2. CASE TakeLock(c)
  <2>1. TypeOK'
    BY <1>2, HealthAssumption
       DEF TakeLock, Steps, Units, dedupeVars, tableVars
  <2>2. \A d \in Checkers \ {c} :
            step'[d] \notin {"check", "restart", "dedupe"}
    BY <1>2, HealthAssumption DEF TakeLock
  <2> QED
    BY <1>2, <2>1, <2>2 DEF TakeLock
<1>3. CASE LockBusy(c)
  BY <1>3 DEF LockBusy, Steps, dedupeVars, tableVars
<1>4. CASE CheckUnit(c)
  <2>1. /\ step' \in [Checkers -> Steps] /\ u' \in [Checkers -> Units]
        /\ run' \in [Runners -> Runs] /\ rule' \in [Runners -> Rules]
        /\ \A d \in Checkers \ {c} : step'[d] = step[d]
    BY <1>4, NextUnitTypes DEF CheckUnit, Steps
  <2> QED
    BY <1>4, <2>1 DEF CheckUnit, tableVars
<1>5. CASE RestartUnit(c)
  <2>1. /\ step' \in [Checkers -> Steps] /\ u' \in [Checkers -> Units]
        /\ run' \in [Runners -> Runs] /\ rule' \in [Runners -> Rules]
        /\ \A d \in Checkers \ {c} : step'[d] = step[d]
    BY <1>5, NextUnitTypes DEF RestartUnit
  <2> QED
    BY <1>5, <2>1 DEF RestartUnit, tableVars
<1>6. CASE FinishCheck(c)
  <2>1. TypeOK'
    BY <1>6 DEF FinishCheck, Steps, dedupeVars, tableVars
  <2>2. \A d \in Checkers \ {c} :
            step'[d] \notin {"check", "restart", "dedupe"}
    BY <1>6 DEF FinishCheck
  <2> QED
    BY <1>6, <2>1, <2>2 DEF FinishCheck
<1>7. CASE KillCheck(c)
  <2>1. TypeOK'
    <3>1. c \in Runners /\ Orphan \in Runners
      BY DEF Runners
    <3>2. /\ run' \in [Runners -> Runs] /\ rule' \in [Runners -> Rules]
          /\ count' \in [Runners -> Nat]
      BY <1>7, <3>1 DEF KillCheck, Runs
    <3> QED
      BY <1>7, <3>2, HealthAssumption DEF KillCheck, Steps, tableVars
  <2>2. \A d \in Checkers \ {c} :
            step'[d] \notin {"check", "restart", "dedupe"}
    <3>1. lock = c /\ step'= [step EXCEPT ![c] = "idle"]
      BY <1>7 DEF KillCheck, Steps
    <3> QED
      BY <3>1
  <2> QED
    BY <1>7, <2>1, <2>2 DEF KillCheck
<1> QED
  BY <1>1, <1>2, <1>3, <1>4, <1>5, <1>6, <1>7 DEF Check

(* The inductive step. *)
LEMMA KeepsLock == TypeOK /\ OneCheck /\ [Next]_vars => TypeOK' /\ OneCheck'
<1> SUFFICES ASSUME TypeOK, OneCheck, [Next]_vars
             PROVE  TypeOK' /\ OneCheck'
  OBVIOUS
<1>1. UNCHANGED checkVars => OneCheck'
  BY DEF OneCheck, Inside, checkVars
<1>2. CASE StartService \/ UnitFails \/ QcmapAdds
  BY <1>1, <1>2, ServiceTypes, RestTypes
<1>3. CASE \E p \in Runners : Dedupe(p)
  BY <1>1, <1>3, DedupeTypes
<1>4. CASE \E c \in Checkers : Check(c) \/ KillCheck(c)
  BY <1>4, CheckKeeps
<1>5. CASE UNCHANGED vars
  BY <1>1, <1>5 DEF vars, TypeOK, checkVars, dedupeVars, tableVars
<1> QED
  BY <1>2, <1>3, <1>4, <1>5 DEF Next

LEMMA LockInvariant == Spec => [](TypeOK /\ OneCheck)
<1>1. Init => TypeOK /\ OneCheck
  BY HealthAssumption
     DEF Init, TypeOK, OneCheck, Inside, Steps, Runs, Units, Rules
<1> QED
  BY <1>1, KeepsLock, PTL DEF Spec

(* The counts of the dedupe script and the copies of every rule stay in    *)
(* their ranges, and every process of the health service where the scripts *)
(* can be, whatever fails and whoever is killed.                           *)
THEOREM HealthTypes == Spec => []TypeOK
BY LockInvariant, PTL

(* However many health checks are started, overlap or get killed, only the *)
(* one that made the lock directory looks at units, restarts them or runs  *)
(* the dedupe script.                                                      *)
THEOREM ChecksExclude == Spec => []OneCheck
BY LockInvariant, PTL

----------------------------------------------------------------------------
(* The dedupe script by itself. *)

(* No orphan runs, and what the service has left to delete is there. *)
Counted ==
    /\ run[Orphan] = "idle"
    /\ run[Service] = "delete" => count[Service] <= copies[rule[Service]]

(* Without the health check the dedupe service never deletes the last copy *)
(* of a rule, whatever QCMAP adds and whichever call of iptables fails.    *)
THEOREM AloneKeepsLast ==
    ASSUME Checkers = {}
    PROVE  Spec => LastCopyKept
<1> DEFINE Inv == TypeOK /\ OneCheck /\ Counted
<1>1. Init => Inv
  BY HealthAssumption
     DEF Init, TypeOK, OneCheck, Inside, Steps, Runs, Units, Rules, Counted,
         Runners
<1>2. Inv /\ [Next]_vars =>
          /\ Inv'
          /\ [\A r \in Rules : copies[r] > 0 => copies'[r] > 0]_vars
  <2> SUFFICES ASSUME TypeOK, OneCheck, Counted, [Next]_vars
               PROVE  /\ Counted'
                      /\ \A r \in Rules : copies[r] > 0 => copies'[r] > 0
    BY KeepsLock
  <2>0. Runners = {Service, Orphan} /\ Service # Orphan
    BY DEF Runners, Service, Orphan
  <2>1. CASE Dedupe(Service)
    <3>1. CASE CountRules(Service)
      BY <3>1, <2>0 DEF CountRules, Counted, TypeOK, tableVars
    <3>2. CASE DeleteRule(Service)
      <4>1. CASE UNCHANGED <<run, rule>>
        BY <3>2, <4>1, <2>0 DEF DeleteRule, Counted, TypeOK, More
      <4>2. CASE NextRule(Service) /\ UNCHANGED <<copies, count>>
        BY <3>2, <4>2, <2>0, NextRuleTypes DEF Counted
      <4> QED
        BY <3>2, <4>1, <4>2 DEF DeleteRule
    <3>3. CASE RuleDone(Service)
      BY <3>3, <2>0, NextRuleTypes DEF RuleDone, Counted, tableVars
    <3> QED
      BY <2>1, <3>1, <3>2, <3>3 DEF Dedupe
  <2>2. CASE StartService
    BY <2>2, <2>0 DEF StartService, Begin, Counted, TypeOK, tableVars
  <2>3. CASE UnitFails
    BY <2>3 DEF UnitFails, Counted, dedupeVars, tableVars
  <2>4. CASE QcmapAdds
    BY <2>4, <2>0 DEF QcmapAdds, Counted, dedupeVars, TypeOK
  <2>5. ~Dedupe(Orphan)
    BY DEF Counted, Dedupe, CountRules, DeleteRule, RuleDone
  <2>6. CASE UNCHANGED vars
    BY <2>6 DEF vars, dedupeVars, tableVars, Counted
  <2> QED
    BY <2>0, <2>1, <2>2, <2>3, <2>4, <2>5, <2>6 DEF Next
<1> QED
  BY <1>1, <1>2, PTL DEF Spec, LastCopyKept
============================================================================

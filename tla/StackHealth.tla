---------------------------- MODULE StackHealth ----------------------------
(***************************************************************************)
(* The two periodic scripts of the final stack: ipa-stack-healthcheck.sh,  *)
(* which restarts units that are down and then runs the dedupe script, and *)
(* ipa-iptables-dedupe.sh, which a timer of its own runs too. QCMAP adds   *)
(* copies of its rules meanwhile.                                          *)
(***************************************************************************)
EXTENDS Integers, FiniteSets

CONSTANTS
    Checkers,    \* instances of the health check that may overlap
    NUnits,      \* the units it looks at, 1..NUnits, in this order
    Qcmap,       \* QCMAP_ConnectionManagerd.service among them
    DedupeTimer, \* ipa-iptables-dedupe.timer among them
    NRules,      \* the rules the dedupe script looks at, in this order
    MaxAdds,     \* bound: copies of rules QCMAP ever adds
    MaxKills,    \* bound: health checks that are killed
    Failures     \* what may fail: "restart", "iptables"

Units == 1..NUnits
Rules == 1..NRules

(* What runs the dedupe script: ipa-iptables-dedupe.service, a health      *)
(* check, or nobody any more, when its health check was killed meanwhile.  *)
Service == "dedupe_service"
Orphan  == "dedupe_orphan"
Runners == Checkers \cup {Service, Orphan}

ASSUME HealthAssumption ==
    /\ NUnits \in Nat /\ NRules \in Nat \ {0}
    /\ MaxAdds \in Nat /\ MaxKills \in Nat
    /\ Qcmap \in Units /\ DedupeTimer \in Units
    /\ IsFiniteSet(Checkers)
    /\ Checkers \cap {Service, Orphan, "free"} = {}

VARIABLES
    unit,    \* what systemctl is-active says of each unit: "ok" or "down"
    lock,    \* the lock directory: who made it, or "free"
    step,    \* where each health check is
    u,       \* the unit each health check has come to
    run,     \* where each run of the dedupe script is
    rule,    \* the rule it has come to
    count,   \* its shell variable count
    copies,  \* the copies of each rule in the kernel's tables
    adds,    \* how often QCMAP has added a rule
    kills    \* how often a health check was killed

checkVars  == <<lock, step, u, kills>>
dedupeVars == <<run, rule, count>>
tableVars  == <<copies, adds>>
vars == <<unit, checkVars, dedupeVars, tableVars>>

Steps == {"idle", "mkdir", "check", "restart", "dedupe"}
Runs  == {"idle", "count", "delete"}

(* Every variable keeps its type. *)
TypeOK ==
    /\ unit \in [Units -> {"ok", "down"}]
    /\ lock \in Checkers \cup {"free"}
    /\ step \in [Checkers -> Steps] /\ u \in [Checkers -> Units]
    /\ run \in [Runners -> Runs] /\ rule \in [Runners -> Rules]
    /\ count \in [Runners -> Nat]
    /\ copies \in [Rules -> Nat] /\ adds \in 0..MaxAdds
    /\ kills \in 0..MaxKills

Init ==
    /\ unit \in [Units -> {"ok", "down"}]
    /\ lock = "free"
    /\ step = [c \in Checkers |-> "idle"] /\ u = [c \in Checkers |-> 1]
    /\ run = [p \in Runners |-> "idle"] /\ rule = [p \in Runners |-> 1]
    /\ count = [p \in Runners |-> 0]
    /\ copies = [r \in Rules |-> 0] /\ adds = 0
    /\ kills = 0

----------------------------------------------------------------------------
(* The dedupe script. *)

(* The script is started; the snapshot of the tables that it takes first,  *)
(* and removes again when it is old, is not read by anyone.                *)
Begin(p) == /\ run' = [run EXCEPT ![p] = "count"]
            /\ rule' = [rule EXCEPT ![p] = 1]

(* The next rule, or the end of the script. *)
NextRule(p) ==
    IF rule[p] < NRules
    THEN /\ rule' = [rule EXCEPT ![p] = @ + 1]
         /\ run' = [run EXCEPT ![p] = "count"]
    ELSE /\ run' = [run EXCEPT ![p] = "idle"]
         /\ UNCHANGED rule

(* The copies are counted; a listing that fails has no lines. *)
CountRules(p) ==
    /\ run[p] = "count"
    /\ \/ count' = [count EXCEPT ![p] = copies[rule[p]]]
       \/ "iptables" \in Failures /\ count' = [count EXCEPT ![p] = 0]
    /\ run' = [run EXCEPT ![p] = "delete"]
    /\ UNCHANGED <<unit, checkVars, rule, tableVars>>

(* Mutant: the loop tests with -ne. *)
MoreNotOne(n) == n # 1

(* Mutant: two copies are good enough. *)
MoreThanTwo(n) == n > 2

(* The loop goes on while more than one copy is left by this count. *)
More(n) == n > 1

DeleteRule(p) ==
    /\ run[p] = "delete"
    /\ More(count[p])
    /\ \/ \* one copy is deleted
          /\ copies[rule[p]] > 0
          /\ copies' = [copies EXCEPT ![rule[p]] = @ - 1]
          /\ count' = [count EXCEPT ![p] = @ - 1]
          /\ UNCHANGED <<run, rule>>
       \/ \* there is none, or iptables fails: break
          /\ copies[rule[p]] = 0 \/ "iptables" \in Failures
          /\ NextRule(p)
          /\ UNCHANGED <<copies, count>>
    /\ UNCHANGED <<unit, checkVars, adds>>

RuleDone(p) ==
    /\ run[p] = "delete"
    /\ ~More(count[p])
    /\ NextRule(p)
    /\ UNCHANGED <<unit, checkVars, count, tableVars>>

(* Mutant: the dedupe service honours the health check's lock. *)
StartServiceUnlocked ==
    /\ unit[DedupeTimer] = "ok" /\ lock = "free"
    /\ run[Service] = "idle"
    /\ Begin(Service)
    /\ unit' \in {unit, [unit EXCEPT ![Qcmap] = "ok"]}
    /\ UNCHANGED <<checkVars, count, tableVars>>

(* The timer starts the dedupe service, which wants the connection manager *)
(* to be started.                                                          *)
StartService ==
    /\ unit[DedupeTimer] = "ok"
    /\ run[Service] = "idle"
    /\ Begin(Service)
    /\ unit' \in {unit, [unit EXCEPT ![Qcmap] = "ok"]}
    /\ UNCHANGED <<checkVars, count, tableVars>>

Dedupe(p) == CountRules(p) \/ DeleteRule(p) \/ RuleDone(p)

----------------------------------------------------------------------------
(* The health check. *)

StartCheck(c) ==
    /\ step[c] = "idle"
    /\ step' = [step EXCEPT ![c] = "mkdir"]
    /\ UNCHANGED <<unit, lock, u, kills, dedupeVars, tableVars>>

(* mkdir makes the lock directory; the EXIT trap is set from here on. *)
TakeLock(c) ==
    /\ step[c] = "mkdir"
    /\ lock = "free"
    /\ lock' = c
    /\ step' = [step EXCEPT ![c] = "check"] /\ u' = [u EXCEPT ![c] = 1]
    /\ UNCHANGED <<unit, kills, dedupeVars, tableVars>>

(* Mutant: the EXIT trap was set before mkdir. *)
LockBusyTrapSet(c) ==
    /\ step[c] = "mkdir"
    /\ lock # "free"
    /\ step' = [step EXCEPT ![c] = "idle"]
    /\ lock' = "free"
    /\ UNCHANGED <<unit, u, kills, dedupeVars, tableVars>>

(* mkdir fails: another check runs, and this one exits without a trap. *)
LockBusy(c) ==
    /\ step[c] = "mkdir"
    /\ lock # "free"
    /\ step' = [step EXCEPT ![c] = "idle"]
    /\ UNCHANGED <<unit, lock, u, kills, dedupeVars, tableVars>>

(* The next unit; after the last one the dedupe script is run. *)
NextUnit(c) ==
    IF u[c] < NUnits
    THEN /\ u' = [u EXCEPT ![c] = @ + 1]
         /\ step' = [step EXCEPT ![c] = "check"]
         /\ UNCHANGED <<run, rule>>
    ELSE /\ step' = [step EXCEPT ![c] = "dedupe"]
         /\ Begin(c)
         /\ UNCHANGED u

(* is_ok. *)
CheckUnit(c) ==
    /\ step[c] = "check"
    /\ \/ unit[u[c]] = "ok" /\ NextUnit(c)
       \/ /\ unit[u[c]] = "down"
          /\ step' = [step EXCEPT ![c] = "restart"]
          /\ UNCHANGED <<u, run, rule>>
    /\ UNCHANGED <<unit, lock, kills, count, tableVars>>

(* restart_unit, or enabling and starting the timer, and the log. *)
RestartUnit(c) ==
    /\ step[c] = "restart"
    /\ \/ unit' = [unit EXCEPT ![u[c]] = "ok"]
       \/ "restart" \in Failures /\ unit' = [unit EXCEPT ![u[c]] = "down"]
    /\ NextUnit(c)
    /\ UNCHANGED <<lock, kills, count, tableVars>>

(* Mutant: the lock directory stays. *)
FinishCheckLocked(c) ==
    /\ step[c] = "dedupe" /\ run[c] = "idle"
    /\ step' = [step EXCEPT ![c] = "idle"]
    /\ UNCHANGED <<unit, lock, u, kills, dedupeVars, tableVars>>

(* exit 0: the trap removes the lock directory. *)
FinishCheck(c) ==
    /\ step[c] = "dedupe" /\ run[c] = "idle"
    /\ step' = [step EXCEPT ![c] = "idle"]
    /\ lock' = "free"
    /\ UNCHANGED <<unit, u, kills, dedupeVars, tableVars>>

(* The health check is killed. Its shell may or may not run the trap, and  *)
(* the dedupe script it waits for is killed with it or goes on by itself.  *)
KillCheck(c) ==
    /\ kills < MaxKills
    /\ kills' = kills + 1
    /\ step[c] \notin {"idle", "mkdir"}
    /\ step' = [step EXCEPT ![c] = "idle"]
    /\ lock' \in {lock, "free"}
    /\ \/ run' = [run EXCEPT ![c] = "idle"] /\ UNCHANGED <<rule, count>>
       \/ /\ run[c] # "idle" /\ run[Orphan] = "idle"
          /\ run' = [run EXCEPT ![Orphan] = run[c], ![c] = "idle"]
          /\ rule' = [rule EXCEPT ![Orphan] = rule[c]]
          /\ count' = [count EXCEPT ![Orphan] = count[c]]
    /\ UNCHANGED <<unit, u, tableVars>>

Check(c) == \/ StartCheck(c) \/ TakeLock(c) \/ LockBusy(c)
            \/ CheckUnit(c) \/ RestartUnit(c) \/ FinishCheck(c)

----------------------------------------------------------------------------
(* The rest of the system. *)

UnitFails ==
    /\ \E v \in Units : unit[v] = "ok" /\ unit' = [unit EXCEPT ![v] = "down"]
    /\ UNCHANGED <<checkVars, dedupeVars, tableVars>>

(* A retry of the connection manager adds a rule once more. *)
QcmapAdds ==
    /\ unit[Qcmap] = "ok"
    /\ adds < MaxAdds
    /\ adds' = adds + 1
    /\ \E r \in Rules : copies' = [copies EXCEPT ![r] = @ + 1]
    /\ UNCHANGED <<unit, checkVars, dedupeVars>>

Next == \/ StartService \/ UnitFails \/ QcmapAdds
        \/ \E p \in Runners : Dedupe(p)
        \/ \E c \in Checkers : Check(c) \/ KillCheck(c)

(* The timers go off again and again and a script that runs goes on. *)
Fairness == /\ \A p \in Runners : WF_vars(Dedupe(p))
            /\ \A c \in Checkers : WF_vars(Check(c))
            /\ WF_vars(StartService)

Spec == Init /\ [][Next]_vars /\ Fairness

----------------------------------------------------------------------------
(* Properties. *)

Inside(c) == step[c] \in {"check", "restart", "dedupe"}

(* Two checks never act at the same time ("Avoid overlapping timer runs"), *)
(* not even when one was killed or lost the race for the directory.        *)
OneCheck == \A c \in Checkers : Inside(c) => lock = c

(* The dedupe script never deletes the last copy of a rule: "keeps one     *)
(* correct MASQUERADE rule on the active WAN interface".                   *)
LastCopyKept ==
    [][\A r \in Rules : copies[r] > 0 => copies'[r] > 0]_vars

NoKill == [](kills = 0)

(* A unit that is down comes up or gets restarted, as long as no health    *)
(* check is killed: the lock is always given back.                         *)
DownIsRetried ==
    NoKill => \A v \in Units :
                  unit[v] = "down" ~> \/ unit[v] = "ok"
                                      \/ \E c \in Checkers :
                                             step[c] = "restart" /\ u[c] = v

Deduplicated == \A r \in Rules : copies[r] <= 1

(* Once QCMAP has stopped adding copies no rule stays duplicated, be the   *)
(* dedupe timer up or down: the health check runs the script as well.      *)
DuplicatesRemoved == NoKill => <>[]Deduplicated

(* The timer alone sees to that while it is up, whatever becomes of the    *)
(* health check: a check that is killed, and the lock it leaves, does not  *)
(* keep the dedupe service from running.                                   *)
TimerSuffices == <>[](unit[DedupeTimer] = "ok") => <>[]Deduplicated
============================================================================

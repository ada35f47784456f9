------------------------------ MODULE IossBus ------------------------------
(***************************************************************************)
(* The life of the offload subsystem around the interfaces: the root       *)
(* driver (ioss_main.c), which starts and stops the walk over the PCI bus; *)
(* the PCI bus notifier and the PM callbacks hijacked from the PCI driver  *)
(* (ioss_pci.c); the idevs and the glue driver on the ioss bus             *)
(* (ioss_bus.c); and system suspend, which freezes the work queue of the   *)
(* refreshes. What a refresh does is IossNet's subject: here it ends with  *)
(* the interface ONLINE or not. All PCI devices have the same driver.      *)
(***************************************************************************)
EXTENDS Integers, FiniteSets

CONSTANTS Devices,  \* the PCI devices
          Races     \* the orders of events allowed, of those below

(* Orders the code leaves open and does not survive: "early", the walk     *)
(* over the bus meets a device whose driver is set but still probing, or   *)
(* already being removed; "stop", a device is unbound while the subsystem  *)
(* stops; "unwatched", the wakeup source of an interface cannot be         *)
(* registered, which probe does not notice.                                *)
AllRaces == {"early", "stop", "unwatched"}

ASSUME BusAssumption == IsFiniteSet(Devices) /\ Races \subseteq AllRaces

VARIABLES
    root,    \* the root driver: waits for IPA, walks the bus, ...
    todo,    \* the devices the walk has yet to visit
    at,      \* those it is visiting, at most one
    glue,    \* the glue driver
    pci,     \* per device: where its PCI driver is
    idev,    \* per device: its idev, and where the glue driver is with it
    blind,   \* the idevs bound without being watched
    refcnt,  \* idrv->pm_refcnt
    pm,      \* dev->driver->pm: the driver's own, or IOSS's
    pmReal,  \* idrv->pm_ops_real
    online,  \* the interfaces that are ONLINE
    queued,  \* the refreshes queued
    work,    \* the refreshes running
    sys,     \* the system's sleep state
    susp     \* per device: which callback suspended it

rootVars == <<root, todo, at>>
pmVars   == <<refcnt, pm, pmReal>>
workVars == <<online, queued, work>>
sysVars  == <<sys, susp>>
vars == <<rootVars, glue, pci, idev, blind, pmVars, workVars, sysVars>>

(* An idev is "unlinked" while the glue driver has not probed it, or found *)
(* no net device for it, "failed" when its probe failed later.             *)
Resting == {"none", "unlinked", "failed", "bound"}
Moving  == {"linked", "open", "removed", "detached"}

(* Every variable keeps its type; the count of users never falls below 0.  *)
TypeOK ==
    /\ root \in {"waiting", "walking", "started", "stopping", "gone"}
    /\ todo \subseteq Devices /\ at \subseteq Devices
    /\ glue \in {"unloaded", "loaded", "unloading"}
    /\ pci \in [Devices -> {"unbound", "probing", "bound", "unbinding"}]
    /\ idev \in [Devices -> Resting \cup Moving]
    /\ blind \subseteq Devices
    /\ refcnt \in Nat /\ pm \in {"real", "ioss"}
    /\ pmReal \in {"none", "real", "ioss"}
    /\ online \subseteq Devices /\ queued \subseteq Devices
    /\ work \subseteq Devices
    /\ sys \in {"awake", "freezing", "suspending", "resuming"}
    /\ susp \in [Devices -> {"no", "nop", "real"}]

Init ==
    /\ root = "waiting" /\ todo = {} /\ at = {}
    /\ glue = "unloaded"
    /\ pci = [d \in Devices |-> "unbound"]
    /\ idev = [d \in Devices |-> "none"] /\ blind = {}
    /\ refcnt = 0 /\ pm = "real" /\ pmReal = "none"
    /\ online = {} /\ queued = {} /\ work = {}
    /\ sys = "awake" /\ susp = [d \in Devices |-> "no"]

Awake    == sys = "awake"
Notified == root \in {"walking", "started"}   \* the bus notifier is registered
Still(ds) == \A d \in ds : idev[d] \in Resting

----------------------------------------------------------------------------
(* Idevs. *)

(* A probe that finds the net device goes on; one that does not, fails. *)
Probed(d) == IF glue # "loaded" THEN "unlinked"
             ELSE IF pci'[d] = "bound" THEN "linked" ELSE "unlinked"

(* ioss_pci_add_device: a second idev of the same name is not registered. *)
AddDevice(d) ==
    idev' = IF idev[d] = "none" THEN [idev EXCEPT ![d] = Probed(d)] ELSE idev

(* ioss_pci_remove_device; the glue driver is detached first. *)
RemoveDevice(d) ==
    /\ idev' = [idev EXCEPT ![d] = IF @ = "bound" THEN "removed" ELSE "none"]
    /\ queued' = IF idev[d] = "bound" THEN queued \cup {d} ELSE queued

(* Mutant: every device hijacks anew. *)
HijackAlways(d) ==
    /\ idev[d] = "linked"
    /\ refcnt' = refcnt + 1
    /\ pmReal' = pm /\ pm' = "ioss"
    /\ idev' = [idev EXCEPT ![d] = "open"]
    /\ UNCHANGED <<rootVars, glue, pci, blind, workVars, sysVars>>

(* Mutant: the count is not set to 1 by the first user. *)
HijackUncounted(d) ==
    /\ idev[d] = "linked"
    /\ IF refcnt = 0 THEN pmReal' = pm /\ pm' = "ioss" /\ UNCHANGED refcnt
                     ELSE refcnt' = refcnt + 1 /\ UNCHANGED <<pm, pmReal>>
    /\ idev' = [idev EXCEPT ![d] = "open"]
    /\ UNCHANGED <<rootVars, glue, pci, blind, workVars, sysVars>>

(* ioss_pci_hijack_pm_ops, under idrv->pm_lock. *)
Hijack(d) ==
    /\ idev[d] = "linked"
    /\ refcnt' = refcnt + 1
    /\ IF refcnt = 0 THEN pmReal' = pm /\ pm' = "ioss"
                     ELSE UNCHANGED <<pm, pmReal>>
    /\ idev' = [idev EXCEPT ![d] = "open"]
    /\ UNCHANGED <<rootVars, glue, pci, blind, workVars, sysVars>>

(* ioss_pci_restore_pm_ops. *)
Restore ==
    /\ refcnt' = refcnt - 1
    /\ pm' = IF refcnt = 1 THEN pmReal ELSE pm
    /\ UNCHANGED pmReal

(* The rest of ioss_bus_probe succeeds: watching replays REGISTER, which   *)
(* queues a refresh.                                                       *)
ProbeDone(d) ==
    /\ idev[d] = "open"
    /\ idev' = [idev EXCEPT ![d] = "bound"]
    /\ \/ queued' = queued \cup {d} /\ UNCHANGED blind
       \/ "unwatched" \in Races /\ blind' = blind \cup {d} /\ UNCHANGED queued
    /\ UNCHANGED <<rootVars, glue, pci, pmVars, online, work, sysVars>>

(* The panic notifier, open_device, the watching or the sysfs file fails. *)
ProbeFails(d) ==
    /\ idev[d] = "open"
    /\ Restore
    /\ idev' = [idev EXCEPT ![d] = "failed"]
    /\ UNCHANGED <<rootVars, glue, pci, blind, workVars, sysVars>>

(* ioss_bus_remove: its flushes wait for the refresh, which finds the      *)
(* device unbinding. Of an idev that is not watched the notifier cannot be *)
(* unregistered, and remove returns there.                                 *)
RemoveDone(d) ==
    /\ idev[d] \in {"removed", "detached"}
    /\ d \notin queued \cup work
    /\ IF d \in blind THEN UNCHANGED pmVars ELSE Restore
    /\ blind' = blind \ {d}
    /\ idev' = [idev EXCEPT ![d] = IF @ = "removed" THEN "none" ELSE "failed"]
    /\ UNCHANGED <<rootVars, glue, pci, workVars, sysVars>>

----------------------------------------------------------------------------
(* The glue driver's module, ioss_bus_register_driver and its reverse. *)

GlueLoad ==
    /\ Awake /\ glue = "unloaded"
    /\ glue' = "loaded"
    /\ idev' = [d \in Devices |-> IF idev[d] \in {"unlinked", "failed"}
                                     /\ pci[d] = "bound"
                                  THEN "linked" ELSE idev[d]]
    /\ UNCHANGED <<rootVars, pci, blind, pmVars, workVars, sysVars>>

GlueUnload ==
    /\ Awake /\ glue = "loaded" /\ Still(Devices)
    /\ glue' = "unloading"
    /\ idev' = [d \in Devices |-> IF idev[d] = "bound" THEN "detached" ELSE idev[d]]
    /\ queued' = queued \cup {d \in Devices : idev[d] = "bound"}
    /\ UNCHANGED <<rootVars, pci, blind, pmVars, online, work, sysVars>>

GlueUnloaded ==
    /\ glue = "unloading" /\ Still(Devices)
    /\ glue' = "unloaded"
    /\ UNCHANGED <<rootVars, pci, idev, blind, pmVars, workVars, sysVars>>

----------------------------------------------------------------------------
(* The PCI core. dev->driver is set before the driver's probe and cleared  *)
(* after its remove; BOUND_DRIVER and UNBIND_DRIVER are notified after and *)
(* before.                                                                 *)

BindStart(d) ==
    /\ Awake /\ pci[d] = "unbound"
    /\ pci' = [pci EXCEPT ![d] = "probing"]
    /\ UNCHANGED <<rootVars, glue, idev, blind, pmVars, workVars, sysVars>>

BindDone(d) ==
    /\ pci[d] = "probing"
    /\ idev[d] \in Resting
    /\ pci' = [pci EXCEPT ![d] = "bound"]
    /\ IF Notified THEN AddDevice(d) ELSE UNCHANGED idev
    /\ UNCHANGED <<rootVars, glue, blind, pmVars, workVars, sysVars>>

UnbindStart(d) ==
    /\ Awake /\ pci[d] = "bound"
    /\ idev[d] \in Resting /\ glue # "unloading"
    /\ root = "stopping" => "stop" \in Races
    /\ pci' = [pci EXCEPT ![d] = "unbinding"]
    /\ IF Notified /\ idev[d] # "none"
       THEN RemoveDevice(d) ELSE UNCHANGED <<idev, queued>>
    /\ UNCHANGED <<rootVars, glue, blind, pmVars, online, work, sysVars>>

UnbindDone(d) ==
    /\ pci[d] = "unbinding"
    /\ idev[d] \in Resting
    /\ pci' = [pci EXCEPT ![d] = "unbound"]
    /\ UNCHANGED <<rootVars, glue, idev, blind, pmVars, workVars, sysVars>>

----------------------------------------------------------------------------
(* The root driver. *)

(* Mutant: the devices bound already are not looked for. *)
IpaReadyNoWalk ==
    /\ Awake /\ root = "waiting"
    /\ root' = "walking" /\ todo' = {}
    /\ UNCHANGED <<at, glue, pci, idev, blind, pmVars, workVars, sysVars>>

(* ioss_ipa_ready_notif, ioss_pci_start: the notifier is registered, then  *)
(* the devices on the bus are visited.                                     *)
IpaReady ==
    /\ Awake /\ root = "waiting"
    /\ root' = "walking" /\ todo' = Devices
    /\ UNCHANGED <<at, glue, pci, idev, blind, pmVars, workVars, sysVars>>

WalkAdd(d) ==
    /\ root = "walking" /\ d \in todo /\ Still(at)
    /\ pci[d] \in {"probing", "unbinding"} => "early" \in Races
    /\ todo' = todo \ {d} /\ at' = {d}
    /\ IF pci[d] # "unbound"
       THEN UNCHANGED pci /\ AddDevice(d) ELSE UNCHANGED <<pci, idev>>
    /\ UNCHANGED <<root, glue, blind, pmVars, workVars, sysVars>>

(* Mutant: only the notifier is unregistered. *)
StopNoWalk ==
    /\ Awake /\ root \in {"waiting", "started"} /\ Still(Devices)
    /\ root' = "stopping" /\ todo' = {}
    /\ UNCHANGED <<at, glue, pci, idev, blind, pmVars, workVars, sysVars>>

(* ioss_remove, which may come before IPA is ready, and ioss_pci_stop:     *)
(* unregistering the notifier waits for the calls under way.               *)
Stop ==
    /\ Awake /\ root \in {"waiting", "started"} /\ Still(Devices)
    /\ root' = "stopping" /\ todo' = Devices
    /\ UNCHANGED <<at, glue, pci, idev, blind, pmVars, workVars, sysVars>>

WalkRemove(d) ==
    /\ root = "stopping" /\ d \in todo /\ Still(at)
    /\ idev[d] \in Resting /\ glue # "unloading"
    /\ todo' = todo \ {d} /\ at' = {d}
    /\ IF pci[d] # "unbound" /\ idev[d] # "none"
       THEN RemoveDevice(d) ELSE UNCHANGED <<idev, queued>>
    /\ UNCHANGED <<root, glue, pci, blind, pmVars, online, work, sysVars>>

WalkDone ==
    /\ root \in {"walking", "stopping"} /\ todo = {} /\ Still(at)
    /\ root' = IF root = "walking" THEN "started" ELSE "gone"
    /\ at' = {}
    /\ UNCHANGED <<todo, glue, pci, idev, blind, pmVars, workVars, sysVars>>

(* The root device is probed again. *)
RootProbe ==
    /\ Awake /\ root = "gone"
    /\ root' = "waiting"
    /\ UNCHANGED <<todo, at, glue, pci, idev, blind, pmVars, workVars, sysVars>>

----------------------------------------------------------------------------
(* The refreshes. *)

Event(d) ==
    /\ idev[d] = "bound" /\ d \notin blind
    /\ queued' = queued \cup {d}
    /\ UNCHANGED <<rootVars, glue, pci, idev, blind, pmVars, online, work,
                   sysVars>>

(* Mutant: the work queue is not WQ_FREEZABLE. *)
RefreshStartAnyTime(d) ==
    /\ d \in queued \ work
    /\ queued' = queued \ {d} /\ work' = work \cup {d}
    /\ UNCHANGED <<rootVars, glue, pci, idev, blind, pmVars, online, sysVars>>

(* The work queue is WQ_FREEZABLE. *)
RefreshStart(d) ==
    /\ Awake
    /\ d \in queued \ work
    /\ queued' = queued \ {d} /\ work' = work \cup {d}
    /\ UNCHANGED <<rootVars, glue, pci, idev, blind, pmVars, online, sysVars>>

RefreshEnd(d) ==
    /\ d \in work
    /\ work' = work \ {d}
    /\ online' \in IF idev[d] = "bound" THEN {online \cup {d}, online \ {d}}
                                        ELSE {online \ {d}}
    /\ UNCHANGED <<rootVars, glue, pci, idev, blind, pmVars, queued, sysVars>>

----------------------------------------------------------------------------
(* System suspend: user space is frozen, then the work queue; devices are  *)
(* suspended, and resumed when all are or when one of them fails.          *)

Freeze ==
    /\ Awake
    /\ Still(Devices) /\ glue # "unloading"
    /\ root \in {"waiting", "started", "gone"}
    /\ \A d \in Devices : pci[d] \in {"unbound", "bound"}
    /\ sys' = "freezing"
    /\ UNCHANGED <<rootVars, glue, pci, idev, blind, pmVars, workVars, susp>>

Frozen ==
    /\ sys = "freezing" /\ work = {}
    /\ sys' = "suspending"
    /\ UNCHANGED <<rootVars, glue, pci, idev, blind, pmVars, workVars, susp>>

(* What the PM callbacks of the device do now: ioss_pci_suspend_handler    *)
(* and ioss_pci_resume_handler leave an ONLINE interface running.          *)
Handler(d) == IF pm = "ioss" /\ d \in online THEN "nop" ELSE "real"

SuspendDevice(d) ==
    /\ sys = "suspending"
    /\ pci[d] = "bound" /\ susp[d] = "no"
    /\ susp' = [susp EXCEPT ![d] = Handler(d)]
    /\ UNCHANGED <<rootVars, glue, pci, idev, blind, pmVars, workVars, sys>>

(* Asleep and woken up, or a device refused. *)
WakeUp ==
    /\ sys = "suspending"
    /\ sys' = "resuming"
    /\ UNCHANGED <<rootVars, glue, pci, idev, blind, pmVars, workVars, susp>>

ResumeDevice(d) ==
    /\ sys = "resuming" /\ susp[d] # "no"
    /\ susp' = [susp EXCEPT ![d] = "no"]
    /\ UNCHANGED <<rootVars, glue, pci, idev, blind, pmVars, workVars, sys>>

Thaw ==
    /\ sys = "resuming" /\ \A d \in Devices : susp[d] = "no"
    /\ sys' = "awake"
    /\ UNCHANGED <<rootVars, glue, pci, idev, blind, pmVars, workVars, susp>>

----------------------------------------------------------------------------
Begin == \/ GlueLoad \/ GlueUnload \/ IpaReady \/ Stop \/ RootProbe \/ Freeze
         \/ \E d \in Devices : BindStart(d) \/ UnbindStart(d) \/ Event(d)

GoOn(d) == \/ Hijack(d) \/ ProbeDone(d) \/ ProbeFails(d) \/ RemoveDone(d)
           \/ BindDone(d) \/ UnbindDone(d)
           \/ WalkAdd(d) \/ WalkRemove(d)
           \/ RefreshStart(d) \/ RefreshEnd(d)
           \/ SuspendDevice(d) \/ ResumeDevice(d)

End == GlueUnloaded \/ WalkDone \/ Frozen \/ WakeUp \/ Thaw

Next == Begin \/ End \/ \E d \in Devices : GoOn(d)

(* Every thread goes on with what it has begun, and a system that goes to  *)
(* sleep wakes up.                                                         *)
Fairness ==
    /\ WF_vars(GlueUnloaded) /\ WF_vars(WalkDone)
    /\ WF_vars(Frozen) /\ WF_vars(WakeUp) /\ WF_vars(Thaw)
    /\ \A d \in Devices :
          /\ SF_vars(WalkAdd(d)) /\ SF_vars(WalkRemove(d))
          /\ WF_vars(Hijack(d)) /\ WF_vars(ProbeDone(d)) /\ SF_vars(RemoveDone(d))
          /\ WF_vars(BindDone(d)) /\ WF_vars(UnbindDone(d))
          /\ SF_vars(RefreshStart(d)) /\ WF_vars(RefreshEnd(d))
          /\ WF_vars(ResumeDevice(d))

Spec == Init /\ [][Next]_vars /\ Fairness

----------------------------------------------------------------------------
Users == {d \in Devices : idev[d] \in {"open", "bound", "removed", "detached"}}

(* The driver's own PM callbacks are hijacked exactly while some idev uses *)
(* them, are never mistaken for IOSS's (whose handlers would then call     *)
(* themselves), and are back before the glue module is gone.               *)
PmOpsSane ==
    /\ refcnt = Cardinality(Users)
    /\ pm = "ioss" <=> Users # {}
    /\ pmReal # "ioss"
    /\ pm = "ioss" => glue # "unloaded"

(* A device is resumed by the callback that suspended it: whether it is    *)
(* offloaded does not change while it is suspended, though the suspend     *)
(* itself queues refreshes (the comment at the work queue's creation).     *)
SuspendPaired == \A d \in Devices : susp[d] # "no" => susp[d] = Handler(d)

(* Once the subsystem has stopped nothing of it is left: no idev, no       *)
(* refresh on the destroyed work queue, no interface offloaded, the PM     *)
(* callbacks in place.                                                     *)
StoppedIsClean ==
    root = "gone" =>
        /\ \A d \in Devices : idev[d] = "none"
        /\ queued = {} /\ work = {} /\ online = {}
        /\ pm = "real"

(* A PCI device that stays bound while the subsystem and the glue driver   *)
(* are there is probed for offload, however its binding, the start of the  *)
(* subsystem and the loading of the glue driver were ordered.              *)
BoundIsProbed ==
    \A d \in Devices :
        <>[](root = "started" /\ glue = "loaded" /\ pci[d] = "bound")
            => <>[](idev[d] \in {"bound", "failed"})
============================================================================

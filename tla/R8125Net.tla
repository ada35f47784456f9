------------------------------ MODULE R8125Net -----------------------------
(***************************************************************************)
(* The life cycle of the network device in r8125_n.c: open and close, the  *)
(* reset, ESD and link-change work items, the change of MTU, suspend and   *)
(* resume, removal, and what rtl8125_enable_ring, rtl8125_disable_ring and *)
(* rtl8125_release_ring of the offload library do to the device. All of    *)
(* them hold the RTNL lock, except that the library goes on without it     *)
(* when rtnl_trylock fails. They run against the link-change interrupt,    *)
(* the NAPI poll and the PHY.                                              *)
(* The build is the one with MSI-X and interrupt registers of version 2.   *)
(***************************************************************************)
EXTENDS Naturals

CONSTANTS Faults,   \* the calls that may fail
          Races     \* the orders of events allowed, of those below

(* No memory in open, in the library's restart, in a change of MTU; the    *)
(* PCI device cannot be enabled in resume; the ESD check finds the PCI     *)
(* link down.                                                              *)
AllFaults == {"open_mem", "restart_mem", "mtu_mem", "resume_pci", "pci_link"}

(* Orders the code leaves open:                                            *)
(*   "trylock"   the library goes on without the RTNL lock;                *)
(*   "closed"    the library enables a ring of a device that is closed,    *)
(*               which it does not look at;                                *)
(*   "ack"       a link change is not seen before rtl8125_enable_ring      *)
(*               acknowledges every interrupt;                             *)
(*   "window"    the link comes up between the reading of its state and    *)
(*               the chip reset that acknowledges every interrupt;         *)
(*   "late"      an interrupt schedules work after remove has cancelled    *)
(*               all of it;                                                *)
(*   "poll"      a poll is under way while the device is suspended.        *)
AllRaces == {"trylock", "closed", "ack", "window", "late", "poll"}

ASSUME NetDriverAssumption == Faults \subseteq AllFaults /\ Races \subseteq AllRaces

Works   == {"reset", "esd", "link"}
Threads == {"rtnl", "lib"}   \* the holder of the RTNL lock; the library
                             \* when it goes on without it

VARIABLES
    running,  \* netif_running()
    flags,    \* task_flags: "down" and a PENDING bit per work item; and
              \* "found", when tp->esd_flag is not 0
    queued,   \* the delayed work items that are scheduled
    keep,     \* tp->resume_not_chg_speed
    ring,     \* the descriptor rings: not allocated, empty, or filled
    napi,     \* whether the NAPI contexts are enabled
    poll,     \* whether a poll runs
    imr, isr, \* interrupts that are not masked; the link change is pending
    chip,     \* powered down; reset; or started, transmitting and receiving
    phy,      \* the link
    carrier,  \* netif_carrier_ok()
    op,       \* what each thread is doing
    restart,  \* the threads whose close is the first half of a restart
    lib,      \* whether the library has enabled rings, or has disabled them
              \* and not yet released the last one
    device    \* bound and awake, asleep, being removed, gone

workVars == <<flags, queued, keep>>
chipVars == <<imr, isr, chip, phy, carrier>>
vars == <<running, workVars, ring, napi, poll, chipVars, op, restart, lib,
          device>>

Steps == {"none", "open", "close", "close_napi", "close_free", "reset_napi",
          "reset", "link_down", "mtu_napi", "mtu", "lib_napi", "lib_start"}

(* Every variable keeps its type. *)
TypeOK ==
    /\ running \in BOOLEAN /\ keep \in BOOLEAN
    /\ flags \subseteq Works \cup {"down", "found"} /\ queued \subseteq Works
    /\ ring \in {"none", "empty", "filled"}
    /\ napi \in {"on", "off"} /\ poll \in {"idle", "runs"}
    /\ imr \subseteq {"link", "data"} /\ isr \in BOOLEAN
    /\ chip \in {"off", "reset", "on"} /\ phy \in {"up", "down"}
    /\ carrier \in BOOLEAN
    /\ op \in [Threads -> Steps] /\ restart \subseteq Threads
    /\ lib \in {"none", "enabled", "disabled"}
    /\ device \in {"awake", "asleep", "removing", "gone"}

Init ==
    /\ running = FALSE /\ keep = FALSE /\ flags = {} /\ queued = {}
    /\ ring = "none" /\ napi = "off" /\ poll = "idle"
    /\ imr = {} /\ isr = FALSE /\ chip = "off"
    /\ phy \in {"up", "down"} /\ carrier = FALSE
    /\ op = [t \in Threads |-> "none"] /\ restart = {}
    /\ lib = "none" /\ device = "awake"

Free   == op["rtnl"] = "none"     \* the RTNL lock is free
Opened == running /\ "down" \notin flags

(* The threads in napi_disable. *)
Disabling == {"close_napi", "reset_napi", "mtu_napi", "lib_napi"}

Goto(t, step) == op' = [op EXCEPT ![t] = step]

(* rtl8125_schedule_*_work. *)
Schedule(works) == flags' = flags \cup works /\ queued' = queued \cup works

(* rtl8125_set_speed, after a reset that has acknowledged all interrupts:  *)
(* it restarts the negotiation, unless the speed is kept from before a     *)
(* suspend.                                                                *)
SetSpeed ==
    IF keep THEN isr' = FALSE /\ UNCHANGED phy
            ELSE isr' = (phy = "up") /\ phy' = "down"

(* rtl8125_link_on_patch: the chip is started with all its interrupts. *)
LinkOn == chip' = "on" /\ carrier' = TRUE /\ imr' = {"link", "data"}

----------------------------------------------------------------------------
(* rtl8125_open and rtl8125_close. *)

IfUp ==
    /\ Free /\ device = "awake" /\ ~running
    /\ running' = TRUE
    /\ Goto("rtnl", "open")
    /\ UNCHANGED <<workVars, ring, napi, poll, chipVars, restart, device, lib>>

IfDown ==
    /\ Free /\ device = "awake" /\ running
    /\ running' = FALSE
    /\ Goto("rtnl", "close")
    /\ UNCHANGED <<workVars, ring, napi, poll, chipVars, restart, device, lib>>

(* Rings, interrupts, NAPI, rtl8125_up; the link is checked or negotiated. *)
OpenDone(t) ==
    /\ op[t] = "open"
    /\ ring' = "filled" /\ napi' = "on"
    /\ LET esd == IF "found" \in flags THEN {} ELSE {"esd"}
       IN  flags' = (flags \ {"down"}) \cup esd /\ queued' = queued \cup esd
    /\ \/ /\ keep /\ phy = "up"
          /\ LinkOn /\ isr' = FALSE /\ UNCHANGED phy
       \/ /\ keep /\ phy = "down"
          /\ chip' = "reset" /\ imr' = {"link"} /\ isr' = FALSE
          /\ carrier' = FALSE /\ UNCHANGED phy
       \/ /\ ~keep
          /\ chip' = "reset" /\ imr' = {"link"} /\ SetSpeed
          /\ UNCHANGED carrier
    /\ keep' = FALSE
    /\ Goto(t, "none") /\ restart' = restart \ {t}
    /\ UNCHANGED <<running, poll, device, lib>>

(* Something could not be allocated: what was is freed. dev_open clears    *)
(* netif_running; the library does not look.                               *)
OpenFails(t) ==
    /\ op[t] = "open"
    /\ (IF t \in restart THEN "restart_mem" ELSE "open_mem") \in Faults
    /\ ring' = "none"
    /\ running' = (t \in restart)
    /\ Goto(t, "none") /\ restart' = restart \ {t}
    /\ UNCHANGED <<workVars, napi, poll, chipVars, device, lib>>

(* Where rtl8125_close returns to. *)
Closed(t) ==
    /\ Goto(t, IF t \in restart THEN "open" ELSE "none")
    /\ device' = IF device = "removing" THEN "gone" ELSE device

Close(t) ==
    /\ op[t] = "close"
    /\ \/ /\ ring = "none"
          /\ chip' = "off"
          /\ Closed(t)
          /\ UNCHANGED flags
       \/ /\ ring # "none"
          /\ flags' = flags \cup {"down"}
          /\ Goto(t, "close_napi")
          /\ UNCHANGED <<chip, device>>
    /\ UNCHANGED <<running, queued, keep, ring, napi, poll, imr, isr, phy,
                   carrier, restart, lib>>

(* Mutant: the poll is not waited for. *)
NapiDisableNoWait == napi = "on" /\ napi' = "off"

(* napi_disable waits for a running poll, and for ever when the contexts   *)
(* are disabled already.                                                   *)
NapiDisable == napi = "on" /\ poll = "idle" /\ napi' = "off"

CloseNapi(t) ==
    /\ op[t] = "close_napi"
    /\ NapiDisable
    /\ Goto(t, "close_free")
    /\ UNCHANGED <<running, workVars, ring, poll, chipVars, restart, device,
                   lib>>

(* The rest of rtl8125_down, power down, interrupts and memory freed. *)
CloseFree(t) ==
    /\ op[t] = "close_free"
    /\ imr' = {} /\ isr' = FALSE /\ chip' = "off" /\ carrier' = FALSE
    /\ ring' = "none"
    /\ Closed(t)
    /\ UNCHANGED <<running, workVars, napi, poll, phy, restart, lib>>

----------------------------------------------------------------------------
(* The offload library, which takes the RTNL lock if it is free. *)

Library(t) ==
    /\ device = "awake" /\ op[t] = "none"
    /\ t = "lib" => "trylock" \in Races /\ ~Free

(* rtl8125_enable_ring stops the queues and disables NAPI. *)
LibEnable(t) ==
    /\ Library(t)
    /\ lib # "disabled"
    /\ running \/ "closed" \in Races
    /\ isr => "ack" \in Races
    /\ lib' = "enabled"
    /\ Goto(t, "lib_napi")
    /\ UNCHANGED <<running, workVars, ring, napi, poll, chipVars, restart,
                   device>>

LibNapi(t) ==
    /\ op[t] = "lib_napi"
    /\ NapiDisable
    /\ imr' = {} /\ isr' = FALSE
    /\ Goto(t, "lib_start")
    /\ UNCHANGED <<running, workVars, ring, poll, chip, phy, carrier, restart,
                   device, lib>>

(* It fills the rings and starts the chip, whatever the link. *)
LibStarted(t) ==
    /\ op[t] = "lib_start"
    /\ chip' = "on" /\ imr' = {"link", "data"} /\ isr' = FALSE
    /\ ring' = "filled" /\ napi' = "on"
    /\ Goto(t, "none")
    /\ UNCHANGED <<running, workVars, poll, phy, carrier, restart, device,
                   lib>>

(* rtl8125_disable_ring resets the whole chip, which masks and             *)
(* acknowledges every interrupt, and starts nothing again.                 *)
LibDisable(t) ==
    /\ Library(t)
    /\ lib # "none"
    /\ imr' = {} /\ isr' = FALSE
    /\ chip' = IF chip = "off" THEN "off" ELSE "reset"
    /\ lib' = "disabled"
    /\ UNCHANGED <<running, workVars, ring, napi, poll, phy, carrier, op,
                   restart, device>>

(* rtl8125_release_ring, when it was the last ring of the library. *)
LibRestart(t) ==
    /\ Library(t)
    /\ \/ /\ running
          /\ Goto(t, "close") /\ restart' = restart \cup {t}
          /\ UNCHANGED imr
       \/ /\ ~running
          /\ imr' = imr \cup {"link"}
          /\ UNCHANGED <<op, restart>>
    /\ lib' = "none"
    /\ UNCHANGED <<running, workVars, ring, napi, poll, isr, chip, phy,
                   carrier, device>>

----------------------------------------------------------------------------
(* The work items, under the RTNL lock. *)

(* The work item starts; it goes on only when the device is open and its   *)
(* PENDING bit set.                                                        *)
Start(w) ==
    /\ Free
    /\ w \in queued
    /\ queued' = queued \ {w}

Pending(w) == Opened /\ w \in flags

WorkSkipped(w) ==
    /\ Start(w) /\ ~Pending(w)
    /\ UNCHANGED <<running, flags, keep, ring, napi, poll, chipVars, op,
                   restart, device, lib>>

(* rtl8125_reset_task. *)
ResetStart ==
    /\ Start("reset") /\ Pending("reset")
    /\ flags' = flags \ {"reset"}
    /\ Goto("rtnl", "reset_napi")
    /\ UNCHANGED <<running, keep, ring, napi, poll, chipVars, restart,
                   device, lib>>

(* Mutant: NAPI is not enabled again. *)
ResetQuiesceOff ==
    /\ op["rtnl"] = "reset_napi"
    /\ NapiDisable
    /\ imr' = {} /\ isr' = FALSE
    /\ Goto("rtnl", "reset")
    /\ UNCHANGED <<running, workVars, ring, poll, chip, phy, carrier, restart,
                   device, lib>>

(* rtl8125_wait_for_quiescence leaves NAPI enabled and interrupts masked. *)
ResetQuiesce ==
    /\ op["rtnl"] = "reset_napi"
    /\ napi = "on" /\ poll = "idle"
    /\ imr' = {} /\ isr' = FALSE
    /\ Goto("rtnl", "reset")
    /\ UNCHANGED <<running, workVars, ring, napi, poll, chip, phy, carrier,
                   restart, device, lib>>

(* Mutant: the link change interrupt stays masked. *)
ResetDoneMasked ==
    /\ op["rtnl"] = "reset"
    /\ ring' = "filled" /\ chip' = "reset" /\ carrier' = FALSE
    /\ SetSpeed
    /\ keep' = FALSE
    /\ Goto("rtnl", "none")
    /\ UNCHANGED <<running, flags, queued, napi, poll, imr, restart, device,
                   lib>>

ResetDone ==
    /\ op["rtnl"] = "reset"
    /\ ring' = "filled"
    /\ \/ keep /\ phy = "up" /\ LinkOn /\ isr' = FALSE /\ UNCHANGED phy
       \/ /\ ~(keep /\ phy = "up")
          /\ chip' = "reset" /\ carrier' = FALSE
          /\ imr' = {"link"} /\ SetSpeed
    /\ keep' = FALSE
    /\ Goto("rtnl", "none")
    /\ UNCHANGED <<running, flags, queued, napi, poll, restart, device, lib>>

(* An RX ring is short of buffers: reset again later. *)
ResetRxStuck ==
    /\ op["rtnl"] = "reset"
    /\ chip' = "reset" /\ carrier' = FALSE /\ isr' = FALSE
    /\ Schedule({"reset"})
    /\ Goto("rtnl", "none")
    /\ UNCHANGED <<running, keep, ring, napi, poll, imr, phy, restart,
                   device, lib>>

(* rtl8125_tx_timeout: the watchdog of a device that should transmit. *)
TxTimeout ==
    /\ carrier
    /\ device = "removing" => "late" \in Races
    /\ Schedule({"reset"})
    /\ UNCHANGED <<running, keep, ring, napi, poll, chipVars, op, restart,
                   device, lib>>

(* rtl8125_linkchg_task, when the link is up: the chip is reset, which     *)
(* acknowledges every interrupt, and started.                              *)
LinkIsUp ==
    /\ Start("link") /\ Pending("link")
    /\ phy = "up"
    /\ flags' = flags \ {"link"}
    /\ LinkOn /\ isr' = FALSE
    /\ keep' = FALSE
    /\ UNCHANGED <<running, ring, napi, poll, phy, op, restart, device, lib>>

LinkIsDown ==
    /\ Start("link") /\ Pending("link")
    /\ phy = "down"
    /\ flags' = flags \ {"link"}
    /\ Goto("rtnl", "link_down")
    /\ UNCHANGED <<running, keep, ring, napi, poll, chipVars, restart,
                   device, lib>>

(* rtl8125_link_down_patch: the chip and the rings are reset. *)
LinkDownPatch ==
    /\ op["rtnl"] = "link_down"
    /\ chip' = "reset" /\ carrier' = FALSE
    /\ imr' = {"link"} /\ isr' = FALSE
    /\ ring' = "filled" /\ keep' = FALSE
    /\ Goto("rtnl", "none")
    /\ UNCHANGED <<running, flags, queued, napi, poll, phy, restart, device,
                   lib>>

(* Mutant: the check is not scheduled again. *)
EsdCheckOnce ==
    /\ Start("esd") /\ Pending("esd")
    /\ flags' = flags \ {"esd"}
    /\ UNCHANGED <<running, keep, ring, napi, poll, chipVars, op, restart,
                   device, lib>>

(* rtl8125_esd_task: the configuration space is as it was, or the device   *)
(* is set up anew, or the PCI link is down. The check is scheduled again.  *)
EsdCheck ==
    /\ Free /\ "esd" \in queued /\ Pending("esd")
    /\ \/ flags' = flags \ {"found"} /\ UNCHANGED <<ring, chipVars>>
       \/ /\ flags' = flags \ {"found"}
          /\ chip' = "reset" /\ carrier' = FALSE /\ imr' = {"link"}
          /\ ring' = "filled" /\ SetSpeed
       \/ /\ "pci_link" \in Faults
          /\ flags' = flags \cup {"found"} /\ UNCHANGED <<ring, chipVars>>
    /\ UNCHANGED <<running, queued, keep, napi, poll, op, restart, device,
                   lib>>

----------------------------------------------------------------------------
(* rtl8125_change_mtu: rtl8125_down, then the rings are filled anew. *)

MtuChange ==
    /\ Free /\ device = "awake" /\ running
    /\ Goto("rtnl", "mtu_napi")
    /\ UNCHANGED <<running, workVars, ring, napi, poll, chipVars, restart,
                   device, lib>>

MtuNapi ==
    /\ op["rtnl"] = "mtu_napi"
    /\ NapiDisable
    /\ imr' = {} /\ isr' = FALSE /\ chip' = "reset" /\ carrier' = FALSE
    /\ ring' = "empty"
    /\ Goto("rtnl", "mtu")
    /\ UNCHANGED <<running, workVars, poll, phy, restart, device, lib>>

MtuDone ==
    /\ op["rtnl"] = "mtu"
    /\ \/ /\ ring' = "filled" /\ napi' = "on"
          /\ imr' = {"link"} /\ SetSpeed
       \/ \* no buffers for the new size: the device is left as it is
          /\ "mtu_mem" \in Faults
          /\ UNCHANGED <<ring, napi, imr, isr, phy>>
    /\ Goto("rtnl", "none")
    /\ UNCHANGED <<running, workVars, poll, chip, carrier, restart, device,
                   lib>>

----------------------------------------------------------------------------
(* Suspend and resume; user space is frozen in between. *)

Suspend ==
    /\ Free /\ device = "awake"
    /\ poll = "idle" \/ "poll" \in Races
    /\ IF running
       THEN /\ flags' = flags \cup {"down"}
            /\ carrier' = FALSE /\ chip' = "off" /\ imr' = {} /\ isr' = FALSE
       ELSE UNCHANGED <<flags, carrier, chip, imr, isr>>
    /\ device' = "asleep"
    /\ UNCHANGED <<running, queued, keep, ring, napi, poll, phy, op, restart,
                   lib>>

Resume ==
    /\ Free /\ device = "asleep"
    /\ \/ /\ running
          /\ keep' \in BOOLEAN
          /\ chip' = "reset" /\ isr' = FALSE
          /\ flags' = (flags \ {"down"}) \cup {"reset", "esd"}
          /\ queued' = queued \cup {"reset", "esd"}
       \/ /\ ~running
          /\ keep' \in BOOLEAN
          /\ UNCHANGED <<chip, isr, flags, queued>>
       \/ /\ "resume_pci" \in Faults
          /\ UNCHANGED <<keep, chip, isr, flags, queued>>
    /\ device' = "awake"
    /\ UNCHANGED <<running, ring, napi, poll, imr, phy, carrier, op, restart,
                   lib>>

(* Mutant: the work is not cancelled. *)
RemoveNoCancel ==
    /\ Free /\ device = "awake"
    /\ flags' = flags \cup {"down"}
    /\ running' = FALSE
    /\ \/ running /\ Goto("rtnl", "close") /\ device' = "removing"
       \/ ~running /\ device' = "gone" /\ UNCHANGED op
    /\ UNCHANGED <<queued, keep, ring, napi, poll, chipVars, restart, lib>>

(* rtl8125_remove_one: the work is cancelled, then the net device closed.  *)
(* rtl8125_del_napi in between only takes the contexts off the device's    *)
(* list; they stay enabled until the close disables them.                  *)
Remove ==
    /\ Free /\ device = "awake"
    /\ flags' = flags \cup {"down"} /\ queued' = {}
    /\ running' = FALSE
    /\ \/ running /\ Goto("rtnl", "close") /\ device' = "removing"
       \/ ~running /\ device' = "gone" /\ UNCHANGED op
    /\ UNCHANGED <<keep, ring, napi, poll, chipVars, restart, lib>>

----------------------------------------------------------------------------
(* The PHY, the interrupt and the poll. *)

PhyChange ==
    /\ op["rtnl"] = "link_down" => "window" \in Races
    /\ \A t \in Threads : op[t] \in {"lib_napi", "lib_start"} => "ack" \in Races
    /\ phy' = IF phy = "up" THEN "down" ELSE "up"
    /\ isr' = (isr \/ chip # "off")
    /\ UNCHANGED <<running, workVars, ring, napi, poll, imr, chip, carrier,
                   op, restart, device, lib>>

(* rtl8125_interrupt_msix for message 21: masked, acknowledged, handed to  *)
(* the link-change work, which unmasks it.                                 *)
LinkInterrupt ==
    /\ isr /\ "link" \in imr /\ ring # "none"
    /\ device = "removing" => "late" \in Races
    /\ imr' = imr \ {"link"} /\ isr' = FALSE
    /\ Schedule({"link"})
    /\ UNCHANGED <<running, keep, ring, napi, poll, chip, phy, carrier, op,
                   restart, device, lib>>

(* No poll starts while napi_disable waits for one to end. *)
PollStart ==
    /\ \A t \in Threads : op[t] \notin Disabling
    /\ chip = "on" /\ "data" \in imr /\ napi = "on" /\ poll = "idle"
    /\ poll' = "runs" /\ imr' = imr \ {"data"}
    /\ UNCHANGED <<running, workVars, ring, napi, isr, chip, phy, carrier, op,
                   restart, device, lib>>

(* Mutant: a poll that finds no carrier gives up before napi_complete. *)
PollEndCarrier ==
    /\ poll = "runs" /\ carrier
    /\ poll' = "idle" /\ imr' = imr \cup {"data"}
    /\ UNCHANGED <<running, workVars, ring, napi, isr, chip, phy, carrier, op,
                   restart, device, lib>>

PollEnd ==
    /\ poll = "runs"
    /\ poll' = "idle" /\ imr' = imr \cup {"data"}
    /\ UNCHANGED <<running, workVars, ring, napi, isr, chip, phy, carrier, op,
                   restart, device, lib>>

ThreadNext(t) ==
    \/ OpenDone(t) \/ OpenFails(t) \/ Close(t) \/ CloseNapi(t) \/ CloseFree(t)
    \/ LibNapi(t) \/ LibStarted(t)

Next ==
    \/ IfUp \/ IfDown \/ MtuChange \/ Suspend \/ Resume \/ Remove
    \/ \E t \in Threads : LibEnable(t) \/ LibDisable(t) \/ LibRestart(t)
    \/ \E t \in Threads : ThreadNext(t)
    \/ \E w \in Works : WorkSkipped(w)
    \/ ResetStart \/ ResetQuiesce \/ ResetDone \/ ResetRxStuck
    \/ LinkIsUp \/ LinkIsDown \/ LinkDownPatch
    \/ EsdCheck
    \/ MtuNapi \/ MtuDone
    \/ TxTimeout
    \/ PhyChange \/ LinkInterrupt \/ PollStart \/ PollEnd

(* Threads and polls go on, a mutex is handed on in turn, pending          *)
(* interrupts are delivered, a shortage of RX buffers ends, and the glue   *)
(* releases the rings it has disabled.                                     *)
Fairness ==
    /\ \A t \in Threads : WF_vars(ThreadNext(t))
    /\ \A w \in Works : SF_vars(WorkSkipped(w))
    /\ SF_vars(ResetStart) /\ WF_vars(ResetQuiesce) /\ SF_vars(ResetDone)
    /\ SF_vars(LinkIsUp) /\ SF_vars(LinkIsDown) /\ WF_vars(LinkDownPatch)
    /\ WF_vars(MtuNapi) /\ WF_vars(MtuDone)
    /\ WF_vars(LinkInterrupt) /\ WF_vars(PollEnd)
    /\ SF_vars(lib = "disabled" /\ LibRestart("rtnl"))

Spec == Init /\ [][Next]_vars /\ Fairness

----------------------------------------------------------------------------
(* No thread waits for ever in napi_disable, and none enables NAPI twice,  *)
(* which is a BUG: whoever disables it finds it enabled.                   *)
NapiPaired ==
    \A t \in Threads :
        /\ op[t] \in Disabling => napi = "on"
        /\ op[t] \in {"open", "mtu", "lib_start"} => napi = "off"

(* The descriptor rings are not freed under a poll, and the chip is not    *)
(* powered down under one.                                                 *)
PollIsSafe == poll = "runs" => ring # "none" /\ chip # "off"

(* Once the device is removed no work item is left to run on it. *)
RemovedIsQuiet == device = "gone" => queued = {} /\ op["rtnl"] = "none"

(* While the device is open the ESD check is armed: scheduled, and with    *)
(* the bit set without which it would return and never come again.         *)
EsdArmed ==
    Opened /\ Free /\ device = "awake" => "esd" \in queued \cap flags

(* Whoever takes the RTNL lock gives it back: no work item, no change of   *)
(* the device and no call of the library waits for ever with the lock      *)
(* held, for a poll to end or for NAPI to be enabled.                      *)
RtnlReleased == ~Free ~> Free

(* A device that stays open and awake with the link up ends with its       *)
(* carrier on: whatever masked, acknowledged or skipped the link-change    *)
(* interrupt and its work, the change is not lost.                         *)
LinkNoticed ==
    <>[](running /\ device = "awake" /\ phy = "up") => <>[]carrier
============================================================================

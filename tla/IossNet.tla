------------------------------ MODULE IossNet ------------------------------
(***************************************************************************)
(* The offload life cycle of one network interface, as ioss_net.c drives   *)
(* it. Four actors run concurrently:                                       *)
(*   - the refresh work item of the interface (ioss_refresh_work), which   *)
(*     alone brings the offload path up and down;                          *)
(*   - the kernel's net device core, which opens, closes and moves the     *)
(*     device, reports link changes and calls the netdevice notifier;      *)
(*   - the bind thread: probe (ioss_net_watch_device) and remove           *)
(*     (ioss_net_unwatch_device) of the glue driver, PCI bind and unbind;  *)
(*   - a user who writes suspend_ipa_offload, the device's online file or  *)
(*     a diagnostic parameter, or the resume callback.                     *)
(* The work item talks to the rings through the operators of R8125Glue.    *)
(* Booleans of the code are members of sets of flags.                      *)
(***************************************************************************)
EXTENDS R8125Glue, FiniteSets

CONSTANTS Faults,     \* the calls that may fail for lack of a resource
          AllowMove   \* whether the device may change network namespace

AllFaults == {"register_iface", "chan_mem", "ring_mem", "debugfs",
              "ipa_register", "map_event", "enable_channel", "disable_pc",
              "enable_pc", "ipa_unregister"}

(* The faults the error path of ioss_iface_set_online is written for. *)
UnwoundFaults == {"chan_mem", "debugfs", "ipa_register", "map_event",
                  "disable_pc"}

ASSUME NetAssumption == Faults \subseteq AllFaults /\ AllowMove \in BOOLEAN

VARIABLES
    state,      \* iface->state
    fl,         \* ch->allocated, ch->enabled, ch->event.allocated, .enabled
    drv,        \* the glue driver's rings (R8125Glue)
    held,       \* "ipa": registered with IPA; "pc": power collapse disabled
    pc, i,      \* the work item: where it is, its channel
    err,        \* "rc": a channel's teardown failed; "unwinding": it is on
                \* the error path of ioss_iface_set_online
    refresh,    \* whether the work item is queued
    waitP,      \* threads flushing the queued instance of the work item
    waitR,      \* threads flushing the running instance
    iface,      \* "attached": iface->dev.parent points at the net device;
                \* "added": the iface device is registered and
                \* net_dev->netdev_ops hijacked; "notified": the netdevice
                \* notifier is registered
    dev,        \* "running": netif_running(); "carrier": netif_carrier_ok();
                \* "event": a link change waits for the link watcher
    rtnl,       \* who holds the RTNL lock across steps
    net,        \* what the net device core is doing
    bind,       \* where the bind thread is
    user,       \* where the writer of suspend_ipa_offload is
    idev,       \* "offline": idev->dev.offline; "unbinding": idev->unbinding
    kernel      \* "oops": a NULL pointer was followed

offloadVars == <<state, fl, drv, held>>
workVars    == <<pc, i, err>>
queueVars   == <<refresh, waitP, waitR>>
netVars     == <<dev, rtnl, net>>
ctlVars     == <<bind, user, idev>>

vars == <<offloadVars, workVars, queueVars, iface, netVars, ctlVars, kernel>>

States == {"OFFLINE", "ONLINE", "ERROR"}

Flags == [allocated : SUBSET Channels, enabled : SUBSET Channels,
          evAllocated : SUBSET Channels, evEnabled : SUBSET Channels]

NoFlags == [allocated |-> {}, enabled |-> {},
            evAllocated |-> {}, evEnabled |-> {}]

BringUp   == {"alloc", "ipa_register", "setup", "enable", "disable_pc"}
Revert    == {"alloc_revert", "setup_revert", "enable_revert"}
TearDown  == {"disable", "teardown", "ipa_unregister", "free"}
WorkSteps == {"idle", "speed", "decide", "enable_pc"}
                 \cup BringUp \cup Revert \cup TearDown

BindSteps == {"absent", "unwatched", "watched", "u_queue", "u_flush",
              "u_unreg", "u_flush2"}

(* The types, by the actor whose state they are. *)
OffloadOK == /\ state \in States /\ fl \in Flags /\ drv \in Rings
             /\ held \subseteq {"ipa", "pc"}
WorkOK    == /\ pc \in WorkSteps /\ i \in 0..N
             /\ err \subseteq {"rc", "unwinding"}
QueueOK   == /\ refresh \in {"idle", "queued"}
             /\ waitP \subseteq {"bind", "user"}
             /\ waitR \subseteq {"bind", "user"}
NetOK     == /\ iface \subseteq {"attached", "added", "notified"}
             /\ dev \subseteq {"running", "carrier", "event"}
             /\ rtnl \in {"none", "net", "bind", "work"}
             /\ net \in {"idle", "closing", "opening", "unlisted", "relisting"}
ControlOK == /\ bind \in BindSteps /\ user \in {"idle", "queue", "flush"}
             /\ idev \subseteq {"offline", "unbinding"}
             /\ kernel \in {"runs", "oops"}

(* Every variable keeps its type, and so does the index of the channel the *)
(* work item is at: ioss_list_iter_action never passes either end of the   *)
(* list.                                                                   *)
TypeOK == OffloadOK /\ WorkOK /\ QueueOK /\ NetOK /\ ControlOK

Init ==
    /\ state = "OFFLINE" /\ fl = NoFlags /\ drv = NoRings({}) /\ held = {}
    /\ pc = "idle" /\ i = 0 /\ err = {}
    /\ refresh = "idle" /\ waitP = {} /\ waitR = {}
    /\ iface = {}
    /\ dev \in {{}, {"running"}}
    /\ rtnl = "none" /\ net = "idle"
    /\ bind = "unwatched" /\ user = "idle" /\ idev = {}
    /\ kernel = "runs"

Running  == "running" \in dev
NapiOn   == Running /\ net # "opening"   \* ndo_open and ndo_stop see to it
Attached == "attached" \in iface
Notified == "notified" \in iface

----------------------------------------------------------------------------
(* The work item. At(p): its next step is p, and the kernel still runs. *)

At(p) == kernel = "runs" /\ pc = p

(* The work function returns; whoever flushes this instance may go on. *)
Finish == pc' = "idle" /\ i' = 0 /\ waitR' = {}

(* Mutant: the iteration runs one entry past the list. *)
NextChannelPastEnd(stage) ==
    IF i <= N THEN pc' = pc /\ i' = i + 1
              ELSE pc' = stage /\ i' = 1

(* ioss_list_iter_action and ioss_for_each_channel: one channel after      *)
(* another, then the next stage.                                           *)
NextChannel(stage) ==
    IF i < N THEN pc' = pc /\ i' = i + 1
             ELSE pc' = stage /\ i' = 1

GoTo(stage) == pc' = stage /\ i' = 1

(* Mutant: the channel that failed is reverted as well. *)
RevertFromFailed(stage) == pc' = stage /\ i' = i

(* An action of ioss_list_iter_action failed: the channels before this one *)
(* are reverted, last one first.                                           *)
RevertFrom(stage) == pc' = stage /\ i' = i - 1

(* The workqueue starts the queued instance; without a net device the work *)
(* function returns at once.                                               *)
RefreshStart ==
    /\ At("idle")
    /\ refresh = "queued"
    /\ refresh' = "idle"
    /\ waitP' = {}
    /\ \/ Attached /\ pc' = "speed" /\ waitR' = waitP
       \/ ~Attached /\ pc' = pc /\ waitR' = {}
    /\ UNCHANGED <<offloadVars, i, err, iface, netVars, ctlVars, kernel>>

(* Mutant: the link speed is read without the RTNL lock. *)
FetchLinkSpeedUnlocked ==
    /\ At("speed")
    /\ pc' = "decide"
    /\ UNCHANGED <<offloadVars, i, err, queueVars, iface, netVars, ctlVars,
                   kernel>>

(* The link speed is read under the RTNL lock. *)
FetchLinkSpeed ==
    /\ At("speed")
    /\ rtnl = "none"
    /\ pc' = "decide"
    /\ UNCHANGED <<offloadVars, i, err, queueVars, iface, netVars, ctlVars,
                   kernel>>

(* The interface should be offloaded. *)
Wanted == {"running", "carrier"} \subseteq dev /\ idev = {}

EnterSetOnline ==
    /\ At("decide")
    /\ Wanted
    /\ \/ state = "OFFLINE" /\ GoTo("alloc") /\ UNCHANGED waitR
       \/ state # "OFFLINE" /\ Finish
    /\ err' = {}
    /\ UNCHANGED <<offloadVars, refresh, waitP, iface, netVars, ctlVars,
                   kernel>>

EnterSetOffline ==
    /\ At("decide")
    /\ ~Wanted
    /\ \/ /\ state = "ONLINE"
          /\ state' = "OFFLINE"
          /\ GoTo("enable_pc")
          /\ UNCHANGED waitR
       \/ /\ state # "ONLINE"
          /\ Finish
          /\ UNCHANGED state
    /\ err' = {}
    /\ UNCHANGED <<fl, drv, held, refresh, waitP, iface, netVars, ctlVars,
                   kernel>>

----------------------------------------------------------------------------
(* What the stages do to one channel. *)

(* A NULL pointer is followed. *)
Oops(null) == kernel' = IF null THEN "oops" ELSE kernel

(* The flags of a device that loses its carrier: the link watcher hears of *)
(* it.                                                                     *)
CarrierLost(flags) ==
    IF "carrier" \in flags THEN (flags \ {"carrier"}) \cup {"event"} ELSE flags

(* When the last offload ring goes, the library restarts a running device, *)
(* which drops the carrier.                                                *)
RestartIfLast ==
    dev' = IF drv'.ring = {} /\ Running THEN CarrierLost(dev) ELSE dev

(* __ioss_net_free_channel; release_channel follows ch->private. *)
FreeChannel ==
    /\ Oops(NullRing(drv, i))
    /\ drv' = ReleaseChannel(drv, i)
    /\ fl' = [fl EXCEPT !.allocated = @ \ {i}]
    /\ RestartIfLast

(* Mutant: the flag is cleared and the driver is not called. *)
StopChannelFlagOnly ==
    /\ fl' = [fl EXCEPT !.enabled = @ \ {i}]
    /\ UNCHANGED drv

(* __ioss_net_disable_channel. *)
StopChannel ==
    /\ drv' = DisableChannel(drv, i)
    /\ fl' = [fl EXCEPT !.enabled = @ \ {i}]

(* __ioss_net_teardown_event: the event is released even when it could not *)
(* be disabled.                                                            *)
TeardownEvent ==
    /\ Oops(NullRing(drv, i))
    /\ drv' = ReleaseEvent(DisableEvent(drv, i), i)
    /\ fl' = [fl EXCEPT !.evEnabled = IF DisableEventFails(drv, i)
                                      THEN @ ELSE @ \ {i},
                        !.evAllocated = @ \ {i}]

----------------------------------------------------------------------------
(* ioss_iface_set_online, stage by stage. *)

AllocChannel ==
    /\ At("alloc")
    /\ \/ /\ drv' = RequestChannel(drv, i)
          /\ fl' = [fl EXCEPT !.allocated = @ \cup {i}]
          /\ NextChannel("ipa_register")
          /\ UNCHANGED <<dev, kernel>>
       \/ \* the ring's memory could not be described to IOSS: it is released
          /\ "chan_mem" \in Faults /\ "skip_request_channel" \notin drv.skip
          /\ RevertFrom("alloc_revert")
          /\ drv' = ReleaseChannel(RequestChannel(drv, i), i)
          /\ RestartIfLast
          /\ UNCHANGED <<fl, kernel>>
       \/ \* no debugfs node for the channel: it is released again
          /\ "debugfs" \in Faults
          /\ RevertFrom("alloc_revert")
          /\ drv' = ReleaseChannel(RequestChannel(drv, i), i)
          /\ Oops(NullRing(RequestChannel(drv, i), i))
          /\ RestartIfLast
          /\ UNCHANGED fl
       \/ \* no ring, or no memory for it: rtl8125_request_ring frees the
          \* ring's buffers through a NULL pointer before it returns
          /\ "ring_mem" \in Faults /\ "skip_request_channel" \notin drv.skip
          /\ kernel' = "oops"
          /\ UNCHANGED <<drv, fl, pc, i, dev>>
    /\ UNCHANGED <<state, held, err, queueVars, iface, rtnl, net, ctlVars>>

AllocRevert ==
    /\ At("alloc_revert")
    /\ \/ /\ i = 0
          /\ state' = "ERROR"
          /\ Finish
          /\ UNCHANGED <<fl, drv, dev, kernel>>
       \/ /\ i > 0
          /\ FreeChannel
          /\ RevertFrom(pc)
          /\ UNCHANGED <<state, waitR>>
    /\ UNCHANGED <<held, err, refresh, waitP, iface, rtnl, net, ctlVars>>

IpaRegister ==
    /\ At("ipa_register")
    /\ \/ held' = held \cup {"ipa"} /\ GoTo("setup") /\ UNCHANGED err
       \/ /\ "ipa_register" \in Faults
          /\ GoTo("free")
          /\ err' = {"unwinding"}
          /\ UNCHANGED held
    /\ UNCHANGED <<state, fl, drv, queueVars, iface, netVars, ctlVars, kernel>>

(* __ioss_net_setup_event. When the event cannot be enabled it is released *)
(* but stays marked allocated.                                             *)
SetupEvent ==
    /\ At("setup")
    /\ \/ /\ ~RequestEventFails(drv, i)
          /\ LET d == RequestEvent(drv, i) IN
             /\ Oops("skip_enable_event" \notin drv.skip /\ NullRing(d, i))
             /\ \/ /\ ~EnableEventFails(d, i)
                   /\ drv' = EnableEvent(d, i)
                   /\ fl' = [fl EXCEPT !.evAllocated = @ \cup {i},
                                       !.evEnabled = @ \cup {i}]
                   /\ NextChannel("enable")
                \/ /\ EnableEventFails(d, i)
                   /\ drv' = ReleaseEvent(d, i)
                   /\ fl' = [fl EXCEPT !.evAllocated = @ \cup {i}]
                   /\ RevertFrom("setup_revert")
       \/ /\ \/ RequestEventFails(drv, i)
             \/ "map_event" \in Faults /\ "skip_request_event" \notin drv.skip
          /\ RevertFrom("setup_revert")
          /\ UNCHANGED <<drv, fl, kernel>>
    /\ UNCHANGED <<state, held, err, queueVars, iface, netVars, ctlVars>>

(* Mutant: err_setup_events falls to the wrong label. *)
SetupRevertFree ==
    /\ At("setup_revert")
    /\ \/ /\ i = 0
          /\ GoTo("free")
          /\ err' = {"unwinding"}
          /\ UNCHANGED <<fl, drv, kernel>>
       \/ i > 0 /\ TeardownEvent /\ RevertFrom(pc) /\ UNCHANGED err
    /\ UNCHANGED <<state, held, queueVars, iface, netVars, ctlVars>>

SetupRevert ==
    /\ At("setup_revert")
    /\ \/ /\ i = 0
          /\ GoTo("ipa_unregister")
          /\ err' = {"unwinding"}
          /\ UNCHANGED <<fl, drv, kernel>>
       \/ i > 0 /\ TeardownEvent /\ RevertFrom(pc) /\ UNCHANGED err
    /\ UNCHANGED <<state, held, queueVars, iface, netVars, ctlVars>>

(* __ioss_net_enable_channel: on failure the channel is released, though   *)
(* it stays marked allocated. The r8125 glue fails only on a NULL ring; a  *)
(* glue that may fail otherwise is the fault "enable_channel". The library *)
(* disables NAPI on its way, for which it has to be enabled.               *)
StartChannel ==
    /\ At("enable") /\ rtnl # "work"
    /\ \/ /\ ~EnableChannelFails(drv, i)
          /\ "skip_enable_channel" \notin drv.skip => NapiOn
          /\ drv' = EnableChannel(drv, i)
          /\ fl' = [fl EXCEPT !.enabled = @ \cup {i}]
          /\ NextChannel("disable_pc")
          /\ UNCHANGED <<dev, kernel>>
       \/ /\ EnableChannelFails(drv, i) \/ "enable_channel" \in Faults
          /\ Oops(NullRing(drv, i))
          /\ drv' = ReleaseChannel(drv, i)
          /\ RestartIfLast
          /\ RevertFrom("enable_revert")
          /\ UNCHANGED fl
    /\ UNCHANGED <<state, held, err, queueVars, iface, rtnl, net, ctlVars>>

(* rtl8125_enable_ring takes the RTNL lock and waits in napi_disable for   *)
(* the NAPI of a device that is not open, which nobody else can open now.  *)
StartWaits ==
    /\ At("enable") /\ rtnl = "none"
    /\ ~EnableChannelFails(drv, i)
    /\ "skip_enable_channel" \notin drv.skip /\ ~NapiOn
    /\ rtnl' = "work"
    /\ UNCHANGED <<offloadVars, workVars, queueVars, iface, dev, net, ctlVars,
                   kernel>>

EnableRevert ==
    /\ At("enable_revert")
    /\ \/ /\ i = 0
          /\ GoTo("teardown")
          /\ err' = {"unwinding"}
          /\ UNCHANGED <<fl, drv>>
       \/ i > 0 /\ StopChannel /\ RevertFrom(pc) /\ UNCHANGED err
    /\ UNCHANGED <<state, held, queueVars, iface, netVars, ctlVars, kernel>>

(* Mutant: a failure returns without unwinding. *)
DisablePcGivesUp ==
    /\ At("disable_pc")
    /\ \/ held' = held \cup {"pc"} /\ state' = "ONLINE" /\ Finish
       \/ /\ "disable_pc" \in Faults
          /\ state' = "ERROR" /\ Finish
          /\ UNCHANGED held
    /\ UNCHANGED <<fl, drv, err, refresh, waitP, iface, netVars, ctlVars,
                   kernel>>

DisablePc ==
    /\ At("disable_pc")
    /\ \/ /\ held' = held \cup {"pc"}
          /\ state' = "ONLINE"
          /\ Finish
          /\ UNCHANGED err
       \/ /\ "disable_pc" \in Faults
          /\ GoTo("disable")
          /\ err' = {"unwinding"}
          /\ UNCHANGED <<held, state, waitR>>
    /\ UNCHANGED <<fl, drv, refresh, waitP, iface, netVars, ctlVars, kernel>>

----------------------------------------------------------------------------
(* ioss_iface_set_offline and, with "unwinding" set, the error path of     *)
(* ioss_iface_set_online: the same stages, whose errors only the former    *)
(* records in iface->state.                                                *)

(* Mutant: the error of a stage is only logged. *)
StageFailedLogged(failed) == failed \in BOOLEAN /\ state' = state

StageFailed(failed) ==
    state' = IF failed /\ "unwinding" \notin err THEN "ERROR" ELSE state

(* Mutant: ioss_net_disable_channels is left out. *)
EnablePcSkipsDisable ==
    /\ At("enable_pc")
    /\ held' = held \ {"pc"}
    /\ GoTo("teardown")
    /\ UNCHANGED <<state, fl, drv, err, queueVars, iface, netVars, ctlVars,
                   kernel>>

EnablePc ==
    /\ At("enable_pc")
    /\ \/ held' = held \ {"pc"} /\ UNCHANGED state
       \/ /\ "enable_pc" \in Faults
          /\ StageFailed(TRUE)
          /\ UNCHANGED held
    /\ GoTo("disable")
    /\ UNCHANGED <<fl, drv, err, queueVars, iface, netVars, ctlVars, kernel>>

(* Mutant: ioss_net_teardown_events is left out. *)
DisableChannelsOnly ==
    /\ At("disable")
    /\ StopChannel
    /\ NextChannel("ipa_unregister")
    /\ UNCHANGED <<state, held, err, queueVars, iface, netVars, ctlVars,
                   kernel>>

DisableChannels ==
    /\ At("disable")
    /\ StopChannel
    /\ NextChannel("teardown")
    /\ UNCHANGED <<state, held, err, queueVars, iface, netVars, ctlVars,
                   kernel>>

TeardownEvents ==
    /\ At("teardown")
    /\ TeardownEvent
    /\ NextChannel("ipa_unregister")
    /\ LET failed == "rc" \in err \/ DisableEventFails(drv, i) IN
       \/ /\ i < N
          /\ err' = IF failed THEN err \cup {"rc"} ELSE err
          /\ UNCHANGED state
       \/ i = N /\ err' = err \ {"rc"} /\ StageFailed(failed)
    /\ UNCHANGED <<held, queueVars, iface, netVars, ctlVars>>

IpaUnregister ==
    /\ At("ipa_unregister")
    /\ \/ held' = held \ {"ipa"} /\ UNCHANGED state
       \/ /\ "ipa_unregister" \in Faults
          /\ StageFailed(TRUE)
          /\ UNCHANGED held
    /\ GoTo("free")
    /\ UNCHANGED <<fl, drv, err, queueVars, iface, netVars, ctlVars, kernel>>

FreeChannels ==
    /\ At("free")
    /\ FreeChannel
    /\ \/ /\ i < N
          /\ pc' = pc /\ i' = i + 1
          /\ UNCHANGED <<state, waitR>>
       \/ /\ i = N
          /\ state' = IF "unwinding" \in err THEN "ERROR" ELSE state
          /\ Finish
    /\ UNCHANGED <<held, err, refresh, waitP, iface, rtnl, net, ctlVars>>

----------------------------------------------------------------------------
(* The netdevice notifier's handlers. They run under the RTNL lock.        *)

(* Mutants: a notification has no handler. *)
HandledButChange    == {"UP", "GOING_DOWN"}
HandledButGoingDown == {"UP", "CHANGE"}

(* ioss_net_event_handlers, besides REGISTER and UNREGISTER. *)
Handled == {"UP", "GOING_DOWN", "CHANGE"}

(* ioss_net_event_generic and ioss_net_event_up: queue a refresh. *)
Notify(event) ==
    refresh' = IF Notified /\ event \in Handled THEN "queued" ELSE refresh

(* ioss_net_event_register; up: an UP notification follows in the same     *)
(* replay, and queues a refresh whatever became of the registration.       *)
EventRegister(up) ==
    \/ /\ iface' = {"attached", "added", "notified"}
       /\ refresh' = "queued"
       /\ UNCHANGED state
    \/ /\ "register_iface" \in Faults
       /\ iface' = {"attached", "notified"}
       /\ refresh' = IF up THEN "queued" ELSE refresh
       /\ state' = "ERROR"

(* ioss_net_event_unregister does not look whether the registration had    *)
(* succeeded: device_unregister then follows the NULL private data of a    *)
(* device that was never added.                                            *)
EventUnregister(still) ==
    /\ Oops("added" \notin iface)
    /\ iface' = still
    /\ refresh' = "queued"

----------------------------------------------------------------------------
(* The kernel's net device core. *)

NetAt(s) == kernel = "runs" /\ net = s
NetStart == NetAt("idle") /\ rtnl = "none" /\ bind # "absent"

(* dev_close: GOING_DOWN is notified while the device still runs. *)
DevClosing ==
    /\ NetStart
    /\ Running
    /\ net' = "closing" /\ rtnl' = "net"
    /\ Notify("GOING_DOWN")
    /\ UNCHANGED <<offloadVars, workVars, waitP, waitR, iface, dev, ctlVars,
                   kernel>>

(* The device stops; ndo_stop drops the carrier. *)
DevClosed ==
    /\ NetAt("closing")
    /\ net' = "idle" /\ rtnl' = "none"
    /\ dev' = CarrierLost(dev) \ {"running"}
    /\ UNCHANGED <<offloadVars, workVars, queueVars, iface, ctlVars, kernel>>

DevOpening ==
    /\ NetStart
    /\ ~Running
    /\ net' = "opening" /\ rtnl' = "net"
    /\ dev' = dev \cup {"running"}
    /\ UNCHANGED <<offloadVars, workVars, queueVars, iface, ctlVars, kernel>>

(* ndo_open succeeds and UP is notified, or it fails without a word. *)
DevOpened ==
    /\ NetAt("opening")
    /\ net' = "idle" /\ rtnl' = "none"
    /\ \/ Notify("UP") /\ UNCHANGED dev
       \/ dev' = dev \ {"running"} /\ UNCHANGED refresh
    /\ UNCHANGED <<offloadVars, workVars, waitP, waitR, iface, ctlVars, kernel>>

(* The PHY changes the carrier of an open device, whoever holds RTNL. *)
CarrierChange ==
    /\ kernel = "runs" /\ Running /\ net # "opening"
    /\ dev' = IF "carrier" \in dev THEN CarrierLost(dev)
                                   ELSE dev \cup {"carrier", "event"}
    /\ UNCHANGED <<offloadVars, workVars, queueVars, iface, rtnl, net, ctlVars,
                   kernel>>

(* The link watcher notifies CHANGE, for a device that is up. *)
LinkWatch ==
    /\ NetStart
    /\ "event" \in dev
    /\ dev' = dev \ {"event"}
    /\ IF Running THEN Notify("CHANGE") ELSE UNCHANGED refresh
    /\ UNCHANGED <<offloadVars, workVars, waitP, waitR, iface, rtnl, net,
                   ctlVars, kernel>>

(* The device changes network namespace: it is closed, unregistered in the *)
(* old namespace and registered in the new one under one hold of RTNL.     *)
MoveBegin ==
    /\ AllowMove
    /\ NetStart
    /\ net' = "unlisted" /\ rtnl' = "net"
    /\ dev' = CarrierLost(dev) \ {"running"}
    /\ IF Running THEN Notify("GOING_DOWN") ELSE UNCHANGED refresh
    /\ UNCHANGED <<offloadVars, workVars, waitP, waitR, iface, ctlVars, kernel>>

MoveUnregister ==
    /\ NetAt("unlisted")
    /\ net' = "relisting"
    /\ IF Notified THEN EventUnregister({"notified"})
                   ELSE UNCHANGED <<iface, refresh, kernel>>
    /\ UNCHANGED <<offloadVars, workVars, waitP, waitR, dev, rtnl, ctlVars>>

MoveRegister ==
    /\ NetAt("relisting")
    /\ net' = "idle" /\ rtnl' = "none"
    /\ IF Notified THEN EventRegister(FALSE)
                   ELSE UNCHANGED <<iface, refresh, state>>
    /\ UNCHANGED <<fl, drv, held, workVars, waitP, waitR, dev, ctlVars, kernel>>

----------------------------------------------------------------------------
(* The bind thread. *)

BindAt(s) == kernel = "runs" /\ bind = s
Flushed(t) == t \notin waitP \cup waitR

(* PCI bind: a zeroed idev for the net device the driver just registered. *)
AddDevice ==
    /\ BindAt("absent")
    /\ bind' = "unwatched"
    /\ state' = "OFFLINE" /\ fl' = NoFlags /\ drv' = NoRings(drv.skip)
    /\ idev' = {}
    /\ UNCHANGED <<held, workVars, queueVars, iface, netVars, user, kernel>>

(* PCI unbind, after remove: the idev is freed and the net device goes. *)
RemoveDevice ==
    /\ BindAt("unwatched")
    /\ net = "idle" /\ rtnl = "none"
    /\ bind' = "absent"
    /\ dev' = {}
    /\ UNCHANGED <<offloadVars, workVars, queueVars, iface, rtnl, net, user,
                   idev, kernel>>

(* ioss_net_watch_device: registering the notifier replays REGISTER, and   *)
(* UP for a device that is up.                                             *)
Watch ==
    /\ BindAt("unwatched")
    /\ rtnl = "none"
    /\ bind' = "watched"
    /\ idev' = idev \ {"unbinding"}
    /\ EventRegister(Running)
    /\ UNCHANGED <<fl, drv, held, workVars, waitP, waitR, netVars, user, kernel>>

(* ioss_net_unwatch_device, once the suspend_ipa_offload file is removed. *)
UnwatchBegin ==
    /\ BindAt("watched")
    /\ user = "idle"
    /\ bind' = "u_queue"
    /\ idev' = idev \cup {"unbinding"}
    /\ UNCHANGED <<offloadVars, workVars, queueVars, iface, netVars, user,
                   kernel>>

(* Mutant: the refresh is flushed with the RTNL lock held. *)
UnwatchQueueLocked ==
    /\ BindAt("u_queue")
    /\ rtnl = "none"
    /\ bind' = "u_flush" /\ rtnl' = "bind"
    /\ refresh' = "queued"
    /\ waitP' = waitP \cup {"bind"}
    /\ UNCHANGED <<offloadVars, workVars, waitR, iface, dev, net, user, idev,
                   kernel>>

UnwatchQueue ==
    /\ BindAt("u_queue")
    /\ bind' = "u_flush"
    /\ refresh' = "queued"
    /\ waitP' = waitP \cup {"bind"}
    /\ UNCHANGED <<offloadVars, workVars, waitR, iface, netVars, user, idev,
                   kernel>>

(* Once flushed, the notifier is unregistered, which replays GOING_DOWN ... *)
UnwatchGoingDown ==
    /\ BindAt("u_flush")
    /\ Flushed("bind")
    /\ rtnl = "none"
    /\ bind' = "u_unreg" /\ rtnl' = "bind"
    /\ IF Running THEN Notify("GOING_DOWN") ELSE UNCHANGED refresh
    /\ UNCHANGED <<offloadVars, workVars, waitP, waitR, iface, dev, net, user,
                   idev, kernel>>

(* Mutant: the second flush is left out. *)
UnwatchUnregisterNoFlush ==
    /\ BindAt("u_unreg")
    /\ bind' = "u_flush2" /\ rtnl' = "none"
    /\ EventUnregister({})
    /\ UNCHANGED <<offloadVars, workVars, waitP, waitR, dev, net, user, idev>>

(* ... and UNREGISTER; what they queued is flushed. *)
UnwatchUnregister ==
    /\ BindAt("u_unreg")
    /\ bind' = "u_flush2" /\ rtnl' = "none"
    /\ EventUnregister({})
    /\ waitP' = waitP \cup {"bind"}
    /\ UNCHANGED <<offloadVars, workVars, waitR, dev, net, user, idev>>

UnwatchDone ==
    /\ BindAt("u_flush2")
    /\ Flushed("bind")
    /\ bind' = "unwatched"
    /\ UNCHANGED <<offloadVars, workVars, queueVars, iface, netVars, user, idev,
                   kernel>>

----------------------------------------------------------------------------
(* The idev's offline flag. *)

UserAt(s) == kernel = "runs" /\ user = s

(* store_suspend_ipa_offload finds the interface among the children of the *)
(* net device, where only a successful registration puts it, and does not  *)
(* look whether it found one.                                              *)
StoreSuspend ==
    /\ UserAt("idle") /\ bind = "watched"
    /\ \/ /\ "added" \in iface
          /\ idev' \in {idev \cup {"offline"}, idev \ {"offline"}}
          /\ user' = "queue"
          /\ UNCHANGED kernel
       \/ /\ "added" \notin iface
          /\ kernel' = "oops"
          /\ UNCHANGED <<idev, user>>
    /\ UNCHANGED <<offloadVars, workVars, queueVars, iface, netVars, bind>>

(* The online and offline callbacks of the bus, under the device lock that *)
(* probe and remove hold too.                                              *)
OnlineOfflineIdev ==
    /\ UserAt("idle") /\ bind = "watched"
    /\ idev' = IF "offline" \in idev THEN idev \ {"offline"}
                                     ELSE idev \cup {"offline"}
    /\ user' = "queue"
    /\ UNCHANGED <<offloadVars, workVars, queueVars, iface, netVars, bind,
                   kernel>>

(* Mutant: the refresh is queued and not flushed. *)
SetDevOfflineQueueOnly ==
    /\ UserAt("queue")
    /\ user' = "flush"
    /\ refresh' = "queued"
    /\ UNCHANGED <<offloadVars, workVars, waitP, waitR, iface, netVars, bind,
                   idev, kernel>>

(* Both queue a refresh and flush it. *)
SetDevOfflineQueue ==
    /\ UserAt("queue")
    /\ user' = "flush"
    /\ refresh' = "queued"
    /\ waitP' = waitP \cup {"user"}
    /\ UNCHANGED <<offloadVars, workVars, waitR, iface, netVars, bind, idev,
                   kernel>>

SetDevOfflineReturn ==
    /\ UserAt("flush")
    /\ Flushed("user")
    /\ user' = "idle"
    /\ UNCHANGED <<offloadVars, workVars, queueVars, iface, netVars, bind, idev,
                   kernel>>

(* __ioss_bus_resume_idev, with user space still frozen. *)
ResumeIdev ==
    /\ UserAt("idle") /\ bind = "watched"
    /\ "offline" \in idev
    /\ idev' = idev \ {"offline"}
    /\ refresh' = "queued"
    /\ UNCHANGED <<offloadVars, workVars, waitP, waitR, iface, netVars, bind,
                   user, kernel>>

(* Root writes a diagnostic parameter of the glue driver, at any time. *)
SetGate ==
    /\ kernel = "runs"
    /\ \E g \in Gates : drv' = [drv EXCEPT !.skip = IF g \in @ THEN @ \ {g}
                                                    ELSE @ \cup {g}]
    /\ UNCHANGED <<state, fl, held, workVars, queueVars, iface, netVars,
                   ctlVars, kernel>>

----------------------------------------------------------------------------
Work == \/ RefreshStart \/ FetchLinkSpeed
        \/ EnterSetOnline \/ EnterSetOffline
        \/ AllocChannel \/ AllocRevert \/ IpaRegister
        \/ SetupEvent \/ SetupRevert
        \/ StartChannel \/ EnableRevert \/ DisablePc
        \/ EnablePc \/ DisableChannels \/ TeardownEvents
        \/ IpaUnregister \/ FreeChannels

NetEvents == DevClosing \/ DevOpening \/ CarrierChange \/ MoveBegin
NetWork   == \/ DevClosed \/ DevOpened
             \/ MoveUnregister \/ MoveRegister

BindStart == AddDevice \/ RemoveDevice \/ Watch \/ UnwatchBegin
BindWork  == \/ UnwatchQueue \/ UnwatchGoingDown \/ UnwatchUnregister
             \/ UnwatchDone

UserStart == StoreSuspend \/ OnlineOfflineIdev \/ ResumeIdev \/ SetGate
UserWork  == SetDevOfflineQueue \/ SetDevOfflineReturn

Next == Work \/ StartWaits \/ NetEvents \/ NetWork \/ LinkWatch
             \/ BindStart \/ BindWork \/ UserStart \/ UserWork

(* Every actor keeps going once it has begun; the RTNL lock and the link   *)
(* watcher are taken in turn (a kernel mutex is handed over in order), so  *)
(* the steps that wait for the lock are strongly fair. What the network,   *)
(* the administrator and the user begin is left to them, and whether the   *)
(* library finds the lock free is left open.                               *)
Fairness == /\ WF_vars(Work) /\ SF_vars(FetchLinkSpeed)
            /\ WF_vars(NetWork)
            /\ SF_vars(LinkWatch)
            /\ WF_vars(BindWork) /\ SF_vars(UnwatchGoingDown)
            /\ WF_vars(UserWork)

Spec == Init /\ [][Next]_vars /\ Fairness

----------------------------------------------------------------------------
(* Properties. *)

(* No step follows a NULL ch->private: the error paths of                  *)
(* ioss_iface_set_online release every channel and every event exactly     *)
(* once, and remove finds what set_online left.                            *)
NoOops == kernel = "runs"

(* The device never uses a ring that was freed: a ring that is enabled, an *)
(* MSI-X entry that is programmed and an RSS table that points at the      *)
(* offload queue all belong to allocated rings (r8125_ioss_release_channel *)
(* frees the descriptors and buffers the device would write to).           *)
FreedRingsAreIdle ==
    /\ drv.on \subseteq drv.ring
    /\ drv.ev \subseteq drv.ring
    /\ drv.evOn \subseteq drv.ev
    /\ drv.rss = "ipa" => \E c \in RxChannels : c \in drv.ev

(* While a ring is enabled or an MSI-X entry holds an IPA doorbell, the    *)
(* interface is registered with IPA: ioss_ipa_unregister comes after       *)
(* disable_channels and teardown_events on every path.                     *)
DoorbellsNeedIpa == drv.on \cup drv.ev # {} => "ipa" \in held

(* While the IPA pipes are connected every channel has its ring: channels  *)
(* are freed only after ioss_ipa_unregister, on every path.                *)
PipesHaveRings == "ipa" \in held => drv.ring = Channels

(* ONLINE promises a complete offload path: all channels allocated,        *)
(* enabled and with their events, IPA registered, power collapse off.      *)
OnlineIsComplete ==
    state = "ONLINE" =>
        /\ drv.ring = Channels /\ drv.on = Channels
        /\ drv.ev = Channels /\ drv.evOn = Channels
        /\ fl = [allocated |-> Channels, enabled |-> Channels,
                 evAllocated |-> Channels, evEnabled |-> Channels]
        /\ held = {"ipa", "pc"}

HoldsNothing == drv = NoRings(drv.skip) /\ fl = NoFlags /\ held = {}

(* Between two refreshes, an interface that is not ONLINE holds nothing:   *)
(* neither after a complete set_offline nor after set_online failed at any *)
(* stage and unwound.                                                      *)
IdleHoldsNothing == pc = "idle" /\ state # "ONLINE" => HoldsNothing

(* Once remove has returned, no refresh is queued or running, nothing      *)
(* points at the net device any more and the interface is not ONLINE, so   *)
(* the idev can be freed.                                                  *)
UnwatchedIsQuiet ==
    bind \in {"unwatched", "absent"} =>
        /\ pc = "idle" /\ refresh = "idle"
        /\ iface = {}
        /\ state # "ONLINE"

(* With nothing in flight, a watched interface is ONLINE exactly when it   *)
(* runs with carrier and is not set offline, or it is in ERROR: no change  *)
(* of the device is ever missed.                                           *)
InFlight ==
    \/ refresh = "queued" \/ pc # "idle"
    \/ "event" \in dev \/ rtnl # "none" \/ user # "idle"
    \/ kernel = "oops"

SettledInterface ==
    bind = "watched" /\ ~InFlight =>
        state = "ERROR" \/ (state = "ONLINE" <=> Wanted)

(* The RSS table is reset only when the RX rings are disabled, as the      *)
(* comment on rtl8125_rss_reset in r8125_lib.h requires of its caller.     *)
RssResetAfterDisable ==
    [][drv.rss = "ipa" /\ drv'.rss = "default"
           => RxChannels \cap drv'.on = {}]_vars

(* A write of 1 to suspend_ipa_offload returns only after the offload path *)
(* is down: the write flushes the refresh it queued.                       *)
OfflineIsSynchronous ==
    [][user = "flush" /\ user' = "idle" /\ "offline" \in idev
           => state # "ONLINE" /\ (pc \in TearDown => "unwinding" \in err)]_vars

(* A set_offline that leaves the state OFFLINE has released everything:    *)
(* whatever stage failed, the failure shows as ERROR.                      *)
TeardownErrorsShow ==
    [][pc = "free" /\ pc' = "idle" /\ state' = "OFFLINE" => HoldsNothing']_vars

(* If the interface runs with carrier and is not set offline from some     *)
(* time on, it ends up ONLINE, or in ERROR.                                *)
ConvergesUp ==
    <>[](bind = "watched" /\ Wanted) => <>[](state \in {"ONLINE", "ERROR"})

(* If it is down, without carrier or set offline from some time on, it     *)
(* does not stay ONLINE.                                                   *)
ConvergesDown ==
    <>[](bind = "watched" /\ ~Wanted) => <>[](state # "ONLINE")

(* The work item gets through the enabling of the channels:                *)
(* rtl8125_enable_ring "Starts the ring" (r8125_lib.h) and returns.        *)
EnableReturns == pc = "enable" ~> pc # "enable"

(* Unless rtl8125_enable_ring waits for ever on a device closed under it,  *)
(* remove terminates: its two flushes and the RTNL lock never wait for     *)
(* each other.                                                             *)
UnwatchTerminates == EnableReturns => (bind = "u_queue" ~> bind = "unwatched")
============================================================================

# A verification model of the T99W373 IPA offload stack

The repository turns a Foxconn T99W373 modem into a router: an RTL8125
Ethernet controller on the modem's PCIe root complex, with packets forwarded
in hardware by the IPA block. This directory holds TLA+ models of the part
that carries the program's own logic, the TLC runs that check them and proofs
checked by TLAPS.

## The system and its parts

Paths are relative to `src/final-working-files/`; `drivers/` stands for
`source-build-context/data-eth-src/drivers/`.

| Part | Source | State it keeps | Operations |
| --- | --- | --- | --- |
| IOSS interface life cycle | `drivers/ioss/ioss_net.c`, `ioss_utils.c` | `iface->state`, flags of every channel and event, work items, notifier blocks | refresh work (set online, set offline), netdevice notifier, watch, unwatch, activity check |
| IOSS bus | `drivers/ioss/ioss_bus.c` | table of idevs, `dev.offline`, `unbinding` | probe, remove, `suspend_ipa_offload`, online, offline, suspend, resume, register and unregister an interface |
| IOSS PCI glue | `drivers/ioss/ioss_pci.c` | bus notifier, hijacked `pm_ops` and their count | bind, unbind, nop or real suspend and resume, power-collapse vote |
| r8125 glue driver | `drivers/r8125_ioss/r8125_ioss.c` | `ch->private`, diagnostic gates | request, release, enable, disable of channels and events, IP filters, open and close |
| r8125 offload library | `drivers/r8125/src/r8125_lib.c` | rings, MSI-X entries, RSS table | ring and event operations, RSS redirect and reset; enabling a ring, disabling it and releasing the last one also stop, restart or reopen the net device |
| IOSS root | `drivers/ioss/ioss_main.c` | the workqueue, the IPA-ready state | probe, remove, IPA-ready callback |
| IPA client | `drivers/ioss/ioss_ipa.c`, `ioss_ipa_hal.c` | pipes of every channel | register, unregister, bandwidth vote |
| Allocators | `drivers/ioss/ioss_mem.c` | LLCC/TCM and OCMEM grants | get, put, alloc, free |
| Device tree parser | `drivers/ioss/ioss_of.c` | none (pure) | parse version 1 and 2 nodes |
| IPACM ABI bridge | `ipa-final/ipacm_abi_bridge_v5.c` | fd cache, configuration, counters | translate `ioctl` layouts |
| PCIe enabler | `pcie-enabler-sources/pcie_enabler_non_es_v1.c`, loader script | device-tree nodes attached, recheck count | init, recheck, exit |
| Stack health timers | `ipa-final/ipa_ul_final/*.sh` | lock directory, backups | restart failed units, remove duplicate rules |
| r8125 network driver | `drivers/r8125/src/r8125_n.c` | TX and RX rings, NAPI contexts, `task_flags` and three delayed works, the carrier | xmit, poll, interrupt, open, close, reset, link check, ESD check, MTU change, suspend, resume, remove |

How they interact. The PCI notifier of `ioss_pci.c` creates an idev when a
PCI driver binds and destroys it when the driver unbinds. The IOSS bus
matches it with a glue driver; probe calls `ioss_net_watch_device`, which
registers a netdevice notifier, remove calls `ioss_net_unwatch_device`. The
notifier runs under the RTNL lock and only queues `iface->refresh`. The
refresh work item, on a workqueue of its own, looks at the device and walks
the stages of `ioss_iface_set_online` or `ioss_iface_set_offline`, which call
the glue driver for every channel, the glue driver calls the library inside
the vendor's network driver, and `ioss_ipa.c` connects the IPA pipes. User
space reaches the same work item through `suspend_ipa_offload` and the
device's `online` file.

What is hard. Five parties run concurrently around one work item: the item
itself, the net device core under RTNL, the bind thread, the writer of a
sysfs file (both of which flush the item) and the PHY, which changes the
carrier at any moment. The item sleeps on the RTNL lock after it read which
net device it works for. Any stage of bringing the path up may fail for any
channel, and then exactly what was done must be undone, in an order the
hardware survives: doorbells out before the pipes go, pipes gone before the
ring memory is freed. Below it, the network driver shares each ring between
an xmit, a poll and the chip without a lock, and clears it from work items
under the RTNL lock, which the poll does not take; the library resets the same
chip and disables the same NAPI on behalf of rings of its own; around it, devices are
bound, suspended and unbound while the subsystem starts and stops.
`PROJECT.json` lists each of these at its line under
`hazards`, with the properties that would catch it going wrong.

For each part, what makes it correct:

* interface life cycle: the offload path is built and torn down in order
  whatever fails; ONLINE means complete; not ONLINE means nothing is held;
  the state follows the device; remove returns only when nothing is running;
* bus: a write of `suspend_ipa_offload` is synchronous; nothing follows a
  pointer to an interface that is not registered;
* PCI glue: a suspend is undone by the matching resume; the pm_ops are
  restored once; an idev exists once per bound device;
* glue and library: a released ring is idle; a released MSI-X entry is what
  it was; the RSS table never points at a ring that is gone;
* network driver: no packet is lost, leaked or overwritten in a ring; driver
  and chip agree where they are; a stopped queue is woken; NAPI is enabled
  and disabled in pairs; whoever takes the RTNL lock gives it back; no poll or
  work item outlives what it works on;
* allocators, parser, bridge: conservation of grants, agreement of the two
  node formats, translation that is the inverse of itself;
* scripts: at most one copy and never less than one of a rule, restarts only
  of failed units, a lock that does not outlive its owner.

## Modules

| Module | Models | Kind |
| --- | --- | --- |
| `OffloadPath` | what an offload path promises: a stack of layers, built and taken down in order | abstract specification |
| `R8125Glue` | the operations of `r8125_ioss.c` and the ring and event functions of `r8125_lib.c`, as operators on a record of what the library keeps | operators |
| `IossNet` | the interface life cycle: `ioss_net.c`, the parts of `ioss_bus.c` and `ioss_pci.c` that drive it, the net device core as environment | state machine |
| `IossNetPath` | the refinement mapping from `IossNet` to `OffloadPath` | refinement |
| `MCIossNet` | values of the constants for TLC | MC module |
| `IossBus` | `ioss_main.c`, `ioss_pci.c` and probe and remove of `ioss_bus.c`: several devices, the glue module, system suspend | state machine |
| `R8125Msix` | one MSI-X table entry, word by word, across `rtl8125_request_event` and `rtl8125_release_event` | state machine |
| `R8125Tx` | the TX ring of `r8125_n.c`: xmit, poll, chip, reset work, link check and the library's resets of the chip | state machine |
| `R8125Rx` | an RX ring of `r8125_n.c`: chip, poll, refill, reset work, link check and the library's resets of the chip | state machine |
| `R8125Net` | the life cycle of the net device in `r8125_n.c`, and what the library does to it | state machine |
| `StackHealth` | `ipa-stack-healthcheck.sh` and `ipa-iptables-dedupe.sh`, several instances at once | state machine |
| `IossNetProofs` | theorems about `IossNet` under every fault | proofs |
| `IossNetSafety` | theorems about `IossNet` under the faults it unwinds, and its refinement of `OffloadPath` | proofs |
| `IossBusProofs`, `R8125NetProofs`, `StackHealthProofs` | theorems about `IossBus`, `R8125Net` and `StackHealth` | proofs |
| `RingIndexes` | the arithmetic of wrapped indexes that the ring proofs share | lemmas |
| `R8125TxProofs`, `R8125RxProofs` | theorems about the two rings | proofs |

How they fit together: `IossNet` is built on the operators of `R8125Glue` and
implements `OffloadPath`. `IossBus` sees a refresh as a step that leaves the
interface ONLINE or not, which is what `IossNet` makes of it, and adds the
second device, the PM callbacks and sleep. `R8125Tx` and `R8125Rx` are one
ring each of the device `R8125Net` opens, resets and closes.

`rtl8125_enable_ring`, `rtl8125_disable_ring` and the last
`rtl8125_release_ring` reach all of these. `R8125Glue` has what they do to the
library's own rings; `IossNet` adds that enabling waits for the NAPI of the net
device with the RTNL lock held (`StartWaits`) and that the last release drops
the carrier; `R8125Net` has all three calls with their locking and their
effect on NAPI, interrupts and carrier; `R8125Tx` and `R8125Rx` have what each
does to the ring, its indexes and the chip. There the calls happen in any
order, as long as a chip that was stopped is started or reset in the end.

### R8125Glue

A glue state is a record: `ring` (channels whose `ch->private` points at a
ring), `on` (ring enabled), `ev` and `evOn` (MSI-X entry programmed,
interrupt enabled), `rss` (where the indirection table points) and `skip`
(the diagnostic parameters set). Each driver operation is an operator from
such a record to the next; `...Fails` says when it returns an error and
`NullRing` when it would follow a NULL ring. Ring contents, DMA addresses and
register writes are abstracted away, and the effect on the net device is in
the modules named above.

### IossNet

The work item is a program counter `pc` with the channel index `i`; each
stage is one action per channel, so the other actors interleave between any
two channels. `BringUp` stages are those of `ioss_iface_set_online`, `Revert`
those of `ioss_list_iter_action` after a failure, `TearDown` those that
`ioss_iface_set_offline` shares with the error labels of `set_online`;
`"unwinding"` in `err` tells the two apart, as only the former records
errors in `iface->state`. `fl` is what IOSS believes (`allocated`, `enabled`
of each channel and event), `drv` what the library has; the code keeps both
and they differ after some failures, so the model does too.

`refresh`, `waitP` and `waitR` model `queue_work` and `flush_work`: an item
is queued at most once, a queued item starts only when the running instance
is over, and a flush waits for the instance that was queued (or, once it was
started, running) when it was called. `rtnl` is the lock where it is held
across steps. `iface` says whether the iface device points at the net device,
was registered, and whether the notifier is registered; `dev` is the net
device as the code sees it (running, carrier, a link event pending); `idev`
has `dev.offline` and `unbinding`; `kernel` becomes `"oops"` when a step
follows a NULL pointer, and nothing moves after that.

The net device core, the link watcher and the namespace move are the kernel's
own code and marked external: `DevClosing`/`DevClosed` (GOING_DOWN is
notified while the device still runs), `DevOpening`/`DevOpened`,
`CarrierChange` (without RTNL), `LinkWatch`, `MoveBegin`/`MoveUnregister`/
`MoveRegister`.

Failures are the constant `Faults`, one name per call that may run out of a
resource; a fault in the set may or may not happen at each call. Failures
that follow from the driver's own state (a NULL ring) need no fault.

Simplifications: the channels are numbered in list order and each keeps its
own ring (r8125 has one channel per direction); one user writes at a time,
as the device lock or the sysfs file's lock sees to; reopening the device
when the last ring is released (`rtl8125_release_ring`) always succeeds, and
only its effect on the carrier is kept; enabling a ring either finds NAPI
enabled or waits for it (`NapiOn`, `StartWaits`); the statistics, link speed and
activity check change nothing the properties see.

### OffloadPath and IossNetPath

The abstract path has five layers: rings, IPA pipes, doorbells (MSI-X
entries), flows (enabled rings) and the power vote. A layer is begun on a
complete one below and taken down when the one above is gone; ONLINE is
reported in the step that completes the path and withdrawn in the step that
begins to take it down; an attempt that turns back ends in ERROR with nothing
held; a path under way does not stay so. `IossNetPath` maps the driver's
rings, events and enabled rings (`drv`), the IPA registration and the vote
(`held`) and `iface->state` to it, and the place of the work item to the way
the path is going. The list helper's revert and the goto ladder of
`set_online` are one abstract way back, `set_offline` is the way down.

### IossBus

Each PCI device has a PCI side (`pci`: unbound, probing, bound, unbinding)
and an idev side (`idev`: absent, unlinked, being probed, bound, being
removed). `dev->driver` is set for all but unbound devices, and the two walks
look at that. The hijack and the restoring of the PM callbacks are steps of
probe and remove of their own, with the count `refcnt`. Refreshes are queued
and run on the freezable work queue; system sleep freezes it, suspends each
bound device with the callback the PM operations name at that moment, and
resumes it the same way. All devices have one PCI driver, as the two ports of
a board do.

### R8125Msix

The entry is four words. `request_event` saves address and data in two
64-bit fields and programs the doorbell; `release_event` writes the fields
back.

### R8125Tx

`cur`, `dirty`, `begin` are the driver's `cur_tx`, `dirty_tx` and
`BeginHwDesCloPtr`; `tail` and `closed` the chip's two registers; `hwAt` the
chip's own place. `slot` says who has each descriptor. `start_xmit` is five
steps (fill, publish, stop, kick, recheck), `tx_interrupt` four (read
`cur_tx`; read the close pointer and reclaim; publish; wake), cut where
another CPU or the chip can come in between. `PollPublish` also has the order
that `smp_wmb()` allows: the queue's state is read before `dirty_tx` is seen.
A failed DMA mapping undoes its own descriptors before anything is published
and leaves the ring as it was. The chip is `"off"` (reset together with the
ring), `"on"` (started on such a ring), `"stopped"` (reset by the library, with
the ring as it was) or `"astray"`: `LinkOn` resets the chip whatever it was
doing, as `rtl8125_hw_config` does, and keeps the indexes. That is harmless
after a reset of both; on a running chip, or between a reset that found an RX
ring stuck and its retry, the chip then starts at entry 0 of a ring whose
indexes are elsewhere, until the ring is made anew. That the library goes on without RTNL when `rtnl_trylock` fails is
left to `R8125Net`; the library's steps here hold the lock.

### R8125Rx

`own` are the descriptors the chip may write, `buf` those with a buffer,
`frame` what a descriptor holds for the driver. `rtl8125_rx_interrupt` takes a
frame in two steps: it reads status and buffer (`FrameSeen`), and then takes the
buffer out of the ring or gives it back to the chip (`FrameHandedUp`,
`FrameReturned`), since a link check may make the ring anew in between; the end
of the loop refills as far as
memory lasts (`Fill` stops anywhere) and stores the indexes. The same
function runs from the poll and from the reset work. The chip is as in
`R8125Tx`. Frames are good, bad or
oversized (or fragmented: the same branch).

### R8125Net

`op` is where the holder of the RTNL lock is, and where the library is when
it goes on without it. `flags` are the DOWN and PENDING bits and
`tp->esd_flag`, `queued` the delayed works, `imr` and `isr` the masks and the
pending link interrupt. `napi_disable` is a step that waits for the poll, so
a thread that disables twice waits for ever; while a thread waits there no new
poll starts. Ring contents are "none", "empty" or "filled". `lib` says whether
the library has rings enabled, or has disabled them and will release them.

### StackHealth

Each instance of the health check walks the units in order (`step`, `u`)
under the lock directory and then runs the dedupe script; the dedupe timer
runs the same script as a service of its own. A run of the script
(`run`, `rule`, `count`), rule by rule, counts the copies and deletes all but one of what it counted; the
count is a shell variable, so anything may happen to the tables between the
count and a deletion. `unit` tells only what `is_ok` tells apart. Calls that
may fail are the constant `Failures`; a health check may be killed
`MaxKills` times, its shell may or may not run the EXIT trap then, and the
dedupe script it was waiting for dies with it or goes on alone (`Orphan`; one
at a time, and `MaxKills` is 1). QCMAP
and the units themselves are external: units go down at any moment and the
connection manager, while up, adds copies of rules, `MaxAdds` in all. Starting
the dedupe service may start QCMAP_ConnectionManagerd, which its unit file
wants. The log, and the snapshots of the tables that nothing reads, are left
out.

## Runs

| Run | Checks | Bounds |
| --- | --- | --- |
| `offload_lifecycle` | no oops, idle freed rings, nothing left behind, remove is quiet, suspend is synchronous, the state follows the device, the path is an `OffloadPath`; unless a channel is enabled on a closed device, remove terminates and no path is left half built | 3 channels (2 RX), the five faults the error path is written for, no moves |
| `enable_closed` | violated: enabling a ring of a device that was just closed does not return | 2 channels, no faults |
| `offload_faults` | with nothing in flight the state matches the device, doorbells never outlive IPA, teardown errors show in the state, RSS reset after disable | 2 channels, all ten faults, namespace moves, two gates |
| `bus_pm` | PM callbacks counted, suspend and resume paired, nothing left after a stop, bound devices are probed | 2 devices |
| `msix_restore` | violated: the vector control word is not restored | words 0 and 1 |
| `tx_ring` | ring accounted, no overwrite, chip and ring in step, stopped queues restart | 3 descriptors, packets of 1 or 2, indexes modulo 12, registers modulo 4 |
| `tx_close_race` | violated: a sent packet is forgotten in the ring | 4 descriptors, indexes modulo 16, registers modulo 8 |
| `rx_ring` | ring accounted, DMA has a buffer, chip and driver in step, frames are taken | 4 descriptors, budget 2, indexes modulo 8, good and bad frames |
| `rx_oversize` | violated: frames behind an oversized one stay in the ring | the same, with oversized frames |
| `net_lifecycle` | NAPI paired, RTNL given back, polls safe, removal quiet, ESD check armed, link changes noticed | open may fail |
| `stack_health` | one check acts at a time, units retried, duplicates removed, a killed check does not stop the timer | 2 checks, 2 units (QCMAP and the dedupe timer), 1 rule, 2 additions, 1 kill |
| `dedupe_overlap` | violated: two runs of the script delete the last copy | 1 rule, 2 additions |

Why the bounds are enough. Channels only meet each other through list order:
three of them give a first, an inner and a last one, so a failure may have
zero, one or two channels to revert, and two RX channels let the RSS table be
redirected twice and reset twice. Two channels are enough where the order of
stages, not of channels, is in question. Two devices are what it takes for
one to hijack PM callbacks that are hijacked, or to be unbound while the other
is probed. A ring of three or four with packets of one or two descriptors can
be empty, nearly full and full, and packets straddle its end; every index wraps
within the state space. The moduli keep what the registers promise (`PtrWrap`
divides 2^32 and exceeds the ring) and what the default ring size of 1024 does
(it divides 2^32: `RingSizeDivides`). The code does not enforce the latter:
`rtl8125_set_ringparam` accepts every size from 256 to 1024, and with one that
does not divide 2^32 the ring properties fail when an index wraps. Words need
two values to be told apart. For the scripts, two copies of one rule are what
two runs need to disagree about, and the two units are the ones the scripts
themselves depend on.

Orders of events that are left out. Some orders the code leaves open break
what the driver relies on. Each is a name in the constant `Races` (or
`Faults`) of its module, the passing runs leave it out, and the hazards say
which properties have a counterexample with it:

| Module | Name | What it lets happen | Breaks |
| --- | --- | --- | --- |
| `R8125Tx`, `R8125Rx` | `clear` | the link or ESD check clears a ring under an xmit or a poll | RingIsAccounted, ChipInStep, NoOverwrite, InStep, FramesTaken, DmaHasBuffer; TypeOK of `R8125Rx` when the budget exceeds the ring |
| `R8125Tx` | `LsoPatch = TRUE` | a packet takes one descriptor more than was checked | NoOverwrite, RingIsAccounted, ChipInStep |
| `R8125Rx` | `refill` | a reset finds no memory for the ring | RingIsAccounted |
| `R8125Net` | `trylock` | the library goes on without RTNL | NapiPaired, PollIsSafe, RemovedIsQuiet, RtnlReleased, LinkNoticed; with `restart_mem` also EsdArmed |
| | `closed` | the library enables a ring of a closed device | NapiPaired, RtnlReleased |
| | `ack` | enabling a ring acknowledges a link change nobody has seen | LinkNoticed |
| | `window` | the link comes up before the reset of a link-down | LinkNoticed |
| | `late` | an interrupt after remove's cancellation | RemovedIsQuiet |
| | `poll` | a poll during suspend | PollIsSafe |
| | `mtu_mem`, `restart_mem` | no memory in a change of MTU or a restart | NapiPaired, RtnlReleased, LinkNoticed; `restart_mem` also RemovedIsQuiet |
| | `resume_pci` | the device cannot be enabled on resume | LinkNoticed |
| | `pci_link` | the ESD check finds the PCI link down | EsdArmed |
| `IossBus` | `early` | the walk meets a device that is still probing | BoundIsProbed, StoppedIsClean |
| | `stop` | a driver is unbound while the subsystem stops | StoppedIsClean, BoundIsProbed |
| | `unwatched` | a wakeup source cannot be registered | PmOpsSane, StoppedIsClean |
| `IossNet` | `ring_mem` | no memory for a ring | NoOops |

Two more orders are part of every run, and are named in the properties that do
not survive them. A chip that is started with its ring kept goes astray:
`ChipInStep` and `InStep` are about a chip that is not, `FramesTaken` about
behaviours where it never does, and what the driver alone keeps
(`RingIsAccounted`, `NoOverwrite`, `DmaHasBuffer`) or the watchdog repairs
(`QueueRestarts`) is checked with it. A device closed in the middle of a
bring-up makes `EnableReturns` fail, which `UnwatchTerminates` and the progress
half of `ImplementsPath` assume.

So a passing run says: these are the only ways, in the model, in which the
properties fail. The theorems say it property by property and for every size:
each names as its hypothesis only the races that break its property, and needs
none of the others (see below).

Deadlock is checked where the model can always go on; the runs with faults
the kernel does not survive, with moves or gates, end in an oops and disable
that check, and so do `net_lifecycle`, where the device may be removed, and
`offload_lifecycle` and `enable_closed`, where the refresh may wait for ever.

Fairness. The work items, the notifier chains, remove and the sysfs writer
are kernel threads that run to completion: weak fairness of their steps.
Steps that wait for the RTNL lock (the link speed, the link watcher, the
notifier's unregistration, the driver's work items) have strong fairness: a
mutex serves its waiters in order. Interrupts that are pending and not masked
are delivered, polls that were scheduled run, the chip sends what it was told
of. In `R8125Tx` and `R8125Net` a shortage of RX buffers ends and in
`R8125Tx` the cable is plugged in some time; in `IossBus` a system that goes
to sleep wakes up. In `R8125Rx` and `R8125Net` the glue releases the rings it
has disabled, since every teardown ends there. In `IossNet` `StartWaits` has no
fairness: whether the library finds the lock free is left open. Nothing is assumed of what users, the PHY and the
administrator begin. In `StackHealth` the timers go off again and again
(`OnUnitActiveSec=60s`) and a script that runs goes on: weak fairness of each
instance; nothing is assumed of the success of a restart. In `OffloadPath`
the one fairness condition is that a path under way goes on, which the
refinement shows `IossNet` to keep.

## Findings

* `rtl8125_request_event` reads the word at offset 8 twice, so
  `rtl8125_release_event` ("Reverse request_event()") writes message data into
  the vector control word (`msix_restore`).
* `rtl8125_enable_ring` disables NAPI without looking whether the device is
  open. A device that is closed after the refresh decided to go online leaves
  the refresh waiting for ever, with the RTNL lock held (`enable_closed`).
* `rtl8125_tx_interrupt` remembers the close pointer even when it reclaims
  less: packets sent between its two reads stay in the ring
  (`tx_close_race`). The watchdog's reset bounds the damage: `QueueRestarts`
  holds all the same.
* `rtl8125_rx_interrupt` does not step past a fragmented or oversized frame
  and loses step with the chip (`rx_oversize`).
* Two runs of the dedupe script, the health check's and the timer's, may both
  count two copies of a rule and delete one each (`dedupe_overlap`).

Met while modelling, without a run of their own: `rtl8125_request_ring` frees
through a NULL pointer when memory runs out, though its caller handles a NULL
return (`NoOops` fails with the fault `ring_mem`); an interface in ERROR stays
there until the idev is destroyed, though `ioss.h` documents a recovery state;
a link check that finds the link up resets a running chip and leaves it astray;
and the table of races above.

## Proofs

`IossNetProofs` proves `TypeCorrect`: `Spec => []TypeOK`, for every number of
channels `N > 0`, every set of RX channels, all faults and gates, with or
without moves (assumptions `GlueAssumption` and `NetAssumption`). `TypeOK`
alone is not inductive: a step that goes to the next channel keeps the index
in range only if the stage it is in has a channel at all, so the inductive
invariant `TypeInv` adds `StageIndex`, that in every stage of bring-up and
teardown `i` is a channel. One lemma per actor (`WorkTypes`, `NetTypes`,
`BindTypes`, `UserTypes`) takes one case per action, and `GlueTypes` states
what the operators of `R8125Glue` preserve.

The second half of the module needs no hypothesis either: whatever fails, with
any gates toggled at any time and with namespace moves. Its inductive
invariant `FaultInv` is `TypeInv` and

* `Answered`: a change of what the interface should be has a refresh on its
  way, one that has not looked yet, or is already answered by the state. The
  property itself speaks only of moments with nothing in flight; in between,
  the invariant must say for each actor who still owes the refresh;
* `Carried`: what the net device core has taken down while it holds RTNL;
* `LastFlush`: remove's second flush waits for the last refresh;
* `Layered`: rings and doorbells only inside the registration with IPA, and
  for each stage which channels it has behind it;
* `Released`: what a `set_offline` without an error has released so far.

`FaultInvariant` puts them together, and from it follow `NoChangeIsMissed`
(`SettledInterface`), `DoorbellsInsideIpa`, `RssResetIsSafe` and
`TeardownHidesNothing`, the four properties of the run `offload_faults`.

`IossNetSafety` proves the safety of the offload life cycle, again for every
number of channels, under the hypothesis `Survivable`: the faults are among
those `ioss_iface_set_online` unwinds, no diagnostic gate is set and the
device keeps its network namespace. Outside of it `NoOops` does not hold (see
the hazards). The inductive invariant `SafeInv` is the conjunction of

* `TypeInv` and `NoOops`;
* `Pipeline`: for every stage, exactly which rings, events, flags, IPA
  registration and power vote exist when it starts (`Assets = Stock(...)`),
  as a function of the index `i`. Each safety property only bounds these from
  one side; an error path is right when it finds exactly what the stage
  before it left, so nothing weaker is inductive;
* `Redirected`: the RSS table points at IPA only while an RX event is on, and
  no teardown step has failed;
* `Registered`: what the bind thread's position says about the notifier, the
  iface and the flags of the idev;
* `Flushing`: a thread waits for the queued or the running instance only when
  there is one;
* `Drains`: a thread that flushes the refresh after it set `offline` or
  `unbinding` has left the queue of waiters only when no bring-up is running,
  and is released only when the path is down. This is the argument why one
  `queue_work` followed by one `flush_work` is enough although the running
  instance may have read the flags before they were set.

`Fields`, `AllocAssets` ... `HeldAssets` say what each operation does to the
assets, `DecideSafe`, `BringUpSafe`, `TearDownSafe`, `NetSafe`, `BindSafe` and
`UserSafe` are the inductive step of each actor. From `SafeInvariant` follow
`NeverOops`, `RingsIdleWhenFreed`, `PipesOnRings`,
`OnlineComplete`, `NothingLeftBehind`, `RemoveIsQuiet` and, as an action
property, `SuspendIsSynchronous`.

The same module proves the safety half of the refinement,
`ImplementsPathSafely`: `Spec => Path!Safe`.
`StageLayers` reads off `Pipeline` which layers of the abstract path each
stage stands for; `WayInv` tells the two ways down apart; then one lemma per
actor (`DecideImplements`, `BringUpImplements`, `TearDownImplements`,
`OthersImplement`) shows its steps to be steps of `OffloadPath` or stutters.
It holds whatever is closed when. That the path under way goes on, the other
half of `ImplementsPath`, is model-checked, under the assumption that
`rtl8125_enable_ring` returns (`EnableReturns`).

`IossBusProofs`, for any finite set of devices (`BusAssumption`):

* `BusTypes`: types, and `CountInv`, that the reference count of the hijacked
  PM callbacks is never below the number of its users, under every race;
* `PmOpsAreSane`, unless a wakeup source cannot be registered (`unwatched`):
  with the count exact, `GlueInv` (the glue module outlives its users) and
  `PmInv` (the callbacks kept are never IOSS's own);
* `SuspendIsPaired`, under every race: `SleepInv` says that while the system
  sleeps no idev is on the move, so the handler that suspended a device is
  the one that resumes it;
* `StopLeavesNothing`, without races: `RefreshInv` (an idev on its way out
  that is still ONLINE has a refresh to come) and `StopInv` (the walk leaves
  nothing behind it).

`R8125NetProofs` has four theorems that each rest on `LockInv`, what is true of
the device while RTNL is held (hence none allows `trylock`): `PollsAreSafe`
(with `RingInv`, `PollInv`; not with `poll`), `NapiIsPaired` (`RingInv`,
`NapiInv`; not with `closed`, `restart_mem`, `mtu_mem`), `RemoveLeavesNoWork`
(`QuietInv`; not with `late`, `restart_mem`) and `EsdStaysArmed` (`EsdInv`; not
with `pci_link`). The invariants are separate because each property survives
races that break another.

`RingIndexes`, `R8125TxProofs` and `R8125RxProofs` are about every width of the
indexes and registers (`TxAssumption`, `RxAssumption`: the ring is smaller than
both), every budget and fragment limit. `TxTypes`, `RxTypes` and `RxDmaIsSafe`
hold for every ring size; the theorems about places in the ring assume
`RingSizeDivides`, which `rtl8125_set_ringparam` does not enforce and without
which they fail at the wrap. The code compares and subtracts free-running unsigned indexes;
the argument is that they stand for natural numbers that never wrap and are at
most a ring apart. `RingIndexes` has the arithmetic: differences modulo the
width are true differences (`ModDistance`), and two places less than a ring
apart are different entries (`Apart`, `ModInjective`).

For TX, `Ring(D, C)` says that `dirty_tx` and `cur_tx` stand for `D <= C`, that
what is filled and not freed lies between them with the two publications still
to come (`Top`, `Bottom`), and `Chip(D, B, H, T, C)` places the chip's three
registers between these numbers, in their order. `RingIsAccounted` alone is not
inductive: it does not say that an xmit which has checked the room still has it
when it fills, nor where the chip stands. `TxRingIsAccounted` and
`XmitOverwritesNothing` need the driver's side only, and hold unless the ring is
cleared under an xmit or a poll, for ring sizes that divide the range of the
indexes, and without `LsoPatch` (`Sheltered`);
`TxChipInStep` needs both sides under the same conditions: the chip's side is
claimed while chip and ring were reset together (`Together`), and every reset of
the ring establishes it again. `TxTypes` needs nothing.

For RX the layers are `Types`; `Held`, `Buffers` and `Phases` (without `clear`;
hence `RxDmaIsSafe`: `Held` says that the frame the poll has read is still in
its descriptor, which the chip does not own, when it is taken out);
`Index(D, P)` (without
`clear`; hence `RxTypes`), `Holes(D, P)`, that only entries behind the driver's
place lack a buffer (without `clear` and `refill`; `RxRingIsAccounted`, which
neither a chip gone astray nor an oversized frame breaks), and `Order(P, A)`,
that the frames not taken lie between the driver's place and the chip's while
chip and ring were reset together (without `clear` and without oversized frames;
`RxStaysInStep`, which `refill` does not break).

`StackHealthProofs` proves `HealthTypes` and `ChecksExclude` (any number of
health checks that overlap or are killed; `OneCheck` is inductive with
`TypeOK`) and `AloneKeepsLast` (without the health check the dedupe script
keeps the last copy; the strengthening `Counted` says that no orphan runs and
that what is left of the count is there to delete, which QCMAP's additions keep
true).

The properties, and the inductive invariants that TLC can evaluate, were
model-checked on small instances before they were proved. Every invariant and action property of the passing runs is
stated by a theorem. Only model-checked, because the prover has no fairness:
`ConvergesUp`, `ConvergesDown`, `UnwatchTerminates`, the progress half of
`ImplementsPath`, `QueueRestarts`, `FramesTaken`, `RtnlReleased`, `LinkNoticed`,
`BoundIsProbed`, `DownIsRetried`, `DuplicatesRemoved`, `TimerSuffices`.
`R8125Msix` has a run that shows a violation and nothing to prove.

## Plan

1. Proofs: `StopLeavesNothing` under the races that leave parts of it intact;
   which parts of `SafeInv` survive single gates; what holds of the dedupe
   script next to the health check.
2. The activity check with its wakeup source and pm notifier; probe's tables
   of idevs and drivers.
3. `PcieEnabler` with its loader; `AbiBridge`; `IossOf`, `IossMem` and
   `IossIpa` as operators with reference definitions.

## Not modelled

The other chips' drivers (`qps615`, `aqc_ioss`, `emac_*`) are vendored and
drive hardware this modem does not have. Of the vendor's r8125 driver the
PHY and firmware tables, ethtool, PTP, DASH, RSS configuration and register
access are left out: they are data or hardware programming, most of its
thirteen thousand lines, and no property here is about them. Ring resizing
and shutdown are close followed by open, or close. The IPA client fills
structures for an interface outside the repository; the device tree parser
keeps no state; the allocators forward single calls; the ABI bridge copies
fields of structures that the repository does not define; the PCIe enabler
is one sequence of register writes. Intermediate experiments, images and
binaries are not programs of this system.

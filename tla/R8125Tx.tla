------------------------------ MODULE R8125Tx ------------------------------
(***************************************************************************)
(* The transmit ring of the network driver (r8125_n.c), as it is built:    *)
(* NAPI, one TX queue and ENABLE_TX_NO_CLOSE, where the driver tells the   *)
(* chip of new descriptors through a tail register and the chip tells of   *)
(* the ones it has sent through a close pointer. Four actors share it:     *)
(*   - rtl8125_start_xmit, which runs once at a time (the queue's xmit     *)
(*     lock) and only while the queue is not stopped;                      *)
(*   - the NAPI poll, rtl8125_tx_interrupt;                                *)
(*   - the chip;                                                           *)
(*   - what resets the chip under the RTNL lock: rtl8125_reset_task, the   *)
(*     link check, and the offload library (r8125_lib.c) on behalf of its  *)
(*     own rings. R8125Net has the library going on without the lock.      *)
(* The indexes of the ring run freely in unsigned int, of Wrap values; the *)
(* registers count modulo PtrWrap.                                         *)
(***************************************************************************)
EXTENDS Integers

CONSTANTS NumDesc,     \* ring->num_tx_desc
          MaxFrags,    \* MAX_SKB_FRAGS
          Wrap,        \* 2^32
          PtrWrap,     \* MAX_TX_NO_CLOSE_DESC_PTR_V2
          LsoPatch,    \* tp->RequireLSOPatch
          Races        \* the orders of events allowed, of those below

(* An order the code leaves open:                                          *)
(*   "clear"   an xmit or a poll on another CPU is in the middle of its    *)
(*             work when the ring is cleared.                              *)
AllRaces == {"clear"}

ASSUME TxAssumption ==
    /\ NumDesc \in Nat /\ MaxFrags \in Nat /\ MaxFrags < NumDesc
    /\ PtrWrap \in Nat /\ NumDesc < PtrWrap /\ Wrap % PtrWrap = 0
    /\ Wrap \in Nat /\ NumDesc < Wrap
    /\ LsoPatch \in BOOLEAN /\ Races \subseteq AllRaces

(* The ring size divides the range of the indexes, as the default of 1024  *)
(* does. rtl8125_set_ringparam accepts any size from 256 to 1024; with one *)
(* that does not divide it, the entries jump when an index wraps.          *)
RingSizeDivides == Wrap % NumDesc = 0

VARIABLES
    cur, dirty,  \* ring->cur_tx, ring->dirty_tx
    slot,        \* who has each descriptor: nobody, the chip, or the driver
                 \* again once it is sent (ring->tx_skb is set in the last two)
    begin,       \* ring->BeginHwDesCloPtr
    tail,        \* the register sw_tail_ptr_reg
    closed,      \* the register hw_clo_ptr_reg
    hwAt,        \* the descriptor the chip is at
    irq,         \* whether a TX interrupt is pending
    chip,        \* "off", reset together with the ring; "on", started on
                 \* such a ring; "stopped", reset by the library with the
                 \* ring kept; "astray", started with the ring kept
    queue,       \* __netif_subqueue_stopped()
    xmit, need,  \* start_xmit: where it is, the descriptors of its packet
    poll, left,  \* tx_interrupt: where it is, its tx_left
    link,        \* netif_carrier_ok()
    task         \* where the reset work is

ringVars == <<cur, dirty, slot, begin>>
chipVars == <<tail, closed, hwAt, irq, chip>>
xmitVars == <<xmit, need>>
pollVars == <<poll, left>>
vars == <<ringVars, chipVars, queue, xmitVars, pollVars, link, task>>

Entries == 0..NumDesc - 1

XmitSteps == {"idle", "publish", "stop", "kick", "kick_stopped", "recheck"}
PollSteps == {"idle", "close", "publish", "late", "wake"}
TaskSteps == {"idle", "pending", "stop", "clear", "init", "retry"}

(* Every variable keeps its type; the indexes stay unsigned. *)
TypeOK ==
    /\ cur \in 0..Wrap - 1 /\ dirty \in 0..Wrap - 1
    /\ slot \in [Entries -> {"free", "chip", "sent"}]
    /\ begin \in 0..PtrWrap - 1
    /\ tail \in 0..PtrWrap - 1 /\ closed \in 0..PtrWrap - 1
    /\ hwAt \in Entries /\ irq \in BOOLEAN
    /\ chip \in {"on", "off", "stopped", "astray"}
    /\ queue \in {"awake", "stopped"}
    /\ xmit \in XmitSteps /\ need \in 0..MaxFrags + 2
    /\ poll \in PollSteps /\ left \in 0..Wrap - 1
    /\ link \in {"up", "down"} /\ task \in TaskSteps

Init ==
    /\ cur = 0 /\ dirty = 0 /\ slot = [e \in Entries |-> "free"] /\ begin = 0
    /\ tail = 0 /\ closed = 0 /\ hwAt = 0 /\ irq = FALSE
    /\ chip = "off"
    /\ queue = "stopped" /\ link = "down"
    /\ xmit = "idle" /\ need = 0
    /\ poll = "idle" /\ left = 0
    /\ task = "idle"

(* Mutant: the difference is taken as a signed one. *)
MinusSigned(a, b, mod) == a - b

(* Unsigned subtraction. *)
Minus(a, b, mod) == (a + mod - b) % mod

(* The n entries from index a on. *)
From(a, n) == {(a + k) % NumDesc : k \in 0..n - 1}

(* Mutant: the ring may be filled to the last descriptor. *)
SlotsAvailAnyRoom(d, c) == Minus(d + NumDesc, c, Wrap) > 0

(* rtl8125_tx_slots_avail. *)
SlotsAvail(d, c) == Minus(d + NumDesc, c, Wrap) > MaxFrags

----------------------------------------------------------------------------
(* rtl8125_start_xmit. *)

(* Descriptors of a packet with f fragments: with the LSO patch the last   *)
(* fragment of a short large-send packet takes two.                        *)
Needed(f) == {f + 1} \cup (IF LsoPatch /\ f > 0 THEN {f + 2} ELSE {})

(* The ring has no room although the queue was awake: NETDEV_TX_BUSY. *)
XmitBusy ==
    /\ xmit = "idle" /\ queue = "awake"
    /\ ~SlotsAvail(dirty, cur)
    /\ queue' = "stopped"
    /\ UNCHANGED <<ringVars, chipVars, xmitVars, pollVars, link, task>>

(* rtl8125_xmit_frags and the first descriptor. When a mapping fails the   *)
(* descriptors written so far are cleared again and the packet is dropped, *)
(* which leaves the ring as it was.                                        *)
XmitFill(n) ==
    /\ xmit = "idle" /\ queue = "awake"
    /\ SlotsAvail(dirty, cur)
    /\ slot' = [e \in Entries |-> IF e \in From(cur, n) THEN "chip" ELSE slot[e]]
    /\ xmit' = "publish" /\ need' = n
    /\ UNCHANGED <<cur, dirty, begin, chipVars, queue, pollVars, link, task>>

(* Mutant: the descriptor of the linear part is not counted. *)
XmitPublishFrags ==
    /\ xmit = "publish"
    /\ cur' = (cur + need - 1) % Wrap
    /\ xmit' = IF SlotsAvail(dirty, cur') THEN "kick" ELSE "stop"
    /\ need' = 0
    /\ UNCHANGED <<dirty, slot, begin, chipVars, queue, pollVars, link, task>>

(* cur_tx is published, then the room is looked at. *)
XmitPublish ==
    /\ xmit = "publish"
    /\ cur' = (cur + need) % Wrap
    /\ xmit' = IF SlotsAvail(dirty, cur') THEN "kick" ELSE "stop"
    /\ need' = 0
    /\ UNCHANGED <<dirty, slot, begin, chipVars, queue, pollVars, link, task>>

XmitStop ==
    /\ xmit = "stop"
    /\ queue' = "stopped"
    /\ xmit' = "kick_stopped"
    /\ UNCHANGED <<ringVars, chipVars, need, pollVars, link, task>>

XmitKick ==
    /\ xmit \in {"kick", "kick_stopped"}
    /\ tail' = cur % PtrWrap
    /\ xmit' = IF xmit = "kick" THEN "idle" ELSE "recheck"
    /\ UNCHANGED <<ringVars, closed, hwAt, irq, chip, queue, need, pollVars,
                   link, task>>

(* After the full barrier: a poll may have made room meanwhile. *)
XmitRecheck ==
    /\ xmit = "recheck"
    /\ queue' = IF SlotsAvail(dirty, cur) THEN "awake" ELSE queue
    /\ xmit' = "idle"
    /\ UNCHANGED <<ringVars, chipVars, need, pollVars, link, task>>

----------------------------------------------------------------------------
(* The chip sends the descriptors up to the tail register. *)

Running == chip \in {"on", "astray"}

HwClose ==
    /\ Running
    /\ closed # tail
    /\ slot' = [slot EXCEPT ![hwAt] = IF @ = "chip" THEN "sent" ELSE @]
    /\ closed' = (closed + 1) % PtrWrap
    /\ hwAt' = (hwAt + 1) % NumDesc
    /\ irq' = TRUE
    /\ UNCHANGED <<cur, dirty, begin, tail, chip, queue, xmitVars, pollVars,
                   link, task>>

----------------------------------------------------------------------------
(* rtl8125_interrupt and the NAPI poll's rtl8125_tx_interrupt. *)

(* Interrupts are masked from the quiescence in the reset work on, and     *)
(* until the chip is started again.                                        *)
Masked == ~Running \/ task \in {"stop", "clear"}

(* The interrupt is acknowledged, the poll scheduled, and it takes its     *)
(* view of cur_tx.                                                         *)
PollStart ==
    /\ poll = "idle" /\ irq /\ ~Masked
    /\ irq' = FALSE
    /\ left' = Minus(cur, dirty, Wrap)
    /\ poll' = "close"
    /\ UNCHANGED <<ringVars, tail, closed, hwAt, chip, queue, xmitVars, link,
                   task>>

(* The descriptors to reclaim: those closed since the last poll, at most   *)
(* tx_left.                                                                *)
Reclaimed == LET n == Minus(closed, begin, PtrWrap)
             IN  IF left > n THEN n ELSE left

(* The close pointer is read, after cur_tx, and remembered whatever        *)
(* tx_left was; the packets are unmapped and freed.                        *)
PollClose ==
    /\ poll = "close"
    /\ begin' = closed
    /\ left' = Reclaimed
    /\ slot' = [e \in Entries |->
                   IF e \in From(dirty, Reclaimed) THEN "free" ELSE slot[e]]
    /\ poll' = IF Reclaimed = 0 THEN "idle" ELSE "publish"
    /\ UNCHANGED <<cur, dirty, chipVars, queue, xmitVars, link, task>>

(* dirty_tx is published. smp_wmb() does not order it with the read of the *)
(* queue's state that follows: that read may come first.                   *)
PollPublish ==
    /\ poll = "publish"
    /\ \/ dirty' = (dirty + left) % Wrap /\ poll' = "wake" /\ left' = 0
       \/ queue = "awake" /\ poll' = "late" /\ UNCHANGED <<dirty, left>>
    /\ UNCHANGED <<cur, slot, begin, chipVars, queue, xmitVars, link, task>>

PollLate ==
    /\ poll = "late"
    /\ dirty' = (dirty + left) % Wrap
    /\ poll' = "idle" /\ left' = 0
    /\ UNCHANGED <<cur, slot, begin, chipVars, queue, xmitVars, link, task>>

PollWake ==
    /\ poll = "wake"
    /\ queue' = IF SlotsAvail(dirty, cur) THEN "awake" ELSE queue
    /\ poll' = "idle"
    /\ UNCHANGED <<ringVars, chipVars, xmitVars, left, link, task>>

----------------------------------------------------------------------------
(* Resetting the chip: the watchdog's reset work, the link check and the   *)
(* library.                                                                *)

(* rtl8125_hw_reset: the chip's pointers start again, it raises nothing. *)
HwReset == tail' = 0 /\ closed' = 0 /\ hwAt' = 0 /\ irq' = FALSE

(* rtl8125_tx_clear goes once round the ring and frees every packet. *)
TxClear == slot' = [e \in Entries |-> "free"] /\ cur' = 0 /\ dirty' = 0

(* No xmit and no poll is at work, unless the code lets them be. *)
OthersDone == "clear" \in Races \/ (xmit = "idle" /\ poll = "idle")

(* dev_watchdog finds a queue stopped for too long: rtl8125_tx_timeout. *)
TxTimeout ==
    /\ queue = "stopped" /\ link = "up"
    /\ task = "idle"
    /\ task' = "pending"
    /\ UNCHANGED <<ringVars, chipVars, queue, xmitVars, pollVars, link>>

(* rtl8125_wait_for_quiescence: NAPI is disabled, a running xmit waited    *)
(* for, interrupts masked, NAPI enabled again.                             *)
ResetQuiesce ==
    /\ task \in {"pending", "retry"}
    /\ poll = "idle" /\ xmit = "idle"
    /\ task' = "stop"
    /\ UNCHANGED <<ringVars, chipVars, queue, xmitVars, pollVars, link>>

(* Only now are the queues stopped: an xmit that started in between goes   *)
(* on.                                                                     *)
ResetStop ==
    /\ task = "stop"
    /\ OthersDone
    /\ queue' = "stopped" /\ link' = "down"
    /\ task' = "clear"
    /\ UNCHANGED <<ringVars, chipVars, xmitVars, pollVars>>

ResetClear ==
    /\ task = "clear"
    /\ HwReset /\ TxClear /\ chip' = "off"
    /\ task' = "init"
    /\ UNCHANGED <<begin, queue, xmitVars, pollVars, link>>

(* Mutant: the close pointer survives rtl8125_init_ring_indexes. *)
ResetInitKeepsPtr ==
    /\ task = "init"
    /\ TxClear
    /\ task' = "idle"
    /\ UNCHANGED <<begin, chipVars, queue, xmitVars, pollVars, link>>

(* rtl8125_init_ring; the link is negotiated again. *)
ResetInit ==
    /\ task = "init"
    /\ TxClear /\ begin' = 0
    /\ task' = "idle"
    /\ UNCHANGED <<chipVars, queue, xmitVars, pollVars, link>>

(* Some RX ring could not be refilled: rtl8125_init_ring is left out and   *)
(* the work scheduled again.                                               *)
ResetRxStuck ==
    /\ task = "init"
    /\ task' = "retry"
    /\ UNCHANGED <<ringVars, chipVars, queue, xmitVars, pollVars, link>>

(* The reset work does not hold the RTNL lock. *)
RtnlFree == task \in {"idle", "pending", "retry"}

(* The ring is made anew, which is what a retried reset has to do. *)
RingRenewed ==
    /\ TxClear /\ begin' = 0
    /\ task' = IF task = "retry" THEN "pending" ELSE task

(* A chip started with the ring kept goes astray, unless the ring was      *)
(* reset with it.                                                          *)
Started == IF chip = "off" /\ task # "retry" THEN "on" ELSE "astray"

(* Mutant: the queues are not woken. *)
LinkOnNoWake ==
    /\ RtnlFree
    /\ HwReset /\ chip' = Started /\ link' = "up"
    /\ UNCHANGED <<ringVars, queue, xmitVars, pollVars, task>>

(* rtl8125_link_on_patch. rtl8125_hw_config resets the chip, which may be  *)
(* running, and the indexes of the ring are left alone. The link check may *)
(* also come between a reset that found an RX ring stuck and its retry.    *)
LinkOn ==
    /\ RtnlFree
    /\ HwReset /\ chip' = Started
    /\ link' = "up" /\ queue' = "awake"
    /\ UNCHANGED <<ringVars, xmitVars, pollVars, task>>

(* rtl8125_link_down_patch, and rtl8125_esd_checker on a corrupted         *)
(* configuration space.                                                    *)
LinkDown ==
    /\ RtnlFree /\ OthersDone
    /\ HwReset /\ RingRenewed
    /\ chip' = "off" /\ link' = "down" /\ queue' = "stopped"
    /\ UNCHANGED <<xmitVars, pollVars>>

(* rtl8125_enable_ring of the library: netif_tx_disable waits for an xmit  *)
(* and napi_disable for a poll, the ring is made anew, the chip started    *)
(* and the queues with it, whatever the link.                              *)
LibEnable ==
    /\ RtnlFree /\ xmit = "idle" /\ poll = "idle"
    /\ HwReset /\ RingRenewed
    /\ chip' = "on" /\ queue' = "awake"
    /\ UNCHANGED <<xmitVars, pollVars, link>>

(* rtl8125_disable_ring of the library: the whole chip is reset, under an  *)
(* xmit or a poll too, and nothing else is done.                           *)
LibDisable ==
    /\ RtnlFree
    /\ HwReset /\ chip' = IF Running THEN "stopped" ELSE chip
    /\ UNCHANGED <<ringVars, queue, xmitVars, pollVars, link, task>>

(* rtl8125_release_ring of the library's last ring: rtl8125_close, then    *)
(* rtl8125_open.                                                           *)
LibRelease ==
    /\ RtnlFree /\ xmit = "idle" /\ poll = "idle"
    /\ HwReset /\ RingRenewed
    /\ chip' = "off" /\ link' = "down" /\ queue' = "stopped"
    /\ UNCHANGED <<xmitVars, pollVars>>

Next ==
    \/ XmitBusy
    \/ \E f \in 0..MaxFrags : \E n \in Needed(f) : XmitFill(n)
    \/ XmitPublish \/ XmitStop \/ XmitKick \/ XmitRecheck
    \/ HwClose
    \/ PollStart \/ PollClose \/ PollPublish \/ PollLate \/ PollWake
    \/ TxTimeout \/ ResetQuiesce \/ ResetStop \/ ResetClear
    \/ ResetInit \/ ResetRxStuck
    \/ LinkOn \/ LinkDown
    \/ LibEnable \/ LibDisable \/ LibRelease

(* Whoever is at work goes on; a pending interrupt is delivered; the chip  *)
(* sends what it was told of while the link is up; the watchdog fires and  *)
(* the work items run; a cable is plugged in; the shortage of RX buffers   *)
(* ends.                                                                   *)
Fairness ==
    /\ WF_vars(XmitPublish) /\ WF_vars(XmitStop)
    /\ WF_vars(XmitKick) /\ WF_vars(XmitRecheck)
    /\ WF_vars(link = "up" /\ HwClose)
    /\ WF_vars(PollStart) /\ WF_vars(PollClose) /\ WF_vars(PollPublish)
    /\ WF_vars(PollLate) /\ WF_vars(PollWake)
    /\ WF_vars(TxTimeout) /\ WF_vars(ResetQuiesce)
    /\ WF_vars(ResetStop) /\ WF_vars(ResetClear) /\ SF_vars(ResetInit)
    /\ WF_vars(link = "down" /\ LinkOn)

Spec == Init /\ [][Next]_vars /\ Fairness

----------------------------------------------------------------------------
(* The descriptors the indexes say are in use. *)
InUse == From(dirty, Minus(cur, dirty, Wrap))

(* Those a poll has freed and not yet published, those an xmit has filled  *)
(* and not yet published.                                                  *)
FreedEarly  == IF poll \in {"publish", "late"} THEN From(dirty, left) ELSE {}
FilledEarly == IF xmit = "publish" THEN From(cur, need) ELSE {}

(* No packet is lost or leaked in the ring: the descriptors that hold one  *)
(* are exactly those between dirty_tx and cur_tx, up to what start_xmit    *)
(* and tx_interrupt are in the middle of, across the wrap of every index   *)
(* and after every way of clearing the ring.                               *)
RingIsAccounted ==
    {e \in Entries : slot[e] # "free"} = (InUse \ FreedEarly) \cup FilledEarly

(* A chip that was started with its ring is told only of descriptors that  *)
(* start_xmit has filled, it is at the first of them, and tx_interrupt     *)
(* frees none before it is sent: the two registers, the chip's own         *)
(* position and BeginHwDesCloPtr stay in step with cur_tx and dirty_tx,    *)
(* and come back in step from every reset of the ring, also where the      *)
(* library or a second link-up had reset the chip alone.                   *)
ChipInStep ==
    chip = "on" =>
        \A e \in From(hwAt, Minus(tail, closed, PtrWrap)) : slot[e] = "chip"

(* start_xmit never fills a descriptor that still holds a packet.          *)
NoOverwrite ==
    [][xmit = "idle" /\ xmit' = "publish"
           => \A e \in From(cur, need') : slot[e] = "free"]_vars

(* A stopped queue does not stay stopped, though the poll may miss that    *)
(* start_xmit has just stopped it and may lose track of sent descriptors:  *)
(* in the end the watchdog has the ring reset.                             *)
QueueRestarts == queue = "stopped" ~> queue = "awake"

(* "The interrupt handler [...] cleans up after the Tx thread": with every *)
(* descriptor sent and no interrupt pending, no packet is left in the      *)
(* ring.                                                                   *)
AllCleanedUp ==
    (/\ xmit = "idle" /\ poll = "idle" /\ ~irq /\ closed = tail
     /\ chip = "on" /\ link = "up" /\ task = "idle")
        => \A e \in Entries : slot[e] = "free"
============================================================================

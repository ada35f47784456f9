------------------------------ MODULE R8125Rx ------------------------------
(***************************************************************************)
(* One receive ring of the network driver (r8125_n.c) under NAPI with      *)
(* MSI-X. The chip writes a frame into the descriptor it is at when it     *)
(* owns it, and moves on; rtl8125_rx_interrupt takes the frames from       *)
(* cur_rx on, and rtl8125_rx_fill gives new buffers to the descriptors     *)
(* from dirty_rx on, as far as memory lasts. The poll runs it, and so does *)
(* rtl8125_reset_task once the poll is stopped. The link check and the     *)
(* offload library (r8125_lib.c) reset the chip under the RTNL lock;       *)
(* R8125Net has the library going on without it. The indexes run freely in *)
(* u32, of Wrap values.                                                    *)
(***************************************************************************)
EXTENDS Integers, FiniteSets

CONSTANTS NumDesc,  \* ring->num_rx_desc
          Budget,   \* the budget of a poll
          Wrap,     \* 2^32
          Frames,   \* the kinds of frames the chip reports
          Races     \* the orders of events allowed, of those below

(* Orders the code leaves open:                                            *)
(*   "clear"   the link check or the ESD check, which stop neither the     *)
(*             chip's interrupts nor a poll on another CPU, make the ring  *)
(*             anew under the poll;                                        *)
(*   "refill"  a reset finds no memory for the ring, which it does not     *)
(*             look at.                                                    *)
AllRaces == {"clear", "refill"}

(* A good frame, one with an error, and one that is oversized or           *)
(* fragmented.                                                             *)
AllFrames == {"good", "error", "over"}

ASSUME RxAssumption ==
    /\ NumDesc \in Nat \ {0} /\ Budget \in Nat \ {0}
    /\ Wrap \in Nat /\ NumDesc < Wrap
    /\ Frames \subseteq AllFrames /\ Races \subseteq AllRaces

(* The ring size divides the range of the indexes, as the default of 1024  *)
(* does; rtl8125_set_ringparam accepts others.                             *)
RingSizeDivides == Wrap % NumDesc = 0

Entries == 0..NumDesc - 1
Empty   == [e \in Entries |-> "none"]

VARIABLES
    cur, dirty,  \* ring->cur_rx, ring->dirty_rx
    own,         \* the descriptors the chip owns
    buf,         \* the descriptors with a buffer, ring->Rx_skbuff
    frame,       \* the frame each descriptor holds for the driver
    asic,        \* the descriptor the chip is at
    chip,        \* "off", reset together with the ring or to be reset
                 \* again; "on", started on a new ring; "stopped", reset by
                 \* the library with the ring kept; "astray", started with
                 \* the ring kept
    isr, imr,    \* the interrupt is pending; it is not masked
    run,         \* who runs rtl8125_rx_interrupt; "again" when the poll has
                 \* used up its budget and NAPI is to call it again
    at, left,    \* its cur_rx and rx_left
    got,         \* the frame it is at, once it has read status and buffer
    task         \* the reset work

ringVars == <<cur, dirty, own, buf, frame>>
chipVars == <<asic, chip, isr, imr>>
loopVars == <<run, at, left, got>>
vars == <<ringVars, chipVars, loopVars, task>>

(* Every variable keeps its type; no frame is taken past the refilled part *)
(* of the ring.                                                            *)
TypeOK ==
    /\ cur \in 0..Wrap - 1 /\ dirty \in 0..Wrap - 1 /\ at \in 0..Wrap - 1
    /\ left \in 0..NumDesc
    /\ own \subseteq Entries /\ buf \subseteq Entries
    /\ frame \in [Entries -> AllFrames \cup {"none"}]
    /\ asic \in Entries /\ chip \in {"on", "off", "stopped", "astray"}
    /\ isr \in BOOLEAN /\ imr \in BOOLEAN
    /\ run \in {"idle", "again", "poll", "reset"}
    /\ got \in AllFrames \cup {"none"}
    /\ task \in {"idle", "pending", "quiet", "taken", "retry"}

Init ==
    /\ cur = 0 /\ dirty = 0
    /\ own = Entries /\ buf = Entries /\ frame = Empty
    /\ asic = 0 /\ chip = "off" /\ isr = FALSE /\ imr = FALSE
    /\ run = "idle" /\ at = 0 /\ left = 0 /\ got = "none"
    /\ task = "idle"

(* Unsigned subtraction. *)
Minus(a, b) == (a + Wrap - b) % Wrap

(* Mutant: the ring ends one entry too late. *)
EntryPastEnd(i) == i % (NumDesc + 1)

(* The entry of an index. *)
Entry(i) == i % NumDesc

(* The n entries from index a on. *)
From(a, n) == {Entry(a + k) : k \in 0..n - 1}

----------------------------------------------------------------------------
(* The chip, and the interrupt. *)

Running == chip \in {"on", "astray"}

Receive ==
    /\ Running /\ asic \in own
    /\ \E f \in Frames : frame' = [frame EXCEPT ![asic] = f]
    /\ own' = own \ {asic}
    /\ asic' = Entry(asic + 1)
    /\ isr' = TRUE
    /\ UNCHANGED <<cur, dirty, buf, chip, imr, loopVars, task>>

----------------------------------------------------------------------------
(* rtl8125_rx_interrupt. *)

(* What is left to take: at most up to the first entry without a buffer. *)
TakeFrom(who, quota) ==
    LET filled == Minus(NumDesc + dirty, cur) IN
    /\ run' = who /\ at' = cur
    /\ left' = IF filled < quota THEN filled ELSE quota
    /\ UNCHANGED got

(* The interrupt masks itself and schedules the poll. *)
PollStart ==
    /\ run = "idle" /\ task \in {"idle", "pending", "retry"}
    /\ isr /\ imr
    /\ isr' = FALSE /\ imr' = FALSE
    /\ TakeFrom("poll", Budget)
    /\ UNCHANGED <<ringVars, asic, chip, task>>

PollAgain ==
    /\ run = "again"
    /\ TakeFrom("poll", Budget)
    /\ UNCHANGED <<ringVars, chipVars, task>>

Taking == run \in {"poll", "reset"}

(* The status of a descriptor with a frame is read, and then its buffer. *)
FrameSeen ==
    LET e == Entry(at) IN
    /\ Taking /\ left > 0 /\ got = "none"
    /\ e \notin own /\ frame[e] # "none" /\ (frame[e] = "good" => e \in buf)
    /\ got' = frame[e]
    /\ UNCHANGED <<ringVars, chipVars, run, at, left, task>>

(* A frame with an error (without NETIF_F_RXALL), one that is copied, or   *)
(* an oversized or fragmented one that is dropped: the descriptor goes     *)
(* back to the chip with its buffer. In the last case `continue' skips the *)
(* step to the next descriptor.                                            *)
FrameReturned ==
    LET e == Entry(at) IN
    /\ got # "none"
    /\ frame' = [frame EXCEPT ![e] = "none"]
    /\ own' = own \cup {e}
    /\ at' = IF got = "over" THEN at ELSE (at + 1) % Wrap
    /\ left' = left - 1 /\ got' = "none"
    /\ UNCHANGED <<cur, dirty, buf, chipVars, run, task>>

(* Mutant: the descriptor goes back to the chip all the same. *)
FrameHandedUpReused ==
    LET e == Entry(at) IN
    /\ got = "good"
    /\ frame' = [frame EXCEPT ![e] = "none"]
    /\ buf' = buf \ {e} /\ own' = own \cup {e}
    /\ at' = (at + 1) % Wrap /\ left' = left - 1 /\ got' = "none"
    /\ UNCHANGED <<cur, dirty, chipVars, run, task>>

(* The frame is handed up in its buffer, which is taken out of the ring. *)
FrameHandedUp ==
    LET e == Entry(at) IN
    /\ got = "good"
    /\ frame' = [frame EXCEPT ![e] = "none"]
    /\ buf' = buf \ {e}
    /\ at' = (at + 1) % Wrap /\ left' = left - 1 /\ got' = "none"
    /\ UNCHANGED <<cur, dirty, own, chipVars, run, task>>

(* Mutant: an entry that cannot be filled is passed over. *)
FillPastFailure(n) ==
    /\ n = Minus(at, dirty)
    /\ \E more \in SUBSET (From(dirty, n) \ buf) :
          buf' = buf \cup more /\ own' = own \cup more

(* rtl8125_rx_fill fills n entries from dirty_rx on: all those taken, or   *)
(* up to one that has no buffer and gets none.                             *)
Fill(n) ==
    LET new == From(dirty, n) \ buf IN
    /\ n \in 0..Minus(at, dirty)
    /\ n < Minus(at, dirty) => Entry(dirty + n) \notin buf
    /\ buf' = buf \cup new /\ own' = own \cup new

(* Mutant: a poll that has used up its budget counts as complete. *)
PollCompleteAlways(count) == count <= Budget

(* NAPI is told that the poll is complete. *)
PollComplete(count) == count < Budget

(* The loop is over: cur_rx and dirty_rx are stored. A poll that took less *)
(* than its budget unmasks the interrupt, one that took all of it comes    *)
(* again.                                                                  *)
LoopEnd ==
    LET e == Entry(at) IN
    /\ Taking /\ got = "none"
    /\ left = 0 \/ e \in own \/ (frame[e] \in {"none", "good"} /\ e \notin buf)
    /\ \E n \in 0..NumDesc : Fill(n) /\ dirty' = (dirty + n) % Wrap
    /\ cur' = at
    /\ at' = 0 /\ left' = 0 /\ UNCHANGED got
    /\ \/ run = "poll" /\ PollComplete(Minus(at, cur))
          /\ run' = "idle" /\ imr' = TRUE /\ UNCHANGED task
       \/ run = "poll" /\ ~PollComplete(Minus(at, cur))
          /\ run' = "again" /\ UNCHANGED <<imr, task>>
       \/ run = "reset"
          /\ run' = "idle" /\ task' = "taken" /\ UNCHANGED imr
    /\ UNCHANGED <<frame, asic, chip, isr>>

----------------------------------------------------------------------------
(* rtl8125_reset_task. *)

ScheduleReset ==
    /\ task = "idle"
    /\ task' = "pending"
    /\ UNCHANGED <<ringVars, chipVars, loopVars>>

(* napi_disable waits for a running poll; one that was to come again does  *)
(* not.                                                                    *)
NapiDisabled == ~Taking /\ run' = "idle" /\ UNCHANGED <<at, left, got>>

(* rtl8125_wait_for_quiescence: the poll is stopped, the interrupt masked. *)
ResetQuiesce ==
    /\ task \in {"pending", "retry"} /\ NapiDisabled
    /\ task' = "quiet"
    /\ imr' = FALSE /\ isr' = FALSE
    /\ UNCHANGED <<ringVars, asic, chip>>

ResetTake ==
    /\ task = "quiet" /\ run = "idle"
    /\ TakeFrom("reset", NumDesc)
    /\ UNCHANGED <<ringVars, chipVars, task>>

(* rtl8125_hw_reset: the chip goes back to the first entry and interrupts  *)
(* are acknowledged and masked; and rtl8125_hw_start, if it is to run.     *)
HwReset(state) ==
    /\ chip' = state /\ asic' = 0
    /\ isr' = FALSE /\ imr' = (state = "on" \/ state = "astray")

(* rtl8125_rx_clear and rtl8125_init_ring. *)
InitRing ==
    /\ cur' = 0 /\ dirty' = 0 /\ frame' = Empty
    /\ \/ own' = Entries /\ buf' = Entries
       \/ "refill" \in Races /\ own' = {} /\ buf' = {}

(* Mutant: the indexes of the old ring are kept. *)
ResetRingKeepsIndexes ==
    /\ task = "taken" /\ cur = dirty
    /\ HwReset("off")
    /\ frame' = Empty /\ own' = Entries /\ buf' = Entries
    /\ task' = "idle"
    /\ UNCHANGED <<cur, dirty, loopVars>>

(* rtl8125_rx_nostuck holds: a new ring. *)
ResetRing ==
    /\ task = "taken" /\ cur = dirty
    /\ HwReset("off") /\ InitRing
    /\ task' = "idle"
    /\ UNCHANGED loopVars

(* "Rx buffers shortage": the ring stays as it is, and the reset is        *)
(* scheduled again.                                                        *)
ResetStuck ==
    /\ task = "taken" /\ cur # dirty
    /\ HwReset("off")
    /\ task' = "retry"
    /\ UNCHANGED <<ringVars, loopVars>>

----------------------------------------------------------------------------
(* The link check and the library. *)

(* The reset work does not hold the RTNL lock. *)
RtnlFree == task \in {"idle", "pending", "retry"}

(* A ring made anew is what a retried reset was to bring about. *)
RingRenewed == InitRing /\ task' = IF task = "retry" THEN "pending" ELSE task

(* The link check finds the link up: rtl8125_link_on_patch resets the chip *)
(* in rtl8125_hw_config, be it running, and starts it with the ring kept.  *)
(* It may also come between a reset that found the ring short of buffers   *)
(* and its retry.                                                          *)
LinkOn ==
    /\ RtnlFree
    /\ HwReset(IF chip = "off" /\ task # "retry" THEN "on" ELSE "astray")
    /\ UNCHANGED <<ringVars, loopVars, task>>

(* It finds the link down, or the ESD check finds the registers changed:   *)
(* the chip is reset and the ring made anew.                               *)
LinkDown ==
    /\ RtnlFree
    /\ Taking => "clear" \in Races
    /\ HwReset("off") /\ RingRenewed
    /\ UNCHANGED loopVars

(* rtl8125_enable_ring of the library: the chip is reset, the ring made    *)
(* anew, and the chip started, whatever the link.                          *)
LibEnable ==
    /\ RtnlFree /\ NapiDisabled
    /\ HwReset("on") /\ RingRenewed

(* rtl8125_disable_ring of the library resets the whole chip, under a poll *)
(* too, and does nothing else.                                             *)
LibDisable ==
    /\ RtnlFree
    /\ HwReset(IF Running THEN "stopped" ELSE chip)
    /\ UNCHANGED <<ringVars, loopVars, task>>

(* rtl8125_release_ring of the library's last ring: rtl8125_close, then    *)
(* rtl8125_open, which fails when it cannot fill the ring.                 *)
LibRelease ==
    /\ RtnlFree /\ NapiDisabled
    /\ HwReset("off") /\ RingRenewed /\ buf' = Entries

Poll ==
    \/ PollStart \/ PollAgain
    \/ FrameSeen \/ FrameReturned \/ FrameHandedUp \/ LoopEnd

Task == ResetQuiesce \/ ResetTake \/ ResetRing \/ ResetStuck

Next ==
    \/ Receive \/ Poll \/ Task
    \/ ScheduleReset \/ LinkOn \/ LinkDown
    \/ LibEnable \/ LibDisable \/ LibRelease

(* A poll that was scheduled runs and goes on; so do the work items. The   *)
(* offload glue releases every ring it has disabled.                       *)
Fairness ==
    /\ WF_vars(Poll) /\ WF_vars(Task)
    /\ WF_vars(chip = "stopped" /\ LibRelease)

Spec == Init /\ [][Next]_vars /\ Fairness

----------------------------------------------------------------------------
Filled == {e \in Entries : frame[e] # "none"}

(* The driver's place in the ring: what it has taken so far. *)
Place == IF Taking THEN at ELSE cur

(* The driver and a chip that was started with the ring stay in step: the  *)
(* frames not taken yet are the ones from the driver's place up to the     *)
(* chip's, the oldest first. A frame that is skipped, or a descriptor      *)
(* handed back without moving on, makes the driver wait at an entry the    *)
(* chip reaches a whole ring later. They come back in step from every      *)
(* reset of the ring, also where the library or a second link-up had reset *)
(* the chip alone.                                                         *)
InStep ==
    LET n == Cardinality(Filled)
    IN  chip = "on" => Filled = From(Place, n) /\ asic = Entry(Place + n)

(* Every descriptor is the chip's, holds a frame, or waits for a buffer    *)
(* between dirty_rx and the driver's place; none falls out of use.         *)
RingIsAccounted ==
    /\ Minus(Place, dirty) <= NumDesc
    /\ Entries = own \cup Filled \cup From(dirty, Minus(Place, dirty))

(* The chip never writes to a buffer that was handed up or freed, and      *)
(* rtl8125_rx_interrupt finds the buffer of every frame.                   *)
DmaHasBuffer == own \cup Filled \subseteq buf /\ own \cap Filled = {}

(* Unless the chip goes astray, every frame it has written is taken, or    *)
(* the ring is reset: no interrupt is lost between the poll's last look    *)
(* and its unmasking, and no shortage of buffers stops the taking.         *)
FramesTaken ==
    [](chip # "astray") => \A e \in Entries : e \in Filled ~> e \notin Filled
============================================================================

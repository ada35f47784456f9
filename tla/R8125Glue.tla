----------------------------- MODULE R8125Glue -----------------------------
(***************************************************************************)
(* The r8125_ioss glue driver (r8125_ioss.c) and the ring/event library it *)
(* calls (r8125_lib.c): what each driver operation does to the rings the   *)
(* library keeps for the offload path.                                     *)
(*                                                                         *)
(* A glue state d is a record of                                           *)
(*   ring  channels whose ch->private points at an allocated library ring  *)
(*   on    channels whose ring is enabled (ring->enabled)                  *)
(*   ev    channels whose MSI-X entry carries the IPA doorbell             *)
(*         (ring->event.allocated, ch->event.daddr mapped)                 *)
(*   evOn  channels whose interrupt is enabled (ring->event.enabled)       *)
(*   rss   where the RX indirection table points                           *)
(*   skip  the diagnostic skip_* module parameters that are set            *)
(* Each operation is an operator on d; the predicates named ...Fails say   *)
(* when the operation returns an error without any resource running out,   *)
(* and NullRing says when it follows a NULL ch->private.                   *)
(***************************************************************************)
EXTENDS Naturals

CONSTANTS N,            \* number of channels of the interface
          RxChannels,   \* the RX ones: their filter type is IOSS_RXF_F_IP
          Gates         \* the diagnostic skip_* parameters root may write

AllGates == {"skip_request_channel", "skip_enable_channel",
             "skip_request_event", "skip_enable_event"}

ASSUME GlueAssumption == /\ N \in Nat \ {0}
                         /\ RxChannels \subseteq 1..N
                         /\ Gates \subseteq AllGates

Channels == 1..N

(* What the library keeps for the offload rings of one net device. *)
Rings == [ring : SUBSET Channels, on : SUBSET Channels, ev : SUBSET Channels,
          evOn : SUBSET Channels, rss : {"default", "ipa"},
          skip : SUBSET Gates]

(* The glue state without any ring. *)
NoRings(skip) == [ring |-> {}, on |-> {}, ev |-> {}, evOn |-> {},
                  rss |-> "default", skip |-> skip]

NullRing(d, c) == c \notin d.ring

RequestChannel(d, c) ==
    IF "skip_request_channel" \in d.skip
    THEN d
    ELSE [d EXCEPT !.ring = @ \cup {c}]

ReleaseChannel(d, c) == [d EXCEPT !.ring = @ \ {c}]

EnableChannelFails(d, c) ==
    "skip_enable_channel" \notin d.skip /\ NullRing(d, c)

(* rtl8125_enable_ring also waits for NAPI, resets and restarts the chip   *)
(* and makes the net device's own rings anew: R8125Net, R8125Tx and        *)
(* R8125Rx have that as LibEnable, IossNet the wait as StartWaits.         *)
EnableChannel(d, c) ==
    IF "skip_enable_channel" \in d.skip
    THEN d
    ELSE [d EXCEPT !.on = @ \cup {c}]

(* rtl8125_disable_ring also resets the whole chip, which serves the net   *)
(* device too: LibDisable of R8125Net, R8125Tx and R8125Rx.                *)
DisableChannel(d, c) ==
    IF NullRing(d, c) THEN d ELSE [d EXCEPT !.on = @ \ {c}]

RequestEventFails(d, c) ==
    "skip_request_event" \notin d.skip /\ (NullRing(d, c) \/ c \in d.ev)

RequestEvent(d, c) ==
    IF "skip_request_event" \in d.skip
    THEN d
    ELSE [d EXCEPT !.ev = @ \cup {c}]

ReleaseEvent(d, c) == [d EXCEPT !.ev = @ \ {c}]

EnableEventFails(d, c) ==
    "skip_enable_event" \notin d.skip /\ c \notin d.ev

(* Enabling the event of an RX channel also installs its IP filter: the    *)
(* whole RSS table is pointed at the offload ring.                         *)
EnableEvent(d, c) ==
    IF "skip_enable_event" \in d.skip
    THEN d
    ELSE [d EXCEPT !.evOn = @ \cup {c},
                   !.rss  = IF c \in RxChannels THEN "ipa" ELSE @]

DisableEventFails(d, c) == c \notin d.ev

(* The filter is removed first, and stays removed when the rest fails. *)
DisableEvent(d, c) ==
    [d EXCEPT !.rss  = IF c \in RxChannels THEN "default" ELSE @,
              !.evOn = IF DisableEventFails(d, c) THEN @ ELSE @ \ {c}]
============================================================================

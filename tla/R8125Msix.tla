----------------------------- MODULE R8125Msix -----------------------------
(***************************************************************************)
(* The MSI-X table entry of one offload ring, as rtl8125_request_event and *)
(* rtl8125_release_event of r8125_lib.c save, program and restore it. An   *)
(* entry is four 32-bit words: the address (low, high), the message data   *)
(* and the vector control word. A word is one of the few values Words.     *)
(***************************************************************************)
EXTENDS Naturals

CONSTANT Words  \* a few numbers, 0 among them

VARIABLES entry,      \* the table entry, as the device sees it
          saved,      \* ring->event.addr and ring->event.data, as dwords
          allocated,  \* ring->event.allocated
          original    \* the entry when the event was last requested

vars == <<entry, saved, allocated, original>>

Entry == [addrLo : Words, addrHi : Words, data : Words, ctrl : Words]
Saved == [addrLo : Words, addrHi : Words, dataLo : Words, dataHi : Words]

(* The table holds what the kernel's MSI-X set-up left; the ring is zeroed *)
(* with the driver's private data.                                         *)
Init == /\ entry \in Entry
        /\ original = entry
        /\ saved = [addrLo |-> 0, addrHi |-> 0, dataLo |-> 0, dataHi |-> 0]
        /\ allocated = FALSE

(* What request_event reads back. Both halves of the data come from the    *)
(* word at offset 8.                                                       *)
SavedFrom(e) == [addrLo |-> e.addrLo, addrHi |-> e.addrHi,
                 dataLo |-> e.data, dataHi |-> e.data]

(* rtl8125_request_event(ring, MSIX_event_type, addr, data). *)
RequestEvent(addrLo, addrHi, dataLo, dataHi) ==
    /\ ~allocated
    /\ saved' = SavedFrom(entry)
    /\ entry' = [addrLo |-> addrLo, addrHi |-> addrHi,
                 data |-> dataLo, ctrl |-> dataHi]
    /\ allocated' = TRUE
    /\ original' = entry

(* rtl8125_release_event. *)
ReleaseEvent ==
    /\ allocated
    /\ entry' = [addrLo |-> saved.addrLo, addrHi |-> saved.addrHi,
                 data |-> saved.dataLo, ctrl |-> saved.dataHi]
    /\ allocated' = FALSE
    /\ UNCHANGED <<saved, original>>

Next == \/ \E a, b, c, d \in Words : RequestEvent(a, b, c, d)
        \/ ReleaseEvent

Spec == Init /\ [][Next]_vars

(* rtl8125_release_event says of itself "Reverse request_event()": a       *)
(* released entry is the entry before rtl8125_request_event, vector        *)
(* control word included.                                                  *)
ReleaseReversesRequest == ~allocated => entry = original
============================================================================

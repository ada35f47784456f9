---------------------------- MODULE OffloadPath ----------------------------
(***************************************************************************)
(* What the offload path of an interface promises, whatever its parts do:  *)
(* it is a stack of layers,                                                *)
(*     rings, IPA pipes, doorbells, packet flows, the power vote,          *)
(* of which three have a part per channel. A layer is begun only on a      *)
(* complete one below, and taken down only when the one above is gone. The *)
(* path is reported ONLINE only while it is complete. An attempt that      *)
(* turns back goes all the way down and is reported as an ERROR. A path    *)
(* under way is never left half built.                                     *)
(***************************************************************************)
CONSTANT Channels

VARIABLES rings, pipes, doorbells, flows, vote,
          report,   \* OFFLINE, ONLINE or ERROR
          way       \* up, back after a failure, down, or none

layers == <<rings, pipes, doorbells, flows, vote>>
vars   == <<layers, report, way>>

Init ==
    /\ rings = {} /\ pipes = "none" /\ doorbells = {} /\ flows = {}
    /\ vote = "none"
    /\ report = "OFFLINE" /\ way = "none"

GoingDown == way \in {"back", "down"}

----------------------------------------------------------------------------
Begin ==
    /\ way = "none" /\ report = "OFFLINE"
    /\ way' = "up"
    /\ UNCHANGED <<layers, report>>

AddRing(c) ==
    /\ way = "up" /\ pipes = "none"
    /\ c \notin rings /\ rings' = rings \cup {c}
    /\ UNCHANGED <<pipes, doorbells, flows, vote, report, way>>

Connect ==
    /\ way = "up" /\ rings = Channels
    /\ pipes = "none" /\ pipes' = "connected"
    /\ UNCHANGED <<rings, doorbells, flows, vote, report, way>>

AddDoorbell(c) ==
    /\ way = "up" /\ pipes = "connected" /\ flows = {}
    /\ c \notin doorbells /\ doorbells' = doorbells \cup {c}
    /\ UNCHANGED <<rings, pipes, flows, vote, report, way>>

StartFlow(c) ==
    /\ way = "up" /\ doorbells = Channels
    /\ c \notin flows /\ flows' = flows \cup {c}
    /\ UNCHANGED <<rings, pipes, doorbells, vote, report, way>>

Complete ==
    /\ way = "up" /\ flows = Channels
    /\ vote' = "held" /\ report' = "ONLINE" /\ way' = "none"
    /\ UNCHANGED <<rings, pipes, doorbells, flows>>

TurnBack ==
    /\ way = "up"
    /\ way' = "back"
    /\ UNCHANGED <<layers, report>>

----------------------------------------------------------------------------
Withdraw ==
    /\ way = "none" /\ report = "ONLINE"
    /\ report' = "OFFLINE" /\ way' = "down"
    /\ UNCHANGED layers

GiveVote ==
    /\ GoingDown
    /\ vote = "held" /\ vote' = "none"
    /\ UNCHANGED <<rings, pipes, doorbells, flows, report, way>>

StopFlow(c) ==
    /\ GoingDown /\ vote = "none"
    /\ c \in flows /\ flows' = flows \ {c}
    /\ UNCHANGED <<rings, pipes, doorbells, vote, report, way>>

RemoveDoorbell(c) ==
    /\ GoingDown /\ flows = {}
    /\ c \in doorbells /\ doorbells' = doorbells \ {c}
    /\ UNCHANGED <<rings, pipes, flows, vote, report, way>>

Disconnect ==
    /\ GoingDown /\ doorbells = {}
    /\ pipes = "connected" /\ pipes' = "none"
    /\ UNCHANGED <<rings, doorbells, flows, vote, report, way>>

DropRing(c) ==
    /\ GoingDown /\ pipes = "none"
    /\ c \in rings /\ rings' = rings \ {c}
    /\ UNCHANGED <<pipes, doorbells, flows, vote, report, way>>

(* The last ring goes, or there was none: the way down ends. *)
Finish ==
    /\ GoingDown /\ pipes = "none"
    /\ \E c \in Channels : rings \subseteq {c}
    /\ rings' = {} /\ way' = "none"
    /\ report' = IF way = "back" THEN "ERROR" ELSE report
    /\ UNCHANGED <<pipes, doorbells, flows, vote>>

(* A new device in the place of the old one. *)
Renew ==
    /\ way = "none" /\ rings = {}
    /\ report' = "OFFLINE"
    /\ UNCHANGED <<layers, way>>

----------------------------------------------------------------------------
Progress ==
    \/ Connect \/ Complete \/ TurnBack \/ GiveVote \/ Disconnect \/ Finish
    \/ \E c \in Channels :
          \/ AddRing(c) \/ AddDoorbell(c) \/ StartFlow(c)
          \/ StopFlow(c) \/ RemoveDoorbell(c) \/ DropRing(c)

Next == Begin \/ Withdraw \/ Renew \/ Progress

Safe == Init /\ [][Next]_vars

(* The path does not stay under way. *)
Live == WF_vars(Progress)

Spec == Safe /\ Live
============================================================================

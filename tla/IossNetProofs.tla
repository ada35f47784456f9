--------------------------- MODULE IossNetProofs ---------------------------
(***************************************************************************)
(* Proofs about IossNet, for every number of channels, every set of RX     *)
(* channels and whatever fails: the types, and the properties of the run   *)
(* offload_faults.                                                         *)
(***************************************************************************)
EXTENDS IossNet, TLAPS

----------------------------------------------------------------------------
(* Type correctness. *)

(* The glue driver's operations take a state of the rings to a state of    *)
(* the rings (r8125_ioss.c keeps its sets within the channels).            *)
LEMMA GlueTypes ==
    ASSUME NEW d \in Rings, NEW c \in Channels
    PROVE  /\ RequestChannel(d, c) \in Rings
           /\ ReleaseChannel(d, c) \in Rings
           /\ EnableChannel(d, c) \in Rings
           /\ DisableChannel(d, c) \in Rings
           /\ RequestEvent(d, c) \in Rings
           /\ ReleaseEvent(d, c) \in Rings
           /\ EnableEvent(d, c) \in Rings
           /\ DisableEvent(d, c) \in Rings
<1>1. /\ RequestChannel(d, c) \in Rings
      /\ ReleaseChannel(d, c) \in Rings
  BY DEF RequestChannel, ReleaseChannel, Rings
<1>2. /\ EnableChannel(d, c) \in Rings
      /\ DisableChannel(d, c) \in Rings
  BY DEF EnableChannel, DisableChannel, Rings
<1>3. /\ RequestEvent(d, c) \in Rings
      /\ ReleaseEvent(d, c) \in Rings
  BY DEF RequestEvent, ReleaseEvent, Rings
<1>4. /\ EnableEvent(d, c) \in Rings
      /\ DisableEvent(d, c) \in Rings
  BY DEF EnableEvent, DisableEvent, Rings
<1> QED
  BY <1>1, <1>2, <1>3, <1>4

(* Where the work item uses its channel, the channel exists: the part of   *)
(* the inductive invariant that TypeOK does not say.                       *)
StageIndex == pc \in BringUp \cup TearDown => i \in Channels

TypeInv == TypeOK /\ StageIndex

(* A step of the work item keeps the types (ioss_refresh_work).            *)
LEMMA WorkTypes ==
    ASSUME TypeInv, Work
    PROVE  TypeInv'
<1> USE DEF TypeInv, TypeOK
<1>1. CASE RefreshStart
  <2>1. OffloadOK' /\ NetOK' /\ ControlOK'
    BY <1>1 DEF RefreshStart, OffloadOK, NetOK, ControlOK, offloadVars,
       netVars, ctlVars
  <2>2. WorkOK' /\ StageIndex'
    BY <1>1, GlueAssumption DEF RefreshStart, At, WorkOK, StageIndex,
       WorkSteps, BringUp, Revert, TearDown, Channels
  <2>3. QueueOK'
    BY <1>1 DEF RefreshStart, QueueOK, queueVars
  <2> QED
    BY <2>1, <2>2, <2>3
<1>2. CASE FetchLinkSpeed
  <2>1. OffloadOK' /\ QueueOK' /\ NetOK' /\ ControlOK'
    BY <1>2 DEF FetchLinkSpeed, OffloadOK, QueueOK, NetOK, ControlOK,
       offloadVars, queueVars, netVars, ctlVars
  <2>2. WorkOK' /\ StageIndex'
    BY <1>2, GlueAssumption DEF FetchLinkSpeed, At, WorkOK, StageIndex,
       WorkSteps, BringUp, Revert, TearDown, Channels
  <2> QED
    BY <2>1, <2>2
<1>3. CASE EnterSetOnline
  <2>1. OffloadOK' /\ NetOK' /\ ControlOK'
    BY <1>3 DEF EnterSetOnline, OffloadOK, NetOK, ControlOK, offloadVars,
       netVars, ctlVars
  <2>2. WorkOK' /\ StageIndex'
    BY <1>3, GlueAssumption DEF EnterSetOnline, At, WorkOK, StageIndex,
       WorkSteps, BringUp, Revert, TearDown, Channels, GoTo, Finish
  <2>3. QueueOK'
    BY <1>3 DEF EnterSetOnline, Finish, QueueOK, queueVars
  <2> QED
    BY <2>1, <2>2, <2>3
<1>4. CASE EnterSetOffline
  <2>1. NetOK' /\ ControlOK'
    BY <1>4 DEF EnterSetOffline, NetOK, ControlOK, netVars, ctlVars
  <2>2. OffloadOK'
    BY <1>4 DEF EnterSetOffline, States, OffloadOK
  <2>3. WorkOK' /\ StageIndex'
    BY <1>4, GlueAssumption DEF EnterSetOffline, At, WorkOK, StageIndex,
       WorkSteps, BringUp, Revert, TearDown, Channels, GoTo, Finish
  <2>4. QueueOK'
    BY <1>4 DEF EnterSetOffline, Finish, QueueOK, queueVars
  <2> QED
    BY <2>1, <2>2, <2>3, <2>4
<1>5. CASE AllocChannel
  <2>1. QueueOK'
    BY <1>5 DEF AllocChannel, QueueOK, queueVars
  <2>2. i \in Channels
    BY <1>5, GlueAssumption DEF AllocChannel, At, StageIndex, BringUp
  <2>3. drv' \in Rings
    BY <1>5, <2>2, GlueTypes DEF AllocChannel, OffloadOK
  <2>4. fl' \in Flags
    BY <1>5, <2>2 DEF AllocChannel, OffloadOK, Flags
  <2>5. state' \in States /\ held' \subseteq {"ipa", "pc"}
    BY <1>5 DEF AllocChannel, OffloadOK, States
  <2>6. WorkOK' /\ StageIndex'
    BY <1>5, GlueAssumption DEF AllocChannel, At, WorkOK, StageIndex,
       WorkSteps, BringUp, Revert, TearDown, Channels, NextChannel,
       RevertFrom
  <2>7. NetOK'
    BY <1>5 DEF AllocChannel, RestartIfLast, CarrierLost, NetOK, netVars,
       ctlVars
  <2>8. ControlOK'
    BY <1>5 DEF AllocChannel, Oops, ControlOK, netVars, ctlVars
  <2> QED
    BY <2>1, <2>2, <2>3, <2>4, <2>5, <2>6, <2>7, <2>8 DEF OffloadOK
<1>6. CASE AllocRevert
  <2>1. i > 0 => i \in Channels
    BY <1>6, GlueAssumption DEF AllocRevert, WorkOK, Channels
  <2>2. drv' \in Rings
    BY <1>6, <2>1, GlueTypes DEF AllocRevert, OffloadOK, FreeChannel
  <2>3. fl' \in Flags
    BY <1>6, <2>1 DEF AllocRevert, OffloadOK, Flags, FreeChannel
  <2>4. state' \in States /\ held' \subseteq {"ipa", "pc"}
    BY <1>6 DEF AllocRevert, OffloadOK, States
  <2>5. WorkOK' /\ StageIndex'
    BY <1>6, GlueAssumption DEF AllocRevert, At, WorkOK, StageIndex,
       WorkSteps, BringUp, Revert, TearDown, Channels, RevertFrom, Finish
  <2>6. QueueOK'
    BY <1>6 DEF AllocRevert, Finish, QueueOK, queueVars
  <2>7. NetOK'
    BY <1>6 DEF AllocRevert, FreeChannel, RestartIfLast, CarrierLost, NetOK,
       netVars, ctlVars
  <2>8. ControlOK'
    BY <1>6 DEF AllocRevert, FreeChannel, Oops, ControlOK, netVars, ctlVars
  <2> QED
    BY <2>1, <2>2, <2>3, <2>4, <2>5, <2>6, <2>7, <2>8 DEF OffloadOK
<1>7. CASE IpaRegister
  <2>1. QueueOK' /\ NetOK' /\ ControlOK'
    BY <1>7 DEF IpaRegister, QueueOK, NetOK, ControlOK, queueVars, netVars,
       ctlVars
  <2>2. OffloadOK'
    BY <1>7 DEF IpaRegister, OffloadOK
  <2>3. err' \subseteq {"rc", "unwinding"}
    BY <1>7 DEF IpaRegister, WorkOK
  <2>4. (pc \in WorkSteps /\ i \in 0..N)' /\ StageIndex'
    BY <1>7, GlueAssumption DEF IpaRegister, At, WorkOK, StageIndex,
       WorkSteps, BringUp, Revert, TearDown, Channels, GoTo
  <2> QED
    BY <2>1, <2>2, <2>3, <2>4 DEF WorkOK
<1>8. CASE SetupEvent
  <2>1. QueueOK' /\ NetOK'
    BY <1>8 DEF SetupEvent, QueueOK, NetOK, queueVars, netVars
  <2>2. i \in Channels
    BY <1>8, GlueAssumption DEF SetupEvent, At, StageIndex, BringUp
  <2>3. drv' \in Rings
    BY <1>8, <2>2, GlueTypes DEF SetupEvent, OffloadOK
  <2>4. fl' \in Flags
    BY <1>8, <2>2 DEF SetupEvent, OffloadOK, Flags
  <2>5. state' \in States /\ held' \subseteq {"ipa", "pc"}
    BY <1>8 DEF SetupEvent, OffloadOK, States
  <2>6. WorkOK' /\ StageIndex'
    BY <1>8, GlueAssumption DEF SetupEvent, At, WorkOK, StageIndex,
       WorkSteps, BringUp, Revert, TearDown, Channels, NextChannel,
       RevertFrom
  <2>7. ControlOK'
    BY <1>8 DEF SetupEvent, Oops, ControlOK, netVars, ctlVars
  <2> QED
    BY <2>1, <2>2, <2>3, <2>4, <2>5, <2>6, <2>7 DEF OffloadOK
<1>9. CASE SetupRevert
  <2>1. QueueOK' /\ NetOK'
    BY <1>9 DEF SetupRevert, QueueOK, NetOK, queueVars, netVars
  <2>2. i > 0 => i \in Channels
    BY <1>9, GlueAssumption DEF SetupRevert, WorkOK, Channels
  <2>3. drv' \in Rings
    BY <1>9, <2>2, GlueTypes DEF SetupRevert, OffloadOK, TeardownEvent
  <2>4. fl' \in Flags
    BY <1>9, <2>2 DEF SetupRevert, OffloadOK, Flags, TeardownEvent
  <2>5. state' \in States /\ held' \subseteq {"ipa", "pc"}
    BY <1>9 DEF SetupRevert, OffloadOK, States
  <2>6. err' \subseteq {"rc", "unwinding"}
    BY <1>9 DEF SetupRevert, WorkOK
  <2>7. (pc \in WorkSteps /\ i \in 0..N)' /\ StageIndex'
    BY <1>9, GlueAssumption DEF SetupRevert, At, WorkOK, StageIndex,
       WorkSteps, BringUp, Revert, TearDown, Channels, RevertFrom, GoTo
  <2>8. ControlOK'
    BY <1>9 DEF SetupRevert, TeardownEvent, Oops, ControlOK, netVars,
       ctlVars
  <2> QED
    BY <2>1, <2>2, <2>3, <2>4, <2>5, <2>6, <2>7, <2>8 DEF OffloadOK, WorkOK
<1>10. CASE StartChannel
  <2>1. QueueOK'
    BY <1>10 DEF StartChannel, QueueOK, queueVars
  <2>2. i \in Channels
    BY <1>10, GlueAssumption DEF StartChannel, At, StageIndex, BringUp
  <2>3. drv' \in Rings
    BY <1>10, <2>2, GlueTypes DEF StartChannel, OffloadOK
  <2>4. fl' \in Flags
    BY <1>10, <2>2 DEF StartChannel, OffloadOK, Flags
  <2>5. state' \in States /\ held' \subseteq {"ipa", "pc"}
    BY <1>10 DEF StartChannel, OffloadOK, States
  <2>6. WorkOK' /\ StageIndex'
    BY <1>10, GlueAssumption DEF StartChannel, At, WorkOK, StageIndex,
       WorkSteps, BringUp, Revert, TearDown, Channels, NextChannel,
       RevertFrom
  <2>7. NetOK'
    BY <1>10 DEF StartChannel, RestartIfLast, CarrierLost, NetOK, netVars,
       ctlVars
  <2>8. ControlOK'
    BY <1>10 DEF StartChannel, Oops, ControlOK, netVars, ctlVars
  <2> QED
    BY <2>1, <2>2, <2>3, <2>4, <2>5, <2>6, <2>7, <2>8 DEF OffloadOK
<1>11. CASE EnableRevert
  <2>1. QueueOK' /\ NetOK' /\ ControlOK'
    BY <1>11 DEF EnableRevert, QueueOK, NetOK, ControlOK, queueVars,
       netVars, ctlVars
  <2>2. i > 0 => i \in Channels
    BY <1>11, GlueAssumption DEF EnableRevert, WorkOK, Channels
  <2>3. drv' \in Rings
    BY <1>11, <2>2, GlueTypes DEF EnableRevert, OffloadOK, StopChannel
  <2>4. fl' \in Flags
    BY <1>11, <2>2 DEF EnableRevert, OffloadOK, Flags, StopChannel
  <2>5. state' \in States /\ held' \subseteq {"ipa", "pc"}
    BY <1>11 DEF EnableRevert, OffloadOK, States
  <2>6. err' \subseteq {"rc", "unwinding"}
    BY <1>11 DEF EnableRevert, WorkOK
  <2>7. (pc \in WorkSteps /\ i \in 0..N)' /\ StageIndex'
    BY <1>11, GlueAssumption DEF EnableRevert, At, WorkOK, StageIndex,
       WorkSteps, BringUp, Revert, TearDown, Channels, RevertFrom, GoTo
  <2> QED
    BY <2>1, <2>2, <2>3, <2>4, <2>5, <2>6, <2>7 DEF OffloadOK, WorkOK
<1>12. CASE DisablePc
  <2>1. NetOK' /\ ControlOK'
    BY <1>12 DEF DisablePc, NetOK, ControlOK, netVars, ctlVars
  <2>2. OffloadOK'
    BY <1>12 DEF DisablePc, States, OffloadOK
  <2>3. err' \subseteq {"rc", "unwinding"}
    BY <1>12 DEF DisablePc, WorkOK
  <2>4. (pc \in WorkSteps /\ i \in 0..N)' /\ StageIndex'
    BY <1>12, GlueAssumption DEF DisablePc, At, WorkOK, StageIndex,
       WorkSteps, BringUp, Revert, TearDown, Channels, GoTo, Finish
  <2>5. QueueOK'
    BY <1>12 DEF DisablePc, Finish, QueueOK, queueVars
  <2> QED
    BY <2>1, <2>2, <2>3, <2>4, <2>5 DEF WorkOK
<1>13. CASE EnablePc
  <2>1. QueueOK' /\ NetOK' /\ ControlOK'
    BY <1>13 DEF EnablePc, QueueOK, NetOK, ControlOK, queueVars, netVars,
       ctlVars
  <2>2. OffloadOK'
    BY <1>13 DEF EnablePc, States, StageFailed, OffloadOK
  <2>3. WorkOK' /\ StageIndex'
    BY <1>13, GlueAssumption DEF EnablePc, At, WorkOK, StageIndex,
       WorkSteps, BringUp, Revert, TearDown, Channels, GoTo
  <2> QED
    BY <2>1, <2>2, <2>3
<1>14. CASE DisableChannels
  <2>1. QueueOK' /\ NetOK' /\ ControlOK'
    BY <1>14 DEF DisableChannels, QueueOK, NetOK, ControlOK, queueVars,
       netVars, ctlVars
  <2>2. i \in Channels
    BY <1>14, GlueAssumption DEF DisableChannels, At, StageIndex, TearDown
  <2>3. drv' \in Rings
    BY <1>14, <2>2, GlueTypes DEF DisableChannels, OffloadOK, StopChannel
  <2>4. fl' \in Flags
    BY <1>14, <2>2 DEF DisableChannels, OffloadOK, Flags, StopChannel
  <2>5. state' \in States /\ held' \subseteq {"ipa", "pc"}
    BY <1>14 DEF DisableChannels, OffloadOK, States
  <2>6. WorkOK' /\ StageIndex'
    BY <1>14, GlueAssumption DEF DisableChannels, At, WorkOK, StageIndex,
       WorkSteps, BringUp, Revert, TearDown, Channels, NextChannel
  <2> QED
    BY <2>1, <2>2, <2>3, <2>4, <2>5, <2>6 DEF OffloadOK
<1>15. CASE TeardownEvents
  <2>1. QueueOK' /\ NetOK'
    BY <1>15 DEF TeardownEvents, QueueOK, NetOK, queueVars, netVars
  <2>2. i \in Channels
    BY <1>15, GlueAssumption DEF TeardownEvents, At, StageIndex, TearDown
  <2>3. drv' \in Rings
    BY <1>15, <2>2, GlueTypes DEF TeardownEvents, OffloadOK, TeardownEvent
  <2>4. fl' \in Flags
    BY <1>15, <2>2 DEF TeardownEvents, OffloadOK, Flags, TeardownEvent
  <2>5. state' \in States /\ held' \subseteq {"ipa", "pc"}
    BY <1>15 DEF TeardownEvents, OffloadOK, States, StageFailed
  <2>6. err' \subseteq {"rc", "unwinding"}
    BY <1>15 DEF TeardownEvents, WorkOK
  <2>7. (pc \in WorkSteps /\ i \in 0..N)' /\ StageIndex'
    BY <1>15, GlueAssumption DEF TeardownEvents, At, WorkOK, StageIndex,
       WorkSteps, BringUp, Revert, TearDown, Channels, NextChannel
  <2>8. ControlOK'
    BY <1>15 DEF TeardownEvents, TeardownEvent, Oops, ControlOK, netVars,
       ctlVars
  <2> QED
    BY <2>1, <2>2, <2>3, <2>4, <2>5, <2>6, <2>7, <2>8 DEF OffloadOK, WorkOK
<1>16. CASE IpaUnregister
  <2>1. QueueOK' /\ NetOK' /\ ControlOK'
    BY <1>16 DEF IpaUnregister, QueueOK, NetOK, ControlOK, queueVars,
       netVars, ctlVars
  <2>2. OffloadOK'
    BY <1>16 DEF IpaUnregister, States, StageFailed, OffloadOK
  <2>3. WorkOK' /\ StageIndex'
    BY <1>16, GlueAssumption DEF IpaUnregister, At, WorkOK, StageIndex,
       WorkSteps, BringUp, Revert, TearDown, Channels, GoTo
  <2> QED
    BY <2>1, <2>2, <2>3
<1>17. CASE FreeChannels
  <2>1. i \in Channels
    BY <1>17, GlueAssumption DEF FreeChannels, At, StageIndex, TearDown
  <2>2. drv' \in Rings
    BY <1>17, <2>1, GlueTypes DEF FreeChannels, OffloadOK, FreeChannel
  <2>3. fl' \in Flags
    BY <1>17, <2>1 DEF FreeChannels, OffloadOK, Flags, FreeChannel
  <2>4. state' \in States /\ held' \subseteq {"ipa", "pc"}
    BY <1>17 DEF FreeChannels, OffloadOK, States
  <2>5. WorkOK' /\ StageIndex'
    BY <1>17, GlueAssumption DEF FreeChannels, At, WorkOK, StageIndex,
       WorkSteps, BringUp, Revert, TearDown, Channels, Finish
  <2>6. QueueOK'
    BY <1>17 DEF FreeChannels, Finish, QueueOK, queueVars
  <2>7. NetOK'
    BY <1>17 DEF FreeChannels, FreeChannel, RestartIfLast, CarrierLost,
       NetOK, netVars, ctlVars
  <2>8. ControlOK'
    BY <1>17 DEF FreeChannels, FreeChannel, Oops, ControlOK, netVars,
       ctlVars
  <2> QED
    BY <2>1, <2>2, <2>3, <2>4, <2>5, <2>6, <2>7, <2>8 DEF OffloadOK
<1> QED
  BY <1>1, <1>2, <1>3, <1>4, <1>5, <1>6, <1>7, <1>8, <1>9, <1>10, <1>11,
     <1>12, <1>13, <1>14, <1>15, <1>16, <1>17 DEF Work

(* A step of the net device core and its notifications keeps the types.    *)
LEMMA NetTypes ==
    ASSUME TypeInv, NetEvents \/ NetWork \/ LinkWatch
    PROVE  TypeInv'
<1> USE DEF TypeInv, TypeOK
<1>1. CASE DevClosing
  <2>1. OffloadOK' /\ WorkOK' /\ ControlOK' /\ StageIndex'
    BY <1>1 DEF DevClosing, OffloadOK, WorkOK, ControlOK, offloadVars,
       workVars, ctlVars, StageIndex
  <2>2. QueueOK'
    BY <1>1 DEF DevClosing, Notify, QueueOK, queueVars
  <2>3. NetOK'
    BY <1>1 DEF DevClosing, NetOK, netVars, ctlVars
  <2> QED
    BY <2>1, <2>2, <2>3
<1>2. CASE DevClosed
  <2>1. OffloadOK' /\ WorkOK' /\ QueueOK' /\ ControlOK' /\ StageIndex'
    BY <1>2 DEF DevClosed, OffloadOK, WorkOK, QueueOK, ControlOK,
       offloadVars, workVars, queueVars, ctlVars, StageIndex
  <2>2. NetOK'
    BY <1>2 DEF DevClosed, CarrierLost, NetOK, netVars, ctlVars
  <2> QED
    BY <2>1, <2>2
<1>3. CASE DevOpening
  <2>1. OffloadOK' /\ WorkOK' /\ QueueOK' /\ ControlOK' /\ StageIndex'
    BY <1>3 DEF DevOpening, OffloadOK, WorkOK, QueueOK, ControlOK,
       offloadVars, workVars, queueVars, ctlVars, StageIndex
  <2>2. NetOK'
    BY <1>3 DEF DevOpening, NetOK, netVars, ctlVars
  <2> QED
    BY <2>1, <2>2
<1>4. CASE DevOpened
  <2>1. OffloadOK' /\ WorkOK' /\ ControlOK' /\ StageIndex'
    BY <1>4 DEF DevOpened, OffloadOK, WorkOK, ControlOK, offloadVars,
       workVars, ctlVars, StageIndex
  <2>2. QueueOK'
    BY <1>4 DEF DevOpened, Notify, QueueOK, queueVars
  <2>3. NetOK'
    BY <1>4 DEF DevOpened, NetOK, netVars, ctlVars
  <2> QED
    BY <2>1, <2>2, <2>3
<1>5. CASE CarrierChange
  <2>1. OffloadOK' /\ WorkOK' /\ QueueOK' /\ ControlOK' /\ StageIndex'
    BY <1>5 DEF CarrierChange, OffloadOK, WorkOK, QueueOK, ControlOK,
       offloadVars, workVars, queueVars, ctlVars, StageIndex
  <2>2. NetOK'
    BY <1>5 DEF CarrierChange, CarrierLost, NetOK, netVars, ctlVars
  <2> QED
    BY <2>1, <2>2
<1>6. CASE LinkWatch
  <2>1. OffloadOK' /\ WorkOK' /\ ControlOK' /\ StageIndex'
    BY <1>6 DEF LinkWatch, OffloadOK, WorkOK, ControlOK, offloadVars,
       workVars, ctlVars, StageIndex
  <2>2. QueueOK'
    BY <1>6 DEF LinkWatch, Notify, QueueOK, queueVars
  <2>3. NetOK'
    BY <1>6 DEF LinkWatch, NetOK, netVars, ctlVars
  <2> QED
    BY <2>1, <2>2, <2>3
<1>7. CASE MoveBegin
  <2>1. OffloadOK' /\ WorkOK' /\ ControlOK' /\ StageIndex'
    BY <1>7 DEF MoveBegin, OffloadOK, WorkOK, ControlOK, offloadVars,
       workVars, ctlVars, StageIndex
  <2>2. QueueOK'
    BY <1>7 DEF MoveBegin, Notify, QueueOK, queueVars
  <2>3. NetOK'
    BY <1>7 DEF MoveBegin, CarrierLost, NetOK, netVars, ctlVars
  <2> QED
    BY <2>1, <2>2, <2>3
<1>8. CASE MoveUnregister
  <2>1. OffloadOK' /\ WorkOK' /\ StageIndex'
    BY <1>8 DEF MoveUnregister, OffloadOK, WorkOK, offloadVars, workVars,
       StageIndex
  <2>2. QueueOK'
    BY <1>8 DEF MoveUnregister, EventUnregister, QueueOK, queueVars
  <2>3. NetOK'
    BY <1>8 DEF MoveUnregister, EventUnregister, NetOK, netVars, ctlVars
  <2>4. ControlOK'
    BY <1>8 DEF MoveUnregister, EventUnregister, Oops, ControlOK, netVars,
       ctlVars
  <2> QED
    BY <2>1, <2>2, <2>3, <2>4
<1>9. CASE MoveRegister
  <2>1. WorkOK' /\ ControlOK' /\ StageIndex'
    BY <1>9 DEF MoveRegister, WorkOK, ControlOK, workVars, ctlVars,
       StageIndex
  <2>2. OffloadOK'
    BY <1>9 DEF MoveRegister, EventRegister, States, OffloadOK
  <2>3. QueueOK'
    BY <1>9 DEF MoveRegister, EventRegister, QueueOK, queueVars
  <2>4. NetOK'
    BY <1>9 DEF MoveRegister, EventRegister, NetOK, netVars, ctlVars
  <2> QED
    BY <2>1, <2>2, <2>3, <2>4
<1> QED
  BY <1>1, <1>2, <1>3, <1>4, <1>5, <1>6, <1>7, <1>8, <1>9 DEF NetEvents,
     NetWork

(* A step of probe or remove keeps the types.                              *)
LEMMA BindTypes ==
    ASSUME TypeInv, BindStart \/ BindWork
    PROVE  TypeInv'
<1> USE DEF TypeInv, TypeOK
<1>1. CASE AddDevice
  <2>1. WorkOK' /\ QueueOK' /\ NetOK' /\ StageIndex'
    BY <1>1 DEF AddDevice, WorkOK, QueueOK, NetOK, workVars, queueVars,
       netVars, StageIndex
  <2>2. OffloadOK'
    BY <1>1 DEF AddDevice, States, NoRings, NoFlags, Rings, Flags, OffloadOK
  <2>3. ControlOK'
    BY <1>1 DEF AddDevice, BindSteps, ControlOK, netVars, ctlVars
  <2> QED
    BY <2>1, <2>2, <2>3
<1>2. CASE RemoveDevice
  <2>1. OffloadOK' /\ WorkOK' /\ QueueOK' /\ StageIndex'
    BY <1>2 DEF RemoveDevice, OffloadOK, WorkOK, QueueOK, offloadVars,
       workVars, queueVars, StageIndex
  <2>2. NetOK'
    BY <1>2 DEF RemoveDevice, NetOK, netVars, ctlVars
  <2>3. ControlOK'
    BY <1>2 DEF RemoveDevice, BindSteps, ControlOK, netVars, ctlVars
  <2> QED
    BY <2>1, <2>2, <2>3
<1>3. CASE Watch
  <2>1. WorkOK' /\ StageIndex'
    BY <1>3 DEF Watch, WorkOK, workVars, StageIndex
  <2>2. OffloadOK'
    BY <1>3 DEF Watch, EventRegister, States, OffloadOK
  <2>3. QueueOK'
    BY <1>3 DEF Watch, EventRegister, QueueOK, queueVars
  <2>4. NetOK'
    BY <1>3 DEF Watch, EventRegister, NetOK, netVars, ctlVars
  <2>5. ControlOK'
    BY <1>3 DEF Watch, BindSteps, ControlOK, netVars, ctlVars
  <2> QED
    BY <2>1, <2>2, <2>3, <2>4, <2>5
<1>4. CASE UnwatchBegin
  <2>1. OffloadOK' /\ WorkOK' /\ QueueOK' /\ NetOK' /\ StageIndex'
    BY <1>4 DEF UnwatchBegin, OffloadOK, WorkOK, QueueOK, NetOK,
       offloadVars, workVars, queueVars, netVars, StageIndex
  <2>2. ControlOK'
    BY <1>4 DEF UnwatchBegin, BindSteps, ControlOK, netVars, ctlVars
  <2> QED
    BY <2>1, <2>2
<1>5. CASE UnwatchQueue
  <2>1. OffloadOK' /\ WorkOK' /\ NetOK' /\ StageIndex'
    BY <1>5 DEF UnwatchQueue, OffloadOK, WorkOK, NetOK, offloadVars,
       workVars, netVars, StageIndex
  <2>2. QueueOK'
    BY <1>5 DEF UnwatchQueue, QueueOK, queueVars
  <2>3. ControlOK'
    BY <1>5 DEF UnwatchQueue, BindSteps, ControlOK, netVars, ctlVars
  <2> QED
    BY <2>1, <2>2, <2>3
<1>6. CASE UnwatchGoingDown
  <2>1. OffloadOK' /\ WorkOK' /\ StageIndex'
    BY <1>6 DEF UnwatchGoingDown, OffloadOK, WorkOK, offloadVars, workVars,
       StageIndex
  <2>2. QueueOK'
    BY <1>6 DEF UnwatchGoingDown, Notify, QueueOK, queueVars
  <2>3. NetOK'
    BY <1>6 DEF UnwatchGoingDown, NetOK, netVars, ctlVars
  <2>4. ControlOK'
    BY <1>6 DEF UnwatchGoingDown, BindSteps, ControlOK, netVars, ctlVars
  <2> QED
    BY <2>1, <2>2, <2>3, <2>4
<1>7. CASE UnwatchUnregister
  <2>1. OffloadOK' /\ WorkOK' /\ StageIndex'
    BY <1>7 DEF UnwatchUnregister, OffloadOK, WorkOK, offloadVars, workVars,
       StageIndex
  <2>2. QueueOK'
    BY <1>7 DEF UnwatchUnregister, EventUnregister, QueueOK, queueVars
  <2>3. NetOK'
    BY <1>7 DEF UnwatchUnregister, EventUnregister, NetOK, netVars, ctlVars
  <2>4. ControlOK'
    BY <1>7 DEF UnwatchUnregister, EventUnregister, Oops, BindSteps,
       ControlOK, netVars, ctlVars
  <2> QED
    BY <2>1, <2>2, <2>3, <2>4
<1>8. CASE UnwatchDone
  <2>1. OffloadOK' /\ WorkOK' /\ QueueOK' /\ NetOK' /\ StageIndex'
    BY <1>8 DEF UnwatchDone, OffloadOK, WorkOK, QueueOK, NetOK, offloadVars,
       workVars, queueVars, netVars, StageIndex
  <2>2. ControlOK'
    BY <1>8 DEF UnwatchDone, BindSteps, ControlOK, netVars, ctlVars
  <2> QED
    BY <2>1, <2>2
<1> QED
  BY <1>1, <1>2, <1>3, <1>4, <1>5, <1>6, <1>7, <1>8 DEF BindStart, BindWork

(* A write to suspend_ipa_offload, online or a gate keeps the types.       *)
LEMMA UserTypes ==
    ASSUME TypeInv, UserStart \/ UserWork
    PROVE  TypeInv'
<1> USE DEF TypeInv, TypeOK
<1>1. CASE StoreSuspend
  <2>1. OffloadOK' /\ WorkOK' /\ QueueOK' /\ NetOK' /\ StageIndex'
    BY <1>1 DEF StoreSuspend, OffloadOK, WorkOK, QueueOK, NetOK,
       offloadVars, workVars, queueVars, netVars, StageIndex
  <2>2. ControlOK'
    BY <1>1 DEF StoreSuspend, ControlOK, netVars, ctlVars
  <2> QED
    BY <2>1, <2>2
<1>2. CASE OnlineOfflineIdev
  <2>1. OffloadOK' /\ WorkOK' /\ QueueOK' /\ NetOK' /\ StageIndex'
    BY <1>2 DEF OnlineOfflineIdev, OffloadOK, WorkOK, QueueOK, NetOK,
       offloadVars, workVars, queueVars, netVars, StageIndex
  <2>2. ControlOK'
    BY <1>2 DEF OnlineOfflineIdev, ControlOK, netVars, ctlVars
  <2> QED
    BY <2>1, <2>2
<1>3. CASE ResumeIdev
  <2>1. OffloadOK' /\ WorkOK' /\ NetOK' /\ StageIndex'
    BY <1>3 DEF ResumeIdev, OffloadOK, WorkOK, NetOK, offloadVars, workVars,
       netVars, StageIndex
  <2>2. QueueOK'
    BY <1>3 DEF ResumeIdev, QueueOK, queueVars
  <2>3. ControlOK'
    BY <1>3 DEF ResumeIdev, ControlOK, netVars, ctlVars
  <2> QED
    BY <2>1, <2>2, <2>3
<1>4. CASE SetGate
  <2>1. WorkOK' /\ QueueOK' /\ NetOK' /\ ControlOK' /\ StageIndex'
    BY <1>4 DEF SetGate, WorkOK, QueueOK, NetOK, ControlOK, workVars,
       queueVars, netVars, ctlVars, StageIndex
  <2>2. OffloadOK'
    BY <1>4 DEF SetGate, Rings, OffloadOK
  <2> QED
    BY <2>1, <2>2
<1>5. CASE SetDevOfflineQueue
  <2>1. OffloadOK' /\ WorkOK' /\ NetOK' /\ StageIndex'
    BY <1>5 DEF SetDevOfflineQueue, OffloadOK, WorkOK, NetOK, offloadVars,
       workVars, netVars, StageIndex
  <2>2. QueueOK'
    BY <1>5 DEF SetDevOfflineQueue, QueueOK, queueVars
  <2>3. ControlOK'
    BY <1>5 DEF SetDevOfflineQueue, ControlOK, netVars, ctlVars
  <2> QED
    BY <2>1, <2>2, <2>3
<1>6. CASE SetDevOfflineReturn
  <2>1. OffloadOK' /\ WorkOK' /\ QueueOK' /\ NetOK' /\ StageIndex'
    BY <1>6 DEF SetDevOfflineReturn, OffloadOK, WorkOK, QueueOK, NetOK,
       offloadVars, workVars, queueVars, netVars, StageIndex
  <2>2. ControlOK'
    BY <1>6 DEF SetDevOfflineReturn, ControlOK, netVars, ctlVars
  <2> QED
    BY <2>1, <2>2
<1> QED
  BY <1>1, <1>2, <1>3, <1>4, <1>5, <1>6 DEF UserStart, UserWork

(* One step keeps the types. *)
LEMMA TypeStep == TypeInv /\ [Next]_vars => TypeInv'
<1> SUFFICES ASSUME TypeInv, [Next]_vars PROVE TypeInv'
  OBVIOUS
<1>0. CASE StartWaits
  BY <1>0 DEF StartWaits, TypeInv, TypeOK, OffloadOK, WorkOK, QueueOK, NetOK,
     ControlOK, StageIndex, offloadVars, workVars, queueVars, ctlVars
<1>1. CASE Next
  BY <1>0, <1>1, WorkTypes, NetTypes, BindTypes, UserTypes DEF Next
<1>2. CASE UNCHANGED vars
  BY <1>2 DEF TypeInv, TypeOK, OffloadOK, WorkOK, QueueOK, NetOK, ControlOK,
     StageIndex, vars, offloadVars, workVars, queueVars, netVars, ctlVars
<1> QED
  BY <1>1, <1>2

LEMMA TypeInit == Init => TypeInv
BY GlueAssumption
DEF Init, TypeInv, TypeOK, OffloadOK, WorkOK, QueueOK, NetOK, ControlOK,
    StageIndex, States, Flags, NoFlags, Rings, NoRings, WorkSteps, BindSteps,
    BringUp, TearDown

(* Every reachable state of IossNet is well typed, whatever fails and      *)
(* however many channels the interface has.                                *)
THEOREM TypeCorrect == Spec => []TypeOK
<1>1. TypeInv => TypeOK
  BY DEF TypeInv
<1> QED
  BY <1>1, TypeInit, TypeStep, PTL DEF Spec

----------------------------------------------------------------------------
(* Whatever fails: the invariant behind the properties of the run          *)
(* offload_faults, which hold for every set of faults and gates, with and  *)
(* without changes of the namespace.                                       *)

(* The stages at which nothing of the path carries packets. *)
Quiescent == {"alloc", "alloc_revert", "ipa_register", "ipa_unregister", "free"}

(* Where the bind thread has unregistered the notifier. *)
Gone == {"u_flush2", "unwatched", "absent"}

(* Remove leaves no refresh behind, whatever failed: the second flush      *)
(* waits for the last one, and nobody is left to queue another.            *)
LastFlush ==
    /\ bind # "watched" => user = "idle"
    /\ bind \in Gone => iface = {}
    /\ waitP # {} => refresh = "queued"
    /\ bind = "u_unreg" => "bind" \notin waitP \cup waitR
    /\ bind = "u_flush2" => "bind" \notin waitR
    /\ bind = "u_flush2" /\ "bind" \notin waitP =>
           pc = "idle" /\ refresh = "idle"
    /\ bind \in {"unwatched", "absent"} => pc = "idle" /\ refresh = "idle"

(* Rings are enabled and events programmed only inside the registration    *)
(* with IPA, and every stage finds the rings before it stopped.            *)
Layered ==
    /\ drv.on \subseteq drv.ring /\ drv.evOn \subseteq drv.ev
    /\ drv.rss = "ipa" => RxChannels \cap drv.ev # {}
    /\ DoorbellsNeedIpa
    /\ pc \in {"idle", "speed", "decide"} /\ state = "OFFLINE" =>
           drv.on = {} /\ drv.ev = {}
    /\ pc \in Quiescent => drv.on = {} /\ drv.ev = {}
    /\ pc \in {"setup", "setup_revert"} => "ipa" \in held /\ drv.on = {}
    /\ pc = "setup" => drv.ev \subseteq 1..(i-1)
    /\ pc = "setup_revert" => drv.ev \subseteq 1..i
    /\ pc = "enable" => "ipa" \in held /\ drv.on \subseteq 1..(i-1)
    /\ pc = "enable_revert" => "ipa" \in held /\ drv.on \subseteq 1..i
    /\ pc = "disable_pc" => "ipa" \in held
    /\ pc = "disable" => drv.on \subseteq i..N
    /\ pc = "teardown" => drv.on = {} /\ drv.ev \subseteq i..N

(* What a set_offline without an error has released so far. *)
Released ==
    /\ pc = "enable_pc" => "unwinding" \notin err
    /\ pc \in TearDown /\ state = "OFFLINE" /\ "unwinding" \notin err =>
           /\ "pc" \notin held
           /\ pc = "disable" => fl.enabled \subseteq i..N
           /\ pc # "disable" => fl.enabled = {}
           /\ pc = "teardown" => /\ fl.evAllocated \subseteq i..N
                                 /\ \/ "rc" \in err
                                    \/ fl.evEnabled \subseteq i..N
           /\ pc \in {"ipa_unregister", "free"} =>
                  fl.evAllocated = {} /\ fl.evEnabled = {}
           /\ pc = "free" => held = {} /\ fl.allocated \subseteq i..N
    /\ pc = "free" => drv.ring \subseteq i..N

(* The net device core: what it holds and what it has taken down. *)
Carried ==
    /\ "carrier" \in dev => Running
    /\ net # "idle" <=> rtnl = "net"
    /\ bind = "u_unreg" <=> rtnl = "bind"
    /\ net \in {"closing", "opening"} => Running
    /\ net = "opening" => "carrier" \notin dev
    /\ net \in {"unlisted", "relisting"} => ~Running

(* A change of the device is answered by a refresh that has not begun, or  *)
(* has not yet looked.                                                     *)
Answered ==
    /\ pc \notin {"idle", "speed", "decide"} => state # "ONLINE"
    /\ bind = "watched" /\ kernel = "runs" =>
         /\ Notified
         /\ net # "relisting" => Attached
         /\ net = "closing" => refresh = "queued" \/ pc = "speed"
         /\ ~Running \/ net = "opening" =>
              /\ pc \in BringUp => refresh = "queued"
              /\ pc = "idle" /\ state = "ONLINE" /\ net # "relisting" =>
                     refresh = "queued"
         /\ \/ refresh = "queued" \/ "event" \in dev \/ user = "queue"
            \/ net # "idle"
            \/ /\ pc = "idle" => state = "ERROR" \/ (state = "ONLINE" <=> Wanted)
               /\ pc \in BringUp => Wanted
               /\ pc \in TearDown \cup {"enable_pc"} /\ "unwinding" \notin err =>
                      ~Wanted

----------------------------------------------------------------------------
(* Each part is kept by every step. *)

(* Remove's second flush is the last one.                                  *)
LEMMA LastFlushStep ==
    ASSUME TypeInv, LastFlush, [Next]_vars
    PROVE  LastFlush'
<1> USE DEF LastFlush, Gone, TypeInv, TypeOK, QueueOK, ControlOK, BindSteps,
   offloadVars, workVars, queueVars, netVars, ctlVars
<1>1. CASE RefreshStart
  BY <1>1 DEF RefreshStart, At, Attached
<1>2. CASE FetchLinkSpeed
  BY <1>2 DEF FetchLinkSpeed, At
<1>3. CASE EnterSetOnline
  BY <1>3 DEF EnterSetOnline, At, GoTo, Finish
<1>4. CASE EnterSetOffline
  BY <1>4 DEF EnterSetOffline, At, GoTo, Finish
<1>5. CASE AllocChannel
  BY <1>5 DEF AllocChannel, At, NextChannel, RevertFrom, Oops
<1>6. CASE AllocRevert
  BY <1>6 DEF AllocRevert, At, Finish, FreeChannel, RevertFrom, Oops
<1>7. CASE IpaRegister
  BY <1>7 DEF IpaRegister, At, GoTo
<1>8. CASE SetupEvent
  BY <1>8 DEF SetupEvent, At, NextChannel, RevertFrom, Oops
<1>9. CASE SetupRevert
  BY <1>9 DEF SetupRevert, At, GoTo, TeardownEvent, RevertFrom, Oops
<1>10. CASE StartChannel
  BY <1>10 DEF StartChannel, At, NextChannel, RevertFrom, Oops
<1>11. CASE EnableRevert
  BY <1>11 DEF EnableRevert, At, GoTo, StopChannel, RevertFrom
<1>12. CASE DisablePc
  BY <1>12 DEF DisablePc, At, GoTo, Finish
<1>13. CASE EnablePc
  BY <1>13 DEF EnablePc, At, GoTo, StageFailed
<1>14. CASE DisableChannels
  BY <1>14 DEF DisableChannels, At, StopChannel, NextChannel
<1>15. CASE TeardownEvents
  BY <1>15 DEF TeardownEvents, At, TeardownEvent, NextChannel, StageFailed,
     Oops
<1>16. CASE IpaUnregister
  BY <1>16 DEF IpaUnregister, At, GoTo, StageFailed
<1>17. CASE FreeChannels
  BY <1>17 DEF FreeChannels, At, FreeChannel, Finish, Oops
<1>18. CASE DevClosing
  BY <1>18 DEF DevClosing, NetStart, NetAt, Notify, Handled, Notified,
     Running
<1>19. CASE DevOpening
  BY <1>19 DEF DevOpening, NetStart, NetAt, Running
<1>20. CASE CarrierChange
  BY <1>20 DEF CarrierChange, CarrierLost, Running
<1>21. CASE MoveBegin
  BY <1>21 DEF MoveBegin, NetStart, NetAt, CarrierLost, Notify, Handled,
     Notified, Running
<1>22. CASE DevClosed
  BY <1>22 DEF DevClosed, NetAt, CarrierLost
<1>23. CASE DevOpened
  BY <1>23 DEF DevOpened, NetAt, Notify, Handled, Notified
<1>24. CASE MoveUnregister
  BY <1>24 DEF MoveUnregister, NetAt, EventUnregister, Oops, Notified
<1>25. CASE MoveRegister
  BY <1>25 DEF MoveRegister, NetAt, EventRegister, Notified
<1>26. CASE LinkWatch
  BY <1>26 DEF LinkWatch, NetStart, NetAt, Notify, Handled, Notified,
     Running
<1>27. CASE AddDevice
  BY <1>27 DEF AddDevice, BindAt
<1>28. CASE RemoveDevice
  BY <1>28 DEF RemoveDevice, BindAt
<1>29. CASE Watch
  BY <1>29 DEF Watch, BindAt, EventRegister
<1>30. CASE UnwatchBegin
  BY <1>30 DEF UnwatchBegin, BindAt
<1>31. CASE UnwatchQueue
  BY <1>31 DEF UnwatchQueue, BindAt
<1>32. CASE UnwatchGoingDown
  BY <1>32 DEF UnwatchGoingDown, BindAt, Flushed, Notify, Handled, Notified
<1>33. CASE UnwatchUnregister
  BY <1>33 DEF UnwatchUnregister, BindAt, EventUnregister, Oops
<1>34. CASE UnwatchDone
  BY <1>34 DEF UnwatchDone, BindAt, Flushed
<1>35. CASE StoreSuspend
  BY <1>35 DEF StoreSuspend, UserAt
<1>36. CASE OnlineOfflineIdev
  BY <1>36 DEF OnlineOfflineIdev, UserAt
<1>37. CASE ResumeIdev
  BY <1>37 DEF ResumeIdev, UserAt
<1>38. CASE SetGate
  BY <1>38 DEF SetGate
<1>39. CASE SetDevOfflineQueue
  BY <1>39 DEF SetDevOfflineQueue, UserAt
<1>40. CASE SetDevOfflineReturn
  BY <1>40 DEF SetDevOfflineReturn, UserAt, Flushed
<1>41. CASE UNCHANGED vars
  BY <1>41 DEF vars
<1>42. CASE StartWaits
  BY <1>42 DEF StartWaits
<1> QED
  BY <1>1, <1>2, <1>3, <1>4, <1>5, <1>6, <1>7, <1>8, <1>9, <1>10, <1>11,
     <1>12, <1>13, <1>14, <1>15, <1>16, <1>17, <1>18, <1>19, <1>20, <1>21,
     <1>22, <1>23, <1>24, <1>25, <1>26, <1>27, <1>28, <1>29, <1>30, <1>31,
     <1>32, <1>33, <1>34, <1>35, <1>36, <1>37, <1>38, <1>39, <1>40, <1>41,
     <1>42 DEF Next, Work, NetEvents, NetWork, BindStart, BindWork, UserStart,
     UserWork

(* The net device core closes, opens and moves one device at a time.       *)
LEMMA CarriedStep ==
    ASSUME TypeInv, Carried, [Next]_vars
    PROVE  Carried'
<1> USE DEF Carried, Running, TypeInv, TypeOK, NetOK, offloadVars, workVars,
   queueVars, netVars, ctlVars
<1>1. CASE RefreshStart
  BY <1>1 DEF RefreshStart, At, Attached
<1>2. CASE FetchLinkSpeed
  BY <1>2 DEF FetchLinkSpeed, At
<1>3. CASE EnterSetOnline
  BY <1>3 DEF EnterSetOnline, At, GoTo, Finish
<1>4. CASE EnterSetOffline
  BY <1>4 DEF EnterSetOffline, At, GoTo, Finish
<1>5. CASE AllocChannel
  BY <1>5 DEF AllocChannel, At, NextChannel, RevertFrom, Oops,
     RestartIfLast, CarrierLost, Running
<1>6. CASE AllocRevert
  BY <1>6 DEF AllocRevert, At, Finish, FreeChannel, RevertFrom, Oops,
     RestartIfLast, CarrierLost, Running
<1>7. CASE IpaRegister
  BY <1>7 DEF IpaRegister, At, GoTo
<1>8. CASE SetupEvent
  BY <1>8 DEF SetupEvent, At, NextChannel, RevertFrom, Oops
<1>9. CASE SetupRevert
  BY <1>9 DEF SetupRevert, At, GoTo, TeardownEvent, RevertFrom, Oops
<1>10. CASE StartChannel
  BY <1>10 DEF StartChannel, At, NextChannel, RevertFrom, Oops,
     RestartIfLast, CarrierLost, Running
<1>11. CASE EnableRevert
  BY <1>11 DEF EnableRevert, At, GoTo, StopChannel, RevertFrom
<1>12. CASE DisablePc
  BY <1>12 DEF DisablePc, At, GoTo, Finish
<1>13. CASE EnablePc
  BY <1>13 DEF EnablePc, At, GoTo, StageFailed
<1>14. CASE DisableChannels
  BY <1>14 DEF DisableChannels, At, StopChannel, NextChannel
<1>15. CASE TeardownEvents
  BY <1>15 DEF TeardownEvents, At, TeardownEvent, NextChannel, StageFailed,
     Oops
<1>16. CASE IpaUnregister
  BY <1>16 DEF IpaUnregister, At, GoTo, StageFailed
<1>17. CASE FreeChannels
  BY <1>17 DEF FreeChannels, At, FreeChannel, Finish, Oops, RestartIfLast,
     CarrierLost, Running
<1>18. CASE DevClosing
  BY <1>18 DEF DevClosing, NetStart, NetAt, Notify, Handled, Notified,
     Running
<1>19. CASE DevOpening
  BY <1>19 DEF DevOpening, NetStart, NetAt, Running
<1>20. CASE CarrierChange
  BY <1>20 DEF CarrierChange, CarrierLost, Running
<1>21. CASE MoveBegin
  BY <1>21 DEF MoveBegin, NetStart, NetAt, CarrierLost, Notify, Handled,
     Notified, Running
<1>22. CASE DevClosed
  BY <1>22 DEF DevClosed, NetAt, CarrierLost
<1>23. CASE DevOpened
  BY <1>23 DEF DevOpened, NetAt, Notify, Handled, Notified
<1>24. CASE MoveUnregister
  BY <1>24 DEF MoveUnregister, NetAt, EventUnregister, Oops, Notified
<1>25. CASE MoveRegister
  BY <1>25 DEF MoveRegister, NetAt, EventRegister, Notified
<1>26. CASE LinkWatch
  BY <1>26 DEF LinkWatch, NetStart, NetAt, Notify, Handled, Notified,
     Running
<1>27. CASE AddDevice
  BY <1>27 DEF AddDevice, BindAt
<1>28. CASE RemoveDevice
  BY <1>28 DEF RemoveDevice, BindAt
<1>29. CASE Watch
  BY <1>29 DEF Watch, BindAt, EventRegister
<1>30. CASE UnwatchBegin
  BY <1>30 DEF UnwatchBegin, BindAt
<1>31. CASE UnwatchQueue
  BY <1>31 DEF UnwatchQueue, BindAt
<1>32. CASE UnwatchGoingDown
  BY <1>32 DEF UnwatchGoingDown, BindAt, Flushed, Notify, Handled, Notified
<1>33. CASE UnwatchUnregister
  BY <1>33 DEF UnwatchUnregister, BindAt, EventUnregister, Oops
<1>34. CASE UnwatchDone
  BY <1>34 DEF UnwatchDone, BindAt, Flushed
<1>35. CASE StoreSuspend
  BY <1>35 DEF StoreSuspend, UserAt
<1>36. CASE OnlineOfflineIdev
  BY <1>36 DEF OnlineOfflineIdev, UserAt
<1>37. CASE ResumeIdev
  BY <1>37 DEF ResumeIdev, UserAt
<1>38. CASE SetGate
  BY <1>38 DEF SetGate
<1>39. CASE SetDevOfflineQueue
  BY <1>39 DEF SetDevOfflineQueue, UserAt
<1>40. CASE SetDevOfflineReturn
  BY <1>40 DEF SetDevOfflineReturn, UserAt, Flushed
<1>41. CASE UNCHANGED vars
  BY <1>41 DEF vars
<1>42. CASE StartWaits
  BY <1>42 DEF StartWaits
<1> QED
  BY <1>1, <1>2, <1>3, <1>4, <1>5, <1>6, <1>7, <1>8, <1>9, <1>10, <1>11,
     <1>12, <1>13, <1>14, <1>15, <1>16, <1>17, <1>18, <1>19, <1>20, <1>21,
     <1>22, <1>23, <1>24, <1>25, <1>26, <1>27, <1>28, <1>29, <1>30, <1>31,
     <1>32, <1>33, <1>34, <1>35, <1>36, <1>37, <1>38, <1>39, <1>40, <1>41,
     <1>42 DEF Next, Work, NetEvents, NetWork, BindStart, BindWork, UserStart,
     UserWork

(* No change of the device goes unanswered.                                *)
LEMMA AnsweredStep ==
    ASSUME TypeInv, LastFlush, Carried, Answered, [Next]_vars
    PROVE  Answered'
<1> USE DEF Answered, Running, Attached, Notified, Wanted, BringUp, Revert,
   TearDown, WorkSteps, offloadVars, workVars, queueVars, netVars, ctlVars
<1>1. CASE RefreshStart
  BY <1>1 DEF RefreshStart, At, Attached
<1>2. CASE FetchLinkSpeed
  BY <1>2 DEF FetchLinkSpeed, At, Carried
<1>3. CASE EnterSetOnline
  BY <1>3 DEF EnterSetOnline, At, GoTo, Finish, Carried, TypeInv, TypeOK,
     OffloadOK, States
<1>4. CASE EnterSetOffline
  BY <1>4 DEF EnterSetOffline, At, GoTo, Finish
<1>5. CASE AllocChannel
  BY <1>5 DEF AllocChannel, At, NextChannel, RevertFrom, Oops,
     RestartIfLast, CarrierLost
<1>6. CASE AllocRevert
  BY <1>6 DEF AllocRevert, At, Finish, FreeChannel, RevertFrom, Oops,
     RestartIfLast, CarrierLost
<1>7. CASE IpaRegister
  BY <1>7 DEF IpaRegister, At, GoTo
<1>8. CASE SetupEvent
  BY <1>8 DEF SetupEvent, At, NextChannel, RevertFrom, Oops
<1>9. CASE SetupRevert
  BY <1>9 DEF SetupRevert, At, GoTo, TeardownEvent, RevertFrom, Oops
<1>10. CASE StartChannel
  BY <1>10 DEF StartChannel, At, NextChannel, RevertFrom, Oops,
     RestartIfLast, CarrierLost
<1>11. CASE EnableRevert
  BY <1>11 DEF EnableRevert, At, GoTo, StopChannel, RevertFrom
<1>12. CASE DisablePc
  BY <1>12 DEF DisablePc, At, GoTo, Finish
<1>13. CASE EnablePc
  BY <1>13 DEF EnablePc, At, GoTo, StageFailed
<1>14. CASE DisableChannels
  BY <1>14 DEF DisableChannels, At, StopChannel, NextChannel
<1>15. CASE TeardownEvents
  BY <1>15 DEF TeardownEvents, At, TeardownEvent, NextChannel, StageFailed,
     Oops
<1>16. CASE IpaUnregister
  BY <1>16 DEF IpaUnregister, At, GoTo, StageFailed
<1>17. CASE FreeChannels
  BY <1>17 DEF FreeChannels, At, FreeChannel, Finish, Oops, RestartIfLast,
     CarrierLost
<1>18. CASE DevClosing
  BY <1>18 DEF DevClosing, NetStart, NetAt, Notify, Handled, Notified,
     Running
<1>19. CASE DevOpening
  BY <1>19 DEF DevOpening, NetStart, NetAt, Running
<1>20. CASE CarrierChange
  BY <1>20 DEF CarrierChange, CarrierLost, Running
<1>21. CASE MoveBegin
  BY <1>21 DEF MoveBegin, NetStart, NetAt, CarrierLost, Notify, Handled,
     Notified, Running
<1>22. CASE DevClosed
  BY <1>22 DEF DevClosed, NetAt, CarrierLost
<1>23. CASE DevOpened
  BY <1>23 DEF DevOpened, NetAt, Notify, Handled, Notified
<1>24. CASE MoveUnregister
  BY <1>24 DEF MoveUnregister, NetAt, EventUnregister, Oops, Notified
<1>25. CASE MoveRegister
  BY <1>25 DEF MoveRegister, NetAt, EventRegister, Notified, Carried
<1>26. CASE LinkWatch
  BY <1>26 DEF LinkWatch, NetStart, NetAt, Notify, Handled, Notified,
     Running
<1>27. CASE AddDevice
  BY <1>27 DEF AddDevice, BindAt
<1>28. CASE RemoveDevice
  BY <1>28 DEF RemoveDevice, BindAt
<1>29. CASE Watch
  BY <1>29 DEF Watch, BindAt, EventRegister, Carried, LastFlush
<1>30. CASE UnwatchBegin
  BY <1>30 DEF UnwatchBegin, BindAt
<1>31. CASE UnwatchQueue
  BY <1>31 DEF UnwatchQueue, BindAt
<1>32. CASE UnwatchGoingDown
  BY <1>32 DEF UnwatchGoingDown, BindAt, Flushed, Notify, Handled, Notified
<1>33. CASE UnwatchUnregister
  BY <1>33 DEF UnwatchUnregister, BindAt, EventUnregister, Oops
<1>34. CASE UnwatchDone
  BY <1>34 DEF UnwatchDone, BindAt, Flushed
<1>35. CASE StoreSuspend
  BY <1>35 DEF StoreSuspend, UserAt
<1>36. CASE OnlineOfflineIdev
  BY <1>36 DEF OnlineOfflineIdev, UserAt
<1>37. CASE ResumeIdev
  BY <1>37 DEF ResumeIdev, UserAt
<1>38. CASE SetGate
  BY <1>38 DEF SetGate
<1>39. CASE SetDevOfflineQueue
  BY <1>39 DEF SetDevOfflineQueue, UserAt
<1>40. CASE SetDevOfflineReturn
  BY <1>40 DEF SetDevOfflineReturn, UserAt, Flushed
<1>41. CASE UNCHANGED vars
  BY <1>41 DEF vars
<1>42. CASE StartWaits
  BY <1>42 DEF StartWaits
<1> QED
  BY <1>1, <1>2, <1>3, <1>4, <1>5, <1>6, <1>7, <1>8, <1>9, <1>10, <1>11,
     <1>12, <1>13, <1>14, <1>15, <1>16, <1>17, <1>18, <1>19, <1>20, <1>21,
     <1>22, <1>23, <1>24, <1>25, <1>26, <1>27, <1>28, <1>29, <1>30, <1>31,
     <1>32, <1>33, <1>34, <1>35, <1>36, <1>37, <1>38, <1>39, <1>40, <1>41,
     <1>42 DEF Next, Work, NetEvents, NetWork, BindStart, BindWork, UserStart,
     UserWork

(* Each stage leaves the layers to the next.                               *)
LEMMA LayeredStep ==
    ASSUME TypeInv, LastFlush, Layered, [Next]_vars
    PROVE  Layered'
<1> USE DEF Layered, DoorbellsNeedIpa, Quiescent, TypeInv, TypeOK,
   OffloadOK, WorkOK, StageIndex, Rings, BringUp, TearDown, offloadVars,
   workVars, queueVars, netVars, ctlVars
<1>i. \A k \in Channels : /\ k \notin 1..(k-1)
                           /\ 1..(k-1) \cup {k} = 1..k
                           /\ (1..k) \ {k} = 1..(k-1)
                           /\ (k..N) \ {k} = (k+1)..N
  BY GlueAssumption DEF Channels
<1>1. CASE RefreshStart
  BY <1>1, GlueAssumption, <1>i DEF RefreshStart, At, Attached
<1>2. CASE FetchLinkSpeed
  BY <1>2, GlueAssumption, <1>i DEF FetchLinkSpeed, At
<1>3. CASE EnterSetOnline
  BY <1>3, GlueAssumption, <1>i DEF EnterSetOnline, At, GoTo, Finish
<1>4. CASE EnterSetOffline
  BY <1>4, GlueAssumption, <1>i DEF EnterSetOffline, At, GoTo, Finish
<1>5. CASE AllocChannel
  BY <1>5, GlueAssumption, <1>i DEF AllocChannel, At, NextChannel,
     RevertFrom, Oops, RequestChannel, ReleaseChannel
<1>6. CASE AllocRevert
  BY <1>6, GlueAssumption, <1>i DEF AllocRevert, At, Finish, FreeChannel,
     RevertFrom, Oops, ReleaseChannel
<1>7. CASE IpaRegister
  BY <1>7 DEF IpaRegister, At, GoTo
<1>8. CASE SetupEvent
  <2>1. /\ pc = "setup" /\ "ipa" \in held /\ drv.on = {}
        /\ held' = held /\ i \in Channels /\ drv.ev \subseteq 1..(i-1)
    BY <1>8 DEF SetupEvent, At
  <2>2. CASE drv' = drv /\ RevertFrom("setup_revert")
    BY <2>1, <2>2 DEF RevertFrom
  <2>3. CASE /\ ~EnableEventFails(RequestEvent(drv, i), i)
             /\ drv' = EnableEvent(RequestEvent(drv, i), i)
             /\ NextChannel("enable")
    <3>1. /\ drv'.ring = drv.ring /\ drv'.on = drv.on
          /\ drv'.evOn \subseteq drv'.ev /\ drv'.ev \subseteq drv.ev \cup {i}
          /\ drv'.rss = "ipa" => RxChannels \cap drv'.ev # {}
      BY <2>3 DEF EnableEventFails, RequestEvent, EnableEvent
    <3>2. drv'.ev \subseteq 1..i
      BY <1>i, <2>1, <3>1
    <3>3. \/ pc' = "setup" /\ i' = i + 1 /\ i = (i + 1) - 1
          \/ pc' = "enable"
      BY <2>1, <2>3 DEF NextChannel
    <3> QED
      BY <2>1, <3>1, <3>2, <3>3
  <2>4. CASE /\ EnableEventFails(RequestEvent(drv, i), i)
             /\ drv' = ReleaseEvent(RequestEvent(drv, i), i)
             /\ RevertFrom("setup_revert")
    <3>1. /\ drv'.ring = drv.ring /\ drv'.on = drv.on
          /\ drv'.evOn = drv.evOn /\ drv'.ev = drv.ev
          /\ drv'.rss = drv.rss
      BY <2>4 DEF EnableEventFails, RequestEvent, ReleaseEvent
    <3> QED
      BY <2>1, <2>4, <3>1 DEF RevertFrom
  <2> QED
    BY <1>8, <2>2, <2>3, <2>4 DEF SetupEvent
<1>9. CASE SetupRevert
  <2>1. /\ pc = "setup_revert" /\ "ipa" \in held /\ drv.on = {}
        /\ held' = held /\ drv.ev \subseteq 1..i
    BY <1>9 DEF SetupRevert, At
  <2>2. CASE drv' = drv /\ pc' = "ipa_unregister" /\ i = 0
    <3>1. 1..0 = {}
      OBVIOUS
    <3> QED
      BY <2>1, <2>2, <3>1
  <2>3. CASE /\ drv' = ReleaseEvent(DisableEvent(drv, i), i)
             /\ i > 0 /\ RevertFrom(pc)
    <3>1. /\ drv'.ring = drv.ring /\ drv'.on = drv.on
          /\ drv'.evOn \subseteq drv'.ev /\ drv'.ev = drv.ev \ {i}
          /\ drv'.rss = "ipa" => RxChannels \cap drv'.ev # {}
      BY <2>3 DEF ReleaseEvent, DisableEvent, DisableEventFails
    <3>2. (1..i) \ {i} = 1..(i-1)
      BY <1>i, <2>3, GlueAssumption DEF Channels
    <3> QED
      BY <2>1, <2>3, <3>1, <3>2 DEF RevertFrom
  <2> QED
    BY <1>9, <2>2, <2>3 DEF SetupRevert, GoTo, TeardownEvent
<1>10. CASE StartChannel
  BY <1>10, GlueAssumption, <1>i DEF StartChannel, At, NextChannel,
     RevertFrom, Oops, EnableChannelFails, EnableChannel, ReleaseChannel,
     NullRing
<1>11. CASE EnableRevert
  <2>1. /\ pc = "enable_revert" /\ "ipa" \in held
        /\ held' = held /\ drv.on \subseteq 1..i
    BY <1>11 DEF EnableRevert, At
  <2>2. CASE drv' = drv /\ GoTo("teardown") /\ i = 0
    <3>1. drv.on = {} /\ drv.ev \subseteq 1..N
      BY <2>1, <2>2 DEF Channels
    <3> QED
      BY <2>1, <2>2, <3>1 DEF GoTo
  <2>3. CASE drv' = DisableChannel(drv, i) /\ i > 0 /\ RevertFrom(pc)
    <3>1. /\ drv'.ring = drv.ring /\ drv'.on = drv.on \ {i}
          /\ drv'.ev = drv.ev /\ drv'.evOn = drv.evOn /\ drv'.rss = drv.rss
      BY <2>3 DEF DisableChannel, NullRing
    <3>2. (1..i) \ {i} = 1..(i-1)
      BY <1>i, <2>3, GlueAssumption DEF Channels
    <3> QED
      BY <2>1, <2>3, <3>1, <3>2 DEF RevertFrom
  <2> QED
    BY <1>11, <2>2, <2>3 DEF EnableRevert, StopChannel
<1>12. CASE DisablePc
  <2>1. /\ pc = "disable_pc" /\ "ipa" \in held /\ drv' = drv
        /\ held' = held \cup {"pc"} \/ held' = held
        /\ \/ pc' = "idle" /\ state' = "ONLINE"
           \/ pc' = "disable" /\ i' = 1
    BY <1>12 DEF DisablePc, At, GoTo, Finish
  <2>2. drv.on \subseteq 1..N
    BY DEF Channels
  <2> QED
    BY <2>1, <2>2
<1>13. CASE EnablePc
  <2>1. /\ pc = "enable_pc" /\ drv' = drv /\ pc' = "disable" /\ i' = 1
        /\ held' = held \ {"pc"} \/ held' = held
    BY <1>13 DEF EnablePc, At, GoTo
  <2>2. drv.on \subseteq 1..N
    BY DEF Channels
  <2> QED
    BY <2>1, <2>2
<1>14. CASE DisableChannels
  <2>1. /\ pc = "disable" /\ i \in Channels /\ drv.on \subseteq i..N
        /\ drv' = DisableChannel(drv, i) /\ held' = held
        /\ NextChannel("teardown")
    BY <1>14 DEF DisableChannels, StopChannel, At
  <2>2. /\ drv'.ring = drv.ring /\ drv'.on = drv.on \ {i}
        /\ drv'.ev = drv.ev /\ drv'.evOn = drv.evOn /\ drv'.rss = drv.rss
    BY <2>1 DEF DisableChannel, NullRing
  <2>3. drv'.on \subseteq (i+1)..N /\ drv.ev \subseteq 1..N
    BY <1>i, <2>1, <2>2 DEF Channels
  <2>4. \/ pc' = "disable" /\ i' = i + 1
        \/ pc' = "teardown" /\ i' = 1 /\ drv'.on = {}
    BY <2>1, <2>3, GlueAssumption DEF NextChannel, Channels
  <2> QED
    BY <2>1, <2>2, <2>3, <2>4
<1>15. CASE TeardownEvents
  BY <1>15, GlueAssumption, <1>i DEF TeardownEvents, At, TeardownEvent,
     NextChannel, StageFailed, Oops, ReleaseEvent, DisableEvent,
     DisableEventFails
<1>16. CASE IpaUnregister
  BY <1>16, GlueAssumption, <1>i DEF IpaUnregister, At, GoTo, StageFailed
<1>17. CASE FreeChannels
  BY <1>17, GlueAssumption, <1>i DEF FreeChannels, At, FreeChannel, Finish,
     Oops, ReleaseChannel
<1>18. CASE DevClosing
  BY <1>18, GlueAssumption, <1>i DEF DevClosing, NetStart, NetAt, Notify,
     Handled, Notified, Running
<1>19. CASE DevOpening
  BY <1>19, GlueAssumption, <1>i DEF DevOpening, NetStart, NetAt, Running
<1>20. CASE CarrierChange
  BY <1>20, GlueAssumption, <1>i DEF CarrierChange, CarrierLost, Running
<1>21. CASE MoveBegin
  BY <1>21, GlueAssumption, <1>i DEF MoveBegin, NetStart, NetAt,
     CarrierLost, Notify, Handled, Notified, Running
<1>22. CASE DevClosed
  BY <1>22, GlueAssumption, <1>i DEF DevClosed, NetAt, CarrierLost
<1>23. CASE DevOpened
  BY <1>23, GlueAssumption, <1>i DEF DevOpened, NetAt, Notify, Handled,
     Notified
<1>24. CASE MoveUnregister
  BY <1>24, GlueAssumption, <1>i DEF MoveUnregister, NetAt, EventUnregister,
     Oops, Notified
<1>25. CASE MoveRegister
  BY <1>25, GlueAssumption, <1>i DEF MoveRegister, NetAt, EventRegister,
     Notified
<1>26. CASE LinkWatch
  BY <1>26, GlueAssumption, <1>i DEF LinkWatch, NetStart, NetAt, Notify,
     Handled, Notified, Running
<1>27. CASE AddDevice
  BY <1>27, GlueAssumption, <1>i DEF AddDevice, BindAt, NoRings, LastFlush
<1>28. CASE RemoveDevice
  BY <1>28, GlueAssumption, <1>i DEF RemoveDevice, BindAt
<1>29. CASE Watch
  BY <1>29, GlueAssumption, <1>i DEF Watch, BindAt, EventRegister
<1>30. CASE UnwatchBegin
  BY <1>30, GlueAssumption, <1>i DEF UnwatchBegin, BindAt
<1>31. CASE UnwatchQueue
  BY <1>31, GlueAssumption, <1>i DEF UnwatchQueue, BindAt
<1>32. CASE UnwatchGoingDown
  BY <1>32, GlueAssumption, <1>i DEF UnwatchGoingDown, BindAt, Flushed,
     Notify, Handled, Notified
<1>33. CASE UnwatchUnregister
  BY <1>33, GlueAssumption, <1>i DEF UnwatchUnregister, BindAt,
     EventUnregister, Oops
<1>34. CASE UnwatchDone
  BY <1>34, GlueAssumption, <1>i DEF UnwatchDone, BindAt, Flushed
<1>35. CASE StoreSuspend
  BY <1>35, GlueAssumption, <1>i DEF StoreSuspend, UserAt
<1>36. CASE OnlineOfflineIdev
  BY <1>36, GlueAssumption, <1>i DEF OnlineOfflineIdev, UserAt
<1>37. CASE ResumeIdev
  BY <1>37, GlueAssumption, <1>i DEF ResumeIdev, UserAt
<1>38. CASE SetGate
  BY <1>38, GlueAssumption, <1>i DEF SetGate
<1>39. CASE SetDevOfflineQueue
  BY <1>39, GlueAssumption, <1>i DEF SetDevOfflineQueue, UserAt
<1>40. CASE SetDevOfflineReturn
  BY <1>40, GlueAssumption, <1>i DEF SetDevOfflineReturn, UserAt, Flushed
<1>41. CASE UNCHANGED vars
  BY <1>41, GlueAssumption, <1>i DEF vars
<1>42. CASE StartWaits
  BY <1>42, GlueAssumption, <1>i DEF StartWaits
<1> QED
  BY <1>1, <1>2, <1>3, <1>4, <1>5, <1>6, <1>7, <1>8, <1>9, <1>10, <1>11,
     <1>12, <1>13, <1>14, <1>15, <1>16, <1>17, <1>18, <1>19, <1>20, <1>21,
     <1>22, <1>23, <1>24, <1>25, <1>26, <1>27, <1>28, <1>29, <1>30, <1>31,
     <1>32, <1>33, <1>34, <1>35, <1>36, <1>37, <1>38, <1>39, <1>40, <1>41,
     <1>42 DEF Next, Work, NetEvents, NetWork, BindStart, BindWork, UserStart,
     UserWork

(* A teardown without an error forgets nothing.                            *)
LEMMA ReleasedStep ==
    ASSUME TypeInv, LastFlush, Layered, Released, [Next]_vars
    PROVE  Released'
<1> USE DEF Released, TypeInv, TypeOK, OffloadOK, WorkOK, StageIndex, Flags,
   Rings, BringUp, TearDown, offloadVars, workVars, queueVars, netVars,
   ctlVars
<1>i. /\ \A k \in Channels : (k..N) \ {k} = (k+1)..N
      /\ 1..N = Channels
  BY GlueAssumption DEF Channels
<1>1. CASE RefreshStart
  BY <1>1, <1>i DEF RefreshStart, At, Attached
<1>2. CASE FetchLinkSpeed
  BY <1>2, <1>i DEF FetchLinkSpeed, At
<1>3. CASE EnterSetOnline
  BY <1>3, <1>i DEF EnterSetOnline, At, GoTo, Finish
<1>4. CASE EnterSetOffline
  BY <1>4, <1>i DEF EnterSetOffline, At, GoTo, Finish
<1>5. CASE AllocChannel
  BY <1>5, <1>i DEF AllocChannel, At, NextChannel, RevertFrom, Oops,
     RequestChannel, ReleaseChannel
<1>6. CASE AllocRevert
  BY <1>6, <1>i DEF AllocRevert, At, Finish, FreeChannel, RevertFrom, Oops,
     ReleaseChannel
<1>7. CASE IpaRegister
  BY <1>7, <1>i DEF IpaRegister, At, GoTo
<1>8. CASE SetupEvent
  BY <1>8, <1>i DEF SetupEvent, At, NextChannel, RevertFrom, Oops,
     RequestEventFails, EnableEventFails, RequestEvent, EnableEvent,
     ReleaseEvent, NullRing
<1>9. CASE SetupRevert
  BY <1>9, <1>i DEF SetupRevert, At, GoTo, TeardownEvent, RevertFrom, Oops,
     ReleaseEvent, DisableEvent, DisableEventFails
<1>10. CASE StartChannel
  BY <1>10, <1>i DEF StartChannel, At, NextChannel, RevertFrom, Oops,
     EnableChannelFails, EnableChannel, ReleaseChannel, NullRing
<1>11. CASE EnableRevert
  BY <1>11, <1>i DEF EnableRevert, At, GoTo, StopChannel, RevertFrom,
     DisableChannel, NullRing
<1>12. CASE DisablePc
  BY <1>12, <1>i DEF DisablePc, At, GoTo, Finish
<1>13. CASE EnablePc
  BY <1>13, <1>i DEF EnablePc, At, GoTo, StageFailed
<1>14. CASE DisableChannels
  <2>1. /\ pc = "disable" /\ i \in Channels /\ NextChannel("teardown")
        /\ fl' = [fl EXCEPT !.enabled = fl.enabled \ {i}]
        /\ UNCHANGED <<held, state, err>>
    BY <1>14 DEF DisableChannels, StopChannel, At
  <2>2. /\ fl'.enabled = fl.enabled \ {i}
        /\ fl'.evAllocated = fl.evAllocated /\ fl'.evEnabled = fl.evEnabled
    BY <2>1 DEF Flags
  <2>3. CASE i < N
    BY <1>i, <2>1, <2>2, <2>3 DEF NextChannel
  <2>4. CASE ~(i < N)
    <3>1. (i+1)..N = {}
      BY <2>1, <2>4, GlueAssumption DEF Channels
    <3>2. pc' = "teardown" /\ i' = 1
      BY <2>1, <2>4 DEF NextChannel
    <3> QED
      BY <1>i, <2>1, <2>2, <3>1, <3>2
  <2> QED
    BY <2>3, <2>4
<1>15. CASE TeardownEvents
  BY <1>15, <1>i DEF TeardownEvents, At, TeardownEvent, NextChannel,
     StageFailed, Oops, ReleaseEvent, DisableEvent, DisableEventFails
<1>16. CASE IpaUnregister
  <2>1. /\ pc = "ipa_unregister" /\ pc' = "free" /\ i' = 1
        /\ UNCHANGED <<fl, drv, err>>
        /\ \/ held' = held \ {"ipa"} /\ state' = state
           \/ StageFailed(TRUE)
    BY <1>16 DEF IpaUnregister, At, GoTo
  <2>2. drv.ring \subseteq 1..N /\ fl.allocated \subseteq 1..N
    BY <1>i DEF Flags
  <2>3. CASE held' = held \ {"ipa"} /\ state' = state
    <3>1. "pc" \notin held => held' = {}
      BY <2>3
    <3> QED
      BY <2>1, <2>2, <2>3, <3>1
  <2>4. CASE StageFailed(TRUE)
    BY <2>1, <2>2, <2>4 DEF StageFailed
  <2> QED
    BY <2>1, <2>3, <2>4
<1>17. CASE FreeChannels
  BY <1>17, <1>i DEF FreeChannels, At, FreeChannel, Finish, Oops,
     ReleaseChannel
<1>18. CASE DevClosing
  BY <1>18, <1>i DEF DevClosing, NetStart, NetAt, Notify, Handled, Notified,
     Running
<1>19. CASE DevOpening
  BY <1>19, <1>i DEF DevOpening, NetStart, NetAt, Running
<1>20. CASE CarrierChange
  BY <1>20, <1>i DEF CarrierChange, CarrierLost, Running
<1>21. CASE MoveBegin
  BY <1>21, <1>i DEF MoveBegin, NetStart, NetAt, CarrierLost, Notify,
     Handled, Notified, Running
<1>22. CASE DevClosed
  BY <1>22, <1>i DEF DevClosed, NetAt, CarrierLost
<1>23. CASE DevOpened
  BY <1>23, <1>i DEF DevOpened, NetAt, Notify, Handled, Notified
<1>24. CASE MoveUnregister
  BY <1>24, <1>i DEF MoveUnregister, NetAt, EventUnregister, Oops, Notified
<1>25. CASE MoveRegister
  BY <1>25, <1>i DEF MoveRegister, NetAt, EventRegister, Notified
<1>26. CASE LinkWatch
  BY <1>26, <1>i DEF LinkWatch, NetStart, NetAt, Notify, Handled, Notified,
     Running
<1>27. CASE AddDevice
  BY <1>27, <1>i DEF AddDevice, BindAt, NoRings, LastFlush
<1>28. CASE RemoveDevice
  BY <1>28, <1>i DEF RemoveDevice, BindAt
<1>29. CASE Watch
  BY <1>29, <1>i DEF Watch, BindAt, EventRegister
<1>30. CASE UnwatchBegin
  BY <1>30, <1>i DEF UnwatchBegin, BindAt
<1>31. CASE UnwatchQueue
  BY <1>31, <1>i DEF UnwatchQueue, BindAt
<1>32. CASE UnwatchGoingDown
  BY <1>32, <1>i DEF UnwatchGoingDown, BindAt, Flushed, Notify, Handled,
     Notified
<1>33. CASE UnwatchUnregister
  BY <1>33, <1>i DEF UnwatchUnregister, BindAt, EventUnregister, Oops
<1>34. CASE UnwatchDone
  BY <1>34, <1>i DEF UnwatchDone, BindAt, Flushed
<1>35. CASE StoreSuspend
  BY <1>35, <1>i DEF StoreSuspend, UserAt
<1>36. CASE OnlineOfflineIdev
  BY <1>36, <1>i DEF OnlineOfflineIdev, UserAt
<1>37. CASE ResumeIdev
  BY <1>37, <1>i DEF ResumeIdev, UserAt
<1>38. CASE SetGate
  BY <1>38, <1>i DEF SetGate
<1>39. CASE SetDevOfflineQueue
  BY <1>39, <1>i DEF SetDevOfflineQueue, UserAt
<1>40. CASE SetDevOfflineReturn
  BY <1>40, <1>i DEF SetDevOfflineReturn, UserAt, Flushed
<1>41. CASE UNCHANGED vars
  BY <1>41, <1>i DEF vars
<1>42. CASE StartWaits
  BY <1>42, <1>i DEF StartWaits
<1> QED
  BY <1>1, <1>2, <1>3, <1>4, <1>5, <1>6, <1>7, <1>8, <1>9, <1>10, <1>11,
     <1>12, <1>13, <1>14, <1>15, <1>16, <1>17, <1>18, <1>19, <1>20, <1>21,
     <1>22, <1>23, <1>24, <1>25, <1>26, <1>27, <1>28, <1>29, <1>30, <1>31,
     <1>32, <1>33, <1>34, <1>35, <1>36, <1>37, <1>38, <1>39, <1>40, <1>41,
     <1>42 DEF Next, Work, NetEvents, NetWork, BindStart, BindWork, UserStart,
     UserWork

----------------------------------------------------------------------------
(* The invariant. *)

FaultInv == TypeInv /\ LastFlush /\ Carried /\ Answered /\ Layered /\ Released

LEMMA FaultInit == Init => FaultInv
<1> SUFFICES ASSUME Init PROVE FaultInv
  OBVIOUS
<1>1. TypeInv
  BY TypeInit
<1>2. LastFlush /\ Carried
  BY DEF Init, LastFlush, Gone, Carried, Running
<1>3. Answered /\ Released
  BY DEF Init, Answered, Released, BringUp, TearDown
<1>4. Layered
  BY DEF Init, Layered, DoorbellsNeedIpa, NoRings, Quiescent
<1> QED
  BY <1>1, <1>2, <1>3, <1>4 DEF FaultInv

(* Whatever fails, whichever gates are set and wherever the device is      *)
(* moved, the invariant holds always.                                      *)
THEOREM FaultInvariant == Spec => []FaultInv
<1>1. FaultInv /\ [Next]_vars => FaultInv'
  BY TypeStep, LastFlushStep, CarriedStep, AnsweredStep, LayeredStep,
     ReleasedStep
  DEF FaultInv
<1> QED
  BY <1>1, FaultInit, PTL DEF Spec

----------------------------------------------------------------------------
(* What it implies, whatever fails. *)

(* A watched interface at rest is ONLINE exactly when it should be, or in  *)
(* ERROR: no notification, link event or write is ever lost, not even      *)
(* while a refresh is under way or the device changes its namespace.       *)
THEOREM NoChangeIsMissed == Spec => []SettledInterface
<1>1. FaultInv => SettledInterface
  <2> SUFFICES ASSUME FaultInv, bind = "watched", ~InFlight
               PROVE  state = "ERROR" \/ (state = "ONLINE" <=> Wanted)
    BY DEF SettledInterface
  <2>1. /\ kernel = "runs" /\ refresh # "queued" /\ pc = "idle"
        /\ "event" \notin dev /\ rtnl = "none" /\ user = "idle"
    BY DEF InFlight, FaultInv, TypeInv, TypeOK, ControlOK
  <2>2. net = "idle"
    BY <2>1 DEF FaultInv, Carried
  <2> QED
    BY <2>1, <2>2 DEF FaultInv, Answered
<1> QED
  BY <1>1, FaultInvariant, PTL

(* No ring is enabled and no MSI-X entry rings an IPA doorbell outside the *)
(* registration with IPA.                                                  *)
THEOREM DoorbellsInsideIpa == Spec => []DoorbellsNeedIpa
<1>1. FaultInv => DoorbellsNeedIpa
  BY DEF FaultInv, Layered
<1> QED
  BY <1>1, FaultInvariant, PTL

(* What changes the driver's rings, and when the work function returns     *)
(* from ioss_net_free_channels.                                            *)
LEMMA RssChangers ==
    ASSUME TypeInv, Next, drv.rss = "ipa", drv'.rss = "default"
    PROVE  SetupRevert \/ TeardownEvents \/ AddDevice
<1> USE DEF TypeInv, TypeOK, OffloadOK, Rings, offloadVars
<1>1. ~RefreshStart /\ ~FetchLinkSpeed /\ ~EnterSetOnline /\ ~EnterSetOffline
      /\ ~IpaRegister /\ ~DisablePc /\ ~EnablePc /\ ~IpaUnregister
  BY DEF RefreshStart, FetchLinkSpeed, EnterSetOnline, EnterSetOffline,
     IpaRegister, DisablePc, EnablePc, IpaUnregister
<1>2. ~AllocChannel /\ ~AllocRevert /\ ~FreeChannels
  BY DEF AllocChannel, AllocRevert, FreeChannels, FreeChannel,
     RequestChannel, ReleaseChannel
<1>3. ~StartChannel /\ ~StartWaits /\ ~EnableRevert /\ ~DisableChannels
  BY DEF StartChannel, StartWaits, EnableRevert, DisableChannels, StopChannel,
     EnableChannel, DisableChannel, ReleaseChannel
<1>4. ~SetupEvent
  BY DEF SetupEvent, RequestEvent, EnableEvent, ReleaseEvent
<1>5. ~NetEvents /\ ~NetWork /\ ~LinkWatch
  BY DEF NetEvents, NetWork, LinkWatch, DevClosing, DevOpening,
     CarrierChange, MoveBegin, DevClosed, DevOpened, MoveUnregister,
     MoveRegister
<1>6. BindStart \/ BindWork => AddDevice
  BY DEF BindStart, BindWork, RemoveDevice, Watch, UnwatchBegin,
     UnwatchQueue, UnwatchGoingDown, UnwatchUnregister, UnwatchDone
<1>7. ~UserStart /\ ~UserWork
  BY DEF UserStart, UserWork, StoreSuspend, OnlineOfflineIdev, ResumeIdev,
     SetGate, SetDevOfflineQueue, SetDevOfflineReturn
<1> QED
  BY <1>1, <1>2, <1>3, <1>4, <1>5, <1>6, <1>7 DEF Next, Work

(* The RSS table is never reset under an enabled RX ring, neither by the   *)
(* teardown nor by an unwinding bring-up.                                  *)
THEOREM RssResetIsSafe == Spec => RssResetAfterDisable
<1>1. FaultInv /\ [Next]_vars =>
          [drv.rss = "ipa" /\ drv'.rss = "default"
               => RxChannels \cap drv'.on = {}]_vars
  <2> SUFFICES ASSUME FaultInv, Next, drv.rss = "ipa", drv'.rss = "default"
               PROVE  drv'.on = {}
    OBVIOUS
  <2>1. SetupRevert \/ TeardownEvents \/ AddDevice
    BY RssChangers DEF FaultInv
  <2>2. CASE SetupRevert \/ TeardownEvents
    <3>1. drv.on = {} /\ drv \in Rings
      BY <2>2 DEF SetupRevert, TeardownEvents, At, FaultInv, Layered,
         TypeInv, TypeOK, OffloadOK
    <3> QED
      BY <2>2, <3>1 DEF SetupRevert, TeardownEvents, TeardownEvent, Rings,
         ReleaseEvent, DisableEvent
  <2>3. CASE AddDevice
    BY <2>3 DEF AddDevice, NoRings
  <2> QED
    BY <2>1, <2>2, <2>3
<1> QED
  BY <1>1, FaultInvariant, PTL DEF Spec, RssResetAfterDisable

(* Only ioss_net_free_channels returns from the last stage. *)
LEMMA LastStage ==
    ASSUME Next, pc = "free", pc' = "idle"
    PROVE  FreeChannels
<1>1. Work => FreeChannels
  BY DEF Work, At, RefreshStart, FetchLinkSpeed, EnterSetOnline,
     EnterSetOffline, AllocChannel, AllocRevert, IpaRegister, SetupEvent,
     SetupRevert, StartChannel, EnableRevert, DisablePc, EnablePc,
     DisableChannels, TeardownEvents, IpaUnregister
<1>2. ~NetEvents /\ ~NetWork /\ ~LinkWatch
  BY DEF NetEvents, NetWork, LinkWatch, DevClosing, DevOpening,
     CarrierChange, MoveBegin, DevClosed, DevOpened, MoveUnregister,
     MoveRegister, workVars
<1>3. ~BindStart /\ ~BindWork
  BY DEF BindStart, BindWork, AddDevice, RemoveDevice, Watch, UnwatchBegin,
     UnwatchQueue, UnwatchGoingDown, UnwatchUnregister, UnwatchDone, workVars
<1>4. ~UserStart /\ ~UserWork
  BY DEF UserStart, UserWork, StoreSuspend, OnlineOfflineIdev, ResumeIdev,
     SetGate, SetDevOfflineQueue, SetDevOfflineReturn, workVars
<1>5. ~StartWaits
  BY DEF StartWaits, workVars
<1> QED
  BY <1>1, <1>2, <1>3, <1>4, <1>5 DEF Next

(* A set_offline that ends OFFLINE holds nothing any more: of all the      *)
(* failures of all its stages none stays hidden.                           *)
THEOREM TeardownHidesNothing == Spec => TeardownErrorsShow
<1>1. FaultInv /\ [Next]_vars =>
          [pc = "free" /\ pc' = "idle" /\ state' = "OFFLINE"
               => HoldsNothing']_vars
  <2> SUFFICES ASSUME FaultInv, Next, pc = "free", pc' = "idle",
                      state' = "OFFLINE"
               PROVE  HoldsNothing'
    OBVIOUS
  <2>1. FreeChannels /\ i = N
    BY LastStage DEF FreeChannels
  <2>2. /\ state = "OFFLINE" /\ "unwinding" \notin err /\ held' = held
        /\ drv' = ReleaseChannel(drv, i)
        /\ fl' = [fl EXCEPT !.allocated = fl.allocated \ {i}]
    BY <2>1 DEF FreeChannels, FreeChannel, Finish
  <2>3. /\ held = {} /\ fl.allocated \subseteq i..N /\ fl.enabled = {}
        /\ fl.evAllocated = {} /\ fl.evEnabled = {}
        /\ drv.ring \subseteq i..N
    BY <2>2 DEF FaultInv, Released, TearDown
  <2>4. /\ drv.on = {} /\ drv.ev = {} /\ drv.evOn = {} /\ drv.rss # "ipa"
    BY DEF FaultInv, Layered, Quiescent
  <2>5. fl \in Flags /\ drv \in Rings /\ i..N = {i}
    BY <2>1, GlueAssumption DEF FaultInv, TypeInv, TypeOK, OffloadOK
  <2>6. fl' = NoFlags
    <3>1. fl.allocated \ {i} = {}
      BY <2>3, <2>5
    <3> QED
      BY <2>2, <2>3, <2>5, <3>1 DEF Flags, NoFlags
  <2>7. drv' = NoRings(drv'.skip)
    <3>1. drv.ring \ {i} = {} /\ drv.rss = "default"
      BY <2>3, <2>4, <2>5 DEF Rings
    <3> QED
      BY <2>2, <2>4, <2>5, <3>1 DEF Rings, NoRings, ReleaseChannel
  <2> QED
    BY <2>2, <2>3, <2>6, <2>7 DEF HoldsNothing
<1> QED
  BY <1>1, FaultInvariant, PTL DEF Spec, TeardownErrorsShow
============================================================================

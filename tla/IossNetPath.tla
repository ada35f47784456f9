---------------------------- MODULE IossNetPath ----------------------------
(***************************************************************************)
(* IossNet implements OffloadPath: the layers are the glue driver's rings, *)
(* the registration with IPA, the MSI-X entries, the enabled rings and the *)
(* power-collapse vote; the report is iface->state; the way is where the   *)
(* work item is.                                                           *)
(***************************************************************************)
EXTENDS IossNet

Pipes == IF "ipa" \in held THEN "connected" ELSE "none"
Vote  == IF "pc" \in held THEN "held" ELSE "none"

Way ==
    CASE pc \in BringUp -> "up"
      [] pc \in Revert \/ (pc \in TearDown /\ "unwinding" \in err) -> "back"
      [] pc = "enable_pc" \/ (pc \in TearDown /\ "unwinding" \notin err) -> "down"
      [] OTHER -> "none"

Path == INSTANCE OffloadPath WITH
            rings <- drv.ring, pipes <- Pipes, doorbells <- drv.ev,
            flows <- drv.on, vote <- Vote, report <- state, way <- Way

(* With the failures that ioss_iface_set_online unwinds, every behaviour   *)
(* of the work item, the notifier and the bind thread is one of the        *)
(* abstract path: the layers are built and taken down in order, ONLINE is  *)
(* reported only over a complete path, a failed attempt ends in ERROR with *)
(* nothing held, and no path stays half built, unless rtl8125_enable_ring  *)
(* waits for ever on a device closed under it.                             *)
ImplementsPath == Path!Safe /\ (EnableReturns => Path!Live)
============================================================================
